\* Two sessions, each with a library of its own.
CONSTANTS
  NoLibrary = NoLibrary
  NoVersion = NoVersion
  Libraries <- MCLibraries
  CommandLines <- MCCommandLines
  Encodable <- MCEncodable
  MaxSessions = 2
SPECIFICATION Spec
INVARIANTS TypeOK NoUnboundCall UsedIffUsable RefusedIsNamed AnswersAreCurrent OptionsReachLibrary
PROPERTIES InterfaceAvailable ImplementsChoice
CHECK_DEADLOCK FALSE
