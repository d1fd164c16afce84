\* Two threads that close and use any of two wrappers, also at once, and two
\* sessions.
CONSTANTS
  Threads = {t1, t2}
  Handles = {h1, h2}
  NoHandle = NoHandle
  MaxSessions = 2
SPECIFICATION Spec
INVARIANTS TypeOK DeletedOnce ClosedByMaker UsedIsLive
PROPERTY DroppedIsDeleted
CHECK_DEADLOCK FALSE
