CONSTANTS
  Threads = {t1, t2, t3}
  NoThread = NoThread
  Tickets = {k1, k2, k3}
  NoTicket = NoTicket
  DllIfaces = {dll1, dll2}
  NullIfaces = {null1}
  NoIface = NoIface
  Interruptible = {}
  TechReportMayRaise = FALSE
  Disciplined = TRUE
  MaxRefs = 4
SPECIFICATION Spec
INVARIANTS
  HeldIsUsable
  FailedShutdownRetryable
  FalsyShutdownStops
PROPERTIES
  AgentStopsOnlyForLast
  SharedObjectStable
  ImplementsSession
  LockReleased
