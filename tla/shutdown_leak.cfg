CONSTANTS
  Threads = {t1, t2}
  NoThread = NoThread
  Tickets = {k1, k2}
  NoTicket = NoTicket
  DllIfaces = {dll1}
  NullIfaces = {null1}
  NoIface = NoIface
  Interruptible = {t1}
  TechReportMayRaise = FALSE
  Disciplined = TRUE
  MaxRefs = 3
SPECIFICATION Spec
INVARIANT FalsyShutdownStops
SYMMETRY Symmetry
