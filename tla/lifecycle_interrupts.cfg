CONSTANTS
  Threads = {t1, t2, t3}
  NoThread = NoThread
  Tickets = {k1, k2}
  NoTicket = NoTicket
  DllIfaces = {dll1, dll2}
  NullIfaces = {null1}
  NoIface = NoIface
  Interruptible = {t1}
  TechReportMayRaise = TRUE
  Disciplined = FALSE
  MaxRefs = 3
SPECIFICATION Spec
INVARIANTS
  TypeOK
  PublishOrder
  OnlyDllShutDown
SYMMETRY Symmetry
