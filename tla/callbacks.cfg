\* Two threads that set any callbacks, also the same one at once, and two
\* interfaces in turn.
CONSTANTS
  Threads = {t1, t2}
  Ifaces = {i1, i2}
  NoIface = NoIface
  Thunks = {k1, k2, k3}
  NoThunk = NoThunk
  SetAfterShutdown = TRUE
SPECIFICATION Spec
SYMMETRY Symmetry
INVARIANTS TypeOK RegisteredStaysReferenced PythonAgreesWithLibrary
CHECK_DEADLOCK FALSE
