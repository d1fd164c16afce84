\* A callback is registered, then the SDK shut down: the thunk of the deleted
\* interface is still registered.
CONSTANTS
  Threads = {t1, t2}
  Ifaces = {i1, i2}
  NoIface = NoIface
  Thunks = {k1, k2, k3}
  NoThunk = NoThunk
  SetAfterShutdown = FALSE
SPECIFICATION Spec
SYMMETRY Symmetry
INVARIANT DeletedIsUnregistered
CHECK_DEADLOCK FALSE
