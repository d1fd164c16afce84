\* One thread: a tracer the application marked is marked again on exit.
CONSTANTS
  in1 = in1
  out1 = out1
  web1 = web1
  sql1 = sql1
  Threads = {t1}
  NoThread = NoThread
  Tracers = {in1, sql1, web1}
  NoTracer = NoTracer
  Kind <- SmallKind
  Failing = {in1}
  MaxLinks = 1
SPECIFICATION Spec
INVARIANT MarkedOnce
CHECK_DEADLOCK FALSE
