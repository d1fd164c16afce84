\* Two threads and four tracers; tags are resolved up to twice.
CONSTANTS
  in1 = in1
  out1 = out1
  web1 = web1
  sql1 = sql1
  Threads = {t1, t2}
  NoThread = NoThread
  Tracers = {in1, out1, web1, sql1}
  NoTracer = NoTracer
  Kind <- MCKind
  Failing = {out1}
  MaxLinks = 2
SPECIFICATION Spec
SYMMETRY Symmetry
INVARIANTS TypeOK ActiveChain ActiveEndable FinishedComplete ReleasedIsClosed FailedFactoryReleases CausalOrder
PROPERTIES ImplementsPurePath FinishedIsFinal
CHECK_DEADLOCK FALSE
