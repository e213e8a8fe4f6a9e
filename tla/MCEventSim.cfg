CONSTANTS
  a = a  b = b  c = c  d = d  e = e
  Sessions <- MCSessions
  Trace <- MCTrace
  HbmCap = 4
  CpuCap = 3
  Tick = Tick
SPECIFICATION Spec
INVARIANTS
  TypeOK BytesConserved OnePlace GpuExclusive
  NothingForgotten FlushBeforeLoad NoOverrun
PROPERTIES
  BatchFrozen PrefillFirst AllComplete KeepsPromise
CHECK_DEADLOCK FALSE
