CONSTANTS
  a = a  b = b  c = c  d = d
  Sessions <- MCSessions
  Trace <- MCTrace
  HbmCap = 4
  CpuCap = 3
  Policies = {"gpu_only", "all_cpu", "dynamic"}
  GpuTarget = 1
  CpuSloBatch = 2
  Tick = Tick
SPECIFICATION Spec
INVARIANTS
  TypeOK BytesConserved OnePlace EnginesExclusive NothingForgotten
PROPERTIES
  GpuBatchFrozen AllComplete KeepsPromise
CHECK_DEADLOCK FALSE
