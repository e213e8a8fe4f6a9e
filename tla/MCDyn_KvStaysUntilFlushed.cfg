CONSTANTS
  a = a  b = b  c = c  d = d
  Sessions <- MCSessions
  Trace <- MCTrace
  HbmCap = 4
  CpuCap = 3
  Policies = {"dynamic"}
  GpuTarget = 1
  CpuSloBatch = 2
  Tick = Tick
SPECIFICATION Spec
CHECK_DEADLOCK FALSE
INVARIANT KvStaysUntilFlushed
