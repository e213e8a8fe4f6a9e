CONSTANTS
  a = a  b = b  c = c  d = d  e = e
  Sessions <- MCSessions
  Trace <- PeakTrace
  HbmCap = 1
  CpuCap = 1
  Tick = Tick
SPECIFICATION Spec
INVARIANT PeakFitsHbm
CHECK_DEADLOCK FALSE
