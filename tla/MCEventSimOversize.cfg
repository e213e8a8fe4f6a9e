CONSTANTS
  a = a  b = b  c = c  d = d  e = e
  Sessions <- OversizeSessions
  Trace <- OversizeTrace
  HbmCap = 4
  CpuCap = 3
  Tick = Tick
SPECIFICATION Spec
PROPERTIES BehindOversize Terminates
CHECK_DEADLOCK FALSE
