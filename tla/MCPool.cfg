CONSTANTS
  a = a  b = b  c = c  d = d  e = e  f = f
  Clients <- MCClients
  Need <- MCNeed
  Cap = 4
SPECIFICATION Spec
INVARIANTS TypeOK Conservation HeadBlocked
PROPERTY QueueOrder
CHECK_DEADLOCK FALSE
