CONSTANTS
  a = a  b = b  c = c  d = d  e = e  f = f
  Clients <- MCClients
  Need <- MCNeed
  Cap = 4
SPECIFICATION Spec
PROPERTY FifoAdmission
CHECK_DEADLOCK FALSE
