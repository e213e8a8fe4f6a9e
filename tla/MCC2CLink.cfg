CONSTANT Jobs = {j1, j2, j3, j4}
SPECIFICATION Spec
INVARIANTS TypeOK SingleServer FifoDelivery
PROPERTY Delivered
CHECK_DEADLOCK FALSE
