SPECIFICATION Spec
CONSTANTS
  Callers = {c1, c2}
  Requests <- MCRequests
  TrustedHops = 1
  Capacity = 1
  Rate = 1
  Retention = 2
  MaxWait = 1
  MaxTime = 3
PROPERTY KeepsItsPromise
SYMMETRY Same
CONSTRAINT OneCustomer
CHECK_DEADLOCK FALSE
