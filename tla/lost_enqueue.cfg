\* The queue is unreachable once, and the client repeats its request.
SPECIFICATION Spec
CONSTANTS
  Null = Null
  r1 = r1  r2 = r2  r3 = r3  k1 = k1  k2 = k2
  Request = {r1, r2}
  Key = {k1}
  FaultKinds = {"enqueueFails"}
  MaxPayments = 2
  MaxFaults = 1
INVARIANTS
  DuplicatesAnswered
\* A client whose key is answered from the record has nothing left to do.
CHECK_DEADLOCK FALSE
