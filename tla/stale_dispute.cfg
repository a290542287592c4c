\* A dispute whose check is overtaken by a refund.
SPECIFICATION Spec
CONSTANTS
  Null = Null
  a1 = a1  a2 = a2  p1 = p1  p2 = p2
  r1 = r1  r2 = r2  d1 = d1  d2 = d2
  x1 = x1  x2 = x2  x3 = x3  x4 = x4
  Account = {a1, a2}
  Payment = {p1}
  Request = {r1, r2}
  Delivery = {d1}
  Reference = {x1}
  WebhookStatus = {"completed", "failed"}
  CleansUp = FALSE
  Ops = {"create", "refund", "dispute"}
  sender <- oneSender
  recipient <- oneRecipient
  sourceAmount <- oneSourceAmount
  destinationAmount <- oneDestinationAmount
  seedBalance <- mcSeedBalance
  MaxAttempts = 1
  MaxFaults = 0
  MaxHistory = 5
  MaxPaymentsPerDay = 2
  MaxDailyVolume = 3
SYMMETRY Symmetric
PROPERTIES
  StrictTransitions
\* Finitely many payments and references: once they are settled nothing is left.
CHECK_DEADLOCK FALSE
