\* Two payments of one sender, on a day that allows one: disputes take a payment
\* out of the count and bring it back.
SPECIFICATION Spec
CONSTANTS
  Null = Null
  a1 = a1  a2 = a2  p1 = p1  p2 = p2
  r1 = r1  r2 = r2  d1 = d1  d2 = d2
  x1 = x1  x2 = x2  x3 = x3  x4 = x4
  Account = {a1, a2}
  Payment = {p1, p2}
  Request = {r1}
  Delivery = {d1}
  Reference = {x1, x2}
  WebhookStatus = {"completed"}
  CleansUp = FALSE
  Ops = {"create", "dispute", "reject"}
  sender <- sameSender
  recipient <- sameRecipient
  sourceAmount <- unitAmount
  destinationAmount <- unitAmount
  seedBalance <- mcSeedBalance
  MaxAttempts = 1
  MaxFaults = 0
  MaxHistory = 5
  MaxPaymentsPerDay = 1
  MaxDailyVolume = 1
SYMMETRY SymmetricPayments
INVARIANTS
  CreditHasEvent
  DailyLimitKept
\* Finitely many payments and references: once they are settled nothing is left.
CHECK_DEADLOCK FALSE
