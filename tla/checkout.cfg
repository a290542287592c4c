\* A double click, a call that times out, one fault of any kind.
SPECIFICATION CheckoutSpec
CONSTANTS
  Null = Null
  NoOrder = NoOrder
  r1 = r1  r2 = r2  r3 = r3  o1 = o1  o2 = o2
  Request = {r1, r2}
  Order = {o1, o2}
  MaxKeys = 2
  Key = {1, 2}
  FaultKinds = {"cacheLost", "releaseFails", "precheckFails", "enqueueFails", "storeFails", "requestDies", "slowHandler", "keyExpires"}
  MaxPayments = 2
  MaxFaults = 1
SYMMETRY Symmetric
INVARIANTS
  OneAtWork
  OnePaymentPerKey
  ReceiptFits
  OneChargePerForm
\* Keys and requests are used up.
CHECK_DEADLOCK FALSE
