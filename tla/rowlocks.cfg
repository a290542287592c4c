\* Three database transactions over two payments in opposite directions.
SPECIFICATION RowLocksSpec
CONSTANTS
  Null = Null
  a1 = a1  a2 = a2  p1 = p1  p2 = p2
  t1 = t1  t2 = t2  t3 = t3
  Account = {a1, a2}
  Payment = {p1, p2}
  Session = {t1, t2, t3}
  sender <- crossSender
  recipient <- crossRecipient
  StartTables <- startTables
INVARIANTS
  UniformDeadlocks
  DecisionsStand
PROPERTIES
  DecidesAtOnce
  TransactionsEnd
\* Every session is used once.
CHECK_DEADLOCK FALSE
