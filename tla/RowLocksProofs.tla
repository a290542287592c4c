--------------------------- MODULE RowLocksProofs ---------------------------
(***************************************************************************)
(* Theorems about RowLocks, for any accounts, payments and number of       *)
(* sessions: which of them may deadlock, and that decisions stand.         *)
(***************************************************************************)
EXTENDS RowLocks, FiniteSetTheorems, WellFoundedInduction, TLAPS

\* No session has more locks than its operation takes.
Bounded == \A t \in Session : open(t) => txn[t].done <= Len(locks(t))

\* No two sessions hold conflicting locks.
Compatible ==
  \A t, u \in Session : t # u =>
    \A g \in held(t), h \in held(u) : g.row = h.row => ~ conflict(g.mode, h.mode)

\* A payment being created is nobody else's business.
Existing ==
  /\ \A t \in Session : open(t) => (txn[t].op = "create" <=> status[txn[t].p] = "none")
  /\ \A t, u \in Session :
       /\ open(t) /\ open(u) /\ txn[t].p = txn[u].p
       /\ txn[t].op = "create" /\ txn[u].op = "create"
       => t = u

\* Only a payment that exists, and is no longer processed, has more ledger rows
\* than the sender's debit.
Tables ==
  \A p \in chargedBack \cup reversed : status[p] \notin {"none", "initiated", "processing"}

\* The compensation of both debits, in either order.
bothCredits(p) ==
  {credit(sender[p]) \o credit(recipient[p]), credit(recipient[p]) \o credit(sender[p])}

\* What session t may be about to write: two accounts only when it moves money
\* back.
plans(t) ==
  LET p == txn[t].p IN
    {<<>>}
    \cup {w \in {chargebackLocks(p)} : txn[t].op \in {"refund", "reverse"}}
    \cup {w \in {credit(recipient[p])} : txn[t].op = "completed"}
    \cup {w \in {credit(sender[p])} : txn[t].op \in {"failed", "refund"}}
    \cup {w \in bothCredits(p) : txn[t].op = "refund" /\ p \in chargedBack}

Planned == \A t \in Session : open(t) => txn[t].writes \in plans(t)

RowLocksInv ==
  /\ RowLocksTypeOK /\ Bounded /\ Compatible /\ Existing /\ DecisionsStand
  /\ Tables /\ Planned
---------------------------------------------------------------------------
(* The locks of an operation.                                              *)

LEMMA AccountLock ==
  \A a \in Account : lock(a, "KeyShare") \in Lock /\ lock(a, "NoKeyUpdate") \in Lock
  BY DEF lock, Lock

LEMMA ChargebackShape ==
  ASSUME NEW p \in Payment
  PROVE  LET c == chargebackLocks(p) IN
           /\ c \in Seq(Lock) /\ Len(c) = 3
           /\ c[1] = lock(recipient[p], "NoKeyUpdate")
           /\ c[2] = lock(sender[p], "KeyShare")
           /\ c[3] = lock(sender[p], "NoKeyUpdate")
  BY RowLocksAssumption, AccountLock DEF chargebackLocks, debit, credit

LEMMA CreditShape ==
  ASSUME NEW a \in Account
  PROVE  LET c == credit(a) IN
           /\ c \in Seq(Lock) /\ Len(c) = 2
           /\ c[1] = lock(a, "KeyShare")
           /\ c[2] = lock(a, "NoKeyUpdate")
  BY AccountLock DEF credit

LEMMA TwoCreditsShape ==
  ASSUME NEW a \in Account, NEW b \in Account
  PROVE  LET c == credit(a) \o credit(b) IN
           /\ c \in Seq(Lock) /\ Len(c) = 4
           /\ c[1] = lock(a, "KeyShare")
           /\ c[2] = lock(a, "NoKeyUpdate")
           /\ c[3] = lock(b, "KeyShare")
           /\ c[4] = lock(b, "NoKeyUpdate")
  <1>1. /\ lock(a, "KeyShare") \in Lock /\ lock(a, "NoKeyUpdate") \in Lock
        /\ lock(b, "KeyShare") \in Lock /\ lock(b, "NoKeyUpdate") \in Lock
    BY AccountLock
  <1> QED BY <1>1, CreditShape

LEMMA CreateShape ==
  ASSUME NEW p \in Payment
  PROVE  LET c == createLocks(p) IN
           /\ Len(c) = 2
           /\ c[1] = forUpdateNowait(sender[p])
           /\ c[2] = lock(recipient[p], "KeyShare")
  BY DEF createLocks

\* What is written to the ledger: up to four locks, none of them on the payment.
LEMMA PlanShape ==
  ASSUME NEW t \in Session, NEW p \in Payment, p = txn[t].p, NEW w \in plans(t)
  PROVE  /\ w \in Seq(Lock) /\ Len(w) \in 0 .. 4
         /\ \A i \in 1 .. Len(w) :
              /\ w[i].row \in Account
              /\ w[i].mode \in {"KeyShare", "NoKeyUpdate"}
              /\ ~ w[i].nowait
         /\ \/ Len(w) <= 2 /\ (Len(w) > 0 => w[1].mode = "KeyShare")
            \/ w = chargebackLocks(p)
            \/ txn[t].op = "refund" /\ p \in chargedBack
         /\ txn[t].op \in {"create", "dispute", "reject"} => w = <<>>
  <1>0. sender[p] \in Account /\ recipient[p] \in Account
    BY RowLocksAssumption
  <1>1. CASE w = <<>>
    BY <1>1
  <1>2. CASE w = chargebackLocks(p) /\ txn[t].op \in {"refund", "reverse"}
    <2>1. /\ w \in Seq(Lock) /\ Len(w) = 3
          /\ w[1] = lock(recipient[p], "NoKeyUpdate")
          /\ w[2] = lock(sender[p], "KeyShare")
          /\ w[3] = lock(sender[p], "NoKeyUpdate")
      BY <1>2, ChargebackShape
    <2>2. \A i \in 1 .. Len(w) : i \in {1, 2, 3}
      BY <2>1
    <2> QED BY <1>0, <1>2, <2>1, <2>2 DEF lock
  <1>3. CASE \E a \in {sender[p], recipient[p]} :
               w = credit(a) /\ txn[t].op \in {"completed", "failed", "refund"}
    <2>1. PICK a \in Account : w = credit(a)
      BY <1>0, <1>3
    <2>2. /\ w \in Seq(Lock) /\ Len(w) = 2
          /\ w[1] = lock(a, "KeyShare") /\ w[2] = lock(a, "NoKeyUpdate")
      BY <2>1, CreditShape
    <2>3. \A i \in 1 .. Len(w) : i \in {1, 2}
      BY <2>2
    <2> QED BY <1>3, <2>2, <2>3 DEF lock
  <1>4. CASE w \in bothCredits(p) /\ txn[t].op = "refund" /\ p \in chargedBack
    <2>1. PICK a \in Account, b \in Account : w = credit(a) \o credit(b)
      BY <1>0, <1>4 DEF bothCredits
    <2>2. /\ w \in Seq(Lock) /\ Len(w) = 4
          /\ w[1] = lock(a, "KeyShare") /\ w[2] = lock(a, "NoKeyUpdate")
          /\ w[3] = lock(b, "KeyShare") /\ w[4] = lock(b, "NoKeyUpdate")
      BY <2>1, TwoCreditsShape
    <2>3. \A i \in 1 .. Len(w) : i \in {1, 2, 3, 4}
      BY <2>2
    <2> QED BY <1>4, <2>2, <2>3 DEF lock
  <1> QED BY <1>1, <1>2, <1>3, <1>4 DEF plans

\* Which locks a session takes: all but a creation first the payment's, and none
\* but creations, disputes and rejections more than what they write calls for.
LEMMA LocksOf ==
  ASSUME RowLocksTypeOK, NEW t \in Session, open(t)
  PROVE  LET p == txn[t].p
             op == txn[t].op IN
           /\ p \in Payment /\ op \in Op
           /\ txn[t].writes \in Seq(Lock) /\ txn[t].done \in Nat
           /\ op = "create" => locks(t) = createLocks(p)
           /\ op # "create" =>
                \E first \in Lock :
                  /\ first.row = p
                  /\ first.mode = IF op \in Locking THEN "Update" ELSE "NoKeyUpdate"
                  /\ locks(t) = IF op \in Locking THEN <<first>> \o txn[t].writes
                                ELSE <<first>>
  <1> DEFINE p == txn[t].p
             op == txn[t].op
  <1>1. p \in Payment /\ op \in Op /\ txn[t].writes \in Seq(Lock) /\ txn[t].done \in Nat
    BY DEF RowLocksTypeOK, Txn, open
  <1>2. CASE op = "create"
    BY <1>1, <1>2 DEF locks
  <1>3. CASE op \in {"refund", "reverse"}
    <2>1. forUpdateNowait(p) \in Lock /\ locks(t) = <<forUpdateNowait(p)>> \o txn[t].writes
      BY <1>1, <1>3 DEF locks, refundLocks, forUpdateNowait, Lock
    <2> QED BY <1>1, <1>3, <2>1 DEF forUpdateNowait, Locking
  <1>4. CASE op \in {"completed", "failed"}
    <2>1. lock(p, "Update") \in Lock /\ locks(t) = <<lock(p, "Update")>> \o txn[t].writes
      BY <1>1, <1>4 DEF locks, eventLocks, lock, Lock
    <2> QED BY <1>1, <1>4, <2>1 DEF lock, Locking
  <1>5. CASE op \in {"dispute", "reject"}
    <2>1. lock(p, "NoKeyUpdate") \in Lock /\ locks(t) = <<lock(p, "NoKeyUpdate")>>
      BY <1>1, <1>5 DEF locks, lock, Lock
    <2> QED BY <1>1, <1>5, <2>1 DEF lock, Locking
  <1> QED BY <1>1, <1>2, <1>3, <1>4, <1>5 DEF Op

\* The first lock of every operation but create is its payment's, does not share
\* the row with another writer, and is the same whatever is written then.
LEMMA FirstLock ==
  ASSUME RowLocksTypeOK, NEW t \in Session, open(t)
  PROVE  /\ Len(locks(t)) \in Nat \ {0}
         /\ txn[t].op # "create" =>
              /\ locks(t)[1].row = txn[t].p
              /\ locks(t)[1].mode \in {"Update", "NoKeyUpdate"}
         /\ txn[t].op \in Locking => locks(t)[1].mode = "Update"
  <1>1. CASE txn[t].op = "create"
    BY <1>1, LocksOf, CreateShape DEF Locking
  <1>2. CASE txn[t].op # "create"
    <2>1. PICK first \in Lock :
            /\ first.row = txn[t].p
            /\ first.mode = IF txn[t].op \in Locking THEN "Update" ELSE "NoKeyUpdate"
            /\ locks(t) = IF txn[t].op \in Locking THEN <<first>> \o txn[t].writes
                          ELSE <<first>>
      BY <1>2, LocksOf
    <2>2. txn[t].writes \in Seq(Lock)
      BY LocksOf
    <2>3. Len(locks(t)) \in Nat \ {0} /\ locks(t)[1] = first
      BY <2>1, <2>2
    <2> QED BY <1>2, <2>1, <2>3
  <1> QED BY <1>1, <1>2

---------------------------------------------------------------------------
(* The steps keep the invariant.                                           *)

\* A session whose record does not change keeps all that is derived from it.
LEMMA SessionSame ==
  ASSUME NEW u \in Session, txn'[u] = txn[u]
  PROVE  /\ open(u)' <=> open(u)
         /\ locks(u)' = locks(u)
         /\ held(u)' = held(u)
         /\ decided(u)' <=> decided(u)
         /\ chargedBack \subseteq chargedBack' => plans(u) \subseteq plans(u)'
  <1>1. (open(u)' <=> open(u)) /\ locks(u)' = locks(u)
    BY DEF open, locks
  <1>2. held(u)' = held(u) /\ (decided(u)' <=> decided(u))
    BY <1>1 DEF held, decided
  <1>3. chargedBack \subseteq chargedBack' => plans(u) \subseteq plans(u)'
    BY DEF plans
  <1> QED BY <1>1, <1>2, <1>3

LEMMA HoldsFirst ==
  ASSUME RowLocksTypeOK, NEW t \in Session, open(t), txn[t].done > 0
  PROVE  locks(t)[1] \in held(t)
  BY DEF RowLocksTypeOK, Txn, held

\* What holds of the other sessions after one of them stopped, and of all of
\* them before it.
LEMMA EndStep ==
  ASSUME RowLocksInv, NEW t \in Session, open(t),
         NEW how \in {"committed", "aborted"}, end(t, how)
  PROVE  /\ ~ open(t)'
         /\ txn'[t] = [NoWork EXCEPT !.pc = how]
         /\ \A u \in Session \ {t} : txn'[u] = txn[u]
         /\ txn' \in [Session -> Txn]
         /\ Bounded'
         /\ Compatible'
         /\ chargedBack \subseteq chargedBack' => Planned'
  <1>1. /\ ~ open(t)' /\ txn'[t] = [NoWork EXCEPT !.pc = how]
        /\ \A u \in Session \ {t} : txn'[u] = txn[u]
    BY DEF RowLocksInv, RowLocksTypeOK, end, open, NoWork
  <1>2. txn' \in [Session -> Txn]
    <2>1. NoWork \in Txn /\ how \in SessionPc
      BY DEF NoWork, Txn, SessionPc, State
    <2>2. [NoWork EXCEPT !.pc = how] \in Txn
      BY <2>1 DEF Txn
    <2> QED BY <2>2 DEF RowLocksInv, RowLocksTypeOK, end
  <1>3. \A u \in Session \ {t} :
          (open(u)' <=> open(u)) /\ locks(u)' = locks(u) /\ held(u)' = held(u)
    BY <1>1, SessionSame
  <1>4. held(t)' = {}
    BY <1>1 DEF held
  <1>5. Bounded'
    BY <1>1, <1>3 DEF RowLocksInv, Bounded
  <1>6. Compatible'
    BY <1>3, <1>4 DEF RowLocksInv, Compatible
  <1>7. chargedBack \subseteq chargedBack' => Planned'
    BY <1>1, SessionSame DEF RowLocksInv, Planned
  <1> QED BY <1>1, <1>2, <1>5, <1>6, <1>7

LEMMA TargetState == \A op \in Op : target(op) \in State \ {"none"}
  BY DEF Op, target, State, TransactionStatus

\* A session that ends without a commit.
LEMMA LeaveStep ==
  ASSUME RowLocksInv, NEW t \in Session, open(t), end(t, "aborted"), UNCHANGED tables
  PROVE  RowLocksInv'
  <1>0. UNCHANGED <<status, chargedBack, reversed>>
    BY DEF tables
  <1>1. /\ ~ open(t)' /\ Bounded' /\ Compatible' /\ Planned'
        /\ \A u \in Session \ {t} : txn'[u] = txn[u]
    BY <1>0, EndStep
  <1>2. \A u \in Session \ {t} :
          (open(u)' <=> open(u)) /\ (decided(u)' <=> decided(u))
    BY <1>1, SessionSame
  <1>3. RowLocksTypeOK'
    BY <1>0, <1>1, <1>2, EndStep DEF RowLocksInv, RowLocksTypeOK, open
  <1>4. Existing'
    BY <1>0, <1>1, <1>2 DEF RowLocksInv, Existing
  <1>5. DecisionsStand'
    BY <1>0, <1>1, <1>2 DEF RowLocksInv, DecisionsStand, decided
  <1>6. Tables'
    BY <1>0 DEF RowLocksInv, Tables
  <1> QED BY <1>1, <1>3, <1>4, <1>5, <1>6 DEF RowLocksInv

LEMMA CommitStep ==
  ASSUME RowLocksInv, NEW t \in Session, commit(t)
  PROVE  RowLocksInv'
  <1> DEFINE p == txn[t].p
             op == txn[t].op
  <1>1. open(t) /\ end(t, "committed") /\ txn[t].done = Len(locks(t))
    BY DEF commit, finished
  <1>2. p \in Payment /\ op \in Op
    BY <1>1 DEF RowLocksInv, RowLocksTypeOK, open
  <1>3. /\ ~ open(t)' /\ Bounded' /\ Compatible' /\ Planned'
        /\ \A u \in Session \ {t} : txn'[u] = txn[u]
    BY <1>1, EndStep DEF commit
  <1>4. \A u \in Session \ {t} :
          (open(u)' <=> open(u)) /\ (decided(u)' <=> decided(u))
    BY <1>3, SessionSame
  <1>5. status' = [status EXCEPT ![p] = target(op)]
    BY DEF commit
  <1>6. status' \in [Payment -> State] /\ status'[p] \in State \ {"none"}
        /\ \A q \in Payment \ {p} : status'[q] = status[q]
    BY <1>2, <1>5, TargetState DEF RowLocksInv, RowLocksTypeOK
  <1>7. RowLocksTypeOK'
    <2>1. chargedBack' \subseteq Payment /\ reversed' \subseteq Payment
      BY <1>2 DEF commit, RowLocksInv, RowLocksTypeOK
    <2> QED BY <1>1, <1>3, <1>4, <1>6, <2>1, EndStep
            DEF RowLocksInv, RowLocksTypeOK, open
  <1>8. ASSUME NEW u \in Session \ {t}, open(u), txn[u].p = p
        PROVE  txn[u].op # "create" /\ status[p] # "none"
    BY <1>1, <1>8 DEF RowLocksInv, Existing
  <1>9. Existing'
    <2>1. ASSUME NEW u \in Session, open(u)'
          PROVE  (txn[u].op = "create" <=> status[txn[u].p] = "none")'
      <3>1. u # t /\ open(u) /\ txn'[u] = txn[u] /\ txn[u].p \in Payment
        BY <1>3, <1>4, <2>1 DEF RowLocksInv, RowLocksTypeOK, open
      <3>2. CASE txn[u].p = p
        BY <1>6, <1>8, <3>1, <3>2
      <3>3. CASE txn[u].p # p
        BY <1>6, <3>1, <3>3 DEF RowLocksInv, Existing
      <3> QED BY <3>2, <3>3
    <2>2. \A u, v \in Session :
            (/\ open(u) /\ open(v) /\ txn[u].p = txn[v].p
             /\ txn[u].op = "create" /\ txn[v].op = "create")' => u = v
      BY <1>3, <1>4 DEF RowLocksInv, Existing
    <2> QED BY <2>1, <2>2 DEF Existing
  <1>10. DecisionsStand'
    <2> SUFFICES ASSUME NEW u \in Session, decided(u)'
                 PROVE  (status[txn[u].p] = txn[u].seen)'
      BY DEF DecisionsStand
    <2>1. u # t /\ decided(u) /\ open(u) /\ txn'[u] = txn[u]
      BY <1>3, <1>4 DEF decided
    <2>2. txn[u].p \in Payment /\ status[txn[u].p] = txn[u].seen
      BY <2>1 DEF RowLocksInv, RowLocksTypeOK, DecisionsStand, open
    <2>3. txn[u].p # p
      <3> SUFFICES ASSUME txn[u].p = p PROVE FALSE
        OBVIOUS
      <3>1. op # "create"
        BY <1>1, <2>1 DEF RowLocksInv, Existing, decided, Locking
      <3>2. /\ locks(t)[1] \in held(t) /\ locks(t)[1].row = p
            /\ locks(t)[1].mode \in {"Update", "NoKeyUpdate"}
        BY <1>1, <3>1, FirstLock, HoldsFirst DEF RowLocksInv
      <3>3. /\ locks(u)[1] \in held(u) /\ locks(u)[1].row = p
            /\ locks(u)[1].mode = "Update"
        <4>1. txn[u].op # "create" /\ txn[u].op \in Locking /\ txn[u].done > 0
          BY <2>1 DEF decided, Locking
        <4> QED BY <2>1, <4>1, FirstLock, HoldsFirst DEF RowLocksInv
      <3> QED BY <2>1, <3>2, <3>3 DEF RowLocksInv, Compatible, conflict
    <2> QED BY <1>6, <2>1, <2>2, <2>3
  \* What it writes to the ledger ends a payment's being processed.
  <1>11. Tables'
    <2>1. op = "create" => ~ charging(t) /\ ~ compensating(t)
      BY <1>1, <1>2, ChargebackShape DEF RowLocksInv, Planned, plans, charging, compensating
    <2>2. charging(t) \/ compensating(t) => target(op) \notin {"none", "initiated", "processing"}
      BY <1>2, <2>1 DEF Op, target
    <2>3. op = "create" => p \notin chargedBack \cup reversed
      BY <1>1, <1>2 DEF RowLocksInv, Existing, Tables
    <2>4. op # "create" => target(op) \notin {"none", "initiated", "processing"}
      BY <1>2 DEF Op, target
    <2>5. status'[p] = target(op)
      BY <1>2, <1>5 DEF RowLocksInv, RowLocksTypeOK
    <2>6. ASSUME NEW q \in chargedBack' \cup reversed'
          PROVE  status'[q] \notin {"none", "initiated", "processing"}
      <3>1. CASE q = p
        BY <2>1, <2>3, <2>4, <2>5, <2>6, <3>1 DEF commit
      <3>2. CASE q # p
        BY <1>6, <2>6, <3>2 DEF commit, RowLocksInv, RowLocksTypeOK, Tables
      <3> QED BY <3>1, <3>2
    <2> QED BY <2>6 DEF Tables
  <1> QED BY <1>3, <1>7, <1>9, <1>10, <1>11 DEF RowLocksInv

LEMMA BeginStep ==
  ASSUME RowLocksInv, NEW t \in Session, NEW op \in Op, NEW p \in Payment,
         begin(t, op, p)
  PROVE  RowLocksInv'
  <1> DEFINE begun == [pc |-> "open", op |-> op, p |-> p, seen |-> status[p],
                       writes |-> <<>>, done |-> 0]
  <1>0. begun \in Txn
    BY DEF RowLocksInv, RowLocksTypeOK, Txn, SessionPc
  <1>1. /\ ~ open(t) /\ open(t)' /\ UNCHANGED <<status, chargedBack, reversed>>
        /\ txn'[t] = begun
        /\ \A u \in Session \ {t} : txn'[u] = txn[u]
        /\ txn' \in [Session -> Txn]
    BY <1>0 DEF RowLocksInv, RowLocksTypeOK, begin, open, tables
  <1>2. \A u \in Session \ {t} :
          /\ open(u)' <=> open(u)
          /\ decided(u)' <=> decided(u)
          /\ locks(u)' = locks(u) /\ held(u)' = held(u)
          /\ plans(u) \subseteq plans(u)'
    BY <1>1, SessionSame
  <1>3. RowLocksTypeOK'
    BY <1>1, <1>2 DEF RowLocksInv, RowLocksTypeOK, open
  <1>4. Bounded'
    <2>1. (Len(locks(t)) \in Nat \ {0})'
      BY <1>1, <1>3, FirstLock, PTL
    <2> QED BY <1>1, <1>2, <2>1 DEF RowLocksInv, Bounded
  <1>5. Compatible'
    <2>1. held(t)' = {}
      BY <1>1 DEF held
    <2> QED BY <1>2, <2>1 DEF RowLocksInv, Compatible
  <1>6. Existing'
    <2>1. op = "create" <=> status[p] = "none"
      BY DEF begin, mayBegin, validateTransition, VALID_TRANSITIONS, Op
    <2>2. op = "create" =>
            \A u \in Session : ~ (open(u) /\ txn[u].op = "create" /\ txn[u].p = p)
      BY DEF begin, mayBegin
    <2> QED BY <1>1, <1>2, <2>1, <2>2 DEF RowLocksInv, Existing
  <1>7. DecisionsStand'
    <2>1. ~ decided(t)'
      BY <1>1 DEF decided
    <2> QED BY <1>1, <1>2, <2>1 DEF RowLocksInv, DecisionsStand
  <1>8. Tables'
    BY <1>1 DEF RowLocksInv, Tables
  <1>9. Planned'
    BY <1>1, <1>2 DEF RowLocksInv, Planned, plans
  <1> QED BY <1>3, <1>4, <1>5, <1>6, <1>7, <1>8, <1>9 DEF RowLocksInv

\* What is read under the lock is among the plans.
LEMMA ReadsPlans ==
  ASSUME RowLocksInv, NEW t \in Session, open(t), txn[t].op \in Locking,
         NEW w \in readsToWrite(t)
  PROVE  w \in plans(t)
  <1> DEFINE p == txn[t].p
             op == txn[t].op
  <1>1. p \in Payment
    BY DEF RowLocksInv, RowLocksTypeOK, open
  <1>2. CASE ~ validateTransition(status[p], target(op))
    BY <1>2 DEF readsToWrite, plans
  <1>3. CASE validateTransition(status[p], target(op))
    <2>1. w \in ledgerLocks(op, p)
      BY <1>3 DEF readsToWrite
    <2>2. CASE op = "completed"
      BY <2>1, <2>2 DEF ledgerLocks, plans
    <2>3. CASE op = "failed"
      <3>1. status[p] \in {"processing", "initiated"}
        BY <1>3, <2>3 DEF validateTransition, VALID_TRANSITIONS, target
      <3>2. p \notin chargedBack
        BY <3>1 DEF RowLocksInv, Tables
      <3> QED BY <2>1, <2>3, <3>2 DEF ledgerLocks, compensationLocks, plans
    <2>4. CASE op = "reverse"
      BY <2>1, <2>4 DEF ledgerLocks, plans
    <2>5. CASE op = "refund"
      BY <2>1, <2>5 DEF ledgerLocks, compensationLocks, bothCredits, plans
    <2> QED BY <2>2, <2>3, <2>4, <2>5 DEF Locking
  <1> QED BY <1>2, <1>3

LEMMA AcquireStep ==
  ASSUME RowLocksInv, NEW t \in Session, acquire(t)
  PROVE  RowLocksInv'
  <1> DEFINE p == txn[t].p
             first == txn[t].op \in Locking /\ txn[t].done = 0
             seen == IF first THEN status[p] ELSE txn[t].seen
             after(w) == [pc |-> "open", op |-> txn[t].op, p |-> p, seen |-> seen,
                          writes |-> w, done |-> txn[t].done + 1]
  <1>1. /\ open(t) /\ txn[t].done < Len(locks(t))
        /\ UNCHANGED <<status, chargedBack, reversed>>
        /\ \A u \in Session : ~ blockedBy(t, u)
    BY DEF acquire, asking, tables
  <1>2. /\ txn[t] \in Txn
        /\ p \in Payment /\ status[p] \in State /\ txn[t].pc = "open"
        /\ txn[t].op \in Op /\ txn[t].done \in Nat
    BY <1>1 DEF RowLocksInv, RowLocksTypeOK, open, Txn
  <1>3. PICK w \in plans(t) : /\ txn' \in [Session -> {txn'[u] : u \in Session}]
                              /\ \A u \in Session \ {t} : txn'[u] = txn[u]
                              /\ txn'[t] = after(w)
                              /\ ~ first => w = txn[t].writes
    <2>1. CASE first
      <3>1. PICK w \in readsToWrite(t) :
              txn' = [txn EXCEPT ![t].done = 1, ![t].seen = status[p], ![t].writes = w]
        BY <2>1 DEF acquire
      <3>2. w \in plans(t)
        BY <1>1, <2>1, ReadsPlans
      <3>3. txn'[t] = [[[txn[t] EXCEPT !.done = 1] EXCEPT !.seen = status[p]]
                         EXCEPT !.writes = w]
        BY <3>1 DEF RowLocksInv, RowLocksTypeOK
      <3>4. txn'[t] = [pc |-> txn[t].pc, op |-> txn[t].op, p |-> txn[t].p,
                       seen |-> status[p], writes |-> w, done |-> 1]
        <4> DEFINE r1 == [txn[t] EXCEPT !.done = 1]
                   r2 == [r1 EXCEPT !.seen = status[p]]
        <4>1. r1 \in Txn
          BY <1>2 DEF Txn
        <4>2. r2 \in Txn
          BY <1>2, <4>1 DEF Txn
        <4>3. /\ r1.pc = txn[t].pc /\ r1.op = txn[t].op /\ r1.p = txn[t].p
              /\ r1.done = 1
          BY <1>2 DEF Txn
        <4> HIDE DEF r1
        <4>4. /\ r2.pc = r1.pc /\ r2.op = r1.op /\ r2.p = r1.p
              /\ r2.seen = status[p] /\ r2.done = r1.done
          BY <4>1 DEF Txn
        <4> HIDE DEF r2
        <4>5. [r2 EXCEPT !.writes = w]
                = [pc |-> r2.pc, op |-> r2.op, p |-> r2.p,
                   seen |-> r2.seen, writes |-> w, done |-> r2.done]
          BY <4>2 DEF Txn
        <4>6. txn'[t] = [r2 EXCEPT !.writes = w]
          BY <3>3 DEF r1, r2
        <4> QED BY <4>3, <4>4, <4>5, <4>6
      <3>5. txn'[t] = after(w)
        BY <1>2, <2>1, <3>4
      <3> QED BY <2>1, <3>1, <3>2, <3>5 DEF RowLocksInv, RowLocksTypeOK
    <2>2. CASE ~ first
      <3>1. txn' = [txn EXCEPT ![t].done = @ + 1]
        BY <2>2 DEF acquire
      <3>2. txn'[t] = [txn[t] EXCEPT !.done = @ + 1]
        BY <3>1 DEF RowLocksInv, RowLocksTypeOK
      <3>3. txn'[t] = after(txn[t].writes)
        BY <1>2, <2>2, <3>2 DEF Txn
      <3> QED BY <1>1, <2>2, <3>1, <3>3 DEF RowLocksInv, RowLocksTypeOK, Planned
    <2> QED BY <2>1, <2>2
  <1>4. after(w) \in Txn
    BY <1>2, PlanShape DEF Txn, SessionPc
  <1>5. /\ \A u \in Session \ {t} : txn'[u] = txn[u]
        /\ txn' \in [Session -> Txn] /\ txn'[t] = after(w)
    BY <1>3, <1>4 DEF RowLocksInv, RowLocksTypeOK
  <1>6. \A u \in Session \ {t} :
          /\ open(u)' <=> open(u)
          /\ decided(u)' <=> decided(u)
          /\ locks(u)' = locks(u) /\ held(u)' = held(u)
          /\ plans(u) \subseteq plans(u)'
    BY <1>1, <1>5, SessionSame
  <1>7. open(t)'
    BY <1>5 DEF open
  <1>8. RowLocksTypeOK'
    BY <1>1, <1>2, <1>5, <1>6, <1>7 DEF RowLocksInv, RowLocksTypeOK, open
  <1>9. txn'[t].op = txn[t].op /\ txn'[t].p = p /\ txn'[t].done = txn[t].done + 1
        /\ txn'[t].seen = seen /\ txn'[t].writes = w
    BY <1>5
  <1> HIDE DEF after
  <1>10. ~ first => locks(t)' = locks(t)
    BY <1>3, <1>9 DEF locks
  \* The first lock does not depend on what is read under it.
  <1>11. Len(locks(t)') \in Nat \ {0} /\ locks(t)'[1] = locks(t)[1]
    <2>1. (Len(locks(t)) \in Nat \ {0})'
      BY <1>7, <1>8, FirstLock, PTL
    <2>2. CASE ~ first
      BY <1>10, <2>1, <2>2
    <2>3. CASE first
      <3>1. w \in Seq(Lock) /\ txn[t].writes \in Seq(Lock)
        BY <1>2, PlanShape DEF Txn
      <3>2. PICK one : locks(t) = <<one>> \o txn[t].writes /\ locks(t)' = <<one>> \o w
        BY <1>9, <2>3 DEF locks, Locking, refundLocks, eventLocks
      <3> QED BY <2>1, <3>1, <3>2
    <2> QED BY <2>2, <2>3
  <1>12. Bounded'
    <2>1. txn'[t].done <= Len(locks(t)')
      <3>1. CASE first
        BY <1>9, <1>11, <3>1
      <3>2. CASE ~ first
        <4>1. locks(t)' = locks(t) /\ Len(locks(t)) \in Nat
          BY <1>10, <1>11, <3>2
        <4> QED BY <1>1, <1>2, <1>9, <4>1
      <3> QED BY <3>1, <3>2
    <2>2. ASSUME NEW u \in Session \ {t}, open(u)'
          PROVE  txn'[u].done <= Len(locks(u)')
      BY <1>5, <1>6, <2>2 DEF RowLocksInv, Bounded
    <2> QED BY <2>1, <2>2 DEF Bounded
  <1>13. held(t)' \subseteq held(t) \cup {wanted(t)}
    <2> SUFFICES ASSUME NEW i \in 1 .. txn[t].done + 1
                 PROVE  locks(t)'[i] \in held(t) \cup {wanted(t)}
      BY <1>7, <1>9 DEF held
    <2>1. CASE i = txn[t].done + 1
      <3>1. locks(t)'[i] = locks(t)[i]
        BY <1>2, <1>10, <1>11, <2>1
      <3> QED BY <2>1, <3>1 DEF wanted
    <2>2. CASE i # txn[t].done + 1
      <3>1. i \in 1 .. txn[t].done /\ ~ first
        BY <1>2, <2>2
      <3> QED BY <1>1, <1>10, <3>1 DEF held
    <2> QED BY <2>1, <2>2
  <1>14. Compatible'
    <2>1. ASSUME NEW u \in Session \ {t}, NEW g \in held(t)', NEW h \in held(u),
                 g.row = h.row
          PROVE  ~ conflict(g.mode, h.mode)
      <3>1. CASE g \in held(t)
        BY <2>1, <3>1 DEF RowLocksInv, Compatible
      <3>2. CASE g = wanted(t)
        BY <1>1, <2>1, <3>2 DEF blockedBy, acquire
      <3> QED BY <1>13, <3>1, <3>2
    <2>2. \A m, n : conflict(m, n) => conflict(n, m)
      BY DEF conflict
    <2>3. ASSUME NEW u \in Session, NEW v \in Session, u # v,
                 NEW g \in held(u)', NEW h \in held(v)', g.row = h.row
          PROVE  ~ conflict(g.mode, h.mode)
      <3>1. CASE u = t
        BY <1>6, <2>1, <2>3, <3>1
      <3>2. CASE v = t
        BY <1>6, <2>1, <2>2, <2>3, <3>2
      <3>3. CASE u # t /\ v # t
        BY <1>6, <2>3, <3>3 DEF RowLocksInv, Compatible
      <3> QED BY <3>1, <3>2, <3>3
    <2> QED BY <2>3 DEF Compatible, conflict
  <1>15. Existing'
    BY <1>1, <1>5, <1>6, <1>9 DEF RowLocksInv, Existing
  <1>16. DecisionsStand'
    <2>1. ASSUME decided(t)' PROVE status'[p] = seen
      <3>1. CASE first
        BY <1>1, <3>1
      <3>2. CASE ~ first
        <4>1. decided(t)
          BY <1>1, <1>2, <1>9, <2>1, <3>2 DEF decided
        <4> QED BY <1>1, <3>2, <4>1 DEF RowLocksInv, DecisionsStand
      <3> QED BY <3>1, <3>2
    <2> QED BY <1>1, <1>5, <1>6, <1>9, <2>1 DEF RowLocksInv, DecisionsStand
  <1>17. Tables'
    BY <1>1 DEF RowLocksInv, Tables
  <1>18. Planned'
    <2>1. w \in plans(t)'
      BY <1>1, <1>9 DEF plans
    <2> QED BY <1>5, <1>6, <1>9, <2>1 DEF RowLocksInv, Planned
  <1> QED BY <1>8, <1>12, <1>14, <1>15, <1>16, <1>17, <1>18 DEF RowLocksInv

LEMMA Leaves ==
  ASSUME NEW t \in Session,
         notObtained(t) \/ refuse(t) \/ throws(t) \/ deadlockDetected(t)
  PROVE  open(t) /\ end(t, "aborted") /\ UNCHANGED tables
  <1>1. end(t, "aborted") /\ UNCHANGED tables
    BY DEF notObtained, refuse, throws, deadlockDetected
  <1>2. open(t)
    BY DEF notObtained, asking, refuse, refused, decided, throws,
           deadlockDetected, circles, waiting, waitsFor, blockedBy
  <1> QED BY <1>1, <1>2

LEMMA RowLocksStart == RowLocksInit => RowLocksInv
  <1> SUFFICES ASSUME RowLocksInit PROVE RowLocksInv
    OBVIOUS
  <1>0. PICK start \in StartTables :
          status = start.status /\ chargedBack = start.chargedBack /\ reversed = start.reversed
    BY DEF RowLocksInit
  <1>1. \A t \in Session : ~ open(t) /\ held(t) = {}
    BY DEF RowLocksInit, NoWork, open, held
  <1>2. RowLocksTypeOK
    <2>1. NoWork \in Txn
      BY DEF NoWork, Txn, SessionPc, State
    <2>2. /\ status \in [Payment -> State]
          /\ chargedBack \subseteq Payment /\ reversed \subseteq Payment
      BY <1>0, RowLocksAssumption
    <2> QED BY <1>1, <2>1, <2>2 DEF RowLocksInit, RowLocksTypeOK, open
  <1>3. Tables
    BY <1>0, RowLocksAssumption DEF Tables
  <1> QED BY <1>1, <1>2, <1>3
          DEF RowLocksInv, Bounded, Compatible, Existing, DecisionsStand, decided, Planned

LEMMA RowLocksSteps ==
  RowLocksInv /\ [RowLocksNext]_rowVars => RowLocksInv'
  <1> SUFFICES ASSUME RowLocksInv, [RowLocksNext]_rowVars PROVE RowLocksInv'
    OBVIOUS
  <1>1. ASSUME NEW t \in Session, NEW op \in Op, NEW p \in Payment, begin(t, op, p)
        PROVE  RowLocksInv'
    BY <1>1, BeginStep
  <1>2. ASSUME NEW t \in Session, acquire(t) PROVE RowLocksInv'
    BY <1>2, AcquireStep
  <1>3. ASSUME NEW t \in Session, commit(t) PROVE RowLocksInv'
    BY <1>3, CommitStep
  <1>4. ASSUME NEW t \in Session,
               notObtained(t) \/ refuse(t) \/ throws(t) \/ deadlockDetected(t)
        PROVE  RowLocksInv'
    BY <1>4, Leaves, LeaveStep
  <1>5. ASSUME UNCHANGED rowVars PROVE RowLocksInv'
    <2>1. UNCHANGED <<status, chargedBack, reversed, txn>>
      BY <1>5 DEF rowVars, tables
    <2>2. \A t \in Session :
            /\ open(t)' <=> open(t)
            /\ decided(t)' <=> decided(t)
            /\ locks(t)' = locks(t) /\ held(t)' = held(t)
            /\ plans(t) \subseteq plans(t)'
      BY <2>1, SessionSame
    <2> QED BY <2>1, <2>2
      DEF RowLocksInv, RowLocksTypeOK, Bounded, Compatible, Existing,
          DecisionsStand, Tables, Planned, open
  <1> QED BY <1>1, <1>2, <1>3, <1>4, <1>5 DEF RowLocksNext

LEMMA RowLocksInvariant == RowLocksSpec => []RowLocksInv
  BY RowLocksStart, RowLocksSteps, PTL DEF RowLocksSpec

\* What a refund, a callback or a dead letter read under the row lock is so when
\* it commits, with any number of sessions.
THEOREM Stand == RowLocksSpec => []DecisionsStand
  <1>1. RowLocksInv => DecisionsStand
    BY DEF RowLocksInv
  <1> QED BY <1>1, RowLocksInvariant, PTL
---------------------------------------------------------------------------
(* Decisions and writes in one step.                                       *)

\* What session t may still write, and whether it has written.
Right(t) ==
  IF open(t) /\ txn[t].op \in {"dispute", "reject"}
  THEN {<<txn[t].p, target(txn[t].op)>>} ELSE {}

Wrote == {t \in Session : txn[t].pc = "committed"}

LEMMA OneMoves ==
  ASSUME NEW t \in Session, \A u \in Session \ {t} : txn'[u] = txn[u]
  PROVE  /\ granted' = [granted EXCEPT ![t] = Right(t)']
         /\ txn'[t].pc # "committed" /\ txn[t].pc # "committed" => Wrote' = Wrote
         /\ txn'[t].pc = "committed" => Wrote' = Wrote \cup {t}
  BY DEF granted, Right, Wrote, open

LEMMA RightOf == \A t \in Session : granted[t] = Right(t)
  BY DEF granted, Right

LEMMA Unmoved ==
  ASSUME NEW t \in Session, \A u \in Session \ {t} : txn'[u] = txn[u],
         txn'[t].pc # "committed", txn[t].pc # "committed",
         Right(t)' = Right(t)
  PROVE  UNCHANGED <<granted, Wrote>>
  BY OneMoves DEF granted, Right

LEMMA SameTable ==
  \A from, to : validateTransition(from, to) => Atomic!validateTransition(from, to)
  BY DEF validateTransition, Atomic!validateTransition,
         VALID_TRANSITIONS, Atomic!VALID_TRANSITIONS

LEMMA CommitDecides ==
  ASSUME RowLocksInv, NEW t \in Session, commit(t)
  PROVE  Atomic!AtomicNext
  <1>1. PICK p \in Payment, op \in Op, to \in TransactionStatus :
          p = txn[t].p /\ op = txn[t].op /\ to = target(op)
    BY TargetState DEF commit, finished, RowLocksInv, RowLocksTypeOK, open, State
  <1>2. /\ open(t) /\ end(t, "committed") /\ ~ refused(t)
        /\ txn[t].done = Len(locks(t))
        /\ status' = [status EXCEPT ![p] = to]
    BY <1>1 DEF commit, finished
  <1>3. /\ txn'[t].pc = "committed" /\ txn[t].pc # "committed"
        /\ \A u \in Session \ {t} : txn'[u] = txn[u]
        /\ Right(t)' = {}
    BY <1>2, EndStep DEF NoWork, Right, open
  <1>4. /\ t \notin Wrote /\ Wrote' = Wrote \cup {t}
        /\ granted' = [granted EXCEPT ![t] = {}]
    BY <1>3, OneMoves DEF Wrote
  <1>5. Atomic!write(p, to)
    BY <1>2, <1>4 DEF Wrote, Atomic!write
  <1>6. op \notin {"dispute", "reject"} => UNCHANGED granted
    BY <1>1, <1>4, RightOf DEF Right, granted
  <1>7. CASE op = "create"
    <2>1. status[p] = "none" /\ to = "processing"
      BY <1>1, <1>2, <1>7 DEF RowLocksInv, Existing, target
    <2>2. Atomic!create(p)
      BY <1>5, <1>6, <1>7, <2>1 DEF Atomic!create
    <2> QED BY <2>2 DEF Atomic!AtomicNext
  <1>8. CASE op \in Locking
    <2>1. decided(t)
      BY <1>1, <1>2, <1>8, FirstLock DEF RowLocksInv, decided
    <2>2. validateTransition(status[p], to)
      BY <1>1, <1>2, <2>1 DEF refused, RowLocksInv, DecisionsStand
    <2>3. Atomic!transition(p, to)
      BY <1>5, <1>6, <1>8, <2>2, SameTable DEF Atomic!transition, Locking
    <2> QED BY <2>3 DEF Atomic!AtomicNext, Atomic!TransactionStatus, TransactionStatus
  <1>9. CASE op \in {"dispute", "reject"}
    <2>1. granted[t] = {<<p, to>>}
      BY <1>1, <1>2, <1>9, RightOf DEF Right
    <2>2. \E right \in granted[t] : Atomic!write(right[1], right[2])
      <3>1. <<p, to>>[1] = p /\ <<p, to>>[2] = to
        OBVIOUS
      <3> QED BY <1>5, <2>1, <3>1
    <2>3. Atomic!overwrite(t)
      BY <1>4, <2>2 DEF Atomic!overwrite
    <2> QED BY <2>3 DEF Atomic!AtomicNext
  <1> QED BY <1>7, <1>8, <1>9 DEF Op, Locking

LEMMA BeginGrants ==
  ASSUME RowLocksInv, NEW t \in Session, NEW op \in Op, NEW p \in Payment,
         begin(t, op, p)
  PROVE  Atomic!AtomicNext \/ UNCHANGED <<status, granted, Wrote>>
  <1>1. /\ txn[t].pc = "new" /\ UNCHANGED status /\ mayBegin(op, p)
        /\ txn'[t].pc = "open" /\ txn'[t].op = op /\ txn'[t].p = p
        /\ \A u \in Session \ {t} : txn'[u] = txn[u]
    BY DEF begin, RowLocksInv, RowLocksTypeOK, tables
  <1>2. txn[t].pc # "committed" /\ txn'[t].pc # "committed" /\ Right(t) = {}
    BY <1>1 DEF Right, open
  <1>3. Wrote' = Wrote /\ granted' = [granted EXCEPT ![t] = Right(t)']
    BY <1>1, <1>2, OneMoves
  <1>4. CASE op \in {"dispute", "reject"}
    <2>1. PICK to \in {"disputed", "completed"} : to = target(op)
      BY <1>4 DEF target
    <2>2. Right(t)' = {<<p, to>>}
      BY <1>1, <1>4, <2>1 DEF Right, open, target
    <2>3. validateTransition(status[p], to)
      BY <1>1, <1>4, <2>1 DEF mayBegin
    <2>4. Atomic!grant(t, p, to)
      BY <1>1, <1>3, <2>2, <2>3, SameTable DEF Wrote, Atomic!grant
    <2> QED BY <2>4 DEF Atomic!AtomicNext, Atomic!TransactionStatus
  <1>5. CASE op \notin {"dispute", "reject"}
    <2>1. Right(t)' = {}
      BY <1>1, <1>5 DEF Right, open
    <2> QED BY <1>1, <1>2, <2>1, Unmoved
  <1> QED BY <1>4, <1>5

LEMMA StepDecides ==
  RowLocksInv /\ [RowLocksNext]_rowVars => [Atomic!AtomicNext]_(Atomic!atomicVars)
  <1> SUFFICES ASSUME RowLocksInv, [RowLocksNext]_rowVars
               PROVE  Atomic!AtomicNext \/ UNCHANGED <<status, granted, Wrote>>
    BY DEF Atomic!atomicVars, Wrote
  <1>1. ASSUME NEW t \in Session, NEW op \in Op, NEW p \in Payment, begin(t, op, p)
        PROVE  Atomic!AtomicNext \/ UNCHANGED <<status, granted, Wrote>>
    BY <1>1, BeginGrants
  <1>2. ASSUME NEW t \in Session, acquire(t)
        PROVE  UNCHANGED <<status, granted, Wrote>>
    <2>1. /\ UNCHANGED status /\ txn'[t].pc = txn[t].pc /\ txn[t].pc = "open"
          /\ txn'[t].op = txn[t].op /\ txn'[t].p = txn[t].p
          /\ \A u \in Session \ {t} : txn'[u] = txn[u]
      <3>1. open(t) /\ UNCHANGED status /\ txn[t] \in Txn
        BY <1>2 DEF acquire, asking, tables, RowLocksInv, RowLocksTypeOK
      <3>2. CASE txn[t].op \in Locking /\ txn[t].done = 0
        <4>1. PICK writes : txn' = [txn EXCEPT ![t].done = 1, ![t].seen = status[txn[t].p],
                                               ![t].writes = writes]
          BY <1>2, <3>2 DEF acquire
        <4> QED BY <3>1, <4>1 DEF open, RowLocksInv, RowLocksTypeOK, Txn
      <3>3. CASE ~ (txn[t].op \in Locking /\ txn[t].done = 0)
        <4>1. txn' = [txn EXCEPT ![t].done = @ + 1]
          BY <1>2, <3>3 DEF acquire
        <4> QED BY <3>1, <4>1 DEF open, RowLocksInv, RowLocksTypeOK, Txn
      <3> QED BY <3>2, <3>3
    <2>2. Right(t)' = Right(t)
      BY <2>1 DEF Right, open
    <2> QED BY <2>1, <2>2, Unmoved
  <1>3. ASSUME NEW t \in Session, commit(t)
        PROVE  Atomic!AtomicNext
    BY <1>3, CommitDecides
  <1>4. ASSUME NEW t \in Session,
               notObtained(t) \/ refuse(t) \/ throws(t) \/ deadlockDetected(t)
        PROVE  Atomic!AtomicNext
    <2>1. open(t) /\ end(t, "aborted") /\ UNCHANGED status
      BY <1>4, Leaves DEF tables
    <2>2. /\ txn'[t].pc = "aborted" /\ Right(t)' = {} /\ txn[t].pc # "committed"
          /\ \A u \in Session \ {t} : txn'[u] = txn[u]
      BY <2>1, EndStep DEF NoWork, Right, open
    <2>3. granted' = [granted EXCEPT ![t] = {}] /\ Wrote' = Wrote
      BY <2>2, OneMoves
    <2>4. Atomic!giveUp(t)
      BY <2>1, <2>3 DEF Atomic!giveUp, Wrote
    <2> QED BY <2>4 DEF Atomic!AtomicNext
  <1>5. ASSUME UNCHANGED rowVars
        PROVE  UNCHANGED <<status, granted, Wrote>>
    BY <1>5 DEF rowVars, tables, granted, Wrote, open
  <1> QED BY <1>1, <1>2, <1>3, <1>4, <1>5 DEF RowLocksNext

\* A refund, a callback and a dead letter work on a payment as if they read and
\* wrote it in one step, with any number of sessions.
THEOREM Atomicity == RowLocksSpec => DecidesAtOnce
  <1>1. RowLocksInit => Atomic!AtomicInit
    <2> SUFFICES ASSUME RowLocksInit PROVE Atomic!AtomicInit
      OBVIOUS
    <2>1. status \in [Payment -> State \ {"initiated"}]
      BY RowLocksAssumption DEF RowLocksInit
    <2>2. granted = [t \in Session |-> {}]
      BY DEF RowLocksInit, NoWork, granted, open
    <2> QED BY <2>1, <2>2 DEF Atomic!AtomicInit
  <1> QED BY <1>1, RowLocksInvariant, StepDecides, PTL
          DEF RowLocksSpec, DecidesAtOnce, Atomic!AtomicSpec

---------------------------------------------------------------------------
(* Deadlocks.                                                              *)

\* In a circle everybody waits for somebody and is waited for.
LEMMA InCircle ==
  ASSUME NEW C \in circles, NEW t \in C
  PROVE  /\ t \in Session
         /\ \E u \in C : waitsFor(t, u)
         /\ \E u \in C : waitsFor(u, t)
  <1>1. C \subseteq waiting /\ circle(C) /\ C \subseteq Session
    BY DEF circles, waiting
  <1>2. \E u \in C : u # t
    BY <1>1 DEF circle
  <1>3. {t} \in (SUBSET C) \ {{}, C} /\ C \ {t} \in (SUBSET C) \ {{}, C}
    BY <1>2
  <1>4. \E v \in {t}, u \in C \ {t} : waitsFor(v, u)
    BY <1>1, <1>3 DEF circle
  <1>5. \E u \in C \ {t}, v \in C \ (C \ {t}) : waitsFor(u, v)
    BY <1>1, <1>3 DEF circle
  <1> QED BY <1>1, <1>4, <1>5

\* Who waits and is waited for has its first lock and asks for another one.
LEMMA Midway ==
  ASSUME RowLocksTypeOK, NEW t \in Session, NEW u \in Session,
         waitsFor(t, u), NEW v \in Session, waitsFor(v, t)
  PROVE  open(t) /\ txn[t].done \in 1 .. Len(locks(t)) - 1
  <1>1. asking(t) /\ open(t) /\ txn[t].done < Len(locks(t))
    BY DEF waitsFor, blockedBy, asking
  <1>2. held(t) # {}
    BY DEF waitsFor, blockedBy
  <1>3. txn[t].done \in Nat /\ txn[t].done # 0
    BY <1>1, <1>2 DEF RowLocksTypeOK, Txn, held
  <1> QED BY <1>1, <1>3, FirstLock

\* What it asks for, and what it may hold on an account.
LEMMA MidwayLocks ==
  ASSUME RowLocksTypeOK, Planned, NEW t \in Session, open(t),
         txn[t].done \in 1 .. Len(locks(t)) - 1
  PROVE  /\ wanted(t).row \in Account
         /\ wanted(t).mode \in {"KeyShare", "NoKeyUpdate"}
         /\ txn[t].op = "create" => wanted(t).mode = "KeyShare"
         /\ \A h \in held(t) :
              h.row \in Account =>
                \/ txn[t].op = "create"
                \/ movesBack(t) /\ h.mode \in {"KeyShare", "NoKeyUpdate"}
                \/ h.mode = "KeyShare"
  <1> DEFINE p == txn[t].p
             n == txn[t].done
             w == txn[t].writes
  <1>0. /\ p \in Payment /\ p \notin Account
        /\ sender[p] \in Account /\ recipient[p] \in Account
    BY LocksOf, RowLocksAssumption
  <1>1. wanted(t) = locks(t)[n + 1] /\ held(t) = {locks(t)[i] : i \in 1 .. n}
    BY DEF wanted, held
  <1>2. CASE txn[t].op = "create"
    <2>1. locks(t) = createLocks(p)
      BY <1>2, LocksOf
    <2>2. Len(locks(t)) = 2 /\ locks(t)[2] = lock(recipient[p], "KeyShare")
      BY <1>0, <2>1, CreateShape
    <2>3. wanted(t) = lock(recipient[p], "KeyShare")
      BY <1>1, <2>2
    <2> QED BY <1>0, <1>2, <2>3 DEF lock
  <1>3. CASE txn[t].op # "create"
    <2>1. PICK first \in Lock :
            /\ first.row = p
            /\ locks(t) = IF txn[t].op \in Locking THEN <<first>> \o w ELSE <<first>>
      BY <1>3, LocksOf
    <2>2. w \in Seq(Lock) /\ w \in plans(t)
      BY LocksOf DEF Planned
    <2>3. locks(t) = <<first>> \o w /\ n \in 1 .. Len(w)
      BY <2>1, <2>2
    <2>4. wanted(t) = w[n]
      BY <1>1, <2>2, <2>3
    <2>5. ASSUME NEW h \in held(t), h.row \in Account
          PROVE  \E i \in 1 .. n - 1 : h = w[i]
      <3>1. PICK i \in 1 .. n : h = locks(t)[i]
        BY <1>1
      <3>2. i # 1
        BY <1>0, <2>1, <2>2, <2>3, <2>5, <3>1
      <3>3. h = w[i - 1] /\ i - 1 \in 1 .. n - 1
        BY <2>2, <2>3, <3>1, <3>2
      <3> QED BY <3>3
    <2>6. \A i \in 1 .. Len(w) :
            w[i].row \in Account /\ w[i].mode \in {"KeyShare", "NoKeyUpdate"}
      BY <1>0, <2>2, PlanShape
    <2>7. movesBack(t) \/ (Len(w) <= 2 /\ (Len(w) > 0 => w[1].mode = "KeyShare"))
      BY <1>0, <2>2, PlanShape DEF movesBack, charging
    <2>8. ASSUME NEW h \in held(t), h.row \in Account
          PROVE  \/ movesBack(t) /\ h.mode \in {"KeyShare", "NoKeyUpdate"}
                 \/ h.mode = "KeyShare"
      <3>1. PICK i \in 1 .. n - 1 : h = w[i]
        BY <2>5, <2>8
      <3>2. CASE movesBack(t)
        BY <2>3, <2>6, <3>1, <3>2
      <3>3. CASE ~ movesBack(t)
        <4>1. i = 1 /\ Len(w) > 0
          BY <2>3, <2>7, <3>3
        <4> QED BY <2>7, <3>1, <3>3, <4>1
      <3> QED BY <3>2, <3>3
    <2> QED BY <1>3, <2>3, <2>4, <2>6, <2>8
  <1> QED BY <1>2, <1>3

\* Only creates and sessions that move money back are waited for by sessions that
\* have a lock, and creates wait for creates alone.
LEMMA WaitedFor ==
  ASSUME RowLocksTypeOK, Planned,
         NEW t \in Session, NEW u \in Session, waitsFor(t, u),
         open(t), txn[t].done \in 1 .. Len(locks(t)) - 1,
         open(u), txn[u].done \in 1 .. Len(locks(u)) - 1
  PROVE  /\ txn[u].op = "create" \/ movesBack(u)
         /\ txn[t].op = "create" => txn[u].op = "create"
  <1>1. PICK h \in held(u) : h.row = wanted(t).row /\ conflict(wanted(t).mode, h.mode)
    BY DEF waitsFor, blockedBy
  <1>2. /\ wanted(t).row \in Account /\ wanted(t).mode \in {"KeyShare", "NoKeyUpdate"}
        /\ txn[t].op = "create" => wanted(t).mode = "KeyShare"
    BY MidwayLocks
  <1>3. \/ txn[u].op = "create"
        \/ movesBack(u) /\ h.mode \in {"KeyShare", "NoKeyUpdate"}
        \/ h.mode = "KeyShare"
    BY <1>1, <1>2, MidwayLocks
  <1> QED BY <1>1, <1>2, <1>3 DEF conflict

LEMMA Uniform == RowLocksTypeOK /\ Planned => UniformDeadlocks
  <1> SUFFICES ASSUME RowLocksTypeOK, Planned, NEW C \in circles
               PROVE  (\A t \in C : txn[t].op = "create") \/ (\A t \in C : movesBack(t))
    BY DEF UniformDeadlocks
  <1> DEFINE D == {t \in C : txn[t].op = "create"}
  <1>1. \A t \in C : t \in Session /\ open(t) /\ txn[t].done \in 1 .. Len(locks(t)) - 1
    BY InCircle, Midway
  <1>2. \A t \in C : txn[t].op = "create" \/ movesBack(t)
    BY <1>1, InCircle, WaitedFor
  <1>3. D = {} \/ D = C
    <2> SUFFICES ASSUME D # {}, D # C PROVE FALSE
      OBVIOUS
    <2>1. D \in (SUBSET C) \ {{}, C}
      OBVIOUS
    <2>2. PICK t \in D, u \in C \ D : waitsFor(t, u)
      BY <2>1 DEF circles, circle
    <2> QED BY <1>1, <2>2, WaitedFor
  <1> QED BY <1>2, <1>3

\* However many database transactions run at once, only payments being created
\* deadlock with each other, or sessions that move money back do: chargebacks and
\* refunds of payments that had been charged back.
THEOREM Deadlocks == RowLocksSpec => []UniformDeadlocks
  <1>1. RowLocksInv => RowLocksTypeOK /\ Planned
    BY DEF RowLocksInv
  <1> QED BY <1>1, Uniform, RowLocksInvariant, PTL

---------------------------------------------------------------------------
(* Nobody waits for ever: what goesOn needs of the state.                  *)

mayGoOn(t) ==
  \/ refused(t)
  \/ finished(t)
  \/ asking(t) /\ (wanted(t).nowait \/ \A u \in Session : ~ blockedBy(t, u))
  \/ \E C \in circles : t \in C

\* Nobody in D waits for somebody outside.
closed(D) == \A t \in D, u \in Session : waitsFor(t, u) => u \in D

NobodyStuck ==
  \A D \in SUBSET Session :
    D # {} /\ closed(D) /\ (\A t \in D : open(t)) => \E t \in D : mayGoOn(t)

\* Part of a closed set waits for nobody else in it.
LEMMA SmallestClosed ==
  ASSUME IsFiniteSet(Session), NEW D, D \subseteq Session, D # {}, closed(D)
  PROVE  \E M \in SUBSET D : /\ M # {} /\ closed(M)
                             /\ \A E \in SUBSET M : E # {} /\ closed(E) => E = M
  <1> DEFINE R == StrictSubsetOrdering(Session)
             Closed == {E \in SUBSET D : E # {} /\ closed(E)}
  <1>1. IsWellFoundedOn(R, SUBSET Session)
    BY FS_FiniteSubsetsOfFinite, FS_StrictSubsetOrderingWellFounded
  <1>2. PICK M \in Closed : \A E \in Closed : ~ (<<E, M>> \in R)
    <2>1. D \in Closed /\ Closed \subseteq SUBSET Session
      OBVIOUS
    <2> HIDE DEF R, Closed
    <2> QED BY <1>1, <2>1, WFMin
  <1>3. \A E \in SUBSET M : E # {} /\ closed(E) => E = M
    BY <1>2 DEF StrictSubsetOrdering
  <1> QED BY <1>2, <1>3

LEMMA Unstuck == RowLocksInv /\ IsFiniteSet(Session) => NobodyStuck
  <1> SUFFICES ASSUME RowLocksInv, IsFiniteSet(Session),
                      NEW D \in SUBSET Session, D # {}, closed(D),
                      \A t \in D : open(t),
                      \A t \in D : ~ mayGoOn(t)
               PROVE  FALSE
    BY DEF NobodyStuck
  <1>1. ASSUME NEW t \in D
        PROVE  \E u \in D : u # t /\ waitsFor(t, u)
    <2>1. txn[t].done \in Nat /\ Len(locks(t)) \in Nat /\ txn[t].done <= Len(locks(t))
      BY FirstLock DEF RowLocksInv, RowLocksTypeOK, Txn, Bounded
    <2>2. asking(t)
      BY <2>1 DEF mayGoOn, finished, asking
    <2>3. PICK u \in Session : blockedBy(t, u) /\ ~ wanted(t).nowait
      BY <2>2 DEF mayGoOn
    <2>4. waitsFor(t, u) /\ u # t
      BY <2>3 DEF waitsFor, blockedBy
    <2> QED BY <2>4 DEF closed
  <1>2. PICK M \in SUBSET D : /\ M # {} /\ closed(M)
                              /\ \A E \in SUBSET M : E # {} /\ closed(E) => E = M
    BY SmallestClosed
  <1>3. \A t \in M : \E u \in M : u # t /\ waitsFor(t, u)
    BY <1>1, <1>2 DEF closed
  <1>4. circle(M)
    <2>1. \E t, u \in M : t # u
      BY <1>2, <1>3
    <2>2. ASSUME NEW E \in (SUBSET M) \ {{}, M}
          PROVE  \E t \in E, u \in M \ E : waitsFor(t, u)
      <3>1. ~ closed(E)
        BY <1>2
      <3> QED BY <1>2, <3>1 DEF closed
    <2> QED BY <2>1, <2>2 DEF circle
  <1>5. M \in circles
    BY <1>3, <1>4 DEF circles, waiting
  <1> QED BY <1>2, <1>5 DEF mayGoOn

\* Take any open transactions that wait for no others: one of them can take its
\* next lock, leave or commit, or is in a circle for PostgreSQL to find.  So
\* whoever waits for a row is behind somebody who goes on, however many sessions
\* there are.
THEOREM NoneStuck ==
  ASSUME IsFiniteSet(Session)
  PROVE  RowLocksSpec => []NobodyStuck
  BY RowLocksInvariant, Unstuck, PTL
=============================================================================
