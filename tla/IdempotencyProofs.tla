------------------------- MODULE IdempotencyProofs -------------------------
(***************************************************************************)
(* Theorems about Idempotency, for any requests, keys and faults.          *)
(***************************************************************************)
EXTENDS Idempotency, TLAPS

\* As long as no lock was lost under its holder, the holder's token is in it.
Exclusive ==
  "slowHandler" \notin suffered =>
    \A r \in Request, k \in Key : holds(r, k) => lock[k] = r

\* How far one request got, if only tolerated faults happened.
InOrder(r) ==
  /\ req[r].pc \notin {"broken", "unlocked"}
  /\ req[r].todo # {} => at(r, "storing")
  /\ at(r, "storing") => req[r].payment # 0
  /\ req[r].pc \in {"running", "storing"} => row[req[r].key].here
  /\ req[r].pc \in {"unregistered", "running"} => made[req[r].key] = 0

writesRow(r, k) == at(r, "storing") /\ req[r].key = k /\ "row" \in req[r].todo

\* A payment is remembered in the row, or on its way there.
Remembered(k) ==
  \/ made[k] = 0
  \/ made[k] = 1 /\ (row[k].body # 0 \/ \E r \in Request : writesRow(r, k))

Orderly ==
  suffered \subseteq Tolerated =>
    /\ \A r \in Request : InOrder(r)
    /\ \A k \in Key : Remembered(k)

IInv == TypeOK /\ Exclusive /\ Orderly
---------------------------------------------------------------------------
(* What becomes of a request.                                              *)

LEMMA Become ==
  ASSUME ReqTypeOK, NEW r \in Request, NEW q \in Attempt,
         q = NoRequest \/ (q.pc # "idle" /\ q.key \in Key),
         req' = [req EXCEPT ![r] = q]
  PROVE  ReqTypeOK' /\ \A s \in Request : req'[s] = IF s = r THEN q ELSE req[s]
  BY DEF ReqTypeOK

LEMMA Finished ==
  ASSUME ReqTypeOK, NEW r \in Request, finish(r)
  PROVE  /\ ReqTypeOK'
         /\ \A s \in Request : req'[s] = IF s = r THEN NoRequest ELSE req[s]
  <1>1. NoRequest \in Attempt
    BY DEF NoRequest, Attempt, RequestPc
  <1> QED BY <1>1, Become DEF finish

LEMMA GoneTo ==
  ASSUME ReqTypeOK, NEW r \in Request, ~ at(r, "idle"),
         NEW pc \in RequestPc \ {"idle"}, goto(r, pc)
  PROVE  /\ ReqTypeOK'
         /\ \A s \in Request :
              req'[s] = IF s = r THEN [req[r] EXCEPT !.pc = pc] ELSE req[s]
  <1> DEFINE q == [req[r] EXCEPT !.pc = pc]
  <1>1. req[r] \in Attempt /\ req[r].pc # "idle" /\ req[r].key \in Key
    BY DEF ReqTypeOK, at, NoRequest
  <1>2. q \in Attempt /\ q.pc # "idle" /\ q.key \in Key
    BY <1>1 DEF Attempt
  <1>3. req' = [req EXCEPT ![r] = q]
    BY DEF goto, ReqTypeOK
  <1> HIDE DEF q
  <1>4. ReqTypeOK' /\ \A s \in Request : req'[s] = IF s = r THEN q ELSE req[s]
    BY <1>2, <1>3, Become
  <1> QED BY <1>4 DEF q

\* A write of the answer is over.
LEMMA WriteEnded ==
  ASSUME ReqTypeOK, NEW r \in Request, NEW where \in req[r].todo, settled(r, where)
  PROVE  /\ ReqTypeOK'
         /\ req[r].pc # "idle" /\ req[r].key \in Key /\ req[r].payment \in Nat
         /\ \A s \in Request : s # r => req'[s] = req[s]
         /\ \/ at(r, "unlocked") /\ req'[r] = NoRequest
            \/ /\ req'[r].pc = req[r].pc /\ req'[r].key = req[r].key
               /\ req'[r].payment = req[r].payment
               /\ req'[r].todo = req[r].todo \ {where}
  <1>1. req[r] \in Attempt /\ req[r].pc # "idle" /\ req[r].key \in Key
    BY DEF ReqTypeOK, NoRequest
  <1>2. CASE at(r, "unlocked") /\ req[r].todo \ {where} = {}
    <2>1. finish(r)
      BY <1>2 DEF settled
    <2> QED BY <1>1, <1>2, <2>1, Finished DEF Attempt
  <1>3. CASE ~ (at(r, "unlocked") /\ req[r].todo \ {where} = {})
    <2> DEFINE q == [req[r] EXCEPT !.todo = @ \ {where}]
    <2>1. q \in Attempt /\ q.pc # "idle" /\ q.key \in Key
      BY <1>1 DEF Attempt
    <2>2. req' = [req EXCEPT ![r] = q]
      BY <1>3 DEF settled, ReqTypeOK
    <2> HIDE DEF q
    <2>3. ReqTypeOK' /\ \A s \in Request : req'[s] = IF s = r THEN q ELSE req[s]
      BY <2>1, <2>2, Become
    <2> QED BY <1>1, <2>3 DEF q, Attempt
  <1> QED BY <1>2, <1>3

LEMMA Left ==
  ASSUME ReqTypeOK, NEW r \in Request, mayClose(r), leave(r)
  PROVE  /\ ReqTypeOK'
         /\ req[r].pc # "idle" /\ req[r].key \in Key
         /\ \A s \in Request : s # r => req'[s] = req[s]
         /\ \/ req'[r] = NoRequest
            \/ /\ req[r].todo # {} /\ req'[r].pc = "unlocked"
               /\ req'[r].key = req[r].key /\ req'[r].payment = req[r].payment
  <1>1. ~ at(r, "idle") /\ req[r].key \in Key
    BY DEF mayClose, at, ReqTypeOK, NoRequest
  <1>2. CASE req[r].todo = {}
    BY <1>1, <1>2, Finished DEF leave, at
  <1>3. CASE req[r].todo # {}
    <2>1. req[r] \in Attempt
      BY DEF ReqTypeOK
    <2>2. goto(r, "unlocked") /\ "unlocked" \in RequestPc \ {"idle"}
      BY <1>3 DEF leave, RequestPc
    <2>3. /\ ReqTypeOK'
          /\ \A s \in Request :
               req'[s] = IF s = r THEN [req[r] EXCEPT !.pc = "unlocked"] ELSE req[s]
      BY <1>1, <2>2, GoneTo
    <2> QED BY <1>1, <1>3, <2>1, <2>3 DEF Attempt, at
  <1> QED BY <1>2, <1>3

LEMMA WriteFailed ==
  ASSUME ReqTypeOK, NEW r \in Request, storeFails(r)
  PROVE  /\ ReqTypeOK'
         /\ \A s \in Request : s # r => req'[s] = req[s]
         /\ \/ req'[r] = NoRequest
            \/ /\ req'[r].key = req[r].key /\ req'[r].payment = req[r].payment
               /\ req'[r].pc # req[r].pc => at(r, "storing") /\ req'[r].pc = "broken"
  <1>1. PICK where \in req[r].todo :
          IF at(r, "unlocked") /\ req[r].todo \ {where} = {}
          THEN finish(r)
          ELSE req' = [req EXCEPT ![r].todo = req[r].todo \ {where},
                                  ![r].pc = IF @ = "storing" THEN "broken" ELSE @]
    BY DEF storeFails
  <1>2. req[r] \in Attempt /\ req[r].pc # "idle" /\ req[r].key \in Key
    BY DEF ReqTypeOK, NoRequest
  <1>3. CASE at(r, "unlocked") /\ req[r].todo \ {where} = {}
    BY <1>1, <1>3, Finished
  <1>4. CASE ~ (at(r, "unlocked") /\ req[r].todo \ {where} = {})
    <2> DEFINE pc == IF at(r, "storing") THEN "broken" ELSE req[r].pc
               q == [req[r] EXCEPT !.todo = req[r].todo \ {where}, !.pc = pc]
    <2>1. q \in Attempt /\ q.pc # "idle" /\ q.key \in Key
      BY <1>2 DEF Attempt, RequestPc, HoldingPc
    <2>2. req' = [req EXCEPT ![r] = q]
      BY <1>1, <1>4 DEF ReqTypeOK, at
    <2>3. /\ q.key = req[r].key /\ q.payment = req[r].payment
          /\ q.pc # req[r].pc => at(r, "storing") /\ q.pc = "broken"
      BY <1>2 DEF Attempt
    <2> HIDE DEF q, pc
    <2>4. ReqTypeOK' /\ \A s \in Request : req'[s] = IF s = r THEN q ELSE req[s]
      BY <2>1, <2>2, Become
    <2> QED BY <2>3, <2>4
  <1> QED BY <1>3, <1>4

---------------------------------------------------------------------------
(* Whatever a request does after acquire, it does to itself alone, and it   *)
(* holds no key it did not hold.                                            *)

Narrows(r) ==
  /\ \A s \in Request \ {r} : req'[s] = req[s]
  /\ \A k \in Key : holds(r, k)' => holds(r, k)

LEMMA KeyOf ==
  ASSUME ReqTypeOK, NEW r \in Request, ~ at(r, "idle")
  PROVE  req[r].key \in Key
  BY DEF ReqTypeOK, NoRequest, at

\* Every step after acquire but the creation of a payment.
WorkStep(r) ==
  \/ findRow(r) \/ register(r) \/ precheckFails(r)
  \/ paymentRefused(r) \/ enqueueFails(r)
  \/ storeRow(r) \/ storeCache(r) \/ storeFails(r)
  \/ release(r) \/ releaseFails(r) \/ requestDies(r)

LEMMA Narrowing ==
  ASSUME TypeOK, NEW r \in Request, WorkStep(r) \/ createPayment(r)
  PROVE  ReqTypeOK' /\ Narrows(r)
  <1>a. ReqTypeOK
    BY DEF TypeOK
  <1>1. ASSUME NEW pc \in HoldingPc, goto(r, pc), req[r].pc \in HoldingPc
        PROVE  ReqTypeOK' /\ Narrows(r)
    <2>1. ~ at(r, "idle") /\ pc \in RequestPc \ {"idle"} /\ req[r] \in Attempt
      BY <1>a, <1>1 DEF at, RequestPc, HoldingPc, ReqTypeOK
    <2> QED BY <1>a, <1>1, <2>1, GoneTo DEF Narrows, holds, Attempt
  <1>2. CASE findRow(r)
    BY <1>a, <1>1, <1>2 DEF findRow, at, HoldingPc
  <1>3. CASE register(r)
    BY <1>a, <1>1, <1>3 DEF register, at, HoldingPc
  <1>4. CASE precheckFails(r)
    BY <1>a, <1>1, <1>4 DEF precheckFails, HoldingPc
  <1>5. CASE paymentRefused(r)
    BY <1>a, <1>1, <1>5 DEF paymentRefused, at, HoldingPc
  <1>6. CASE enqueueFails(r)
    BY <1>a, <1>1, <1>6 DEF enqueueFails, at, HoldingPc
  <1>7. CASE storeRow(r)
    BY <1>a, <1>7, WriteEnded DEF storeRow, Narrows, holds, HoldingPc, at, NoRequest
  <1>8. CASE storeCache(r)
    BY <1>a, <1>8, WriteEnded DEF storeCache, Narrows, holds, HoldingPc, at, NoRequest
  <1>9. CASE storeFails(r)
    BY <1>a, <1>9, WriteFailed DEF Narrows, holds, HoldingPc, at, NoRequest
  <1>10. CASE release(r)
    BY <1>a, <1>10, Left DEF release, Narrows, holds, HoldingPc, NoRequest
  <1>11. CASE releaseFails(r)
    BY <1>a, <1>11, Left DEF releaseFails, Narrows, holds, HoldingPc, NoRequest
  <1>12. CASE requestDies(r)
    BY <1>a, <1>12, Finished DEF requestDies, Narrows, holds, HoldingPc, NoRequest
  <1>13. CASE createPayment(r)
    <2> DEFINE q == [pc |-> "storing", key |-> req[r].key,
                     payment |-> made[req[r].key] + 1, todo |-> Store]
    <2>1. ~ at(r, "idle") /\ req' = [req EXCEPT ![r] = q]
      BY <1>a, <1>13 DEF createPayment, at
    <2>2. q \in Attempt /\ q.pc # "idle" /\ q.key \in Key
      BY <1>a, <2>1, KeyOf DEF Attempt, RequestPc, HoldingPc, TypeOK
    <2>3. at(r, "running")
      BY <1>13 DEF createPayment
    <2> HIDE DEF q
    <2>4. ReqTypeOK' /\ \A s \in Request : req'[s] = IF s = r THEN q ELSE req[s]
      BY <1>a, <2>1, <2>2, Become
    <2> QED BY <2>3, <2>4 DEF q, Narrows, holds, at, HoldingPc
  <1> QED BY <1>2, <1>3, <1>4, <1>5, <1>6, <1>7, <1>8, <1>9, <1>10, <1>11, <1>12, <1>13 DEF WorkStep

---------------------------------------------------------------------------
\* Everything but req: the numbers of payments, the locks and the row.
LEMMA RestType ==
  ASSUME TypeOK, NEW r \in Request, WorkStep(r) \/ createPayment(r)
  PROVE  /\ Redis!TypeOK'
         /\ cache' \in [Key -> Nat]
         /\ row' \in [Key -> [here : BOOLEAN, body : Nat]]
         /\ made' \in [Key -> Nat]
         /\ suffered' \subseteq FaultKind
         /\ faults' \in 0 .. MaxFaults
  <1>1. ReqTypeOK /\ req[r] \in Attempt
    BY DEF TypeOK, ReqTypeOK
  <1>2. ~ at(r, "idle") => req[r].key \in Key
    BY <1>1, KeyOf
  <1>3. req[r].todo # {} => ~ at(r, "idle")
    BY <1>1 DEF ReqTypeOK, NoRequest, at
  <1>4. req[r].payment \in Nat
    BY <1>1 DEF Attempt
  <1> USE <1>1, <1>2, <1>3, <1>4, IdempotencyAssumption, MaxFaultsAssumption
      DEF TypeOK, Redis!TypeOK, suffer, noFault, Fault, at
  <1>5. CASE findRow(r)
    BY <1>5 DEF findRow
  <1>6. CASE register(r)
    BY <1>6 DEF register
  <1>7. CASE precheckFails(r)
    BY <1>7 DEF precheckFails
  <1>8. CASE paymentRefused(r)
    BY <1>8 DEF paymentRefused
  <1>9. CASE enqueueFails(r)
    BY <1>9 DEF enqueueFails
  <1>10. CASE storeRow(r)
    BY <1>10 DEF storeRow
  <1>11. CASE storeCache(r)
    BY <1>11 DEF storeCache
  <1>12. CASE storeFails(r)
    BY <1>12 DEF storeFails
  <1>13. CASE release(r)
    BY <1>13 DEF release, Redis!releaseLock
  <1>14. CASE releaseFails(r)
    BY <1>14 DEF releaseFails
  <1>15. CASE requestDies(r)
    BY <1>15 DEF requestDies
  <1>16. CASE createPayment(r)
    BY <1>16 DEF createPayment
  <1> QED BY <1>5, <1>6, <1>7, <1>8, <1>9, <1>10, <1>11, <1>12, <1>13, <1>14, <1>15, <1>16 DEF WorkStep

\* The first two steps of a request.
LEMMA Arrived ==
  ASSUME TypeOK, NEW r \in Request, NEW k \in Key, lookup(r, k)
  PROVE  TypeOK' /\ req'[r].pc = "missed" /\ req'[r].todo = {}
         /\ \A s \in Request \ {r} : req'[s] = req[s]
  <1> DEFINE q == [NoRequest EXCEPT !.pc = "missed", !.key = k]
  <1>1. ReqTypeOK /\ req' = [req EXCEPT ![r] = q]
    BY DEF TypeOK, lookup
  <1>2. q \in Attempt /\ q.pc = "missed" /\ q.key \in Key /\ q.todo = {}
    BY DEF NoRequest, Attempt, RequestPc
  <1> HIDE DEF q
  <1>3. ReqTypeOK' /\ \A s \in Request : req'[s] = IF s = r THEN q ELSE req[s]
    BY <1>1, <1>2, Become
  <1> QED BY <1>2, <1>3 DEF TypeOK, Redis!TypeOK, lookup, noFault

LEMMA Acquired ==
  ASSUME TypeOK, NEW r \in Request, acquire(r)
  PROVE  /\ TypeOK'
         /\ req[r].key \in Key
         /\ \A s \in Request \ {r} : req'[s] = req[s]
         /\ \/ /\ lock[req[r].key] = Null /\ lock' = [lock EXCEPT ![req[r].key] = r]
               /\ req'[r].pc = "locked" /\ req'[r].key = req[r].key
               /\ req'[r].todo = req[r].todo
            \/ lock' = lock /\ req'[r] = NoRequest
  <1>1. ReqTypeOK /\ req[r] \in Attempt /\ at(r, "missed") /\ ~ at(r, "idle")
    BY DEF TypeOK, ReqTypeOK, acquire, at
  <1>2. req[r].key \in Key
    BY <1>1, KeyOf
  <1>3. CASE Redis!acquireLock(req[r].key, r) /\ goto(r, "locked")
    <2>1. "locked" \in RequestPc \ {"idle"}
      BY DEF RequestPc, HoldingPc
    <2>2. /\ ReqTypeOK'
          /\ \A s \in Request :
               req'[s] = IF s = r THEN [req[r] EXCEPT !.pc = "locked"] ELSE req[s]
      BY <1>1, <1>3, <2>1, GoneTo
    <2>3. lock[req[r].key] = Null /\ lock' = [lock EXCEPT ![req[r].key] = r]
      BY <1>3 DEF Redis!acquireLock, Redis!held
    <2>4. Redis!TypeOK'
      BY <1>2, <2>3 DEF TypeOK, Redis!TypeOK
    <2> QED BY <1>1, <1>2, <2>2, <2>3, <2>4 DEF TypeOK, acquire, noFault, Attempt
  <1>4. CASE finish(r) /\ UNCHANGED lock
    <2>1. /\ ReqTypeOK'
          /\ \A s \in Request : req'[s] = IF s = r THEN NoRequest ELSE req[s]
      BY <1>1, <1>4, Finished
    <2> QED BY <1>2, <1>4, <2>1 DEF TypeOK, Redis!TypeOK, acquire, noFault
  <1> QED BY <1>3, <1>4 DEF acquire

\* The steps of no request.
KeyStep == \E k \in Key :
  cacheLost(k) \/ lockExpires(k) \/ slowHandler(k) \/ cleanupExpiredKey(k)

LEMMA NextSteps ==
  ASSUME [Next]_vars
  PROVE  \/ \E r \in Request, k \in Key : lookup(r, k)
         \/ \E r \in Request : acquire(r)
         \/ \E r \in Request : WorkStep(r) \/ createPayment(r)
         \/ KeyStep
         \/ UNCHANGED vars
  BY DEF Next, afterLookup, WorkStep, KeyStep

\* Every step keeps the types.
LEMMA TypeStep ==
  ASSUME TypeOK, [Next]_vars
  PROVE  TypeOK'
  <1>1. ASSUME NEW r \in Request, WorkStep(r) \/ createPayment(r)
        PROVE  TypeOK'
    <2>1. ReqTypeOK'
      BY <1>1, Narrowing
    <2> QED BY <1>1, <2>1, RestType DEF TypeOK
  <1>2. CASE KeyStep
    <2>1. ReqTypeOK'
      BY <1>2 DEF KeyStep, cacheLost, lockExpires, slowHandler, cleanupExpiredKey,
                  TypeOK, ReqTypeOK
    <2>2. lock' \in [Key -> Request \cup {Null}] /\ cache' \in [Key -> Nat] /\ made' = made
      BY <1>2 DEF KeyStep, cacheLost, lockExpires, slowHandler, cleanupExpiredKey,
                  Redis!expire, Redis!TypeOK, TypeOK
    <2>3. row' \in [Key -> [here : BOOLEAN, body : Nat]]
      <3>1. \/ row' = row
            \/ \E k \in Key : row' = [row EXCEPT ![k] = [here |-> FALSE, body |-> 0]]
        BY <1>2 DEF KeyStep, cacheLost, lockExpires, slowHandler, cleanupExpiredKey
      <3>2. [here |-> FALSE, body |-> 0] \in [here : BOOLEAN, body : Nat]
        OBVIOUS
      <3> QED BY <3>1, <3>2 DEF TypeOK
    <2>4. suffered' \subseteq FaultKind /\ faults' \in 0 .. MaxFaults
      BY <1>2, IdempotencyAssumption, MaxFaultsAssumption
      DEF KeyStep, cacheLost, lockExpires, slowHandler, cleanupExpiredKey, suffer,
          noFault, Fault, TypeOK
    <2> QED BY <2>1, <2>2, <2>3, <2>4 DEF TypeOK, Redis!TypeOK
  <1>3. CASE UNCHANGED vars
    BY <1>3 DEF vars, TypeOK, ReqTypeOK, Redis!TypeOK
  <1> QED BY <1>1, <1>2, <1>3, Arrived, Acquired, NextSteps

---------------------------------------------------------------------------
(* One request at work on a key.                                           *)

LEMMA NoneForgotten == [Next]_vars => suffered \subseteq suffered'
  BY DEF Next, afterLookup, vars, lookup, acquire, findRow, register, precheckFails,
         createPayment, paymentRefused, enqueueFails, storeRow, storeCache,
         storeFails, release, releaseFails, requestDies, cacheLost,
         lockExpires, slowHandler, cleanupExpiredKey, suffer, noFault

\* The holder's token stays in its lock.
LEMMA ExclusiveStep ==
  ASSUME TypeOK, Exclusive, [Next]_vars
  PROVE  Exclusive'
  <1> SUFFICES ASSUME "slowHandler" \notin suffered',
                      NEW s \in Request, NEW k \in Key, holds(s, k)'
               PROVE  lock'[k] = s
    BY DEF Exclusive
  <1>1. holds(s, k) => lock[k] = s
    BY NoneForgotten DEF Exclusive
  <1>2. ASSUME NEW r \in Request, NEW l \in Key, lookup(r, l)
        PROVE  lock'[k] = s
    BY <1>1, <1>2, Arrived DEF lookup, holds, HoldingPc
  <1>3. ASSUME NEW r \in Request, acquire(r)
        PROVE  lock'[k] = s
    <2>1. lock \in [Key -> Request \cup {Null}]
      BY DEF TypeOK, Redis!TypeOK
    <2>2. s # r => holds(s, k)
      BY <1>3, Acquired DEF holds
    <2>3. CASE s = r
      BY <1>3, <2>1, <2>3, Acquired DEF holds, HoldingPc, NoRequest
    <2>4. CASE s # r
      BY <1>1, <1>3, <2>1, <2>2, <2>4, Acquired, IdempotencyAssumption
    <2> QED BY <2>3, <2>4
  <1>4. ASSUME NEW r \in Request, WorkStep(r) \/ createPayment(r)
        PROVE  lock'[k] = s
    <2>1. holds(s, k)
      BY <1>4, Narrowing DEF Narrows, holds
    <2>2. CASE release(r)
      <3>1. ReqTypeOK /\ mayClose(r) /\ leave(r)
        BY <2>2 DEF release, TypeOK
      <3>2. s # r
        BY <3>1, Left DEF holds, HoldingPc, NoRequest
      <3> QED BY <1>1, <2>1, <2>2, <3>2 DEF release, Redis!releaseLock, TypeOK, Redis!TypeOK
    <2>3. CASE ~ release(r)
      BY <1>1, <1>4, <2>1, <2>3
         DEF WorkStep, findRow, register, precheckFails, createPayment, paymentRefused,
             enqueueFails, storeRow, storeCache, storeFails, releaseFails, requestDies
    <2> QED BY <2>2, <2>3
  <1>5. CASE KeyStep
    <2>1. holds(s, k)
      BY <1>5 DEF KeyStep, cacheLost, lockExpires, slowHandler, cleanupExpiredKey, holds
    <2> QED BY <1>1, <1>5, <2>1
            DEF KeyStep, cacheLost, lockExpires, slowHandler, cleanupExpiredKey,
                suffer, Redis!expire, TypeOK, Redis!TypeOK
  <1>6. CASE UNCHANGED vars
    BY <1>1, <1>6 DEF vars, holds
  <1> QED BY <1>2, <1>3, <1>4, <1>5, <1>6, NextSteps

LEMMA Alone ==
  ASSUME Exclusive, "slowHandler" \notin suffered,
         NEW r \in Request, NEW s \in Request, NEW k \in Key, holds(r, k), holds(s, k)
  PROVE  r = s
  BY DEF Exclusive

---------------------------------------------------------------------------
(* One payment per key.                                                    *)

LEMMA Elsewhere ==
  ASSUME NEW r \in Request,
         \A s \in Request \ {r} : req'[s] = req[s],
         \A s \in Request \ {r} :
           row[req[s].key].here => row'[req[s].key].here,
         \A s \in Request \ {r} :
           req[s].pc \in {"unregistered", "running"} =>
             made'[req[s].key] = made[req[s].key],
         \A s \in Request : InOrder(s)
  PROVE  \A s \in Request \ {r} : InOrder(s)'
  BY DEF InOrder, at

LEMMA StillRemembered ==
  ASSUME NEW k \in Key, Remembered(k), made'[k] = made[k],
         row[k].body # 0 => row'[k].body # 0,
         \A r \in Request : writesRow(r, k) => writesRow(r, k)' \/ row'[k].body # 0
  PROVE  Remembered(k)'
  BY DEF Remembered

\* Only the request itself changes, and it does not write the row.
LEMMA QuietStep ==
  ASSUME NEW r \in Request, \A s \in Request : InOrder(s),
         \A k \in Key : Remembered(k),
         \A s \in Request \ {r} : req'[s] = req[s],
         UNCHANGED <<row, made>>, InOrder(r)',
         \A k \in Key : writesRow(r, k) => writesRow(r, k)'
  PROVE  /\ \A s \in Request : InOrder(s)'
         /\ \A k \in Key : Remembered(k)'
  <1>1. \A s \in Request \ {r} : InOrder(s)'
    BY Elsewhere
  <1>2. ASSUME NEW k \in Key
        PROVE  Remembered(k)'
    BY StillRemembered DEF writesRow, at
  <1> QED BY <1>1, <1>2

\* The payment of a key is made by the one request at work on it, which finds
\* none made before and leaves its number in the row.
LEMMA OrderlyStep ==
  ASSUME TypeOK, Exclusive, Orderly, [Next]_vars
  PROVE  Orderly'
  <1> DEFINE Good == /\ \A r \in Request : InOrder(r)
                     /\ \A k \in Key : Remembered(k)
  <1> SUFFICES ASSUME suffered' \subseteq Tolerated
               PROVE  Good'
    BY DEF Orderly
  <1>1. Good /\ suffered \subseteq Tolerated /\ "slowHandler" \notin suffered
    BY NoneForgotten DEF Orderly, Tolerated
  <1>a. /\ ReqTypeOK /\ row \in [Key -> [here : BOOLEAN, body : Nat]]
        /\ made \in [Key -> Nat]
    BY DEF TypeOK
  <1>2. ASSUME NEW r \in Request, NEW k \in Key, lookup(r, k)
        PROVE  Good'
    <2>1. InOrder(r)'
      BY <1>2, Arrived DEF InOrder, at
    <2> QED BY <1>1, <1>2, <2>1, Arrived, QuietStep DEF lookup, writesRow, at
  <1>3. ASSUME NEW r \in Request, acquire(r)
        PROVE  Good'
    <2>1. at(r, "missed") /\ req[r].todo = {}
      BY <1>1, <1>3 DEF acquire, InOrder, at
    <2>2. InOrder(r)'
      BY <1>3, <2>1, Acquired DEF InOrder, at, NoRequest
    <2> QED BY <1>1, <1>3, <2>1, <2>2, Acquired, QuietStep DEF acquire, writesRow, at
  <1>4. ASSUME NEW r \in Request, NEW from \in HoldingPc \ {"storing"}, at(r, from),
               NEW pc \in HoldingPc \ {"broken", "storing"}, goto(r, pc),
               pc = "unregistered" => made[req[r].key] = 0,
               pc = "running" => made[req[r].key] = 0 /\ row'[req[r].key].here,
               UNCHANGED made,
               \A k \in Key : (row[k].here => row'[k].here) /\ row'[k].body = row[k].body
        PROVE  Good'
    <2>1. ~ at(r, "idle") /\ pc \in RequestPc \ {"idle"} /\ req[r] \in Attempt
      BY <1>a, <1>4 DEF at, RequestPc, HoldingPc, ReqTypeOK
    <2>2. \A s \in Request :
            req'[s] = IF s = r THEN [req[r] EXCEPT !.pc = pc] ELSE req[s]
      BY <1>a, <1>4, <2>1, GoneTo
    <2>3. req[r].todo = {}
      BY <1>1, <1>4 DEF InOrder, at
    <2>4. /\ req'[r].pc = pc /\ req'[r].key = req[r].key
          /\ req'[r].payment = req[r].payment /\ req'[r].todo = {}
      BY <2>1, <2>2, <2>3 DEF Attempt
    <2>5. InOrder(r)'
      BY <1>4, <2>4 DEF InOrder, at, HoldingPc
    <2>6. \A s \in Request \ {r} : InOrder(s)'
      <3>1. \A s \in Request :
              row[req[s].key].here /\ req[s].pc \in {"running", "storing"} =>
                row'[req[s].key].here
        BY <1>a, <1>4 DEF ReqTypeOK, NoRequest
      <3> QED BY <1>1, <1>4, <2>2, <3>1 DEF InOrder, at
    <2>7. \A k \in Key : Remembered(k)'
      BY <1>1, <1>4, <2>2, <2>3, StillRemembered DEF writesRow, at
    <2> QED BY <2>5, <2>6, <2>7
  <1>5. ASSUME NEW r \in Request, findRow(r)
        PROVE  Good'
    <2>1. at(r, "locked") /\ holds(r, req[r].key) /\ req[r].key \in Key
      BY <1>a, <1>5, KeyOf DEF findRow, at, holds, HoldingPc
    <2>2. CASE goto(r, "closing")
      BY <1>4, <1>5, <2>1, <2>2 DEF findRow, HoldingPc
    <2>3. CASE row[req[r].key].body = 0 /\ goto(r, "unregistered")
      <3>1. ASSUME NEW s \in Request, writesRow(s, req[r].key)
            PROVE  FALSE
        <4>1. s = r
          BY <1>1, <2>1, <3>1, Alone DEF writesRow, holds, at, HoldingPc
        <4> QED BY <2>1, <3>1, <4>1 DEF writesRow, at
      <3>2. made[req[r].key] = 0
        BY <1>1, <2>1, <2>3, <3>1 DEF Remembered
      <3> QED BY <1>4, <1>5, <2>1, <2>3, <3>2 DEF findRow, HoldingPc
    <2> QED BY <1>5, <2>2, <2>3 DEF findRow
  <1>6. ASSUME NEW r \in Request, register(r)
        PROVE  Good'
    <2>1. at(r, "unregistered") /\ req[r].key \in Key
      BY <1>a, <1>6, KeyOf DEF register, at
    <2>2. made[req[r].key] = 0
      BY <1>1, <2>1 DEF InOrder, at
    <2>3. \A k \in Key : /\ row[k].here => row'[k].here
                         /\ row'[k].body = row[k].body
                         /\ row'[req[r].key].here
      BY <1>a, <1>6, <2>1 DEF register
    <2> QED BY <1>4, <1>6, <2>1, <2>2, <2>3 DEF register, HoldingPc
  <1>7. ASSUME NEW r \in Request, paymentRefused(r)
        PROVE  Good'
    BY <1>4, <1>7 DEF paymentRefused, HoldingPc
  <1>8. ASSUME NEW r \in Request, createPayment(r)
        PROVE  Good'
    <2>a. PICK k \in Key : k = req[r].key
      BY <1>a, <1>8, KeyOf DEF createPayment, at
    <2>1. at(r, "running") /\ holds(r, k)
      BY <1>8, <2>a DEF createPayment, at, holds, HoldingPc
    <2>2. made[k] = 0 /\ row[k].here /\ row' = row /\ made' = [made EXCEPT ![k] = 1]
      <3>1. made[k] = 0 /\ row[k].here
        BY <1>1, <2>a, <2>1 DEF InOrder, at
      <3> QED BY <1>8, <2>a, <3>1 DEF createPayment
    <2>3. /\ \A s \in Request \ {r} : req'[s] = req[s]
          /\ req'[r].pc = "storing" /\ req'[r].key = k
          /\ req'[r].payment = 1 /\ req'[r].todo = Store
      BY <1>a, <1>8, <2>a, <2>2 DEF createPayment, ReqTypeOK
    <2>4. InOrder(r)'
      BY <2>2, <2>3 DEF InOrder, at
    <2>5. ASSUME NEW s \in Request \ {r}, req[s].pc \in {"unregistered", "running"}
          PROVE  made'[req[s].key] = made[req[s].key]
      <3>1. req[s].key \in Key
        BY <1>a, <2>5, KeyOf DEF at
      <3>2. holds(s, req[s].key)
        BY <2>5 DEF holds, HoldingPc
      <3>3. req[s].key # k
        BY <1>1, <2>1, <3>1, <3>2, Alone
      <3> QED BY <1>a, <2>1, <2>2, <3>1, <3>3
    <2>6. \A s \in Request \ {r} : InOrder(s)'
      BY <1>1, <2>2, <2>3, <2>5, Elsewhere
    <2>7. Remembered(k)'
      BY <1>a, <2>1, <2>2, <2>3 DEF Remembered, writesRow, at, Store
    <2>8. ASSUME NEW l \in Key, l # k
          PROVE  Remembered(l)'
      BY <1>1, <1>a, <2>1, <2>2, <2>3, <2>8, StillRemembered DEF writesRow, at
    <2> QED BY <2>4, <2>6, <2>7, <2>8
  <1>9. ASSUME NEW r \in Request, storeRow(r)
        PROVE  Good'
    <2>1. /\ at(r, "storing") /\ "row" \in req[r].todo
          /\ req[r].payment # 0 /\ row[req[r].key].here
      BY <1>1, <1>9 DEF storeRow, InOrder, at
    <2>2. /\ req[r].key \in Key
          /\ \A s \in Request \ {r} : req'[s] = req[s]
          /\ req'[r].pc = req[r].pc /\ req'[r].key = req[r].key
          /\ req'[r].payment = req[r].payment /\ req'[r].todo = req[r].todo \ {"row"}
      BY <1>a, <1>9, <2>1, WriteEnded DEF storeRow, at
    <2>3. /\ made' = made
          /\ row' = [row EXCEPT ![req[r].key].body = req[r].payment]
      BY <1>9, <2>1 DEF storeRow
    <2>4. \A k \in Key : /\ row'[k].here = row[k].here
                         /\ row'[k].body = IF k = req[r].key THEN req[r].payment ELSE row[k].body
      BY <1>a, <2>2, <2>3
    <2>5. InOrder(r)'
      BY <2>1, <2>2, <2>4 DEF InOrder, at
    <2>6. \A s \in Request \ {r} : InOrder(s)'
      <3>1. \A s \in Request : req[s].pc \in {"running", "storing"} => req[s].key \in Key
        BY <1>a DEF ReqTypeOK, NoRequest
      <3> QED BY <1>1, <2>2, <2>3, <2>4, <3>1 DEF InOrder, at
    <2>7. ASSUME NEW k \in Key
          PROVE  Remembered(k)'
      BY <1>1, <2>1, <2>2, <2>3, <2>4, StillRemembered DEF writesRow, at
    <2> QED BY <2>5, <2>6, <2>7
  <1>10. ASSUME NEW r \in Request, storeCache(r)
         PROVE  Good'
    <2>1. at(r, "storing") /\ "cache" \in req[r].todo
      BY <1>1, <1>10 DEF storeCache, InOrder, at
    <2>2. /\ \A s \in Request \ {r} : req'[s] = req[s]
          /\ req'[r].pc = req[r].pc /\ req'[r].key = req[r].key
          /\ req'[r].payment = req[r].payment /\ req'[r].todo = req[r].todo \ {"cache"}
      BY <1>a, <1>10, <2>1, WriteEnded DEF storeCache, at
    <2>3. UNCHANGED <<row, made>>
      BY <1>10 DEF storeCache
    <2>4. InOrder(r)'
      BY <1>1, <2>1, <2>2, <2>3 DEF InOrder, at
    <2> QED BY <1>1, <2>2, <2>3, <2>4, QuietStep DEF writesRow, at
  <1>11. ASSUME NEW r \in Request, release(r) \/ releaseFails(r)
         PROVE  Good'
    <2>1. mayClose(r) /\ leave(r) /\ UNCHANGED <<row, made>>
      BY <1>11 DEF release, releaseFails
    <2>2. req[r].todo = {}
      BY <1>1, <2>1 DEF mayClose, InOrder, at
    <2>3. \A s \in Request : req'[s] = IF s = r THEN NoRequest ELSE req[s]
      BY <1>a, <2>1, <2>2, Finished DEF leave
    <2>4. InOrder(r)'
      BY <2>3 DEF InOrder, NoRequest, at
    <2> QED BY <1>1, <2>1, <2>2, <2>3, <2>4, QuietStep DEF writesRow
  <1>12. ASSUME NEW r \in Request,
                precheckFails(r) \/ enqueueFails(r) \/ storeFails(r) \/ requestDies(r)
         PROVE  FALSE
    BY <1>12 DEF precheckFails, enqueueFails, storeFails, requestDies, suffer, Tolerated
  <1>13. CASE KeyStep
    <2>1. UNCHANGED <<req, row, made>>
      BY <1>1, <1>13 DEF KeyStep, cacheLost, lockExpires, slowHandler,
                         cleanupExpiredKey, suffer, Tolerated
    <2> QED BY <1>1, <2>1 DEF InOrder, Remembered, writesRow, at
  <1>14. CASE UNCHANGED vars
    BY <1>1, <1>14 DEF vars, InOrder, Remembered, writesRow, at
  <1>15. ASSUME NEW r \in Request, WorkStep(r) \/ createPayment(r)
         PROVE  Good'
    BY <1>5, <1>6, <1>7, <1>8, <1>9, <1>10, <1>11, <1>12, <1>15 DEF WorkStep
  <1> QED BY <1>2, <1>3, <1>13, <1>14, <1>15, NextSteps

---------------------------------------------------------------------------
LEMMA Start == Init => IInv
  BY IdempotencyAssumption, MaxFaultsAssumption
     DEF Init, IInv, TypeOK, ReqTypeOK, Attempt, NoRequest, RequestPc, HoldingPc,
         Redis!Init, Redis!TypeOK, Exclusive, Orderly, InOrder, Remembered, holds, at

LEMMA Invariant == Spec => []IInv
  <1>1. IInv /\ [Next]_vars => IInv'
    BY TypeStep, ExclusiveStep, OrderlyStep DEF IInv
  <1> QED BY Start, <1>1, PTL DEF Spec

\* However many requests come with a key, and whatever fails but a lock lost
\* under its holder: one of them is at work.
THEOREM Exclusion == Spec => []OneAtWork
  <1>1. IInv => OneAtWork
    BY DEF IInv, Exclusive, OneAtWork
  <1> QED BY Invariant, <1>1, PTL

\* However often a request is repeated, and however often Redis loses records
\* or a lock is left to its TTL: one payment per key.
THEOREM OnePayment == Spec => []OnePaymentPerKey
  <1>1. IInv => OnePaymentPerKey
    BY DEF IInv, Orderly, Remembered, OnePaymentPerKey
  <1> QED BY Invariant, <1>1, PTL
=============================================================================
