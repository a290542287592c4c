--------------------------- MODULE CheckoutProofs ---------------------------
(***************************************************************************)
(* Theorems about Checkout, for any number of calls, keys and orders: the  *)
(* browser and the server together keep what Idempotency keeps, and what   *)
(* the form tells its user.                                                *)
(***************************************************************************)
EXTENDS Checkout, IdempotencyProofs

\* Before the handler has answered.
Early == {"missed", "locked", "unregistered", "running"}

sent(r) == call[r].pc # "none"

Among(C, k, n) == \E c \in C : c.key = k /\ c.payment = n

Recorded(k, n) == Among(charges, k, n)

\* The types, and what is known of a call that was sent and of a receipt.
Typed ==
  /\ CheckoutTypeOK
  /\ \A r \in Request : sent(r) => call[r].key \in Key /\ call[r].order \in Order
  /\ receipt # NoReceipt => receipt.key \in Key /\ receipt.order \in Order

\* The interceptor works on a key for a call that came with it.
Served ==
  \A r \in Request :
    req[r].pc \in Early => call[r].pc = "served" /\ call[r].key = req[r].key

\* Whatever is stored or told of a payment, it was made under that key.
Told ==
  /\ \A k \in Key : cache[k] # 0 => Recorded(k, cache[k])
  /\ \A k \in Key : row[k].body # 0 => Recorded(k, row[k].body)
  /\ \A r \in Request : req[r].payment # 0 => Recorded(req[r].key, req[r].payment)
  /\ \A r \in Request : call[r].pc = "answered" => Recorded(call[r].key, call[r].payment)
  /\ receipt # NoReceipt => Recorded(receipt.key, receipt.payment)

---------------------------------------------------------------------------
(* A step of the interceptor, as far as the calls are concerned.           *)

Moves(r) ==
  /\ req'[r].pc \in Early => req[r].pc \in Early /\ req'[r].key = req[r].key
  /\ at(r, "running") /\ req'[r].pc = "storing" =>
       /\ req'[r].payment = made'[req[r].key]
       /\ made'[req[r].key] # made[req[r].key]
  /\ at(r, "locked") /\ req'[r].pc = "closing" => row[req[r].key].body # 0
  /\ req'[r].payment # 0 =>
       /\ req'[r].key = req[r].key
       /\ \/ req'[r].payment = req[r].payment
          \/ at(r, "running") /\ req'[r].pc = "storing"

LEMMA StandsStill ==
  ASSUME NEW r \in Request, req'[r] = req[r]
  PROVE  Moves(r)
  BY DEF Moves, at

LEMMA Ends ==
  ASSUME NEW r \in Request, req'[r] = NoRequest
  PROVE  Moves(r)
  BY DEF Moves, NoRequest, Early

\* A step from one pc to another.
LEMMA Goes ==
  ASSUME ReqTypeOK, NEW r \in Request, ~ at(r, "idle"),
         NEW pc \in RequestPc \ {"idle", "storing"}, goto(r, pc),
         pc \in Early => req[r].pc \in Early,
         at(r, "locked") /\ pc = "closing" => row[req[r].key].body # 0
  PROVE  Moves(r)
  <1>1. req'[r] = [req[r] EXCEPT !.pc = pc] /\ req[r] \in Attempt
    BY GoneTo DEF ReqTypeOK
  <1>2. req'[r].pc = pc /\ req'[r].key = req[r].key /\ req'[r].payment = req[r].payment
    BY <1>1 DEF Attempt
  <1> QED BY <1>2 DEF Moves

LEMMA Moving ==
  ASSUME TypeOK, afterLookup, NEW r \in Request
  PROVE  Moves(r)
  <1>a. ReqTypeOK
    BY DEF TypeOK
  <1> USE DEF at, Early, RequestPc, HoldingPc
  <1>1. ASSUME NEW s \in Request, acquire(s) PROVE Moves(r)
    <2>1. ~ at(s, "idle")
      BY <1>1 DEF acquire
    <2>2. CASE s # r
      <3>1. req'[r] = req[r]
        BY <1>a, <1>1, <2>1, <2>2, GoneTo, Finished DEF acquire
      <3> QED BY <3>1, StandsStill
    <2>3. CASE s = r /\ goto(r, "locked")
      BY <1>a, <1>1, <2>3, Goes DEF acquire
    <2>4. CASE s = r /\ finish(r)
      BY <1>a, <2>4, Finished, Ends
    <2> QED BY <1>1, <2>2, <2>3, <2>4 DEF acquire
  <1>2. ASSUME NEW s \in Request \ {r}, WorkStep(s) \/ createPayment(s)
        PROVE  Moves(r)
    <2>1. req'[r] = req[r]
      BY <1>2, Narrowing DEF Narrows
    <2> QED BY <2>1, StandsStill
  <1>3. CASE findRow(r)
    BY <1>a, <1>3, Goes DEF findRow
  <1>4. CASE register(r)
    BY <1>a, <1>4, Goes DEF register
  <1>5. CASE precheckFails(r)
    BY <1>a, <1>5, Goes DEF precheckFails
  <1>6. CASE paymentRefused(r)
    BY <1>a, <1>6, Goes DEF paymentRefused
  <1>7. CASE enqueueFails(r)
    BY <1>a, <1>7, Goes DEF enqueueFails
  <1>8. CASE storeRow(r) \/ storeCache(r)
    <2>1. \/ req'[r] = NoRequest
          \/ /\ req'[r].pc = req[r].pc /\ req'[r].key = req[r].key
             /\ req'[r].payment = req[r].payment
      BY <1>a, <1>8, WriteEnded DEF storeRow, storeCache
    <2> QED BY <2>1, Ends DEF Moves
  <1>9. CASE storeFails(r)
    <2>1. \/ req'[r] = NoRequest
          \/ /\ req'[r].key = req[r].key /\ req'[r].payment = req[r].payment
             /\ req'[r].pc # req[r].pc => at(r, "storing") /\ req'[r].pc = "broken"
      BY <1>a, <1>9, WriteFailed
    <2> QED BY <2>1, Ends DEF Moves
  <1>10. CASE release(r) \/ releaseFails(r)
    <2>1. mayClose(r) /\ leave(r)
      BY <1>10 DEF release, releaseFails
    <2>2. \/ req'[r] = NoRequest
          \/ /\ req'[r].pc = "unlocked"
             /\ req'[r].key = req[r].key /\ req'[r].payment = req[r].payment
      BY <1>a, <2>1, Left
    <2> QED BY <2>2, Ends DEF Moves
  <1>11. CASE requestDies(r)
    BY <1>a, <1>11, Finished, Ends DEF requestDies
  <1>12. CASE createPayment(r)
    <2>1. /\ at(r, "running") /\ req[r].key \in Key
          /\ made' = [made EXCEPT ![req[r].key] = made[req[r].key] + 1]
          /\ req'[r] = [pc |-> "storing", key |-> req[r].key,
                        payment |-> made[req[r].key] + 1, todo |-> Store]
      BY <1>a, <1>12, KeyOf DEF createPayment, ReqTypeOK
    <2>2. made'[req[r].key] = made[req[r].key] + 1 /\ made[req[r].key] \in Nat
      BY <2>1 DEF TypeOK
    <2> QED BY <2>1, <2>2 DEF Moves
  <1>13. CASE KeyStep
    <2>1. req' = req
      BY <1>13 DEF KeyStep, cacheLost, lockExpires, slowHandler, cleanupExpiredKey
    <2> QED BY <2>1, StandsStill
  <1> QED BY <1>1, <1>2, <1>3, <1>4, <1>5, <1>6, <1>7, <1>8, <1>9, <1>10, <1>11,
             <1>12, <1>13 DEF afterLookup, WorkStep, KeyStep

\* What is stored was stored before, or is what the row or a request remembers.
LEMMA Storing ==
  ASSUME TypeOK, afterLookup, NEW k \in Key
  PROVE  /\ made'[k] \in Nat /\ made[k] \in Nat /\ made'[k] >= made[k]
         /\ cache'[k] # 0 =>
              \/ cache'[k] \in {cache[k], row[k].body}
              \/ \E r \in Request : req[r].key = k /\ cache'[k] = req[r].payment
         /\ row'[k].body # 0 =>
              \/ row'[k].body = row[k].body
              \/ \E r \in Request : req[r].key = k /\ row'[k].body = req[r].payment
  <1>a. ReqTypeOK
    BY DEF TypeOK
  <1>b. /\ cache \in [Key -> Nat] /\ made \in [Key -> Nat]
        /\ row \in [Key -> [here : BOOLEAN, body : Nat]]
    BY DEF TypeOK
  <1>c. made[k] \in Nat
    BY <1>b
  <1>1. CASE \E r \in Request : acquire(r)
    BY <1>1, <1>c DEF acquire
  <1>2. ASSUME NEW r \in Request, findRow(r)
        PROVE  /\ UNCHANGED <<made, row>>
               /\ cache' \in {cache, [cache EXCEPT ![req[r].key] = row[req[r].key].body]}
    BY <1>2 DEF findRow
  <1>3. ASSUME NEW r \in Request, register(r)
        PROVE  /\ UNCHANGED <<made, cache>>
               /\ row' = [row EXCEPT ![req[r].key].here = TRUE]
    BY <1>3 DEF register
  <1>4. CASE \E r \in Request :
               \/ precheckFails(r) \/ paymentRefused(r) \/ storeFails(r) \/ release(r)
               \/ releaseFails(r) \/ requestDies(r)
    BY <1>4, <1>c DEF precheckFails, paymentRefused, storeFails, release, releaseFails, requestDies
  <1>5. ASSUME NEW r \in Request, createPayment(r) \/ enqueueFails(r)
        PROVE  /\ UNCHANGED <<cache, row>>
               /\ made' = [made EXCEPT ![req[r].key] = made[req[r].key] + 1]
               /\ req[r].key \in Key
    BY <1>a, <1>5, KeyOf DEF createPayment, enqueueFails, at
  <1>6. ASSUME NEW r \in Request, storeRow(r)
        PROVE  /\ UNCHANGED <<cache, made>>
               /\ row' = [row EXCEPT ![req[r].key].body =
                            IF row[req[r].key].here THEN req[r].payment ELSE @]
    BY <1>6 DEF storeRow
  <1>7. ASSUME NEW r \in Request, storeCache(r)
        PROVE  UNCHANGED <<row, made>> /\ cache' = [cache EXCEPT ![req[r].key] = req[r].payment]
    BY <1>7 DEF storeCache
  <1>8. CASE KeyStep
    BY <1>8, <1>b, <1>c DEF KeyStep, cacheLost, lockExpires, slowHandler, cleanupExpiredKey
  <1>9. CASE \E r \in Request : findRow(r)
    BY <1>2, <1>9, <1>b, <1>c
  <1>10. CASE \E r \in Request : register(r)
    <2>1. PICK r \in Request : register(r)
      BY <1>10
    <2>2. row' = [row EXCEPT ![req[r].key].here = TRUE]
      BY <1>3, <2>1
    <2>3. row'[k].body = row[k].body
      BY <1>b, <2>2
    <2>4. made' = made /\ cache' = cache
      BY <1>3, <2>1
    <2> QED BY <1>c, <2>3, <2>4
  <1>11. CASE \E r \in Request : createPayment(r) \/ enqueueFails(r)
    BY <1>5, <1>11, <1>b, <1>c
  <1>12. CASE \E r \in Request : storeRow(r)
    <2>1. PICK r \in Request : storeRow(r)
      BY <1>12
    <2>2. row' = [row EXCEPT ![req[r].key].body =
                    IF row[req[r].key].here THEN req[r].payment ELSE @]
      BY <1>6, <2>1
    <2>3. \/ row'[k].body = row[k].body
          \/ req[r].key = k /\ row'[k].body = req[r].payment
      BY <1>b, <2>2
    <2>4. made' = made /\ cache' = cache
      BY <1>6, <2>1
    <2> QED BY <1>c, <2>3, <2>4
  <1>13. CASE \E r \in Request : storeCache(r)
    BY <1>7, <1>13, <1>b, <1>c
  <1> QED BY <1>1, <1>4, <1>8, <1>9, <1>10, <1>11, <1>12, <1>13 DEF afterLookup, KeyStep

---------------------------------------------------------------------------
(* The server does what Idempotency says.                                  *)

Charged == \A c \in charges : c.payment \in 1 .. made[c.key]

Sound == IInv /\ Typed /\ Served /\ Told /\ Charged

\* The steps of the browser, and of a call that is answered without the key.
FormStep ==
  \/ \E o \in Order : edit(o)
  \/ rerender
  \/ newPayment
  \/ remount
  \/ \E r \in Request : handleSubmit(r) \/ responseArrives(r) \/ callTimesOut(r)

LEMMA FormSteps == FormStep => UNCHANGED <<serverVars, charges>>
  BY DEF FormStep, edit, rerender, newPayment, remount, handleSubmit,
         responseArrives, callTimesOut

\* A call that meets no record goes on in the interceptor.
passes(r) ==
  /\ call[r].pc = "underway"
  /\ lookup(r, call[r].key)
  /\ call' = [call EXCEPT ![r].pc = "served"]
  /\ UNCHANGED <<formVars, charges, troubled>>

\* One that finds a record is answered from it.
recalls(r) ==
  /\ call[r].pc \in {"underway", "polling"}
  /\ cache[call[r].key] # 0
  /\ call' = [call EXCEPT ![r] = answer(r, cache[call[r].key])]
  /\ UNCHANGED <<formVars, charges, troubled, serverVars>>

\* One that polled in vain is refused.
givesUp(r) ==
  /\ call[r].pc = "polling"
  /\ cache[call[r].key] = 0
  /\ call' = [call EXCEPT ![r] = refuse(r)]
  /\ UNCHANGED <<formVars, charges, troubled, serverVars>>

LEMMA CheckoutSteps ==
  ASSUME CheckoutNext
  PROVE  \/ FormStep
         \/ \E r \in Request : passes(r) \/ recalls(r) \/ givesUp(r)
         \/ serverStep
  BY DEF CheckoutNext, FormStep, callReaches, poll, passes, recalls, givesUp

LEMMA ServerSteps ==
  ASSUME Typed, [CheckoutNext]_checkoutVars
  PROVE  [Next]_vars
  <1>1. CASE FormStep
    BY <1>1, FormSteps DEF serverVars, vars
  <1>2. ASSUME NEW r \in Request, passes(r)
        PROVE  Next
    BY <1>2 DEF passes, Typed, sent, Next
  <1>3. CASE \E r \in Request : recalls(r) \/ givesUp(r)
    BY <1>3 DEF recalls, givesUp, serverVars, vars
  <1>4. CASE serverStep
    BY <1>4 DEF serverStep, Next
  <1>5. CASE UNCHANGED checkoutVars
    BY <1>5 DEF checkoutVars, serverVars, vars
  <1> QED BY <1>1, <1>2, <1>3, <1>4, <1>5, CheckoutSteps

LEMMA ServerKeeps ==
  ASSUME Typed, IInv, [CheckoutNext]_checkoutVars
  PROVE  IInv'
  BY ServerSteps, TypeStep, ExclusiveStep, OrderlyStep DEF IInv

CallRecord ==
  [pc : CallPc, awaited : BOOLEAN, key : {0} \cup Key,
   order : Order \cup {NoOrder}, visit : Nat, payment : Nat]

\* What a step of the interceptor does to a call.
LEMMA Responses ==
  ASSUME Sound, serverStep, NEW r \in Request
  PROVE  /\ \/ call'[r] = call[r]
            \/ /\ call[r].pc = "served" /\ call'[r] \in CallRecord
               /\ call'[r].pc \in {"answered", "refused", "polling"}
               /\ call'[r].key = call[r].key /\ call'[r].order = call[r].order
               /\ call'[r].visit = call[r].visit /\ call'[r].awaited = call[r].awaited
               /\ call'[r].pc = "answered" => Among(charges', call[r].key, call'[r].payment)
         /\ req'[r].pc \in Early =>
              call'[r].pc = "served" /\ call'[r].key = req'[r].key
  <1> DEFINE pc == req[r].pc
             next == req'[r].pc
             k == req[r].key
  <1>1. call[r] \in CallRecord /\ Moves(r) /\ call'[r] = response(r, pc, next)
    BY Moving DEF Sound, IInv, Typed, CheckoutTypeOK, serverStep, CallRecord
  <1>2. pc \in Early => call[r].pc = "served" /\ call[r].key = k /\ k \in Key
    <2>1. pc \in Early => k \in Key
      BY DEF Sound, IInv, TypeOK, ReqTypeOK, NoRequest, Early
    <2> QED BY <2>1 DEF Sound, Served
  <1>3. req'[r].payment \in Nat /\ (k \in Key => row[k].body \in Nat)
    <2>1. TypeOK /\ TypeOK'
      BY ServerKeeps DEF Sound, IInv, CheckoutNext
    <2> QED BY <2>1 DEF TypeOK, ReqTypeOK, Attempt
  <1>4. charges \subseteq charges'
    BY DEF serverStep
  <1>5. CASE pc = "running" /\ next = "storing"
    <2>1. call'[r] = [call[r] EXCEPT !.pc = "answered", !.payment = req'[r].payment]
      BY <1>1, <1>5 DEF response, answer
    <2>2. req'[r].payment = made'[k] /\ made'[k] # made[k] /\ req'[r] # req[r]
      BY <1>1, <1>5 DEF Moves, at
    <2>3. [key |-> k, payment |-> made'[k], order |-> call[r].order,
           visit |-> call[r].visit] \in charges'
      BY <1>5, <2>2 DEF serverStep, newCharges, at
    <2>4. Among(charges', k, req'[r].payment)
      BY <2>2, <2>3 DEF Among
    <2> QED BY <1>1, <1>2, <1>3, <1>5, <2>1, <2>4 DEF CallRecord, CallPc, Early
  <1>6. CASE pc = "locked" /\ next = "closing"
    <2>1. call'[r] = [call[r] EXCEPT !.pc = "answered", !.payment = row[k].body]
      BY <1>1, <1>6 DEF response, answer
    <2>2. row[k].body # 0
      BY <1>1, <1>6 DEF Moves, at
    <2>3. Recorded(k, row[k].body)
      BY <1>2, <1>6, <2>2 DEF Sound, Told, Early
    <2>4. \E c \in charges' : c.key = k /\ c.payment = row[k].body
      BY <1>4, <2>3 DEF Recorded, Among
    <2>5. call'[r].payment = row[k].body
      BY <1>1, <2>1 DEF CallRecord
    <2>6. Among(charges', k, call'[r].payment)
      BY <2>4, <2>5 DEF Among
    <2> QED BY <1>1, <1>2, <1>3, <1>6, <2>1, <2>6 DEF CallRecord, CallPc, Early
  <1>7. CASE /\ pc \in Early
             /\ next \in {"idle", "closing"}
             /\ ~ (pc = "locked" /\ next = "closing")
    <2>1. \/ call'[r] = [call[r] EXCEPT !.pc = "polling"]
          \/ call'[r] = [call[r] EXCEPT !.pc = "refused"]
          \/ call'[r] = call[r]
      BY <1>1, <1>7 DEF response, refuse
    <2> QED BY <1>1, <1>2, <1>7, <2>1 DEF CallRecord, CallPc, Early
  <1>8. CASE /\ ~ (pc = "running" /\ next = "storing")
             /\ ~ (pc \in Early /\ next \in {"idle", "closing"})
    <2>1. call'[r] = call[r]
      BY <1>1, <1>8 DEF response, Early
    <2>2. next \in Early => pc \in Early /\ req'[r].key = k
      BY <1>1 DEF Moves
    <2> QED BY <1>2, <2>1, <2>2
  <1> QED BY <1>5, <1>6, <1>7, <1>8 DEF Early

---------------------------------------------------------------------------
(* Every step keeps the server and the browser sound.                      *)

FormTypeOK ==
  /\ inputs \in Order
  /\ key \in 1 .. MaxKeys + 1
  /\ visit \in Nat
  /\ latest \in Request \cup {Null}
  /\ lag \in BOOLEAN
  /\ receipt \in [key : {0} \cup Key, payment : Nat, order : Order \cup {NoOrder}]
  /\ troubled \subseteq Nat

\* What became of a call when the browser did something.
WentOn(r) ==
  \/ call'[r].pc = "none" /\ req[r].pc \notin Early
  \/ /\ sent(r) /\ call'[r].pc = call[r].pc
     /\ call'[r].key = call[r].key /\ call'[r].order = call[r].order
     /\ call'[r].visit = call[r].visit /\ call'[r].payment = call[r].payment
  \/ /\ ~ sent(r) /\ call'[r].pc = "underway" /\ call'[r].key = key /\ key \in Key
     /\ call'[r].order = inputs /\ call'[r].visit = visit

Receives ==
  \/ receipt' \in {receipt, NoReceipt}
  \/ \E r \in Request :
       /\ call[r].pc = "answered"
       /\ receipt' = [key |-> call[r].key, payment |-> call[r].payment,
                      order |-> call[r].order]

LEMMA DrawnKey ==
  ASSUME key \in 1 .. MaxKeys + 1, drawKey
  PROVE  /\ key' \in 1 .. MaxKeys + 1
         /\ key' \in Key => key \in Key /\ key' = key + 1
  BY CheckoutAssumption DEF drawKey

\* The browser's steps, one by one.
LEMMA FormMoves ==
  ASSUME Sound, FormStep
  PROVE  /\ FormTypeOK' /\ call' \in [Request -> CallRecord] /\ Receives
         /\ \A r \in Request : WentOn(r)
  <1>0. /\ FormTypeOK /\ call \in [Request -> CallRecord]
        /\ \A r \in Request : sent(r) => call[r].key \in Key /\ call[r].order \in Order
    BY DEF Sound, Typed, CheckoutTypeOK, FormTypeOK, CallRecord
  <1>1. \A r \in Request : req[r].pc \in Early => call[r].pc = "served"
    BY DEF Sound, Served
  <1>2. \A r \in Request :
          /\ call'[r].pc = call[r].pc /\ call'[r].key = call[r].key
          /\ call'[r].order = call[r].order /\ call'[r].visit = call[r].visit
          /\ call'[r].payment = call[r].payment
          => WentOn(r)
    BY <1>1 DEF WentOn, sent
  <1>3. CASE rerender \/ \E o \in Order : edit(o)
    BY <1>0, <1>2, <1>3 DEF rerender, edit, FormTypeOK, Receives
  <1>4. ASSUME openForm
        PROVE  /\ inputs' \in Order /\ key' \in 1 .. MaxKeys + 1
               /\ visit' \in Nat /\ receipt' = NoReceipt
    BY <1>0, <1>4, DrawnKey DEF openForm, FormTypeOK
  <1>5. receipt' = NoReceipt =>
          Receives /\ receipt' \in [key : {0} \cup Key, payment : Nat,
                                    order : Order \cup {NoOrder}]
    BY DEF Receives, NoReceipt
  <1>6. CASE newPayment
    BY <1>0, <1>2, <1>4, <1>5, <1>6 DEF newPayment, FormTypeOK
  <1>7. CASE remount
    <2>1. call' = [r \in Request |-> [call[r] EXCEPT !.awaited = FALSE]]
      BY <1>7 DEF remount
    <2>2. ASSUME NEW r \in Request
          PROVE  /\ call'[r] \in CallRecord
                 /\ call'[r].pc = call[r].pc /\ call'[r].key = call[r].key
                 /\ call'[r].order = call[r].order /\ call'[r].visit = call[r].visit
                 /\ call'[r].payment = call[r].payment
      BY <1>0, <2>1 DEF CallRecord
    <2>3. call' \in [Request -> CallRecord] /\ \A r \in Request : WentOn(r)
      BY <1>2, <2>1, <2>2
    <2> QED BY <1>0, <1>4, <1>5, <1>7, <2>3 DEF remount, FormTypeOK
  \* One call changes.
  <1>8. ASSUME NEW r \in Request, NEW c \in CallRecord, call' = [call EXCEPT ![r] = c],
               WentOn(r)
        PROVE  call' \in [Request -> CallRecord] /\ \A s \in Request : WentOn(s)
    BY <1>0, <1>2, <1>8
  <1>9. ASSUME NEW r \in Request, handleSubmit(r)
        PROVE  /\ FormTypeOK' /\ call' \in [Request -> CallRecord] /\ Receives
               /\ \A s \in Request : WentOn(s)
    <2> DEFINE c == [pc |-> "underway", awaited |-> TRUE, key |-> key,
                     order |-> inputs, visit |-> visit, payment |-> 0]
    <2>1. key \in Key /\ call[r] = NoCall /\ call' = [call EXCEPT ![r] = c]
      BY <1>9 DEF handleSubmit, mayClick, send
    <2>2. c \in CallRecord
      BY <1>0, <2>1 DEF CallRecord, CallPc, FormTypeOK
    <2>3. WentOn(r)
      BY <1>0, <2>1 DEF WentOn, sent, NoCall
    <2> QED BY <1>0, <1>8, <1>9, <2>1, <2>2, <2>3
            DEF handleSubmit, FormTypeOK, Receives
  <1>10. ASSUME NEW r \in Request, fail(r)
         PROVE  key' \in 1 .. MaxKeys + 1 /\ troubled' \subseteq Nat /\ receipt' = receipt
    BY <1>0, <1>10, DrawnKey DEF fail, FormTypeOK, CallRecord
  <1>11. ASSUME NEW r \in Request, responseArrives(r)
         PROVE  /\ FormTypeOK' /\ call' \in [Request -> CallRecord] /\ Receives
                /\ \A s \in Request : WentOn(s)
    <2>1. call[r].pc \in {"answered", "refused"} /\ call' = [call EXCEPT ![r] = NoCall]
      BY <1>11 DEF responseArrives
    <2>2. NoCall \in CallRecord
      BY DEF NoCall, CallRecord, CallPc
    <2>3. WentOn(r)
      BY <1>0, <1>1, <2>1 DEF WentOn, NoCall
    <2>4. call' \in [Request -> CallRecord] /\ \A s \in Request : WentOn(s)
      BY <1>8, <2>1, <2>2, <2>3
    <2>5. UNCHANGED <<inputs, visit, latest, lag>>
      BY <1>11 DEF responseArrives
    <2>6. CASE UNCHANGED <<key, receipt, troubled>>
      BY <1>0, <2>4, <2>5, <2>6 DEF FormTypeOK, Receives
    <2>7. CASE fail(r)
      BY <1>0, <1>10, <2>4, <2>5, <2>7 DEF FormTypeOK, Receives
    <2>8. CASE /\ call[r].pc = "answered" /\ UNCHANGED <<key, troubled>>
               /\ receipt' = [key |-> call[r].key, payment |-> call[r].payment,
                              order |-> call[r].order]
      <3>1. receipt' \in [key : {0} \cup Key, payment : Nat, order : Order \cup {NoOrder}]
        BY <1>0, <2>8 DEF CallRecord
      <3> QED BY <1>0, <2>4, <2>5, <2>8, <3>1 DEF FormTypeOK, Receives
    <2> QED BY <1>11, <2>1, <2>6, <2>7, <2>8 DEF responseArrives
  <1>12. ASSUME NEW r \in Request, callTimesOut(r)
         PROVE  /\ FormTypeOK' /\ call' \in [Request -> CallRecord] /\ Receives
                /\ \A s \in Request : WentOn(s)
    <2> DEFINE c == [call[r] EXCEPT !.awaited = FALSE]
    <2>1. call' = [call EXCEPT ![r] = c] /\ fail(r)
      BY <1>0, <1>12 DEF callTimesOut
    <2>2. /\ c \in CallRecord /\ c.pc = call[r].pc /\ c.key = call[r].key
          /\ c.order = call[r].order /\ c.visit = call[r].visit
          /\ c.payment = call[r].payment
      BY <1>0 DEF CallRecord
    <2> HIDE DEF c
    <2>3. call'[r] = c
      BY <1>0, <2>1
    <2>4. WentOn(r)
      BY <1>2, <2>2, <2>3
    <2>5. call' \in [Request -> CallRecord] /\ \A s \in Request : WentOn(s)
      BY <1>8, <2>1, <2>2, <2>4
    <2> QED BY <1>0, <1>10, <1>12, <2>1, <2>5 DEF callTimesOut, FormTypeOK, Receives
  <1> QED BY <1>3, <1>6, <1>7, <1>9, <1>11, <1>12 DEF FormStep

LEMMA FormSound ==
  ASSUME Sound, FormStep
  PROVE  Sound'
  <1>1. /\ UNCHANGED <<req, lock, cache, row, made, suffered, faults, charges>>
        /\ FormTypeOK' /\ call' \in [Request -> CallRecord] /\ Receives
        /\ \A r \in Request : WentOn(r)
    BY FormSteps, FormMoves DEF serverVars
  <1>2. IInv'
    BY ServerKeeps DEF Sound, FormStep, CheckoutNext
  <1>3. inputs \in Order
    BY DEF Sound, Typed, CheckoutTypeOK
  <1>4. Typed'
    <2>1. CheckoutTypeOK'
      BY <1>1, <1>2 DEF Sound, Typed, CheckoutTypeOK, FormTypeOK, CallRecord, IInv
    <2>2. \A r \in Request : sent(r)' => call'[r].key \in Key /\ call'[r].order \in Order
      BY <1>1, <1>3 DEF Sound, Typed, WentOn, sent
    <2>3. receipt' # NoReceipt => receipt'.key \in Key /\ receipt'.order \in Order
      BY <1>1 DEF Sound, Typed, Receives, sent
    <2> QED BY <2>1, <2>2, <2>3 DEF Typed, NoReceipt
  <1>5. Served'
    BY <1>1 DEF Sound, Served, WentOn, sent, Early
  <1>6. \A k, n : Recorded(k, n)' <=> Recorded(k, n)
    BY <1>1 DEF Recorded, Among
  <1>7. Told'
    <2>1. \A r \in Request :
            call'[r].pc = "answered" => Recorded(call'[r].key, call'[r].payment)
      BY <1>1 DEF Sound, Told, WentOn
    <2>2. receipt' # NoReceipt => Recorded(receipt'.key, receipt'.payment)
      BY <1>1 DEF Sound, Told, Receives
    <2> QED BY <1>1, <1>6, <2>1, <2>2 DEF Sound, Told, Recorded, NoReceipt
  <1>8. Charged'
    BY <1>1 DEF Sound, Charged
  <1> QED BY <1>2, <1>4, <1>5, <1>7, <1>8 DEF Sound

\* A call on its way to the server or back keeps what it carries.
LEMMA CallMoves ==
  ASSUME Sound, NEW r \in Request, passes(r) \/ recalls(r) \/ givesUp(r)
  PROVE  \E c \in CallRecord :
           /\ call' = [call EXCEPT ![r] = c]
           /\ c.pc # "none" /\ c.key = call[r].key /\ c.order = call[r].order
           /\ c.visit = call[r].visit /\ c.awaited = call[r].awaited
           /\ passes(r) => c.pc = "served"
           /\ c.pc = "answered" => Recorded(c.key, c.payment)
  <1>1. /\ call \in [Request -> CallRecord]
        /\ sent(r) /\ call[r].key \in Key /\ call[r].order \in Order
    BY DEF Sound, Typed, CheckoutTypeOK, CallRecord, sent, passes, recalls, givesUp
  <1>2. cache[call[r].key] \in Nat
    BY <1>1 DEF Sound, IInv, TypeOK
  <1>3. CASE passes(r)
    <2> DEFINE c == [call[r] EXCEPT !.pc = "served"]
    <2>1. call' = [call EXCEPT ![r] = c]
      BY <1>1, <1>3 DEF passes
    <2>2. /\ c \in CallRecord /\ c.pc = "served" /\ c.key = call[r].key
          /\ c.order = call[r].order /\ c.visit = call[r].visit
          /\ c.awaited = call[r].awaited
      BY <1>1 DEF CallRecord, CallPc
    <2> QED BY <2>1, <2>2
  <1>4. CASE recalls(r)
    <2> DEFINE c == answer(r, cache[call[r].key])
    <2>1. call' = [call EXCEPT ![r] = c] /\ ~ passes(r)
      BY <1>4 DEF recalls, passes, lookup
    <2>2. /\ c \in CallRecord /\ c.pc = "answered" /\ c.key = call[r].key
          /\ c.order = call[r].order /\ c.visit = call[r].visit
          /\ c.awaited = call[r].awaited /\ c.payment = cache[call[r].key]
      BY <1>1, <1>2 DEF CallRecord, CallPc, answer
    <2>3. Recorded(c.key, c.payment)
      BY <1>1, <1>4, <2>2 DEF recalls, Sound, Told
    <2> QED BY <2>1, <2>2, <2>3
  <1>5. CASE givesUp(r)
    <2> DEFINE c == refuse(r)
    <2>1. call' = [call EXCEPT ![r] = c] /\ ~ passes(r)
      BY <1>5 DEF givesUp, passes
    <2>2. /\ c \in CallRecord /\ c.pc = "refused" /\ c.key = call[r].key
          /\ c.order = call[r].order /\ c.visit = call[r].visit
          /\ c.awaited = call[r].awaited
      BY <1>1 DEF CallRecord, CallPc, refuse
    <2> QED BY <2>1, <2>2
  <1> QED BY <1>3, <1>4, <1>5

LEMMA CallSound ==
  ASSUME Sound, NEW r \in Request, passes(r) \/ recalls(r) \/ givesUp(r)
  PROVE  Sound'
  <1>1. IInv' /\ TypeOK' /\ TypeOK
    <2>1. CASE passes(r)
      BY <2>1, ServerKeeps DEF Sound, CheckoutNext, callReaches, passes, IInv
    <2>2. CASE recalls(r)
      <3>1. callReaches(r) \/ poll(r)
        BY <2>2 DEF callReaches, poll, recalls
      <3> QED BY <3>1, ServerKeeps DEF Sound, CheckoutNext, IInv
    <2>3. CASE givesUp(r)
      <3>1. poll(r)
        BY <2>3 DEF poll, givesUp
      <3> QED BY <3>1, ServerKeeps DEF Sound, CheckoutNext, IInv
    <2> QED BY <2>1, <2>2, <2>3
  <1>2. UNCHANGED <<inputs, key, visit, latest, lag, receipt, charges, troubled>>
    BY DEF passes, recalls, givesUp, formVars
  <1>3. /\ call \in [Request -> CallRecord]
        /\ sent(r) /\ call[r].key \in Key /\ call[r].order \in Order
    BY DEF Sound, Typed, CheckoutTypeOK, CallRecord, sent, passes, recalls, givesUp
  <1>4. PICK c \in CallRecord :
          /\ call' = [call EXCEPT ![r] = c]
          /\ c.pc # "none" /\ c.key = call[r].key /\ c.order = call[r].order
          /\ c.visit = call[r].visit /\ c.awaited = call[r].awaited
          /\ passes(r) => c.pc = "served"
          /\ c.pc = "answered" => Recorded(c.key, c.payment)
    BY CallMoves
  <1>5. call' \in [Request -> CallRecord] /\ call'[r] = c
        /\ \A s \in Request \ {r} : call'[s] = call[s]
    BY <1>3, <1>4
  <1>6. Typed'
    BY <1>1, <1>2, <1>3, <1>4, <1>5
       DEF Sound, Typed, CheckoutTypeOK, CallRecord, sent, NoReceipt
  <1>7. Served'
    <2>1. CASE passes(r)
      <3>1. /\ \A s \in Request \ {r} : req'[s] = req[s]
            /\ req'[r].key = call[r].key
        BY <1>1, <2>1 DEF passes, lookup, TypeOK, ReqTypeOK, NoRequest, Attempt
      <3> QED BY <1>4, <1>5, <2>1, <3>1 DEF Sound, Served
    <2>2. CASE recalls(r) \/ givesUp(r)
      <3>1. req' = req /\ call[r].pc # "served"
        BY <2>2 DEF recalls, givesUp, serverVars
      <3> QED BY <1>5, <3>1 DEF Sound, Served
    <2> QED BY <2>1, <2>2
  <1>8. Told' /\ Charged'
    <2>1. UNCHANGED <<cache, row, made>>
      BY DEF passes, lookup, recalls, givesUp, serverVars
    <2>2. \A s \in Request :
            req'[s].payment # 0 => req'[s].key = req[s].key /\ req'[s].payment = req[s].payment
      <3>1. CASE passes(r)
        <4>1. /\ \A s \in Request \ {r} : req'[s] = req[s]
              /\ req'[r].payment = 0
          BY <1>1, <3>1 DEF passes, lookup, TypeOK, ReqTypeOK, NoRequest
        <4> QED BY <4>1
      <3>2. CASE recalls(r) \/ givesUp(r)
        BY <3>2 DEF recalls, givesUp, serverVars
      <3> QED BY <3>1, <3>2
    <2>3. \A k, n : Recorded(k, n)' <=> Recorded(k, n)
      BY <1>2 DEF Recorded, Among
    <2>4. \A s \in Request :
            call'[s].pc = "answered" => Recorded(call'[s].key, call'[s].payment)
      BY <1>4, <1>5 DEF Sound, Told
    <2> QED BY <1>2, <2>1, <2>2, <2>3, <2>4 DEF Sound, Told, Charged, NoReceipt, Recorded
  <1> QED BY <1>1, <1>6, <1>7, <1>8 DEF Sound

\* A new charge is made for a call that came with its key.
LEMMA NewCharge ==
  ASSUME Sound, NEW c \in newCharges
  PROVE  \E r \in Request :
           /\ at(r, "running") /\ sent(r) /\ call[r].key = c.key
           /\ c = [key |-> call[r].key, payment |-> made'[call[r].key],
                   order |-> call[r].order, visit |-> call[r].visit]
           /\ made'[call[r].key] # made[call[r].key]
  <1>1. PICK r \in Request :
          /\ at(r, "running") /\ made'[req[r].key] # made[req[r].key]
          /\ c = [key |-> req[r].key, payment |-> made'[req[r].key],
                  order |-> call[r].order, visit |-> call[r].visit]
    BY DEF newCharges
  <1>2. call[r].pc = "served" /\ call[r].key = req[r].key
    BY <1>1 DEF Sound, Served, at, Early
  <1> QED BY <1>1, <1>2 DEF sent

LEMMA ServerSound ==
  ASSUME Sound, serverStep
  PROVE  Sound'
  <1>1. IInv' /\ TypeOK /\ TypeOK' /\ afterLookup
    BY ServerKeeps DEF Sound, CheckoutNext, IInv, serverStep
  <1>2. /\ UNCHANGED <<inputs, key, visit, latest, lag, receipt, troubled>>
        /\ charges' = charges \cup newCharges
    BY DEF serverStep, formVars
  <1>3. /\ call \in [Request -> CallRecord]
        /\ \A r \in Request : sent(r) => call[r].key \in Key /\ call[r].order \in Order
    BY DEF Sound, Typed, CheckoutTypeOK, CallRecord
  <1>4. /\ DOMAIN call' = Request /\ call' = [r \in Request |-> call'[r]]
        /\ \A r \in Request : call'[r] \in CallRecord
    BY <1>3, Responses DEF serverStep
  <1>5. Typed'
    <2>1. newCharges \subseteq [key : Key, payment : Nat, order : Order, visit : Nat]
      <3> SUFFICES ASSUME NEW c \in newCharges
                   PROVE  c \in [key : Key, payment : Nat, order : Order, visit : Nat]
        OBVIOUS
      <3>1. PICK r \in Request :
              /\ sent(r)
              /\ c = [key |-> call[r].key, payment |-> made'[call[r].key],
                      order |-> call[r].order, visit |-> call[r].visit]
        BY NewCharge
      <3>2. call[r].key \in Key /\ call[r].order \in Order /\ call[r].visit \in Nat
        BY <1>3, <3>1 DEF CallRecord
      <3>3. made'[call[r].key] \in Nat
        BY <1>1, <3>2, Storing
      <3> QED BY <3>1, <3>2, <3>3
    <2>2. CheckoutTypeOK'
      BY <1>1, <1>2, <1>4, <2>1 DEF Sound, Typed, CheckoutTypeOK, CallRecord
    <2>3. \A r \in Request : sent(r)' => call'[r].key \in Key /\ call'[r].order \in Order
      BY <1>3, Responses DEF sent
    <2> QED BY <1>2, <2>2, <2>3 DEF Sound, Typed, NoReceipt
  <1>6. Served'
    BY Responses DEF Served
  <1>7. \A k, n : Recorded(k, n) => Among(charges', k, n)
    BY <1>2 DEF Recorded, Among
  <1>8. Told'
    <2>1. ASSUME NEW r \in Request, req'[r].payment # 0
          PROVE  Among(charges', req'[r].key, req'[r].payment)
      <3>1. Moves(r)
        BY <1>1, Moving
      <3>2. CASE req'[r].payment = req[r].payment
        BY <1>7, <2>1, <3>1, <3>2 DEF Moves, Sound, Told
      <3>3. CASE at(r, "running") /\ req'[r].pc = "storing"
        <4>1. /\ req'[r].payment = made'[req[r].key] /\ req'[r].key = req[r].key
              /\ made'[req[r].key] # made[req[r].key] /\ req'[r] # req[r]
          BY <2>1, <3>1, <3>3 DEF Moves, at
        <4>2. [key |-> req[r].key, payment |-> made'[req[r].key],
               order |-> call[r].order, visit |-> call[r].visit] \in charges'
          BY <1>2, <3>3, <4>1 DEF newCharges
        <4> QED BY <4>1, <4>2 DEF Among
      <3> QED BY <2>1, <3>1, <3>2, <3>3 DEF Moves
    <2>2. ASSUME NEW k \in Key, cache'[k] # 0
          PROVE  Among(charges', k, cache'[k])
      BY <1>1, <1>7, <2>2, Storing DEF Sound, Told
    <2>3. ASSUME NEW k \in Key, row'[k].body # 0
          PROVE  Among(charges', k, row'[k].body)
      BY <1>1, <1>7, <2>3, Storing DEF Sound, Told
    <2>4. ASSUME NEW r \in Request, call'[r].pc = "answered"
          PROVE  Among(charges', call'[r].key, call'[r].payment)
      BY <1>7, <2>4, Responses DEF Sound, Told
    <2>5. receipt' # NoReceipt => Among(charges', receipt'.key, receipt'.payment)
      BY <1>2, <1>7 DEF Sound, Told
    <2> QED BY <2>1, <2>2, <2>3, <2>4, <2>5 DEF Told, Recorded, NoReceipt
  <1>9. Charged'
    <2> SUFFICES ASSUME NEW c \in charges' PROVE c.payment \in 1 .. made'[c.key]
      BY DEF Charged
    <2>1. CASE c \in charges
      <3>1. c.key \in Key /\ c.payment \in 1 .. made[c.key]
        BY <2>1 DEF Sound, Charged, Typed, CheckoutTypeOK
      <3>2. made'[c.key] \in Nat /\ made[c.key] \in Nat /\ made'[c.key] >= made[c.key]
        BY <1>1, <3>1, Storing
      <3> QED BY <3>1, <3>2
    <2>2. CASE c \in newCharges
      <3>1. PICK r \in Request :
              /\ sent(r) /\ call[r].key = c.key
              /\ c.payment = made'[c.key] /\ made'[c.key] # made[c.key]
        BY <2>2, NewCharge
      <3>2. c.key \in Key
        BY <1>3, <3>1
      <3>3. made'[c.key] \in Nat /\ made[c.key] \in Nat /\ made'[c.key] >= made[c.key]
        BY <1>1, <3>2, Storing
      <3> QED BY <3>1, <3>3
    <2> QED BY <1>2, <2>1, <2>2
  <1> QED BY <1>1, <1>5, <1>6, <1>8, <1>9 DEF Sound

LEMMA SoundStart == CheckoutInit => Sound
  <1> SUFFICES ASSUME CheckoutInit PROVE Sound
    OBVIOUS
  <1>1. IInv /\ TypeOK
    BY Start DEF CheckoutInit, IInv
  <1>2. \A r \in Request : req[r].pc = "idle" /\ req[r].payment = 0 /\ call[r] = NoCall
    BY DEF CheckoutInit, Init, NoRequest
  <1>3. Typed
    <2>1. key \in 1 .. MaxKeys + 1 /\ visit \in Nat
      BY CheckoutAssumption DEF CheckoutInit
    <2>2. NoCall \in CallRecord /\ NoCall.pc = "none"
      BY DEF NoCall, CallRecord, CallPc
    <2>3. call \in [Request -> CallRecord] /\ \A r \in Request : ~ sent(r)
      BY <2>2 DEF CheckoutInit, sent
    <2>4. receipt \in [key : {0} \cup Key, payment : Nat, order : Order \cup {NoOrder}]
      BY DEF CheckoutInit, NoReceipt
    <2> QED BY <1>1, <2>1, <2>3, <2>4
            DEF CheckoutInit, Typed, CheckoutTypeOK, CallRecord
  <1>4. Served /\ Charged
    BY <1>2 DEF Served, Early, Charged, CheckoutInit
  <1>5. Told
    BY <1>2 DEF Told, CheckoutInit, Init, NoCall
  <1> QED BY <1>1, <1>3, <1>4, <1>5 DEF Sound

LEMMA SoundStep == Sound /\ [CheckoutNext]_checkoutVars => Sound'
  <1> SUFFICES ASSUME Sound, [CheckoutNext]_checkoutVars PROVE Sound'
    OBVIOUS
  <1>1. CASE UNCHANGED checkoutVars
    <2>1. IInv'
      BY <1>1, ServerKeeps DEF Sound
    <2>2. UNCHANGED <<inputs, key, visit, latest, lag, receipt, call, charges, troubled,
                      req, lock, cache, row, made, suffered, faults>>
      BY <1>1 DEF checkoutVars, formVars, serverVars
    <2>3. Typed'
      BY <2>1, <2>2 DEF Sound, IInv, Typed, CheckoutTypeOK, sent, NoReceipt
    <2> QED BY <2>1, <2>2, <2>3 DEF Sound, Served, Told, Charged, Recorded, Among, NoReceipt
  <1> QED BY <1>1, CheckoutSteps, FormSound, CallSound, ServerSound

LEMMA SoundAlways == CheckoutSpec => []Sound
  BY SoundStart, SoundStep, PTL DEF CheckoutSpec

\* The browser and the interceptor together take only steps of Idempotency, so
\* all that holds of it holds of the checkout.
THEOREM CheckoutImplementsIdempotency == CheckoutSpec => Spec
  <1>1. CheckoutInit => Init
    BY DEF CheckoutInit
  <1>2. Sound /\ [CheckoutNext]_checkoutVars => [Next]_vars
    BY ServerSteps DEF Sound
  <1> QED BY <1>1, <1>2, SoundAlways, PTL DEF CheckoutSpec, Spec

---------------------------------------------------------------------------
(* What the user of the form may rely on: under one key one order is      *)
(* sent, and a visit that saw no call fail uses one key.                   *)

\* The order went out, or came back, under the key.
Used(k, o) ==
  \/ \E r \in Request : sent(r) /\ call[r].key = k /\ call[r].order = o
  \/ \E c \in charges : c.key = k /\ c.order = o
  \/ receipt # NoReceipt /\ receipt.key = k /\ receipt.order = o

\* The key went out on the visit.
Spent(v, k) ==
  \/ \E r \in Request : sent(r) /\ call[r].visit = v /\ call[r].key = k
  \/ \E c \in charges : c.visit = v /\ c.key = k

\* A key that was used once is used again by the second click of a double
\* click only, and the inputs cannot be changed in between.
Orders ==
  /\ \A k, o : Used(k, o) => k <= key
  /\ \A k, o, p : Used(k, o) /\ Used(k, p) => o = p
  /\ \A k, o : Used(k, o) /\ k = key /\ receipt = NoReceipt =>
                 isPending /\ (lag => o = inputs)

Visits ==
  /\ \A v, k : Spent(v, k) => v <= visit
  /\ \A v, k, l : Spent(v, k) /\ Spent(v, l) /\ v \notin troubled => k = l
  /\ \A v, k : Spent(v, k) /\ v = visit /\ v \notin troubled => k = key

---------------------------------------------------------------------------
(* The steps, as far as the form is concerned.                             *)

\* Nothing is used or spent that was not before.
NoNews ==
  /\ \A k, o : Used(k, o)' => Used(k, o)
  /\ \A v, k : Spent(v, k)' => Spent(v, k)

stays ==
  /\ UNCHANGED <<key, visit, receipt, troubled>>
  /\ lag' => lag /\ inputs' = inputs
  /\ isPending => isPending'

tells == receipt' # NoReceipt /\ UNCHANGED <<key, visit, troubled>>

failed ==
  /\ IF key \in Key THEN key' = key + 1 ELSE key' = key
  /\ visit' = visit
  /\ troubled \cup {visit} \subseteq troubled'

opened ==
  /\ key \in Key /\ key' = key + 1
  /\ visit' = visit + 1
  /\ troubled' = troubled

\* A call that keeps what it carries, or is over, brings nothing new.
Same(r) ==
  sent(r)' =>
    /\ sent(r)
    /\ call'[r].key = call[r].key /\ call'[r].order = call[r].order
    /\ call'[r].visit = call[r].visit

LEMMA Nothing ==
  ASSUME \A r \in Request : Same(r),
         \A c \in charges' :
           \/ c \in charges
           \/ \E r \in Request : /\ sent(r) /\ call[r].key = c.key
                                 /\ call[r].order = c.order /\ call[r].visit = c.visit,
         receipt' # NoReceipt =>
           \/ receipt' = receipt
           \/ \E r \in Request : /\ sent(r) /\ call[r].key = receipt'.key
                                 /\ call[r].order = receipt'.order
  PROVE  NoNews
  <1>1. ASSUME NEW k, NEW o, Used(k, o)'
        PROVE  Used(k, o)
    <2>1. CASE \E r \in Request : sent(r)' /\ call'[r].key = k /\ call'[r].order = o
      BY <2>1 DEF Same, Used
    <2>2. CASE \E c \in charges' : c.key = k /\ c.order = o
      BY <2>2 DEF Used
    <2>3. CASE receipt' # NoReceipt /\ receipt'.key = k /\ receipt'.order = o
      BY <2>3 DEF Used
    <2> QED BY <1>1, <2>1, <2>2, <2>3 DEF Used, NoReceipt
  <1>2. ASSUME NEW v, NEW k, Spent(v, k)'
        PROVE  Spent(v, k)
    BY <1>2 DEF Same, Spent
  <1> QED BY <1>1, <1>2 DEF NoNews

LEMMA Submits ==
  ASSUME Typed, NEW r \in Request, handleSubmit(r)
  PROVE  /\ key \in Key /\ receipt = NoReceipt /\ (isPending => lag)
         /\ UNCHANGED <<key, visit, receipt, troubled, inputs>>
         /\ isPending'
         /\ \A k, o : Used(k, o)' => Used(k, o) \/ (k = key /\ o = inputs)
         /\ \A v, k : Spent(v, k)' => Spent(v, k) \/ (v = visit /\ k = key)
  <1> DEFINE c == [pc |-> "underway", awaited |-> TRUE, key |-> key,
                   order |-> inputs, visit |-> visit, payment |-> 0]
  <1>1. /\ key \in Key /\ receipt = NoReceipt /\ (isPending => lag)
        /\ UNCHANGED <<key, visit, receipt, troubled, inputs, charges>>
        /\ latest' = r /\ call' = [call EXCEPT ![r] = c]
    BY DEF handleSubmit, mayClick, send
  <1>2. call'[r] = c /\ \A s \in Request \ {r} : call'[s] = call[s]
    BY <1>1 DEF Typed, CheckoutTypeOK
  <1>3. isPending'
    BY <1>1, <1>2, IdempotencyAssumption DEF isPending
  <1>4. ASSUME NEW k, NEW o, Used(k, o)'
        PROVE  Used(k, o) \/ (k = key /\ o = inputs)
    <2>1. ASSUME NEW s \in Request, sent(s)', call'[s].key = k, call'[s].order = o
          PROVE  Used(k, o) \/ (k = key /\ o = inputs)
      BY <1>2, <2>1 DEF Used, sent
    <2> QED BY <1>1, <1>4, <2>1 DEF Used, NoReceipt
  <1>5. ASSUME NEW v, NEW k, Spent(v, k)'
        PROVE  Spent(v, k) \/ (v = visit /\ k = key)
    <2>1. ASSUME NEW s \in Request, sent(s)', call'[s].visit = v, call'[s].key = k
          PROVE  Spent(v, k) \/ (v = visit /\ k = key)
      BY <1>2, <2>1 DEF Spent, sent
    <2> QED BY <1>1, <1>5, <2>1 DEF Spent
  <1> QED BY <1>1, <1>3, <1>4, <1>5

\* The form's other steps.
OtherFormStep ==
  \/ \E o \in Order : edit(o)
  \/ rerender
  \/ newPayment
  \/ remount
  \/ \E r \in Request : responseArrives(r) \/ callTimesOut(r)

LEMMA FormGoesOn ==
  ASSUME Sound, OtherFormStep
  PROVE  NoNews /\ (stays \/ tells \/ failed \/ opened)
  <1>1. /\ call \in [Request -> CallRecord] /\ Null \notin Request
        /\ key \in 1 .. MaxKeys + 1 /\ latest \in Request \cup {Null}
        /\ charges' = charges
    BY FormSteps, IdempotencyAssumption
       DEF Sound, Typed, CheckoutTypeOK, CallRecord, OtherFormStep, FormStep
  <1>2. \A r \in Request : call'[r] = call[r] => Same(r)
    BY DEF Same, sent
  <1>3. ASSUME \A r \in Request : Same(r), receipt' \in {receipt, NoReceipt}
        PROVE  NoNews
    BY <1>1, <1>3, Nothing DEF NoReceipt
  <1>4. CASE rerender \/ \E o \in Order : edit(o)
    <2>1. UNCHANGED <<call, key, visit, receipt, troubled, latest>>
      BY <1>4 DEF rerender, edit
    <2>2. lag' => lag /\ inputs' = inputs
      BY <1>4 DEF rerender, edit
    <2> QED BY <1>2, <1>3, <2>1, <2>2 DEF stays, isPending
  <1>5. ASSUME openForm, troubled' = troubled
        PROVE  opened /\ receipt' = NoReceipt
    BY <1>5 DEF openForm, drawKey, opened
  <1>6. CASE newPayment
    <2>1. opened /\ receipt' = NoReceipt /\ call' = call
      BY <1>5, <1>6 DEF newPayment
    <2> QED BY <1>2, <1>3, <2>1
  <1>7. CASE remount
    <2>1. /\ opened /\ receipt' = NoReceipt
          /\ call' = [r \in Request |-> [call[r] EXCEPT !.awaited = FALSE]]
      BY <1>5, <1>7 DEF remount
    <2>2. ASSUME NEW r \in Request PROVE Same(r)
      BY <1>1, <2>1 DEF Same, sent, CallRecord
    <2> QED BY <1>3, <2>1, <2>2
  <1>8. ASSUME NEW r \in Request, fail(r), UNCHANGED visit
        PROVE  failed /\ receipt' = receipt
    BY <1>8 DEF fail, drawKey, failed
  \* One call changes.
  <1>9. ASSUME NEW r \in Request, responseArrives(r)
        PROVE  NoNews /\ (stays \/ tells \/ failed)
    <2>1. /\ call' = [call EXCEPT ![r] = NoCall]
          /\ call[r].pc \in {"answered", "refused"}
          /\ UNCHANGED <<inputs, visit, latest, lag>>
      BY <1>9 DEF responseArrives
    <2>2. /\ call'[r] = NoCall
          /\ \A s \in Request \ {r} : call'[s] = call[s]
      BY <1>1, <2>1
    <2>3. \A s \in Request : Same(s)
      BY <2>2 DEF Same, sent, NoCall
    <2>4. CASE ~ call[r].awaited
      <3>1. UNCHANGED <<key, receipt, troubled>>
        BY <1>9, <2>4 DEF responseArrives
      <3>2. isPending => isPending'
        BY <1>1, <2>1, <2>2, <2>4 DEF isPending
      <3> QED BY <1>3, <2>1, <2>3, <3>1, <3>2 DEF stays
    <2>5. CASE call[r].awaited /\ call[r].pc = "refused"
      <3>1. fail(r)
        BY <1>9, <2>5 DEF responseArrives
      <3> QED BY <1>3, <1>8, <2>1, <2>3, <3>1
    <2>6. CASE call[r].awaited /\ call[r].pc # "refused"
      <3>1. /\ receipt' = [key |-> call[r].key, payment |-> call[r].payment,
                           order |-> call[r].order]
            /\ UNCHANGED <<key, troubled>>
        BY <1>9, <2>6 DEF responseArrives
      <3>2. sent(r) /\ call[r].order \in Order
        BY <2>1 DEF Sound, Typed, sent
      <3>3. tells
        BY <2>1, <3>1, <3>2, CheckoutAssumption DEF tells, NoReceipt
      <3>4. NoNews
        BY <1>1, <2>3, <3>1, <3>2, Nothing
      <3> QED BY <3>3, <3>4
    <2> QED BY <2>4, <2>5, <2>6
  <1>10. ASSUME NEW r \in Request, callTimesOut(r)
         PROVE  NoNews /\ failed
    <2>1. /\ call' = [call EXCEPT ![r].awaited = FALSE]
          /\ fail(r) /\ UNCHANGED visit
      BY <1>10 DEF callTimesOut
    <2>2. \A s \in Request : Same(s)
      BY <1>1, <2>1 DEF Same, sent, CallRecord
    <2> QED BY <1>3, <1>8, <2>1, <2>2
  <1> QED BY <1>4, <1>6, <1>7, <1>9, <1>10 DEF OtherFormStep

LEMMA CallGoesOn ==
  ASSUME Sound, NEW r \in Request, passes(r) \/ recalls(r) \/ givesUp(r)
  PROVE  NoNews /\ stays
  <1>1. PICK c \in CallRecord :
          /\ call' = [call EXCEPT ![r] = c]
          /\ c.pc # "none" /\ c.key = call[r].key /\ c.order = call[r].order
          /\ c.visit = call[r].visit /\ c.awaited = call[r].awaited
    BY CallMoves
  <1>2. UNCHANGED <<inputs, key, visit, latest, lag, receipt, charges, troubled>>
    BY DEF passes, recalls, givesUp, formVars
  <1>3. /\ sent(r) /\ latest \in Request \cup {Null}
        /\ call'[r] = c /\ \A s \in Request \ {r} : call'[s] = call[s]
    BY <1>1 DEF Sound, Typed, CheckoutTypeOK, sent, passes, recalls, givesUp
  <1>4. \A s \in Request : Same(s)
    BY <1>1, <1>3 DEF Same, sent
  <1>5. isPending => isPending'
    BY <1>1, <1>2, <1>3 DEF isPending
  <1> QED BY <1>2, <1>4, <1>5, Nothing DEF stays, NoReceipt

LEMMA ServerGoesOn ==
  ASSUME Sound, serverStep
  PROVE  NoNews /\ stays
  <1>1. /\ UNCHANGED <<inputs, key, visit, latest, lag, receipt, troubled>>
        /\ charges' = charges \cup newCharges
        /\ latest \in Request \cup {Null}
    BY DEF serverStep, formVars, Sound, Typed, CheckoutTypeOK
  <1>2. \A r \in Request : Same(r) /\ call'[r].awaited = call[r].awaited
    BY Responses DEF Same, sent
  <1>3. ASSUME NEW c \in newCharges
        PROVE  \E r \in Request : /\ sent(r) /\ call[r].key = c.key
                                  /\ call[r].order = c.order /\ call[r].visit = c.visit
    BY NewCharge
  <1>4. isPending => isPending'
    BY <1>1, <1>2 DEF isPending
  <1> QED BY <1>1, <1>2, <1>3, <1>4, Nothing DEF stays, NoReceipt

---------------------------------------------------------------------------
(* The invariants.                                                         *)

LEMMA KeptWhileNothing ==
  ASSUME Typed, Orders, Visits, NoNews, stays \/ tells \/ failed \/ opened
  PROVE  Orders' /\ Visits'
  <1>1. key \in 1 .. MaxKeys + 1 /\ MaxKeys \in Nat /\ Key = 1 .. MaxKeys /\ visit \in Nat
    BY CheckoutAssumption DEF Typed, CheckoutTypeOK
  <1>2. key' >= key /\ visit' >= visit /\ troubled \subseteq troubled'
    BY <1>1 DEF stays, tells, failed, opened
  <1>3. \A k, o : Used(k, o) => k <= key
    BY DEF Orders
  <1>4. \A v, k : Spent(v, k) => v <= visit
    BY DEF Visits
  <1>5. \A k, o : Used(k, o) => k \in Key
    <2>1. charges \subseteq [key : Key, payment : Nat, order : Order, visit : Nat]
      BY DEF Typed, CheckoutTypeOK
    <2> QED BY <2>1 DEF Used, Typed
  <1>6. \A v, k : Spent(v, k) => v \in Nat
    <2>1. /\ charges \subseteq [key : Key, payment : Nat, order : Order, visit : Nat]
          /\ call \in [Request -> CallRecord]
      BY DEF Typed, CheckoutTypeOK, CallRecord
    <2> QED BY <2>1 DEF Spent, CallRecord
  <1>7. Orders'
    <2>1. ASSUME NEW k, NEW o, Used(k, o)' PROVE k <= key'
      BY <1>1, <1>2, <1>3, <1>5, <2>1 DEF NoNews, stays, tells, failed, opened
    <2>2. ASSUME NEW k, NEW o, NEW p, Used(k, o)', Used(k, p)' PROVE o = p
      BY <2>2 DEF NoNews, Orders
    <2>3. ASSUME NEW k, NEW o, Used(k, o)', k = key', receipt' = NoReceipt
          PROVE  isPending' /\ (lag' => o = inputs')
      <3>1. Used(k, o) /\ k \in Key
        BY <1>5, <2>3 DEF NoNews
      <3>2. k <= key
        BY <1>3, <3>1
      <3>3. stays
        BY <1>1, <2>3, <3>1, <3>2 DEF tells, failed, opened
      <3> QED BY <2>3, <3>1, <3>3 DEF stays, Orders
    <2> QED BY <2>1, <2>2, <2>3 DEF Orders
  <1>8. Visits'
    <2>1. ASSUME NEW v, NEW k, Spent(v, k)' PROVE v <= visit'
      BY <1>1, <1>2, <1>4, <1>6, <2>1 DEF NoNews, stays, tells, failed, opened
    <2>2. ASSUME NEW v, NEW k, NEW l, Spent(v, k)', Spent(v, l)', v \notin troubled'
          PROVE  k = l
      BY <1>2, <2>2 DEF NoNews, Visits
    <2>3. ASSUME NEW v, NEW k, Spent(v, k)', v = visit', v \notin troubled'
          PROVE  k = key'
      <3>1. Spent(v, k) /\ v <= visit
        BY <1>4, <2>3 DEF NoNews
      <3>2. stays \/ tells
        BY <1>1, <2>3, <3>1 DEF failed, opened
      <3> QED BY <2>3, <3>1, <3>2 DEF stays, tells, Visits
    <2> QED BY <2>1, <2>2, <2>3 DEF Visits
  <1> QED BY <1>7, <1>8

LEMMA KeptOnSubmit ==
  ASSUME Typed, Orders, Visits, NEW r \in Request, handleSubmit(r)
  PROVE  Orders' /\ Visits'
  <1>1. key \in Nat /\ visit \in Nat
    BY CheckoutAssumption DEF Typed, CheckoutTypeOK
  <1>2. /\ key \in Key /\ receipt = NoReceipt /\ (isPending => lag)
        /\ UNCHANGED <<key, visit, receipt, troubled, inputs>>
        /\ isPending'
    BY Submits
  <1>3. \A k, o : Used(k, o)' => Used(k, o) \/ (k = key /\ o = inputs)
    BY Submits
  <1>4. \A v, k : Spent(v, k)' => Spent(v, k) \/ (v = visit /\ k = key)
    BY Submits
  <1>5. \A o : Used(key, o) => o = inputs
    BY <1>2 DEF Orders
  <1>6. Orders'
    <2>1. ASSUME NEW k, NEW o, Used(k, o)' PROVE k <= key'
      BY <1>1, <1>2, <1>3, <2>1 DEF Orders
    <2>2. ASSUME NEW k, NEW o, NEW p, Used(k, o)', Used(k, p)' PROVE o = p
      BY <1>3, <1>5, <2>2 DEF Orders
    <2>3. ASSUME NEW k, NEW o, Used(k, o)', k = key'
          PROVE  isPending' /\ o = inputs'
      BY <1>2, <1>3, <1>5, <2>3
    <2> QED BY <2>1, <2>2, <2>3 DEF Orders
  <1>7. Visits'
    <2>1. ASSUME NEW v, NEW k, Spent(v, k)' PROVE v <= visit'
      BY <1>1, <1>2, <1>4, <2>1 DEF Visits
    <2>2. ASSUME NEW v, NEW k, Spent(v, k)', v = visit, v \notin troubled
          PROVE  k = key
      BY <1>4, <2>2 DEF Visits
    <2>3. ASSUME NEW v, NEW k, NEW l, Spent(v, k)', Spent(v, l)', v \notin troubled
          PROVE  k = l
      BY <1>4, <2>2, <2>3 DEF Visits
    <2> QED BY <1>2, <2>1, <2>2, <2>3 DEF Visits
  <1> QED BY <1>6, <1>7

FormInv == Sound /\ Orders /\ Visits

LEMMA FormStart == CheckoutInit => FormInv
  <1> SUFFICES ASSUME CheckoutInit PROVE Orders /\ Visits
    BY SoundStart DEF FormInv
  <1>1. \A k, o : ~ Used(k, o)
    BY DEF CheckoutInit, Used, sent, NoCall
  <1>2. \A v, k : ~ Spent(v, k)
    BY DEF CheckoutInit, Spent, sent, NoCall
  <1> QED BY <1>1, <1>2 DEF Orders, Visits

LEMMA FormKeeps == FormInv /\ [CheckoutNext]_checkoutVars => FormInv'
  <1> SUFFICES ASSUME FormInv, [CheckoutNext]_checkoutVars PROVE Orders' /\ Visits'
    BY SoundStep DEF FormInv
  <1>1. CASE UNCHANGED checkoutVars
    <2>1. UNCHANGED <<inputs, key, visit, latest, lag, receipt, call, charges, troubled>>
      BY <1>1 DEF checkoutVars, formVars
    <2>2. \A r \in Request : Same(r)
      BY <2>1 DEF Same, sent
    <2>3. NoNews /\ stays
      BY <2>1, <2>2, Nothing DEF stays, isPending, NoReceipt
    <2> QED BY <2>3, KeptWhileNothing DEF FormInv, Sound
  <1>2. CASE \E r \in Request : handleSubmit(r)
    BY <1>2, KeptOnSubmit DEF FormInv, Sound
  <1>3. CASE OtherFormStep
    BY <1>3, FormGoesOn, KeptWhileNothing DEF FormInv, Sound
  <1>4. CASE \E r \in Request : passes(r) \/ recalls(r) \/ givesUp(r)
    BY <1>4, CallGoesOn, KeptWhileNothing DEF FormInv, Sound
  <1>5. CASE serverStep
    BY <1>5, ServerGoesOn, KeptWhileNothing DEF FormInv, Sound
  <1> QED BY <1>1, <1>2, <1>3, <1>4, <1>5, CheckoutSteps DEF FormStep, OtherFormStep

LEMMA FormAlways == CheckoutSpec => []FormInv
  BY FormStart, FormKeeps, PTL DEF CheckoutSpec

\* The payment on the success screen is one that was made, of the inputs that
\* were submitted: under a key one order is sent, and what is told of a key was
\* made under it.
THEOREM Receipt == CheckoutSpec => []ReceiptFits
  <1>1. FormInv => ReceiptFits
    <2> SUFFICES ASSUME FormInv, receipt # NoReceipt
                 PROVE  \E c \in charges : /\ c.key = receipt.key
                                           /\ c.payment = receipt.payment
                                           /\ c.order = receipt.order
      BY DEF ReceiptFits
    <2>1. PICK c \in charges : c.key = receipt.key /\ c.payment = receipt.payment
      BY DEF FormInv, Sound, Told, Recorded, Among
    <2>2. Used(receipt.key, c.order) /\ Used(receipt.key, receipt.order)
      BY <2>1 DEF Used
    <2>3. c.order = receipt.order
      BY <2>2 DEF FormInv, Orders
    <2> QED BY <2>1, <2>3
  <1> QED BY <1>1, FormAlways, PTL

\* A form that saw no call fail is charged once: its clicks share a key, and
\* the server makes one payment of a key.
THEOREM OneCharge == CheckoutSpec => []OneChargePerForm
  <1>1. FormInv => OneChargePerForm
    <2> SUFFICES ASSUME FormInv, suffered \subseteq Tolerated,
                        NEW c \in charges, NEW d \in charges,
                        c.visit = d.visit, c.visit \notin troubled
                 PROVE  c = d
      BY DEF OneChargePerForm
    <2>1. /\ c \in [key : Key, payment : Nat, order : Order, visit : Nat]
          /\ d \in [key : Key, payment : Nat, order : Order, visit : Nat]
      BY DEF FormInv, Sound, Typed, CheckoutTypeOK
    <2>2. c.key = d.key
      BY DEF FormInv, Visits, Spent
    <2>3. c.order = d.order
      BY <2>2 DEF FormInv, Orders, Used
    <2>4. made[c.key] \in Nat /\ made[c.key] <= 1
      BY <2>1 DEF FormInv, Sound, IInv, TypeOK, Orderly, Remembered
    <2>5. c.payment = 1 /\ d.payment = 1
      BY <2>1, <2>2, <2>4 DEF FormInv, Sound, Charged
    <2> QED BY <2>1, <2>2, <2>3, <2>5
  <1> QED BY <1>1, FormAlways, PTL
=============================================================================
