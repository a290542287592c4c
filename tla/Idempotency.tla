---------------------------- MODULE Idempotency ----------------------------
(***************************************************************************)
(* IdempotencyInterceptor around POST /payments: a lock and a record in    *)
(* Redis and a row in idempotency_keys, per key.                           *)
(*                                                                         *)
(* The handler is PaymentsService.createPayment, seen from outside: it     *)
(* makes a payment or it does not, and answers or throws.  The payments    *)
(* made under a key are numbered, and a response is the number of the      *)
(* payment it tells of; 0 is no response.  A request that is answered from *)
(* the record, or refused because the key is busy, changes nothing.        *)
(***************************************************************************)
EXTENDS Faults, FiniteSets

CONSTANTS
  Request, Key, Null,
  FaultKinds,     \* the faults this instance may suffer
  MaxPayments     \* bound on the payments made under one key

FaultKind == {"cacheLost", "releaseFails", "precheckFails", "enqueueFails",
              "storeFails", "requestDies", "slowHandler", "keyExpires"}

ASSUME IdempotencyAssumption ==
  /\ FaultKinds \subseteq FaultKind
  /\ MaxPayments \in Nat
  /\ Null \notin Request

VARIABLES
  req,       \* req[r]: the key it came with and how far intercept got
  lock,      \* idempotency:lock:<key>
  cache,     \* idempotency:<key>, the recorded response
  row,       \* the row of idempotency_keys
  made,      \* how many payments were made under the key
  suffered   \* the kinds of faults so far

vars == <<req, lock, cache, row, made, suffered, faults>>

Redis == INSTANCE RedisLock WITH Owner <- Request

Store == {"row", "cache"}
HoldingPc == {"locked", "unregistered", "running", "storing", "broken", "closing"}
RequestPc == HoldingPc \cup {"idle", "missed", "unlocked"}

NoRequest == [pc |-> "idle", key |-> Null, payment |-> 0, todo |-> {}]

Attempt == [pc : RequestPc, key : Key \cup {Null}, payment : Nat, todo : SUBSET Store]

ReqTypeOK ==
  /\ req \in [Request -> Attempt]
  /\ \A r \in Request :
       req[r] = NoRequest \/ (req[r].pc # "idle" /\ req[r].key \in Key)

TypeOK ==
  /\ ReqTypeOK
  /\ Redis!TypeOK
  /\ cache \in [Key -> Nat]
  /\ row \in [Key -> [here : BOOLEAN, body : Nat]]
  /\ made \in [Key -> Nat]
  /\ suffered \subseteq FaultKind
  /\ faults \in 0 .. MaxFaults

Init ==
  /\ req = [r \in Request |-> NoRequest]
  /\ Redis!Init
  /\ cache = [k \in Key |-> 0]
  /\ row = [k \in Key |-> [here |-> FALSE, body |-> 0]]
  /\ made = [k \in Key |-> 0]
  /\ suffered = {}
  /\ faults = 0

suffer(kind) ==
  /\ Fault
  /\ kind \in FaultKinds
  /\ suffered' = suffered \cup {kind}

noFault == UNCHANGED <<suffered, faults>>

at(r, pc) == req[r].pc = pc

goto(r, pc) == req' = [req EXCEPT ![r].pc = pc]

finish(r) == req' = [req EXCEPT ![r] = NoRequest]

holds(r, k) == req[r].pc \in HoldingPc /\ req[r].key = k

---------------------------------------------------------------------------
(* Before the handler.                                                     *)

lookup(r, k) ==
  /\ at(r, "idle")
  /\ cache[k] = 0
  /\ req' = [req EXCEPT ![r] = [NoRequest EXCEPT !.pc = "missed", !.key = k]]
  /\ noFault
  /\ UNCHANGED <<lock, cache, row, made>>

\* Mutant: SET without NX.
acquireAnyway(r) ==
  /\ at(r, "missed")
  /\ lock' = [lock EXCEPT ![req[r].key] = r]
  /\ goto(r, "locked")
  /\ noFault
  /\ UNCHANGED <<cache, row, made>>

\* While the key is busy the record is polled eight times, then it is a 409.
acquire(r) ==
  /\ at(r, "missed")
  /\ \/ Redis!acquireLock(req[r].key, r) /\ goto(r, "locked")
     \/ Redis!held(req[r].key) /\ finish(r) /\ UNCHANGED lock
  /\ noFault
  /\ UNCHANGED <<cache, row, made>>

\* Mutant: only Redis is asked, the row is not.
skipRow(r) ==
  /\ at(r, "locked")
  /\ goto(r, "unregistered")
  /\ noFault
  /\ UNCHANGED <<lock, cache, row, made>>

\* A stored response is recorded in Redis again, if Redis takes it.
findRow(r) ==
  LET k == req[r].key IN
    /\ at(r, "locked")
    /\ \/ /\ row[k].body # 0
          /\ cache' \in {cache, [cache EXCEPT ![k] = row[k].body]}
          /\ goto(r, "closing")
       \/ row[k].body = 0 /\ goto(r, "unregistered") /\ UNCHANGED cache
    /\ noFault
    /\ UNCHANGED <<lock, row, made>>

\* INSERT ... ON CONFLICT DO NOTHING, with no response yet.
register(r) ==
  /\ at(r, "unregistered")
  /\ row' = [row EXCEPT ![req[r].key].here = TRUE]
  /\ goto(r, "running")
  /\ noFault
  /\ UNCHANGED <<lock, cache, made>>

\* A failed query is logged and the handler called all the same.
precheckFails(r) ==
  /\ suffer("precheckFails")
  /\ req[r].pc \in {"locked", "unregistered"}
  /\ goto(r, "running")
  /\ UNCHANGED <<lock, cache, row, made>>

---------------------------------------------------------------------------
(* The handler and what becomes of its answer.                             *)

createPayment(r) ==
  LET k == req[r].key
      n == made[k] + 1 IN
    /\ at(r, "running")
    /\ made[k] < MaxPayments
    /\ made' = [made EXCEPT ![k] = n]
    /\ req' = [req EXCEPT ![r] =
         [pc |-> "storing", key |-> k, payment |-> n, todo |-> Store]]
    /\ noFault
    /\ UNCHANGED <<lock, cache, row>>

\* It throws before its commit.
paymentRefused(r) ==
  /\ at(r, "running")
  /\ goto(r, "closing")
  /\ noFault
  /\ UNCHANGED <<lock, cache, row, made>>

\* It throws after its commit: adding the job to the queue failed.
enqueueFails(r) ==
  /\ suffer("enqueueFails")
  /\ at(r, "running")
  /\ made[req[r].key] < MaxPayments
  /\ made' = [made EXCEPT ![req[r].key] = @ + 1]
  /\ goto(r, "closing")
  /\ UNCHANGED <<lock, cache, row>>

\* The two writes of Promise.all run at the same time, after the client got
\* its answer.  The last one to land after the lock was freed ends it all.
settled(r, where) ==
  LET rest == req[r].todo \ {where} IN
    IF at(r, "unlocked") /\ rest = {}
    THEN finish(r)
    ELSE req' = [req EXCEPT ![r].todo = rest]

\* An UPDATE, which finds no row if the INSERT failed.
storeRow(r) ==
  /\ "row" \in req[r].todo
  /\ row' = [row EXCEPT ![req[r].key].body =
       IF row[req[r].key].here THEN req[r].payment ELSE @]
  /\ settled(r, "row")
  /\ noFault
  /\ UNCHANGED <<lock, cache, made>>

storeCache(r) ==
  /\ "cache" \in req[r].todo
  /\ cache' = [cache EXCEPT ![req[r].key] = req[r].payment]
  /\ settled(r, "cache")
  /\ noFault
  /\ UNCHANGED <<lock, row, made>>

\* One rejection ends the Promise.all: the lock is freed while the other write
\* may still be on its way.
storeFails(r) ==
  /\ suffer("storeFails")
  /\ \E where \in req[r].todo :
       LET rest == req[r].todo \ {where} IN
         IF at(r, "unlocked") /\ rest = {}
         THEN finish(r)
         ELSE req' = [req EXCEPT ![r].todo = rest,
                                 ![r].pc = IF @ = "storing" THEN "broken" ELSE @]
  /\ UNCHANGED <<lock, cache, row, made>>

---------------------------------------------------------------------------
(* The ends of a request.                                                  *)

mayClose(r) ==
  \/ req[r].pc \in {"closing", "broken"}
  \/ at(r, "storing") /\ req[r].todo = {}

leave(r) == IF req[r].todo = {} THEN finish(r) ELSE goto(r, "unlocked")

release(r) ==
  /\ mayClose(r)
  /\ Redis!releaseLock(req[r].key, r)
  /\ leave(r)
  /\ noFault
  /\ UNCHANGED <<cache, row, made>>

releaseFails(r) ==
  /\ suffer("releaseFails")
  /\ mayClose(r)
  /\ leave(r)
  /\ UNCHANGED <<lock, cache, row, made>>

requestDies(r) ==
  /\ suffer("requestDies")
  /\ ~ at(r, "idle")
  /\ finish(r)
  /\ UNCHANGED <<lock, cache, row, made>>

---------------------------------------------------------------------------
(* Redis.                                                                  *)

\* Evicted, or gone with a restart.
cacheLost(k) ==
  /\ suffer("cacheLost")
  /\ cache[k] # 0
  /\ cache' = [cache EXCEPT ![k] = 0]
  /\ UNCHANGED <<req, lock, row, made>>

\* The TTL of a lock nobody is going to free.
lockExpires(k) ==
  /\ \A r \in Request : ~ holds(r, k)
  /\ Redis!expire(k)
  /\ noFault
  /\ UNCHANGED <<req, cache, row, made>>

\* The TTL of a lock whose holder is still at work: it took thirty seconds, or
\* Redis restarted and forgot the lock.
slowHandler(k) ==
  /\ suffer("slowHandler")
  /\ \E r \in Request : holds(r, k)
  /\ Redis!expire(k)
  /\ UNCHANGED <<req, cache, row, made>>

\* RetentionScheduler: a day after the key was first used its row is deleted,
\* also under a request that came again with the key and found no answer.
cleanupExpiredKey(k) ==
  /\ suffer("keyExpires")
  /\ row[k].here
  /\ row' = [row EXCEPT ![k] = [here |-> FALSE, body |-> 0]]
  /\ UNCHANGED <<req, lock, cache, made>>

---------------------------------------------------------------------------
\* Everything but the arrival of a request.
afterLookup ==
  \/ \E r \in Request : acquire(r)
  \/ \E r \in Request : findRow(r)
  \/ \E r \in Request : register(r)
  \/ \E r \in Request : precheckFails(r)
  \/ \E r \in Request : createPayment(r)
  \/ \E r \in Request : paymentRefused(r)
  \/ \E r \in Request : enqueueFails(r)
  \/ \E r \in Request : storeRow(r)
  \/ \E r \in Request : storeCache(r)
  \/ \E r \in Request : storeFails(r)
  \/ \E r \in Request : release(r)
  \/ \E r \in Request : releaseFails(r)
  \/ \E r \in Request : requestDies(r)
  \/ \E k \in Key : cacheLost(k)
  \/ \E k \in Key : lockExpires(k)
  \/ \E k \in Key : slowHandler(k)
  \/ \E k \in Key : cleanupExpiredKey(k)

Next == afterLookup \/ \E r \in Request, k \in Key : lookup(r, k)

Spec == Init /\ [][Next]_vars

---------------------------------------------------------------------------
(* Properties.                                                             *)

\* SET NX and the compared token on release: unless a handler outlives its
\* lock, two requests never work on one key at the same time.
OneAtWork ==
  "slowHandler" \notin suffered =>
    \A r, s \in Request, k \in Key : holds(r, k) /\ holds(s, k) => r = s

\* Faults the design makes good.
Tolerated == {"cacheLost", "releaseFails"}

\* The lock, the row and the record together: however often a request is
\* repeated under a key, one payment is made, and records lost from Redis or
\* locks that stay until their TTL change nothing about it.
OnePaymentPerKey ==
  suffered \subseteq Tolerated => \A k \in Key : made[k] <= 1

\* What the README promises of a repeated Idempotency-Key: it is answered with
\* the first payment and never makes a second one, whatever failed before.
DuplicatesAnswered == \A k \in Key : made[k] <= 1
=============================================================================
