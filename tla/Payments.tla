------------------------------ MODULE Payments ------------------------------
(***************************************************************************)
(* PaymentsService: the five operations of the API on payments.            *)
(*                                                                         *)
(* A request's pc says how far its handler got: "checked" has read the     *)
(* payment outside any transaction, "locked" holds a Redis lock, or held   *)
(* it until its TTL ran out, "committed" and "aborted" name the outcome of *)
(* the database transaction, "released" is past the finally block.  A      *)
(* database transaction is one step: it takes the row lock before it       *)
(* decides anything.  Requests return to "idle" and may be issued again.   *)
(***************************************************************************)
EXTENDS ProviderQueue, FiniteSets

CONSTANTS
  Request,
  Ops,                    \* the operations this instance may call
  MaxPaymentsPerDay, MaxDailyVolume,
  MaxHistory              \* bound on audit rows: disputes may go on for ever

Op == {"create", "refund", "reverse", "dispute", "reject"}

ASSUME PaymentsAssumption ==
  /\ Ops \subseteq Op
  /\ MaxPaymentsPerDay \in Nat
  /\ MaxDailyVolume \in Nat
  /\ MaxHistory \in Nat
  /\ Null \notin Request

VARIABLES req, lock

apiVars == <<req, lock>>

\* Keys account:<id> and refund:<id>.
Redis == INSTANCE RedisLock
           WITH Key <- Account \cup Payment, Owner <- Request

RequestPc == {"idle", "checked", "locked", "committed", "aborted", "released"}

NoRequest == [pc |-> "idle", op |-> "none", p |-> Null, seen |-> "none"]

PaymentsTypeOK ==
  /\ req \in [Request -> [pc : RequestPc, op : Ops \cup {"none"},
                          p : Payment \cup {Null}, seen : State]]
  /\ \A r \in Request : req[r].p = Null => req[r].pc = "idle"
  /\ Redis!TypeOK

PaymentsInit ==
  /\ req = [r \in Request |-> NoRequest]
  /\ Redis!Init

target(op) ==
  CASE op \in {"refund", "reverse"} -> "reversed"
    [] op = "dispute" -> "disputed"
    [] op = "reject"  -> "completed"

lockKey(r) ==
  IF req[r].op = "create" THEN sender[req[r].p] ELSE req[r].p

setRequest(r, pc) == req' = [req EXCEPT ![r].pc = pc]

finish(r) == req' = [req EXCEPT ![r] = NoRequest]

---------------------------------------------------------------------------
(* createPayment.                                                          *)

\* A payment no request has begun to create.
unused(p) ==
  /\ status[p] = "none"
  /\ \A r \in Request : req[r].p # p

\* A request that finds the lock taken is answered 409 and changes nothing.
createPayment(r, p) ==
  /\ "create" \in Ops
  /\ req[r].pc = "idle"
  /\ unused(p)
  /\ Redis!acquireLock(sender[p], r)
  /\ req' = [req EXCEPT ![r] =
       [pc |-> "locked", op |-> "create", p |-> p, seen |-> "none"]]
  /\ UNCHANGED <<ledgerVars, transactionVars, queueVars, faults>>

\* Mutant: a payment leaves the count when it is completed.
countedUnsettled(account) ==
  {p \in Payment : sender[p] = account /\ status[p] \in {"initiated", "processing"}}

countedToday(account) ==
  {p \in Payment : /\ sender[p] = account
                   /\ status[p] \in {"initiated", "processing", "completed"}}

withinLimits(p) ==
  LET today == countedToday(sender[p]) IN
    /\ Cardinality(today) < MaxPaymentsPerDay
    /\ SumFunctionOnSet(sourceAmount, today) + sourceAmount[p] <= MaxDailyVolume

commitPayment(r) ==
  LET p == req[r].p IN
    /\ req[r].pc = "locked" /\ req[r].op = "create"
    /\ status[p] = "none"      \* an INSERT
    /\ withinLimits(p)
    /\ debit(p, "sender")
    /\ status' = [status EXCEPT ![p] = "processing"]
    /\ history' = [history EXCEPT ![p] =
         @ \o << <<"none", "initiated">>, <<"initiated", "processing">> >>]
    /\ setRequest(r, "committed")
    /\ UNCHANGED <<ref, queueVars, lock, faults>>

enqueue(r) ==
  /\ req[r].pc = "released"
  /\ addJob(req[r].p, "first")
  /\ finish(r)
  /\ UNCHANGED <<ledgerVars, transactionVars, issued, tooOld, sweep, lock, faults>>

---------------------------------------------------------------------------
(* refundPayment, raiseDispute and resolveDispute begin alike: they read   *)
(* the payment and check the transition before any lock is taken.  Only a  *)
(* dispute uses the status it saw again.                                   *)

validate(r, op, p) ==
  /\ op \in Ops
  /\ req[r].pc = "idle"
  /\ status[p] # "none"
  /\ validateTransition(status[p], target(op))
  /\ req' = [req EXCEPT ![r] =
       [pc |-> "checked", op |-> op, p |-> p, 
        seen |-> IF op = "dispute" THEN status[p] ELSE "none"]]
  /\ UNCHANGED <<ledgerVars, transactionVars, queueVars, lock, faults>>

acquireRefundLock(r) ==
  /\ req[r].pc = "checked" /\ req[r].op \in {"refund", "reverse"}
  /\ \/ Redis!acquireLock(lockKey(r), r) /\ setRequest(r, "locked")
     \/ Redis!held(lockKey(r)) /\ finish(r) /\ UNCHANGED lock
  /\ UNCHANGED <<ledgerVars, transactionVars, queueVars, faults>>

\* Mutant: the status read before the lock was taken is trusted.
refundUnvalidated(r) ==
  LET p == req[r].p IN
    /\ req[r].pc = "locked" /\ req[r].op = "refund"
    /\ CASE hasBeenReversed(p) -> UNCHANGED ledgerVars
         [] ~ hasBeenReversed(p) /\ status[p] = "completed" -> chargeback(p)
         [] OTHER -> createCompensatingEntries(p)
    /\ moveTo(p, status[p], "reversed")
    /\ setRequest(r, "committed")
    /\ UNCHANGED <<ref, queueVars, lock, faults>>

refundPayment(r) ==
  LET p == req[r].p IN
    /\ req[r].pc = "locked" /\ req[r].op = "refund"
    /\ validateTransition(status[p], "reversed")
    /\ CASE hasBeenReversed(p) -> UNCHANGED ledgerVars
         [] ~ hasBeenReversed(p) /\ status[p] = "completed" -> chargeback(p)
         [] OTHER -> createCompensatingEntries(p)
    /\ moveTo(p, status[p], "reversed")
    /\ setRequest(r, "committed")
    /\ UNCHANGED <<ref, queueVars, lock, faults>>

\* resolveDispute with action "reverse", from any status that allows it.
resolveReverse(r) ==
  LET p == req[r].p IN
    /\ req[r].pc = "locked" /\ req[r].op = "reverse"
    /\ validateTransition(status[p], "reversed")
    /\ IF hasBeenReversed(p) THEN UNCHANGED ledgerVars ELSE chargeback(p)
    /\ moveTo(p, status[p], "reversed")
    /\ setRequest(r, "committed")
    /\ UNCHANGED <<ref, queueVars, lock, faults>>

\* The status is written whatever it is by now; the audit row says what was
\* read before the transaction.
raiseDispute(r) ==
  LET p == req[r].p IN
    /\ req[r].pc = "checked" /\ req[r].op = "dispute"
    /\ Len(history[p]) < MaxHistory
    /\ moveTo(p, req[r].seen, "disputed")
    /\ finish(r)
    /\ UNCHANGED <<ledgerVars, ref, queueVars, lock, faults>>

\* resolveDispute with action "reject": the audit row always says disputed.
resolveReject(r) ==
  LET p == req[r].p IN
    /\ req[r].pc = "checked" /\ req[r].op = "reject"
    /\ Len(history[p]) < MaxHistory
    /\ moveTo(p, "disputed", "completed")
    /\ finish(r)
    /\ UNCHANGED <<ledgerVars, ref, queueVars, lock, faults>>

---------------------------------------------------------------------------
(* The ends of a handler.                                                  *)

\* Any statement of the transaction may throw: a check, a row lock taken with
\* NOWAIT, a serialization failure, a balance too low, a lost connection.
abort(r) ==
  /\ req[r].pc = "locked"
  /\ setRequest(r, "aborted")
  /\ UNCHANGED <<ledgerVars, transactionVars, queueVars, lock, faults>>

leaveFinally(r) ==
  IF req[r].pc = "committed" /\ req[r].op = "create"
  THEN setRequest(r, "released")
  ELSE finish(r)

release(r) ==
  /\ req[r].pc \in {"committed", "aborted"}
  /\ Redis!releaseLock(lockKey(r), r)
  /\ leaveFinally(r)
  /\ UNCHANGED <<ledgerVars, transactionVars, queueVars, faults>>

\* A failed release is logged and the handler goes on.
releaseFails(r) ==
  /\ Fault
  /\ req[r].pc \in {"committed", "aborted"}
  /\ leaveFinally(r)
  /\ UNCHANGED <<ledgerVars, transactionVars, queueVars, lock>>

\* The process dies, or a call outside the transaction throws.
requestDies(r) ==
  /\ Fault
  /\ req[r].pc # "idle"
  /\ finish(r)
  /\ UNCHANGED <<ledgerVars, transactionVars, queueVars, lock>>

\* TTLs are real time; a transaction may outlive the lock taken for it.
lockExpires(k) ==
  /\ Redis!expire(k)
  /\ UNCHANGED <<ledgerVars, transactionVars, queueVars, req, faults>>

---------------------------------------------------------------------------
PaymentsNext ==
  \/ \E r \in Request :
       \/ \E p \in Payment :
            createPayment(r, p) \/ \E op \in Op \ {"create"} : validate(r, op, p)
       \/ commitPayment(r) \/ enqueue(r)
       \/ acquireRefundLock(r)
       \/ refundPayment(r) \/ resolveReverse(r)
       \/ raiseDispute(r) \/ resolveReject(r)
       \/ abort(r) \/ release(r) \/ releaseFails(r) \/ requestDies(r)
  \/ \E k \in Account \cup Payment : lockExpires(k)
=============================================================================
