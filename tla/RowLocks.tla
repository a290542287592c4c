----------------------------- MODULE RowLocks -----------------------------
(***************************************************************************)
(* The database transactions of the service, statement by statement: which *)
(* rows of accounts and transactions each of them locks, in which order,   *)
(* who waits for whom, and what it decided on when it commits.             *)
(*                                                                         *)
(* A session is one database transaction.  Row locks are PostgreSQL's:     *)
(* SELECT ... FOR UPDATE takes "Update", an UPDATE that leaves the keys    *)
(* alone "NoKeyUpdate", and an INSERT takes "KeyShare" on each row its     *)
(* foreign keys name.  A lock weaker than one the transaction holds on the *)
(* same row, and locks on rows nobody else can see, are left out.  Every   *)
(* lock is held to the end of the transaction.                             *)
(*                                                                         *)
(* The Redis locks in front of createPayment and of refunds are left out:  *)
(* their TTL may have run out.                                             *)
(***************************************************************************)
EXTENDS StatusTable, Naturals, Sequences

CONSTANTS
  Account, Payment, Session, Null,
  sender, recipient,
  StartTables       \* what the tables may hold at the start

ASSUME RowLocksAssumption ==
  /\ sender \in [Payment -> Account]
  /\ recipient \in [Payment -> Account]
  /\ \A p \in Payment : sender[p] # recipient[p]
  /\ Account \cap Payment = {}
  /\ Null \notin Payment
  /\ StartTables \subseteq [status : [Payment -> State \ {"initiated"}],
                              chargedBack : SUBSET Payment,
                              reversed : SUBSET Payment]
  /\ \A start \in StartTables : \A p \in start.chargedBack \cup start.reversed :
       start.status[p] \notin {"none", "initiated", "processing"}

\* As committed.  Every payment has the debit row of its sender.
VARIABLES
  status,
  chargedBack,  \* the payments that have a debit row of the recipient as well
  reversed,     \* the payments hasBeenReversed is true of
  txn           \* txn[t]: what session t does, what status of its payment it
                \* decided on, the account locks of what it then writes to the
                \* ledger, and how many locks it has taken

tables == <<status, chargedBack, reversed>>
rowVars == <<tables, txn>>

\* The provider's two callbacks; a dead letter is a "failed" of its own making.
Op == {"create", "refund", "reverse", "dispute", "reject",
       "completed", "failed"}

\* The operations that read the payment under its row lock.
Locking == {"refund", "reverse", "completed", "failed"}

SessionPc == {"new", "open", "committed", "aborted"}

NoWork == [pc |-> "new", op |-> "none", p |-> Null, seen |-> "none",
           writes |-> <<>>, done |-> 0]

Lock == [row : Account \cup Payment, mode : {"Update", "NoKeyUpdate", "KeyShare"},
         nowait : BOOLEAN]

Txn == [pc : SessionPc, op : Op \cup {"none"}, p : Payment \cup {Null},
        seen : State, writes : Seq(Lock), done : Nat]

RowLocksTypeOK ==
  /\ status \in [Payment -> State]
  /\ chargedBack \subseteq Payment
  /\ reversed \subseteq Payment
  /\ txn \in [Session -> Txn]
  /\ \A t \in Session : txn[t].pc = "open" => txn[t].op \in Op /\ txn[t].p \in Payment

RowLocksInit ==
  /\ \E start \in StartTables :
       /\ status = start.status
       /\ chargedBack = start.chargedBack
       /\ reversed = start.reversed
  /\ txn = [t \in Session |-> NoWork]

---------------------------------------------------------------------------
(* The locks of each operation, in the order of its statements.            *)

lock(row, mode) == [row |-> row, mode |-> mode, nowait |-> FALSE]

forUpdateNowait(row) == [row |-> row, mode |-> "Update", nowait |-> TRUE]

\* The sender's row, then the foreign keys of the new row.  The debit updates
\* the sender, which is locked already.
createLocks(p) == <<forUpdateNowait(sender[p]), lock(recipient[p], "KeyShare")>>

\* A debit updates the balance, then inserts the row; a credit the other way
\* round.
debit(account) == <<lock(account, "NoKeyUpdate")>>
credit(account) == <<lock(account, "KeyShare"), lock(account, "NoKeyUpdate")>>

chargebackLocks(p) == debit(recipient[p]) \o credit(sender[p])

\* A credit for every debit row, which are found in any order; a second credit
\* of an account takes no new lock.
compensationLocks(p) ==
  IF p \in chargedBack
  THEN {credit(sender[p]) \o credit(recipient[p]),
        credit(recipient[p]) \o credit(sender[p])}
  ELSE {credit(sender[p])}

\* What a session writes to the ledger.  Of a payment that is being processed
\* hasBeenReversed, which the dead letter asks as well, is never true.
ledgerLocks(op, p) ==
  CASE op = "completed" -> {credit(recipient[p])}
    [] op = "failed" -> compensationLocks(p)
    [] op \in {"refund", "reverse"} /\ p \in reversed -> {<<>>}
    [] op = "reverse" /\ p \notin reversed -> {chargebackLocks(p)}
    [] op = "refund" /\ p \notin reversed ->
         IF status[p] = "completed" THEN {chargebackLocks(p)} ELSE compensationLocks(p)

\* Mutant: the payment is read without a lock that excludes other writers.
refundUnlocked(p, writes) == <<lock(p, "KeyShare")>> \o writes

refundLocks(p, writes) == <<forUpdateNowait(p)>> \o writes

\* Mutant: the recipient is credited before the payment is locked.
creditFirst(p, writes) == credit(recipient[p]) \o <<lock(p, "Update")>>

eventLocks(p, writes) == <<lock(p, "Update")>> \o writes

locks(t) ==
  LET p == txn[t].p
      op == txn[t].op IN
    CASE op = "create" -> createLocks(p)
      [] op \in {"refund", "reverse"} -> refundLocks(p, txn[t].writes)
      [] op \in {"completed", "failed"} -> eventLocks(p, txn[t].writes)
      [] op \in {"dispute", "reject"} -> <<lock(p, "NoKeyUpdate")>>

target(op) ==
  CASE op = "create" -> "processing"
    [] op \in {"refund", "reverse"} -> "reversed"
    [] op = "dispute" -> "disputed"
    [] op \in {"reject", "completed"} -> "completed"
    [] op = "failed" -> "failed"

---------------------------------------------------------------------------
(* Waiting.                                                                *)

conflict(m, n) ==
  \/ "Update" \in {m, n}
  \/ m = "NoKeyUpdate" /\ n = "NoKeyUpdate"

open(t) == txn[t].pc = "open"

\* Who decides under the lock has decided with its first lock.
decided(t) == open(t) /\ txn[t].op \in Locking /\ txn[t].done > 0

charging(t) == open(t) /\ txn[t].writes = chargebackLocks(txn[t].p)

\* It returns what was debited, as far as there is something to write.
compensating(t) ==
  /\ open(t) /\ txn[t].op \in {"refund", "failed"}
  /\ txn[t].writes # <<>> /\ ~ charging(t)

refused(t) == decided(t) /\ ~ validateTransition(txn[t].seen, target(txn[t].op))

finished(t) == open(t) /\ ~ refused(t) /\ txn[t].done = Len(locks(t))

asking(t) == open(t) /\ ~ refused(t) /\ txn[t].done < Len(locks(t))

wanted(t) == locks(t)[txn[t].done + 1]

held(u) ==
  LET taken == locks(u) IN
    IF open(u) THEN {taken[i] : i \in 1 .. txn[u].done} ELSE {}

blockedBy(t, u) ==
  /\ t # u
  /\ asking(t)
  /\ LET next == wanted(t) IN
       \E h \in held(u) : h.row = next.row /\ conflict(next.mode, h.mode)

waitsFor(t, u) == blockedBy(t, u) /\ ~ wanted(t).nowait

\* Sessions that wait for each other in a circle: whichever part of them one
\* takes, somebody in it waits for somebody in the rest.
circle(C) ==
  /\ \E t, u \in C : t # u
  /\ \A D \in (SUBSET C) \ {{}, C} : \E t \in D, u \in C \ D : waitsFor(t, u)

waiting == {t \in Session : \E u \in Session : waitsFor(t, u)}

circles == {C \in SUBSET waiting : circle(C)}

---------------------------------------------------------------------------
(* The steps of a session.                                                 *)

end(t, how) == txn' = [txn EXCEPT ![t] = [NoWork EXCEPT !.pc = how]]

\* What the handler reads before its transaction begins.
mayBegin(op, p) ==
  CASE op = "create" -> /\ status[p] = "none"
                        /\ \A u \in Session : ~ (open(u) /\ txn[u].op = op /\ txn[u].p = p)
    [] op \in {"refund", "reverse", "dispute", "reject"} ->
         validateTransition(status[p], target(op))
    [] OTHER -> status[p] # "none"

begin(t, op, p) ==
  /\ txn[t].pc = "new"
  /\ mayBegin(op, p)
  /\ txn' = [txn EXCEPT ![t] =
       [pc |-> "open", op |-> op, p |-> p, seen |-> status[p],
        writes |-> <<>>, done |-> 0]]
  /\ UNCHANGED tables

\* What session t writes to the ledger, given the row it has just locked: nothing
\* if it is to be refused.
readsToWrite(t) ==
  LET p == txn[t].p
      op == txn[t].op IN
    IF validateTransition(status[p], target(op)) THEN ledgerLocks(op, p) ELSE {<<>>}

\* The lock is free, or shared.  The first one brings the row as last committed,
\* and with it the payment's ledger rows.
acquire(t) ==
  /\ asking(t)
  /\ \A u \in Session : ~ blockedBy(t, u)
  /\ IF txn[t].op \in Locking /\ txn[t].done = 0
     THEN \E writes \in readsToWrite(t) :
            txn' = [txn EXCEPT ![t].done = 1,
                               ![t].seen = status[txn[t].p],
                               ![t].writes = writes]
     ELSE txn' = [txn EXCEPT ![t].done = @ + 1]
  /\ UNCHANGED tables

\* NOWAIT: an error instead of waiting.
notObtained(t) ==
  /\ asking(t) /\ wanted(t).nowait
  /\ \E u \in Session : blockedBy(t, u)
  /\ end(t, "aborted")
  /\ UNCHANGED tables

\* Mutant: the handler leaves without ending its transaction.
refuseAndStay(t) ==
  /\ refused(t)
  /\ UNCHANGED rowVars

\* The status under the lock does not allow the transition: the handler throws,
\* or the dead letter returns, and nothing was written.
refuse(t) ==
  /\ refused(t)
  /\ end(t, "aborted")
  /\ UNCHANGED tables

commit(t) ==
  /\ finished(t)
  /\ end(t, "committed")
  /\ status' = [status EXCEPT ![txn[t].p] = target(txn[t].op)]
  /\ chargedBack' = IF charging(t) THEN chargedBack \cup {txn[t].p} ELSE chargedBack
  /\ reversed' = IF compensating(t) THEN reversed \cup {txn[t].p} ELSE reversed

\* Any statement may throw: the balance does not suffice, a limit is reached,
\* the connection is lost.
throws(t) ==
  /\ open(t)
  /\ end(t, "aborted")
  /\ UNCHANGED tables

\* PostgreSQL aborts a session that waits, and finds itself in a circle.
deadlockDetected(t) ==
  /\ \E u \in Session : waitsFor(t, u)
  /\ \E C \in circles : t \in C
  /\ end(t, "aborted")
  /\ UNCHANGED tables

---------------------------------------------------------------------------
RowLocksNext ==
  \/ \E t \in Session, op \in Op, p \in Payment : begin(t, op, p)
  \/ \E t \in Session : acquire(t)
  \/ \E t \in Session : notObtained(t)
  \/ \E t \in Session : refuse(t)
  \/ \E t \in Session : commit(t)
  \/ \E t \in Session : throws(t)
  \/ \E t \in Session : deadlockDetected(t)

\* Handlers run on and PostgreSQL looks for deadlocks; nothing throws by duty.
goesOn(t) ==
  acquire(t) \/ notObtained(t) \/ refuse(t) \/ commit(t) \/ deadlockDetected(t)

RowLocksFairness == \A t \in Session : WF_rowVars(goesOn(t))

RowLocksSpec == RowLocksInit /\ [][RowLocksNext]_rowVars /\ RowLocksFairness

---------------------------------------------------------------------------
(* Properties.                                                             *)

\* A chargeback, or the compensation of a payment that has been charged back.
movesBack(t) ==
  \/ charging(t)
  \/ txn[t].op = "refund" /\ txn[t].p \in chargedBack

\* Only payments being created wait for each other in a circle, or sessions that
\* move the money of both parties do: chargebacks, and refunds that compensate the
\* debits of a payment that was charged back before and then disputed again.
\* Never the two kinds together, and never a callback, a dead letter, a dispute
\* or a refund of money that was only frozen.
UniformDeadlocks ==
  \A C \in circles :
    \/ \A t \in C : txn[t].op = "create"
    \/ \A t \in C : movesBack(t)

\* What a refund, a callback or a dead letter read of its payment is still so
\* when it commits, whoever else writes the payment meanwhile.
DecisionsStand ==
  \A t \in Session : decided(t) => status[txn[t].p] = txn[t].seen

\* A dispute, or its rejection, was found valid before its transaction began.
granted ==
  [t \in Session |->
     IF open(t) /\ txn[t].op \in {"dispute", "reject"}
     THEN {<<txn[t].p, target(txn[t].op)>>} ELSE {}]

Atomic == INSTANCE AtomicTransitions WITH
  Actor <- Session,
  StartStatus <- State \ {"initiated"},
  log <- {t \in Session : txn[t].pc = "committed"}

\* Statement by statement, and whoever waits, throws or deadlocks, a transaction
\* works as if it decided and wrote in one step, but for disputes and their
\* rejections: no refund, callback or dead letter overwrites what it did not see.
DecidesAtOnce == Atomic!AtomicSpec

\* Every database transaction comes to an end, deadlocks included: time and
\* again none is open.
TransactionsEnd == []<>(\A t \in Session : ~ open(t))
=============================================================================
