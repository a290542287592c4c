--------------------------- MODULE ProviderQueue ---------------------------
(***************************************************************************)
(* The BullMQ queue payment-provider: the processor that submits payments, *)
(* the sweep that re-enqueues stuck ones, the dead-letter handler, and the *)
(* provider they talk to.                                                  *)
(*                                                                         *)
(* A payment has at most two jobs: the one createPayment adds and the one  *)
(* the sweep adds under the fixed id retry-<id>.  An active job's pc is    *)
(* "eligible" once the processor has read the row and "submitted" while it *)
(* holds the provider's answer in memory; two workers may run both jobs at *)
(* once.  "failed" is exhausted with its event on the way to the           *)
(* dead-letter handler.  A job that is completed, or past that handler, is *)
(* never looked at again and counts as none.  BullMQ itself (attempts,     *)
(* stalled jobs, ids) is external.                                         *)
(***************************************************************************)
EXTENDS Transactions, Faults

CONSTANT MaxAttempts

ASSUME MaxAttemptsAssumption == MaxAttempts \in Nat \ {0}

VARIABLES
  job,     \* job[p][kind]
  issued,  \* the payment the provider issued a reference for
  tooOld,  \* payments the sweep leaves alone: they waited for 24 hours
  sweep    \* what is left of the running sweep's snapshot

queueVars == <<job, issued, tooOld, sweep>>

JobKind == {"first", "retry"}
ActivePc == {"eligible", "submitted"}
JobPc == ActivePc \cup {"none", "waiting", "failed"}

Job == [pc : JobPc, attemptsMade : 0 .. MaxAttempts,
        ref : Reference \cup {Null}]

NoJob == [pc |-> "none", attemptsMade |-> 0, ref |-> Null]

\* A job that is waiting or active has an attempt left.
LiveJob(j) == j.pc \in ActivePc \cup {"waiting"} => j.attemptsMade < MaxAttempts

JobTypeOK ==
  /\ job \in [Payment -> [JobKind -> Job]]
  /\ \A p \in Payment, k \in JobKind : LiveJob(job[p][k])

QueueTypeOK ==
  /\ JobTypeOK
  /\ issued \in [Reference -> Payment \cup {Null}]
  /\ tooOld \subseteq Payment
  /\ sweep \subseteq Payment

QueueInit ==
  /\ job = [p \in Payment |-> [k \in JobKind |-> NoJob]]
  /\ issued = [x \in Reference |-> Null]
  /\ tooOld = {}
  /\ sweep = {}

unsubmitted(p) == status[p] = "processing" /\ ref[p] = Null

setJob(p, k, j) == job' = [job EXCEPT ![p][k] = j]

addJob(p, k) == setJob(p, k, [NoJob EXCEPT !.pc = "waiting"])

finishJob(p, k) == setJob(p, k, NoJob)

---------------------------------------------------------------------------
(* The processor.                                                          *)

process(p, k) ==
  /\ job[p][k].pc = "waiting"
  /\ IF unsubmitted(p)
     THEN setJob(p, k, [job[p][k] EXCEPT !.pc = "eligible"])
     ELSE finishJob(p, k)
  /\ UNCHANGED <<ledgerVars, transactionVars, issued, tooOld, sweep, faults>>

\* Every submission is answered with a reference of its own: the call carries
\* no idempotency key.
submitPayment(p, k) ==
  /\ job[p][k].pc = "eligible"
  /\ \E x \in Reference :
       /\ issued[x] = Null
       /\ issued' = [issued EXCEPT ![x] = p]
       /\ setJob(p, k, [job[p][k] EXCEPT !.pc = "submitted", !.ref = x])
  /\ UNCHANGED <<ledgerVars, transactionVars, tooOld, sweep, faults>>

saveReference(p, k) ==
  /\ job[p][k].pc = "submitted"
  /\ ref' = [ref EXCEPT ![p] = job[p][k].ref]
  /\ finishJob(p, k)
  /\ UNCHANGED <<ledgerVars, status, history, issued, tooOld, sweep, faults>>

\* The attempt throws: the database or the provider failed, the UPDATE
\* perhaps after it was applied.
attemptFails(p, k) ==
  /\ Fault
  /\ job[p][k].pc \in ActivePc \cup {"waiting"}
  /\ LET n == job[p][k].attemptsMade + 1 IN
       setJob(p, k, [pc |-> IF n < MaxAttempts THEN "waiting" ELSE "failed",
                     attemptsMade |-> n, ref |-> Null])
  /\ \/ UNCHANGED ref
     \/ /\ job[p][k].pc = "submitted"
        /\ ref' = [ref EXCEPT ![p] = job[p][k].ref]
  /\ UNCHANGED <<ledgerVars, status, history, issued, tooOld, sweep>>

\* The worker dies.  BullMQ runs the job again, or moves it to the failed set
\* when it stalled too often, where attemptsMade is too low for the handler.
jobStalls(p, k) ==
  /\ Fault
  /\ job[p][k].pc \in ActivePc
  /\ \/ setJob(p, k, [job[p][k] EXCEPT !.pc = "waiting", !.ref = Null])
     \/ finishJob(p, k)
  /\ UNCHANGED <<ledgerVars, transactionVars, issued, tooOld, sweep>>

---------------------------------------------------------------------------
(* The sweep.  How long a payment has waited is not modelled: thirty       *)
(* minutes may be over at any moment, a day too.                           *)

pass24Hours(p) ==
  /\ unsubmitted(p) /\ p \notin tooOld
  /\ tooOld' = tooOld \cup {p}
  /\ UNCHANGED <<ledgerVars, transactionVars, job, issued, sweep, faults>>

\* Mutant: the query asks for the wrong status.
findInitiated ==
  /\ sweep = {}
  /\ sweep' = {p \in Payment : status[p] = "initiated" /\ ref[p] = Null} \ tooOld
  /\ sweep' # {}
  /\ UNCHANGED <<ledgerVars, transactionVars, job, issued, tooOld, faults>>

\* Payments older than a day are in the query's answer and skipped by the loop.
findStuck ==
  /\ sweep = {}
  /\ sweep' = {p \in Payment : unsubmitted(p)} \ tooOld
  /\ sweep' # {}
  /\ UNCHANGED <<ledgerVars, transactionVars, job, issued, tooOld, faults>>

\* One iteration of the loop over the snapshot.  A finished or failed retry
\* job is removed, so an event still on its way finds the new job.
retryStuck(p) ==
  /\ p \in sweep
  /\ sweep' = sweep \ {p}
  /\ IF job[p]["retry"].pc \in ActivePc \cup {"waiting"}
     THEN UNCHANGED job
     ELSE addJob(p, "retry")
  /\ UNCHANGED <<ledgerVars, transactionVars, issued, tooOld, faults>>

\* An exception in the loop, or a crash, ends the sweep.
sweepDies ==
  /\ Fault
  /\ sweep # {}
  /\ sweep' = {}
  /\ UNCHANGED <<ledgerVars, transactionVars, job, issued, tooOld>>

---------------------------------------------------------------------------
(* The dead-letter handler.  It reads the status, never the reference: the *)
(* provider may hold the payment.                                          *)

\* Mutant: the check of the status under the row lock is missing.
exhaustedAnyStatus(p, k) ==
  /\ job[p][k].pc = "failed"
  /\ finishJob(p, k)
  /\ IF hasBeenReversed(p)
     THEN UNCHANGED ledgerVars
     ELSE createCompensatingEntries(p)
  /\ moveTo(p, "processing", "failed")
  /\ UNCHANGED <<ref, issued, tooOld, sweep, faults>>

onProviderJobExhausted(p, k) ==
  /\ job[p][k].pc = "failed"
  /\ finishJob(p, k)
  /\ \/ /\ status[p] # "processing"
        /\ UNCHANGED <<ledgerVars, status, history>>
     \/ /\ status[p] = "processing"
        /\ IF hasBeenReversed(p)
           THEN UNCHANGED ledgerVars
           ELSE createCompensatingEntries(p)
        /\ moveTo(p, "processing", "failed")
  /\ UNCHANGED <<ref, issued, tooOld, sweep, faults>>

\* The listener was down, or its database transaction failed and was logged.
deadLetterLost(p, k) ==
  /\ Fault
  /\ job[p][k].pc = "failed"
  /\ finishJob(p, k)
  /\ UNCHANGED <<ledgerVars, transactionVars, issued, tooOld, sweep>>

---------------------------------------------------------------------------
workerStep(p, k) == process(p, k) \/ submitPayment(p, k) \/ saveReference(p, k)

QueueNext ==
  \/ \E p \in Payment, k \in JobKind :
       \/ process(p, k) \/ submitPayment(p, k) \/ saveReference(p, k)
       \/ attemptFails(p, k) \/ jobStalls(p, k)
       \/ onProviderJobExhausted(p, k) \/ deadLetterLost(p, k)
  \/ \E p \in Payment : pass24Hours(p) \/ retryStuck(p)
  \/ findStuck
  \/ sweepDies

\* Workers, cron and the event listener keep running while the service is up.
\* Nothing forces faults, nor a day without a sweep.
QueueFairness ==
  /\ \A p \in Payment, k \in JobKind :
       /\ WF_queueVars(workerStep(p, k))
       /\ WF_queueVars(onProviderJobExhausted(p, k))
  /\ \A p \in Payment : WF_queueVars(retryStuck(p))
  /\ WF_queueVars(findStuck)
=============================================================================
