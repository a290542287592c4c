------------------------------ MODULE PayRoute ------------------------------
(***************************************************************************)
(* The backend as a whole: API requests, the provider queue with its sweep *)
(* and dead letters, and webhook deliveries, interleaved over the shared   *)
(* tables accounts, ledger_entries, transactions and webhook_events.       *)
(***************************************************************************)
EXTENDS Payments, Webhooks

vars == <<ledgerVars, transactionVars, queueVars, apiVars, hookVars, faults>>

Init ==
  /\ LedgerInit
  /\ TransactionsInit
  /\ QueueInit
  /\ PaymentsInit
  /\ WebhooksInit
  /\ faults = 0

Next ==
  \/ PaymentsNext /\ UNCHANGED hookVars
  \/ WebhooksNext /\ UNCHANGED apiVars
  \/ QueueNext    /\ UNCHANGED <<apiVars, hookVars>>

Spec == Init /\ [][Next]_vars

\* The background parts keep running; nothing obliges a client or the
\* provider to call, or a fault to happen.
FairSpec == Spec /\ QueueFairness /\ WebhooksFairness

\* Every variable has its type; in particular no balance is ever negative,
\* whatever debits and chargebacks interleave (the CHECK on accounts.balance).
TypeOK ==
  /\ LedgerTypeOK
  /\ TransactionsTypeOK
  /\ QueueTypeOK
  /\ PaymentsTypeOK
  /\ WebhooksTypeOK
  /\ faults \in 0 .. MaxFaults

---------------------------------------------------------------------------
(* Money and status.                                                       *)

\* The operations that decide under the payment's row lock.  raiseDispute and
\* the rejection of a dispute do not; the properties that need this say so.
SettlingOps == {"create", "refund", "reverse"}

\* The rows a payment must have in each status.  A payment is reversed after a
\* failure that already returned the money, or by a chargeback.
ExpectedRows(s) ==
  CASE s = "none"       -> {Untouched}
    [] s = "processing" -> {Frozen}
    [] s = "completed"  -> {Paid}
    [] s = "failed"     -> {Released}
    [] s = "reversed"   -> {Released, Charged}
    [] OTHER            -> {}

\* The ledger rows of a payment are exactly those its status calls for:
\* refunds, webhooks and dead letters, in any interleaving and with any
\* retries, return the sender's money at most once and pay the recipient at
\* most once.
LedgerMatchesStatus ==
  \A p \in Payment : ledger[p] \in ExpectedRows(status[p])

\* A recipient is credited once per logged and processed "completed" event of
\* a reference issued for that payment: redelivered, retried and reordered
\* callbacks never credit twice, nor a payment they are not about.
CreditHasEvent ==
  \A p \in Payment :
    ledger[p]["recipient"]["credit"] =
      Cardinality({x \in Reference : /\ issued[x] = p
                                     /\ events[x]["completed"] = "processed"})

\* Where the money of each payment is, read off its ledger rows.
custody == [p \in Payment |->
  CASE ledger[p] = Untouched             -> "idle"
    [] ledger[p] = Frozen                -> "held"
    [] ledger[p] = Paid                  -> "paid"
    [] ledger[p] \in {Released, Charged} -> "returned"
    [] OTHER                             -> "lost"]

\* Money is neither created nor destroyed: what the ledger says of a payment is
\* one of the four situations a payment's money can be in.
MoneyConserved == \A p \in Payment : custody[p] # "lost"

\* A payment marked completed has been credited to its recipient.
CompletedIsCredited ==
  \A p \in Payment :
    status[p] = "completed" => ledger[p]["recipient"]["credit"] = 1

\* The payments of a sender that are under way or paid, and those of anybody that
\* came back from a dispute.
live(a) ==
  {p \in Payment : sender[p] = a /\ status[p] \in {"processing", "completed"}}

cameBack ==
  {p \in Payment : \E i \in DOMAIN history[p] :
                     history[p][i] = <<"disputed", "completed">>}

\* The day's count and volume of a sender leave out disputed payments, and a
\* dispute that is rejected brings one back: the limits of the day are exceeded
\* by the payments that came back from a dispute, and by nothing else, whatever
\* requests race.
DailyLimitKept ==
  \A a \in Account :
    LET counted == live(a) \ cameBack
    IN  /\ Cardinality(counted) <= MaxPaymentsPerDay
        /\ SumFunctionOnSet(sourceAmount, counted) <= MaxDailyVolume

---------------------------------------------------------------------------
(* Status and audit trail.                                                 *)

\* A payment is created into "processing" and from then on follows the table
\* of valid transitions, whoever moves it.
StrictTransitions ==
  [][\A p \in Payment : status'[p] # status[p] =>
       \/ status[p] = "none" /\ status'[p] = "processing"
       \/ validateTransition(status[p], status'[p])]_vars

\* The audit rows of a payment form one path of valid transitions from its
\* creation to its present status: nothing is missing, doubled or out of order.
HistoryIsPath ==
  \A p \in Payment :
    LET h == history[p] IN
      /\ status[p] = (IF h = <<>> THEN "none" ELSE h[Len(h)][2])
      /\ \A i \in DOMAIN h :
           IF i = 1 THEN h[i] = <<"none", "initiated">>
           ELSE h[i][1] = h[i - 1][2] /\ validateTransition(h[i][1], h[i][2])

---------------------------------------------------------------------------
(* Locks.                                                                  *)

\* A request that goes on after its lock expired never frees the lock another
\* request has taken since.
LocksOfOthersKept ==
  [][\A r \in Request : req'[r] # req[r] =>
       \A k \in Account \cup Payment :
         lock[k] \in Request \ {r} => lock'[k] = lock[k]]_vars

---------------------------------------------------------------------------
(* The promise to the parties, and the progress of a payment.              *)

Funds == INSTANCE FundsCustody

\* Read off the ledger, the money of every payment moves only as FundsCustody
\* allows.
CustodyKept == Funds!Spec

\* A payment whose money is frozen gets a provider reference, or is settled,
\* unless it grew a day old: crashes after the commit, lost jobs and lost dead
\* letters are made good by the sweep.
SubmissionProgress ==
  \A p \in Payment : unsubmitted(p) ~> ~ unsubmitted(p) \/ p \in tooOld

\* A callback logged while its payment is still processing is applied in the
\* end.
EventsApplied ==
  \A x \in Reference :
    events[x]["completed"] = "logged" ~>
      \/ events[x]["completed"] = "processed"
      \/ \E p \in Payment : issued[x] = p /\ status[p] # "processing"
=============================================================================
