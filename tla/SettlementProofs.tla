-------------------------- MODULE SettlementProofs --------------------------
(***************************************************************************)
(* The money of a payment, for every value of the constants, as long as    *)
(* the API offers no dispute: raiseDispute and its rejection write the     *)
(* status without a look at it, and the runs refute these theorems for     *)
(* them.                                                                   *)
(***************************************************************************)
EXTENDS PayRouteProofs

---------------------------------------------------------------------------
(* All a step can do to the status and the rows of a payment.              *)

Settle(p, from, to, before, after) ==
  /\ status[p] = from /\ status' = [status EXCEPT ![p] = to]
  /\ ledger[p] = before /\ ledger'[p] = after
  /\ \A q \in Payment \ {p} : ledger'[q] = ledger[q]

MoneyStep(p) ==
  \/ Settle(p, "none", "processing", Untouched, Frozen)
  \/ Settle(p, "processing", "completed", Frozen, Paid)
  \/ Settle(p, "processing", "failed", Frozen, Released)
  \/ Settle(p, "failed", "reversed", Released, Released)
  \/ Settle(p, "completed", "reversed", Paid, Charged)

MoneyKept == UNCHANGED <<ledger, status>>

IInv == TypeOK /\ LedgerMatchesStatus

LEMMA RowsByStatus ==
  ASSUME LedgerMatchesStatus, NEW p \in Payment
  PROVE  /\ status[p] = "none"       => ledger[p] = Untouched
         /\ status[p] = "processing" => ledger[p] = Frozen
         /\ status[p] = "completed"  => ledger[p] = Paid
         /\ status[p] = "failed"     => ledger[p] = Released
         /\ status[p] # "initiated" /\ status[p] # "disputed"
  BY DEF LedgerMatchesStatus, ExpectedRows

\* To "reversed" only from "failed" or "completed", and so on.
LEMMA OnlyFrom ==
  ASSUME LedgerMatchesStatus, NEW p \in Payment
  PROVE  /\ validateTransition(status[p], "reversed") =>
              status[p] \in {"failed", "completed"}
         /\ validateTransition(status[p], "completed") => status[p] = "processing"
         /\ validateTransition(status[p], "failed") => status[p] = "processing"
  BY RowsByStatus DEF validateTransition, VALID_TRANSITIONS

LEMMA CommitPaymentMoney ==
  ASSUME IInv, NEW r \in Request, commitPayment(r)
  PROVE  \E p \in Payment : MoneyStep(p)
  <1> DEFINE p == req[r].p
  <1>1. p \in Payment /\ LedgerTypeOK
    BY RequestHasPayment DEF commitPayment, IInv, TypeOK
  <1>2. ledger[p] = Untouched
    BY <1>1, RowsByStatus DEF commitPayment, IInv
  <1>3. debit(p, "sender")
    BY DEF commitPayment
  <1>4. ledger'[p] = Frozen
    BY <1>1, <1>2, <1>3, DebitFreezes
  <1>5. \A q \in Payment \ {p} : ledger'[q] = ledger[q]
    BY <1>1, <1>3, OthersKept DEF Side
  <1> QED BY <1>1, <1>2, <1>4, <1>5 DEF commitPayment, MoneyStep, Settle

\* The row lock is held from the check of the status to the commit, so a
\* refund finds the rows its status calls for.
LEMMA ReversalMoney ==
  ASSUME IInv, NEW r \in Request, refundPayment(r) \/ resolveReverse(r)
  PROVE  \E p \in Payment : MoneyStep(p)
  <1> DEFINE p == req[r].p
  <1>1. p \in Payment /\ LedgerTypeOK
    BY RequestHasPayment DEF refundPayment, resolveReverse, IInv, TypeOK
  <1>2. status' = [status EXCEPT ![p] = "reversed"]
    BY DEF refundPayment, resolveReverse, moveTo
  <1>3. status[p] \in {"failed", "completed"}
    BY <1>1, OnlyFrom DEF refundPayment, resolveReverse, IInv
  <1>4. CASE status[p] = "failed"
    <2>1. ledger[p] = Released /\ hasBeenReversed(p)
      BY <1>1, <1>4, RowsByStatus, ReversedShapes DEF IInv
    <2>2. UNCHANGED ledger
      BY <2>1 DEF refundPayment, resolveReverse, ledgerVars
    <2> QED BY <1>1, <1>2, <1>4, <2>1, <2>2 DEF MoneyStep, Settle
  <1>5. CASE status[p] = "completed"
    <2>1. ledger[p] = Paid /\ ~ hasBeenReversed(p)
      BY <1>1, <1>5, RowsByStatus, ReversedShapes DEF IInv
    <2>2. chargeback(p)
      BY <1>5, <2>1 DEF refundPayment, resolveReverse
    <2>3. ledger'[p] = Charged /\ \A q \in Payment \ {p} : ledger'[q] = ledger[q]
      BY <1>1, <2>1, <2>2, ChargebackCharges, OthersKept
    <2> QED BY <1>1, <1>2, <1>5, <2>1, <2>3 DEF MoneyStep, Settle
  <1> QED BY <1>3, <1>4, <1>5

\* A callback is applied to a payment that is still processing, or not at all.
LEMMA ApplyEventMoney ==
  ASSUME IInv, NEW d \in Delivery, NEW p \in Payment, applyEvent(d, p)
  PROVE  MoneyStep(p)
  <1>1. LedgerTypeOK
    BY DEF IInv, TypeOK
  <1>2. status[p] = "processing" /\ ledger[p] = Frozen
    BY OnlyFrom, RowsByStatus DEF applyEvent, IInv
  <1>3. CASE hook[d].type = "completed" /\ credit(p, "recipient")
    <2>1. ledger'[p] = Paid /\ \A q \in Payment \ {p} : ledger'[q] = ledger[q]
      BY <1>1, <1>2, <1>3, CreditPays, OthersKept DEF Side
    <2> QED BY <1>2, <1>3, <2>1 DEF applyEvent, moveTo, MoneyStep, Settle
  <1>4. CASE hook[d].type = "failed" /\ createCompensatingEntries(p)
    <2>1. ledger'[p] = Released /\ \A q \in Payment \ {p} : ledger'[q] = ledger[q]
      BY <1>1, <1>2, <1>4, CompensateReleases, OthersKept
    <2> QED BY <1>2, <1>4, <2>1 DEF applyEvent, moveTo, MoneyStep, Settle
  <1> QED BY <1>3, <1>4 DEF applyEvent

LEMMA DeadLetterMoney ==
  ASSUME IInv, NEW p \in Payment, NEW k \in JobKind, onProviderJobExhausted(p, k)
  PROVE  MoneyKept \/ MoneyStep(p)
  <1>1. CASE UNCHANGED <<ledgerVars, status, history>>
    BY <1>1 DEF MoneyKept, ledgerVars
  <1>2. CASE status[p] = "processing" /\ moveTo(p, "processing", "failed")
    <2>1. LedgerTypeOK /\ ledger[p] = Frozen /\ ~ hasBeenReversed(p)
      BY <1>2, RowsByStatus, ReversedShapes DEF IInv, TypeOK
    <2>2. createCompensatingEntries(p)
      BY <1>2, <2>1 DEF onProviderJobExhausted, moveTo
    <2>3. ledger'[p] = Released /\ \A q \in Payment \ {p} : ledger'[q] = ledger[q]
      BY <2>1, <2>2, CompensateReleases, OthersKept
    <2> QED BY <1>2, <2>1, <2>3 DEF moveTo, MoneyStep, Settle
  <1> QED BY <1>1, <1>2 DEF onProviderJobExhausted

---------------------------------------------------------------------------
(* Every step of the system is one of these, or leaves the money alone.    *)

MoneyNext == MoneyKept \/ \E p \in Payment : MoneyStep(p)

LEMMA QueueStepMoney == IInv /\ QueueNext => MoneyNext
  <1> SUFFICES ASSUME IInv, QueueNext PROVE MoneyNext
    OBVIOUS
  <1>1. CASE \E p \in Payment, k \in JobKind :
                process(p, k) \/ submitPayment(p, k) \/ saveReference(p, k)
    BY <1>1 DEF process, submitPayment, saveReference, MoneyNext, MoneyKept,
                ledgerVars, transactionVars
  <1>2. CASE \E p \in Payment, k \in JobKind :
                attemptFails(p, k) \/ jobStalls(p, k) \/ deadLetterLost(p, k)
    BY <1>2 DEF attemptFails, jobStalls, deadLetterLost, MoneyNext, MoneyKept,
                ledgerVars, transactionVars
  <1>3. CASE \E p \in Payment, k \in JobKind : onProviderJobExhausted(p, k)
    BY <1>3, DeadLetterMoney DEF MoneyNext
  <1>4. CASE \E p \in Payment : pass24Hours(p) \/ retryStuck(p)
    BY <1>4 DEF pass24Hours, retryStuck, MoneyNext, MoneyKept, ledgerVars,
                transactionVars
  <1>5. CASE findStuck \/ sweepDies
    BY <1>5 DEF findStuck, sweepDies, MoneyNext, MoneyKept, ledgerVars,
                transactionVars
  <1> QED BY <1>1, <1>2, <1>3, <1>4, <1>5 DEF QueueNext

\* The only API calls that write a status without its row lock are the two an
\* instance may leave out.
LEMMA NoBlindWrites ==
  ASSUME Ops \subseteq SettlingOps, PaymentsTypeOK, NEW r \in Request
  PROVE  ~ raiseDispute(r) /\ ~ resolveReject(r)
  <1>1. req[r].op \in Ops \cup {"none"}
    BY DEF PaymentsTypeOK
  <1> QED BY <1>1 DEF SettlingOps, raiseDispute, resolveReject

LEMMA ApiStepMoney ==
  ASSUME Ops \subseteq SettlingOps, IInv, PaymentsNext
  PROVE  MoneyNext
  <1>1. CASE \E r \in Request, p \in Payment :
                \/ createPayment(r, p)
                \/ \E op \in Op \ {"create"} : validate(r, op, p)
    BY <1>1 DEF createPayment, validate, MoneyNext, MoneyKept, ledgerVars,
                transactionVars
  <1>2. CASE \E r \in Request : commitPayment(r)
    BY <1>2, CommitPaymentMoney DEF MoneyNext
  <1>3. CASE \E r \in Request : refundPayment(r) \/ resolveReverse(r)
    BY <1>3, ReversalMoney DEF MoneyNext
  <1>4. CASE \E r \in Request : raiseDispute(r) \/ resolveReject(r)
    BY <1>4, NoBlindWrites DEF IInv, TypeOK
  <1>5. CASE \E r \in Request : enqueue(r) \/ acquireRefundLock(r)
    BY <1>5 DEF enqueue, acquireRefundLock, MoneyNext, MoneyKept, ledgerVars,
                transactionVars
  <1>6. CASE \E r \in Request :
                abort(r) \/ release(r) \/ releaseFails(r) \/ requestDies(r)
    BY <1>6 DEF abort, release, releaseFails, requestDies, MoneyNext, MoneyKept,
                ledgerVars, transactionVars
  <1>7. CASE \E k \in Account \cup Payment : lockExpires(k)
    BY <1>7 DEF lockExpires, MoneyNext, MoneyKept, ledgerVars, transactionVars
  <1> QED BY <1>1, <1>2, <1>3, <1>4, <1>5, <1>6, <1>7 DEF PaymentsNext

LEMMA HookStepMoney == IInv /\ WebhooksNext => MoneyNext
  <1> SUFFICES ASSUME IInv, WebhooksNext PROVE MoneyNext
    OBVIOUS
  <1>1. CASE \E d \in Delivery, p \in Payment : applyEvent(d, p)
    BY <1>1, ApplyEventMoney DEF MoneyNext
  <1>2. CASE ~ \E d \in Delivery, p \in Payment : applyEvent(d, p)
    BY <1>2 DEF WebhooksNext, handleProviderWebhook, logEvent, unknownReference,
                rejectEvent, hookFails, cleanupProcessedEvent, MoneyNext, MoneyKept,
                ledgerVars, transactionVars
  <1> QED BY <1>1, <1>2

LEMMA NextMoney ==
  ASSUME Ops \subseteq SettlingOps, IInv, [Next]_vars
  PROVE  MoneyNext
  <1>1. CASE Next
    BY <1>1, QueueStepMoney, ApiStepMoney, HookStepMoney DEF Next
  <1>2. CASE UNCHANGED vars
    BY <1>2 DEF vars, ledgerVars, transactionVars, MoneyNext, MoneyKept
  <1> QED BY <1>1, <1>2

---------------------------------------------------------------------------
(* The theorems.                                                           *)

LEMMA SettleKeepsMatch == LedgerMatchesStatus /\ TypeOK /\ MoneyNext => LedgerMatchesStatus'
  <1>1. CASE MoneyKept
    BY <1>1 DEF MoneyKept, LedgerMatchesStatus, ExpectedRows
  <1>2. ASSUME LedgerMatchesStatus, TypeOK, NEW p \in Payment, MoneyStep(p)
        PROVE  LedgerMatchesStatus'
    <2>1. status' = [status EXCEPT ![p] = status'[p]]
      BY <1>2 DEF MoneyStep, Settle, TypeOK, TransactionsTypeOK
    <2>2. ledger'[p] \in ExpectedRows(status'[p])
      BY <1>2 DEF MoneyStep, Settle, ExpectedRows, TypeOK, TransactionsTypeOK
    <2>3. ASSUME NEW q \in Payment \ {p}
          PROVE  ledger'[q] = ledger[q] /\ status'[q] = status[q]
      BY <1>2, <2>1 DEF MoneyStep, Settle, TypeOK, TransactionsTypeOK
    <2> QED BY <1>2, <2>2, <2>3 DEF LedgerMatchesStatus
  <1> QED BY <1>1, <1>2 DEF MoneyNext

LEMMA InitSettled == Init => IInv
  <1>1. Init => LedgerMatchesStatus
    BY DEF Init, LedgerInit, TransactionsInit, LedgerMatchesStatus, ExpectedRows,
           Untouched, NoRows, Rows, Side, Kind
  <1> QED BY <1>1, InitType DEF IInv

LEMMA StepSettled ==
  ASSUME Ops \subseteq SettlingOps
  PROVE  IInv /\ [Next]_vars => IInv'
  BY NextMoney, StepType, SettleKeepsMatch DEF IInv

\* Refunds, webhooks, dead letters and retries, in any number and order, leave
\* every payment with exactly the ledger rows of its status: the money is never
\* returned twice, paid twice, or both paid and returned.
THEOREM Settled ==
  ASSUME Ops \subseteq SettlingOps
  PROVE  Spec => []LedgerMatchesStatus
  <1>1. IInv /\ [Next]_vars => IInv'
    BY StepSettled
  <1>2. IInv => LedgerMatchesStatus
    BY DEF IInv
  <1> QED BY <1>1, <1>2, InitSettled, PTL DEF Spec

\* A status only moves along VALID_TRANSITIONS, however the handlers, the
\* webhooks and the dead letters interleave.
THEOREM Strict ==
  ASSUME Ops \subseteq SettlingOps
  PROVE  Spec => StrictTransitions
  <1> DEFINE Strictly ==
        \A p \in Payment : status'[p] # status[p] =>
          \/ status[p] = "none" /\ status'[p] = "processing"
          \/ validateTransition(status[p], status'[p])
  <1>1. IInv /\ [Next]_vars => IInv'
    BY StepSettled
  <1>2. IInv /\ [Next]_vars => [Strictly]_vars
    <2> SUFFICES ASSUME IInv, [Next]_vars PROVE Strictly
      OBVIOUS
    <2>1. CASE MoneyKept
      BY <2>1 DEF MoneyKept
    <2>2. ASSUME NEW p \in Payment, MoneyStep(p) PROVE Strictly
      BY <2>2 DEF MoneyStep, Settle, validateTransition, VALID_TRANSITIONS, IInv,
                  TypeOK, TransactionsTypeOK
    <2> QED BY <2>1, <2>2, NextMoney DEF MoneyNext
  <1> QED BY <1>1, <1>2, InitSettled, PTL DEF Spec, StrictTransitions

---------------------------------------------------------------------------
(* The refinement of FundsCustody.                                         *)

LEMMA ShapesDiffer ==
  /\ Untouched \notin {Frozen, Paid, Released, Charged}
  /\ Frozen \notin {Paid, Released, Charged}
  /\ Paid \notin {Released, Charged}
  BY DEF Untouched, Frozen, Paid, Released, Charged, NoRows, Rows

CustodyOf(rows) ==
  CASE rows = Untouched             -> "idle"
    [] rows = Frozen                -> "held"
    [] rows = Paid                  -> "paid"
    [] rows \in {Released, Charged} -> "returned"
    [] OTHER                        -> "lost"

LEMMA CustodyOfShapes ==
  /\ CustodyOf(Untouched) = "idle" /\ CustodyOf(Frozen) = "held"
  /\ CustodyOf(Paid) = "paid"
  /\ CustodyOf(Released) = "returned" /\ CustodyOf(Charged) = "returned"
  BY ShapesDiffer DEF CustodyOf

LEMMA CustodyIs ==
  /\ custody = [p \in Payment |-> CustodyOf(ledger[p])]
  /\ custody' = [p \in Payment |-> CustodyOf(ledger'[p])]
  BY DEF custody, CustodyOf

LEMMA SettleMovesCustody ==
  ASSUME NEW p \in Payment, MoneyStep(p)
  PROVE  [Funds!Next]_custody
  <1>1. ASSUME NEW to, CustodyOf(ledger'[p]) = to
        PROVE  custody' = [custody EXCEPT ![p] = to]
    BY <1>1, CustodyIs DEF MoneyStep, Settle
  <1>2. custody[p] = CustodyOf(ledger[p])
    BY CustodyIs
  <1>3. CASE Settle(p, "none", "processing", Untouched, Frozen)
    BY <1>1, <1>2, <1>3, CustodyOfShapes
    DEF Settle, Funds!Next, Funds!freeze, Funds!move
  <1>4. CASE Settle(p, "processing", "completed", Frozen, Paid)
    BY <1>1, <1>2, <1>4, CustodyOfShapes
    DEF Settle, Funds!Next, Funds!pay, Funds!move
  <1>5. CASE Settle(p, "processing", "failed", Frozen, Released)
    BY <1>1, <1>2, <1>5, CustodyOfShapes
    DEF Settle, Funds!Next, Funds!giveBack, Funds!move
  <1>6. CASE Settle(p, "failed", "reversed", Released, Released)
    BY <1>1, <1>2, <1>6, CustodyIs, CustodyOfShapes DEF Settle
  <1>7. CASE Settle(p, "completed", "reversed", Paid, Charged)
    BY <1>1, <1>2, <1>7, CustodyOfShapes
    DEF Settle, Funds!Next, Funds!takeBack, Funds!move
  <1> QED BY <1>3, <1>4, <1>5, <1>6, <1>7 DEF MoneyStep

\* The service implements FundsCustody: the money of a payment is taken once,
\* held, then paid or given back, and given back for good.
THEOREM Custody ==
  ASSUME Ops \subseteq SettlingOps
  PROVE  Spec => CustodyKept
  <1>1. Init => Funds!Init
    BY CustodyIs, CustodyOfShapes
    DEF Init, LedgerInit, Funds!Init, Untouched, NoRows, Rows, Side, Kind
  <1>2. IInv /\ [Next]_vars => IInv'
    BY StepSettled
  <1>3. IInv /\ [Next]_vars => [Funds!Next]_custody
    <2>1. MoneyKept => [Funds!Next]_custody
      BY CustodyIs DEF MoneyKept
    <2> QED BY <2>1, NextMoney, SettleMovesCustody DEF MoneyNext
  <1> QED BY <1>1, <1>2, <1>3, InitSettled, PTL DEF Spec, CustodyKept, Funds!Spec

\* Without disputes no money is lost: the ledger rows of a payment always say
\* where its money is.  A refund of a disputed payment breaks this, see the run
\* disputed_refund.
THEOREM Conserved ==
  ASSUME Ops \subseteq SettlingOps
  PROVE  Spec => []MoneyConserved
  <1>1. IInv => MoneyConserved
    <2> SUFFICES ASSUME IInv, NEW p \in Payment PROVE custody[p] # "lost"
      BY DEF MoneyConserved
    <2>1. ledger[p] \in {Untouched, Frozen, Paid, Released, Charged}
      BY DEF IInv, LedgerMatchesStatus, ExpectedRows, TypeOK, TransactionsTypeOK,
             State, TransactionStatus
    <2> QED BY <2>1, CustodyIs, CustodyOfShapes
  <1>2. IInv /\ [Next]_vars => IInv'
    BY StepSettled
  <1> QED BY <1>1, <1>2, InitSettled, PTL DEF Spec

---------------------------------------------------------------------------
(* The audit trail.                                                        *)

PathTo(h, s) ==
  /\ s = (IF h = <<>> THEN "none" ELSE h[Len(h)][2])
  /\ \A i \in DOMAIN h :
       IF i = 1 THEN h[i] = <<"none", "initiated">>
       ELSE h[i][1] = h[i - 1][2] /\ validateTransition(h[i][1], h[i][2])

LEMMA PathGrows ==
  ASSUME NEW h \in Seq(State \X TransactionStatus), NEW s, NEW t,
         PathTo(h, s), validateTransition(s, t)
  PROVE  PathTo(Append(h, <<s, t>>), t)
  <1> DEFINE g == Append(h, <<s, t>>)
  <1>1. s # "none"
    BY DEF validateTransition, VALID_TRANSITIONS
  <1>2. h # <<>> /\ s = h[Len(h)][2]
    BY <1>1 DEF PathTo
  <1>3. Len(h) \in Nat /\ Len(h) >= 1 /\ DOMAIN h = 1 .. Len(h)
    BY <1>2
  <1>4. /\ g # <<>> /\ Len(g) = Len(h) + 1 /\ g[Len(h) + 1] = <<s, t>>
        /\ DOMAIN g = 1 .. Len(h) + 1
        /\ \A i \in 1 .. Len(h) : g[i] = h[i]
    BY <1>3
  <1> HIDE DEF g
  <1>5. ASSUME NEW i \in 1 .. Len(h)
        PROVE  IF i = 1 THEN g[i] = <<"none", "initiated">>
               ELSE g[i][1] = g[i - 1][2] /\ validateTransition(g[i][1], g[i][2])
    BY <1>3, <1>4, <1>5 DEF PathTo
  <1>6. /\ Len(h) + 1 # 1
        /\ g[Len(h) + 1][1] = g[Len(h) + 1 - 1][2]
        /\ validateTransition(g[Len(h) + 1][1], g[Len(h) + 1][2])
    BY <1>2, <1>3, <1>4
  <1>7. \A i \in DOMAIN g : i \in 1 .. Len(h) \/ i = Len(h) + 1
    BY <1>3, <1>4
  <1>8. PathTo(g, t)
    BY <1>4, <1>5, <1>6, <1>7 DEF PathTo
  <1> QED BY <1>8 DEF g

LEMMA PathBegins ==
  ASSUME NEW h \in Seq(State \X TransactionStatus), PathTo(h, "none")
  PROVE  PathTo(h \o << <<"none", "initiated">>, <<"initiated", "processing">> >>,
                "processing")
  <1> DEFINE g == << <<"none", "initiated">>, <<"initiated", "processing">> >>
  <1>1. h = <<>>
    <2> SUFFICES ASSUME h # <<>> PROVE FALSE
      OBVIOUS
    <2>1. Len(h) \in DOMAIN h
      OBVIOUS
    <2>2. h[Len(h)][2] \in TransactionStatus
      BY <2>1
    <2> QED BY <2>2 DEF PathTo, TransactionStatus
  <1>2. h \o g = g
    BY <1>1
  <1>3. /\ Len(g) = 2 /\ DOMAIN g = 1 .. 2 /\ g # <<>>
        /\ g[1] = <<"none", "initiated">> /\ g[2] = <<"initiated", "processing">>
    OBVIOUS
  <1>4. validateTransition("initiated", "processing")
    BY DEF validateTransition, VALID_TRANSITIONS
  <1> HIDE DEF g
  <1>5. PathTo(g, "processing")
    BY <1>3, <1>4 DEF PathTo
  <1> QED BY <1>2, <1>5 DEF g

\* What a step writes into a payment's row and its audit trail.
Audited(p) ==
  \/ \E t \in TransactionStatus :
       validateTransition(status[p], t) /\ moveTo(p, status[p], t)
  \/ /\ status[p] = "none"
     /\ status' = [status EXCEPT ![p] = "processing"]
     /\ history' = [history EXCEPT ![p] =
          @ \o << <<"none", "initiated">>, <<"initiated", "processing">> >>]

AuditedNext == UNCHANGED <<status, history>> \/ \E p \in Payment : Audited(p)

LEMMA NextAudited ==
  ASSUME Ops \subseteq SettlingOps, TypeOK, [Next]_vars
  PROVE  AuditedNext
  <1> USE DEF AuditedNext, transactionVars
  <1>1. CASE UNCHANGED vars
    BY <1>1 DEF vars
  <1>2. CASE QueueNext
    <2>1. ASSUME NEW p \in Payment, NEW k \in JobKind, onProviderJobExhausted(p, k)
          PROVE  AuditedNext
      <3>1. /\ validateTransition("processing", "failed")
            /\ "failed" \in TransactionStatus
        BY DEF validateTransition, VALID_TRANSITIONS, TransactionStatus
      <3> QED BY <2>1, <3>1 DEF onProviderJobExhausted, Audited
    <2> QED BY <1>2, <2>1 DEF QueueNext, process, submitPayment, saveReference,
               attemptFails, jobStalls, deadLetterLost, pass24Hours, retryStuck,
               findStuck, sweepDies
  <1>3. CASE PaymentsNext
    <2>1. ASSUME NEW r \in Request, commitPayment(r)
          PROVE  AuditedNext
      <3>1. req[r].p \in Payment
        BY <2>1, RequestHasPayment DEF commitPayment, TypeOK
      <3> QED BY <2>1, <3>1 DEF commitPayment, Audited
    <2>2. ASSUME NEW r \in Request, refundPayment(r) \/ resolveReverse(r)
          PROVE  AuditedNext
      <3>1. req[r].p \in Payment
        BY <2>2, RequestHasPayment DEF refundPayment, resolveReverse, TypeOK
      <3>2. "reversed" \in TransactionStatus
        BY DEF TransactionStatus
      <3> QED BY <2>2, <3>1, <3>2 DEF refundPayment, resolveReverse, Audited
    <2>3. \A r \in Request : ~ raiseDispute(r) /\ ~ resolveReject(r)
      BY NoBlindWrites DEF TypeOK
    <2>4. CASE \E r \in Request :
                 \/ \E p \in Payment : createPayment(r, p)
                 \/ \E p \in Payment, op \in Op \ {"create"} : validate(r, op, p)
                 \/ enqueue(r) \/ acquireRefundLock(r) \/ abort(r)
                 \/ release(r) \/ releaseFails(r) \/ requestDies(r)
      BY <2>4 DEF createPayment, validate, enqueue, acquireRefundLock, abort,
                  release, releaseFails, requestDies
    <2>5. CASE \E k \in Account \cup Payment : lockExpires(k)
      BY <2>5 DEF lockExpires
    <2> QED BY <1>3, <2>1, <2>2, <2>3, <2>4, <2>5 DEF PaymentsNext
  <1>4. CASE WebhooksNext
    <2>1. ASSUME NEW d \in Delivery, NEW p \in Payment, applyEvent(d, p)
          PROVE  AuditedNext
      <3>1. hook[d].type \in TransactionStatus
        BY <2>1 DEF applyEvent, TransactionStatus
      <3> QED BY <2>1, <3>1 DEF applyEvent, Audited
    <2> QED BY <1>4, <2>1 DEF WebhooksNext, handleProviderWebhook, logEvent,
               unknownReference, rejectEvent, hookFails, cleanupProcessedEvent
  <1> QED BY <1>1, <1>2, <1>3, <1>4 DEF Next

\* Without disputes the audit trail of a payment is one path of valid
\* transitions from its creation to its present status.
THEOREM Trail ==
  ASSUME Ops \subseteq SettlingOps
  PROVE  Spec => []HistoryIsPath
  <1>1. HistoryIsPath <=> \A p \in Payment : PathTo(history[p], status[p])
    BY DEF HistoryIsPath, PathTo
  <1>2. Init => HistoryIsPath
    BY DEF Init, TransactionsInit, HistoryIsPath
  <1>3. TypeOK /\ HistoryIsPath /\ [Next]_vars => HistoryIsPath'
    <2> SUFFICES ASSUME TypeOK, HistoryIsPath, [Next]_vars, NEW p \in Payment
                 PROVE  PathTo(history'[p], status'[p])
      BY DEF HistoryIsPath, PathTo
    <2>1. /\ history \in [Payment -> Seq(State \X TransactionStatus)]
          /\ status \in [Payment -> State]
      BY DEF TypeOK, TransactionsTypeOK
    <2>2. PathTo(history[p], status[p])
      BY <1>1
    <2>3. CASE UNCHANGED <<status, history>>
      BY <2>2, <2>3
    <2>4. ASSUME NEW q \in Payment, Audited(q), q # p
          PROVE  UNCHANGED <<status[p], history[p]>>
      BY <2>1, <2>4 DEF Audited, moveTo
    <2>5. CASE Audited(p)
      <3>1. ASSUME NEW t \in TransactionStatus, validateTransition(status[p], t),
                   moveTo(p, status[p], t)
            PROVE  PathTo(history'[p], status'[p])
        <4>1. history'[p] = Append(history[p], <<status[p], t>>) /\ status'[p] = t
          BY <2>1, <3>1 DEF moveTo
        <4>2. PathTo(Append(history[p], <<status[p], t>>), t)
          BY <2>1, <2>2, <3>1, PathGrows
        <4> QED BY <4>1, <4>2
      <3>2. CASE status[p] = "none" /\ status' = [status EXCEPT ![p] = "processing"]
                 /\ history' = [history EXCEPT ![p] =
                      @ \o << <<"none", "initiated">>, <<"initiated", "processing">> >>]
        <4>1. /\ history'[p] = history[p] \o
                   << <<"none", "initiated">>, <<"initiated", "processing">> >>
              /\ status'[p] = "processing"
          BY <2>1, <3>2
        <4>2. PathTo(history[p] \o
                << <<"none", "initiated">>, <<"initiated", "processing">> >>, "processing")
          BY <2>1, <2>2, <3>2, PathBegins
        <4> QED BY <4>1, <4>2
      <3> QED BY <2>5, <3>1, <3>2 DEF Audited
    <2> QED BY <2>2, <2>3, <2>4, <2>5, NextAudited DEF AuditedNext
  <1> QED BY <1>2, <1>3, TypeCorrect, PTL DEF Spec
=============================================================================
