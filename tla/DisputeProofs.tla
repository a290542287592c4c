--------------------------- MODULE DisputeProofs ---------------------------
(***************************************************************************)
(* What disputes do not undo, for every value of the constants: the limits *)
(* of a sender's day are kept by the payments that never came back from a  *)
(* dispute, the recipient is credited once per processed event, and nobody *)
(* but a dispute or its rejection overwrites a status it did not see.      *)
(***************************************************************************)
EXTENDS PayRouteProofs, FiniteSetTheorems

---------------------------------------------------------------------------
(* The limits of the day.                                                  *)

Undisputed(a) == live(a) \ cameBack

Within(a) ==
  /\ Cardinality(Undisputed(a)) <= MaxPaymentsPerDay
  /\ SumFunctionOnSet(sourceAmount, Undisputed(a)) <= MaxDailyVolume

\* The payments that exist: finitely many at any time.
Made == {p \in Payment : status[p] # "none"}

LimitInv == TypeOK /\ IsFiniteSet(Made) /\ \A a \in Account : Within(a)

\* A payment moves, and comes to count by coming back from a dispute only.
Moves(p) ==
  \E from \in State, to \in TransactionStatus :
    /\ moveTo(p, from, to)
    /\ \/ to \in {"failed", "reversed", "disputed"}
       \/ to = "completed" /\ (status[p] = "processing" \/ from = "disputed")

Creates(p) ==
  /\ status[p] = "none"
  /\ withinLimits(p)
  /\ status' = [status EXCEPT ![p] = "processing"]
  /\ \E h \in Seq(State \X TransactionStatus) :
       history' = [history EXCEPT ![p] = @ \o h]

StatusNext ==
  \/ UNCHANGED <<status, history>>
  \/ \E p \in Payment : Moves(p) \/ Creates(p)

LEMMA NextStatus == TypeOK /\ [Next]_vars => StatusNext
  <1> SUFFICES ASSUME TypeOK, [Next]_vars PROVE StatusNext
    OBVIOUS
  <1>0. /\ "disputed" \in State /\ "processing" \in State
        /\ {"completed", "failed", "reversed", "disputed"} \subseteq TransactionStatus
        /\ \A p \in Payment : status[p] \in State
    BY DEF State, TransactionStatus, TypeOK, TransactionsTypeOK
  <1>1. CASE PaymentsNext
    <2>1. ASSUME NEW r \in Request, commitPayment(r) PROVE StatusNext
      <3>1. req[r].p \in Payment
        BY <2>1, RequestHasPayment DEF commitPayment, TypeOK
      <3>2. << <<"none", "initiated">>, <<"initiated", "processing">> >>
              \in Seq(State \X TransactionStatus)
        BY DEF State, TransactionStatus
      <3>3. Creates(req[r].p)
        BY <2>1, <3>2 DEF commitPayment, Creates
      <3> QED BY <3>1, <3>3 DEF StatusNext
    <2>2. ASSUME NEW r \in Request, refundPayment(r) \/ resolveReverse(r)
          PROVE  StatusNext
      <3>1. req[r].p \in Payment
        BY <2>2, RequestHasPayment DEF refundPayment, resolveReverse, TypeOK
      <3>2. moveTo(req[r].p, status[req[r].p], "reversed")
        BY <2>2 DEF refundPayment, resolveReverse
      <3> QED BY <1>0, <3>1, <3>2 DEF StatusNext, Moves
    <2>3. ASSUME NEW r \in Request, raiseDispute(r) \/ resolveReject(r)
          PROVE  StatusNext
      <3>1. req[r].p \in Payment /\ req[r].seen \in State
        BY <2>3, RequestHasPayment DEF raiseDispute, resolveReject, TypeOK, PaymentsTypeOK
      <3>2. \/ moveTo(req[r].p, req[r].seen, "disputed")
            \/ moveTo(req[r].p, "disputed", "completed")
        BY <2>3 DEF raiseDispute, resolveReject
      <3> QED BY <1>0, <3>1, <3>2 DEF StatusNext, Moves
    <2> QED BY <1>1, <2>1, <2>2, <2>3
            DEF PaymentsNext, createPayment, validate, enqueue, acquireRefundLock,
                abort, release, releaseFails, requestDies, lockExpires,
                transactionVars, StatusNext
  <1>2. CASE WebhooksNext
    <2>1. ASSUME NEW d \in Delivery, NEW p \in Payment, applyEvent(d, p)
          PROVE  StatusNext
      <3>1. /\ moveTo(p, status[p], hook[d].type) /\ status[p] \in State
            /\ hook[d].type \in {"completed", "failed"}
            /\ validateTransition(status[p], hook[d].type)
        BY <1>0, <2>1 DEF applyEvent
      <3>2. hook[d].type = "completed" => status[p] \in {"processing", "disputed"}
        BY <3>1 DEF validateTransition, VALID_TRANSITIONS
      <3> QED BY <1>0, <3>1, <3>2 DEF StatusNext, Moves
    <2> QED BY <1>2, <2>1
            DEF WebhooksNext, handleProviderWebhook, logEvent, unknownReference,
                rejectEvent, hookFails, cleanupProcessedEvent, transactionVars,
                StatusNext
  <1>3. CASE QueueNext
    <2>1. ASSUME NEW p \in Payment, NEW k \in JobKind, onProviderJobExhausted(p, k)
          PROVE  StatusNext
      BY <1>0, <2>1 DEF onProviderJobExhausted, StatusNext, Moves
    <2> QED BY <1>3, <2>1
            DEF QueueNext, process, submitPayment, saveReference, attemptFails,
                jobStalls, deadLetterLost, pass24Hours, retryStuck, findStuck,
                sweepDies, transactionVars, StatusNext
  <1>4. CASE UNCHANGED vars
    BY <1>4 DEF vars, transactionVars, StatusNext
  <1> QED BY <1>1, <1>2, <1>3, <1>4 DEF Next

\* A payment that came back from a dispute remains one that did.
LEMMA HistoryGrows ==
  ASSUME TypeOK, NEW p \in Payment, Moves(p) \/ Creates(p)
  PROVE  /\ \A q \in Payment \ {p} : status'[q] = status[q] /\ history'[q] = history[q]
         /\ status' \in [Payment -> State]
         /\ \A i \in DOMAIN history[p] : i \in DOMAIN history'[p]
                                         /\ history'[p][i] = history[p][i]
  <1>1. CASE Moves(p)
    <2>1. PICK from \in State, to \in TransactionStatus : moveTo(p, from, to)
      BY <1>1 DEF Moves
    <2>2. status' \in [Payment -> State]
      BY <2>1, MoveToType DEF TypeOK
    <2>3. history[p] \in Seq(State \X TransactionStatus)
      BY DEF TypeOK, TransactionsTypeOK
    <2>4. history'[p] = Append(history[p], <<from, to>>)
      BY <2>1 DEF moveTo, TypeOK, TransactionsTypeOK
    <2> QED BY <2>1, <2>2, <2>3, <2>4 DEF moveTo, TypeOK, TransactionsTypeOK
  <1>2. CASE Creates(p)
    <2>1. PICK h \in Seq(State \X TransactionStatus) :
                 history' = [history EXCEPT ![p] = @ \o h]
      BY <1>2 DEF Creates
    <2>2. history[p] \in Seq(State \X TransactionStatus) /\ "processing" \in State
      BY DEF TypeOK, TransactionsTypeOK, State, TransactionStatus
    <2>3. history'[p] = history[p] \o h
      BY <2>1 DEF TypeOK, TransactionsTypeOK
    <2>4. /\ \A i \in DOMAIN history[p] : i \in DOMAIN history'[p]
                                         /\ history'[p][i] = history[p][i]
      BY <2>2, <2>3
    <2> QED BY <1>2, <2>1, <2>2, <2>4 DEF Creates, TypeOK, TransactionsTypeOK
  <1> QED BY <1>1, <1>2

\* Fewer of the payments count, or the same.
LEMMA FewerWithin ==
  ASSUME IsFiniteSet(Made), NEW a \in Account, Within(a),
         NEW S, S \subseteq Undisputed(a)
  PROVE  /\ Cardinality(S) <= MaxPaymentsPerDay
         /\ SumFunctionOnSet(sourceAmount, S) <= MaxDailyVolume
  <1> DEFINE U == Undisputed(a)
  <1>1. IsFiniteSet(U) /\ U \subseteq Payment
    <2>1. U \subseteq Made
      BY DEF Undisputed, live, Made
    <2> QED BY <2>1, FS_Subset DEF Made
  <1>2. \A p \in U : sourceAmount[p] \in Nat
    BY <1>1, LedgerAssumption
  <1>3. /\ Cardinality(S) <= Cardinality(U) /\ Cardinality(S) \in Nat
        /\ Cardinality(U) \in Nat
    BY <1>1, FS_Subset, FS_CardinalityType
  <1>4. /\ SumFunctionOnSet(sourceAmount, S) <= SumFunctionOnSet(sourceAmount, U)
        /\ SumFunctionOnSet(sourceAmount, S) \in Nat
        /\ SumFunctionOnSet(sourceAmount, U) \in Nat
    BY <1>1, <1>2, SumOfSubset
  <1> QED BY <1>3, <1>4, PaymentsAssumption DEF Within

LEMMA MoveWithin ==
  ASSUME LimitInv, NEW p \in Payment, Moves(p), NEW a \in Account
  PROVE  Undisputed(a)' \subseteq Undisputed(a)
  <1>1. PICK from \in State, to \in TransactionStatus :
          /\ moveTo(p, from, to)
          /\ \/ to \in {"failed", "reversed", "disputed"}
             \/ to = "completed" /\ (status[p] = "processing" \/ from = "disputed")
    BY DEF Moves
  <1>2. TypeOK
    BY DEF LimitInv
  <1>3. cameBack \subseteq cameBack'
    BY <1>2, HistoryGrows DEF cameBack
  <1>4. p \in Undisputed(a)' => p \in Undisputed(a)
    <2>1. SUFFICES ASSUME p \in Undisputed(a)'
                   PROVE  p \in live(a)
      BY <1>3 DEF Undisputed
    <2>2. status'[p] = to
      BY <1>1, <1>2 DEF moveTo, TypeOK, TransactionsTypeOK
    <2>3. to = "completed" /\ (status[p] = "processing" \/ from = "disputed")
      BY <1>1, <2>1, <2>2 DEF Undisputed, live
    <2>4. from # "disputed" \/ to # "completed"
      <3>1. /\ history[p] \in Seq(State \X TransactionStatus)
            /\ history'[p] = Append(history[p], <<from, to>>)
        BY <1>1, <1>2 DEF moveTo, TypeOK, TransactionsTypeOK
      <3>2. /\ Len(history[p]) + 1 \in DOMAIN history'[p]
            /\ history'[p][Len(history[p]) + 1] = <<from, to>>
        BY <3>1
      <3>3. p \notin cameBack'
        BY <2>1 DEF Undisputed
      <3> QED BY <3>2, <3>3 DEF cameBack
    <2> QED BY <2>1, <2>3, <2>4 DEF Undisputed, live
  <1>5. \A q \in Payment \ {p} : q \in live(a)' => q \in live(a)
    BY <1>2, HistoryGrows DEF live
  <1> QED BY <1>3, <1>4, <1>5 DEF Undisputed, live

\* The payments that count today, and one more that the limits allow.
LEMMA CreateWithin ==
  ASSUME LimitInv, NEW p \in Payment, Creates(p), NEW a \in Account
  PROVE  Within(a)'
  <1> DEFINE today == countedToday(a)
             S == Undisputed(a)'
  <1>1. TypeOK /\ p \notin Made
    BY DEF LimitInv, Creates, Made
  <1>2. IsFiniteSet(today) /\ today \subseteq Payment /\ p \notin today
    <2>1. today \subseteq Made
      BY DEF countedToday, Made
    <2> QED BY <1>1, <2>1, FS_Subset DEF LimitInv, Made
  <1>3. cameBack \subseteq cameBack'
    BY <1>1, HistoryGrows DEF cameBack
  <1>4. \A q \in Payment \ {p} : q \in live(a)' => q \in live(a)
    BY <1>1, HistoryGrows DEF live
  <1>5. CASE sender[p] # a
    <2>1. S \subseteq Undisputed(a)
      BY <1>3, <1>4, <1>5 DEF Undisputed, live
    <2> QED BY <2>1, FewerWithin DEF LimitInv, Within
  <1>6. CASE sender[p] = a
    <2> DEFINE T == today \cup {p}
    <2>1. S \subseteq T
      BY <1>4 DEF Undisputed, live, countedToday
    <2>2. /\ Cardinality(today) < MaxPaymentsPerDay
          /\ SumFunctionOnSet(sourceAmount, today) + sourceAmount[p] <= MaxDailyVolume
      BY <1>6 DEF Creates, withinLimits
    <2>3. IsFiniteSet(T) /\ \A q \in T : sourceAmount[q] \in Nat
      BY <1>2, FS_AddElement, LedgerAssumption
    <2>4. Cardinality(S) <= MaxPaymentsPerDay
      <3>1. Cardinality(T) = Cardinality(today) + 1 /\ Cardinality(today) \in Nat
        BY <1>2, FS_AddElement, FS_CardinalityType
      <3>2. Cardinality(S) <= Cardinality(T) /\ Cardinality(S) \in Nat
        <4> HIDE DEF S, T
        <4> QED BY <2>1, <2>3, FS_Subset, FS_CardinalityType
      <3> HIDE DEF S, T, today
      <3> QED BY <2>2, <3>1, <3>2, PaymentsAssumption
    <2>5. SumFunctionOnSet(sourceAmount, S) <= MaxDailyVolume
      <3>1. /\ SumFunctionOnSet(sourceAmount, S) <= SumFunctionOnSet(sourceAmount, T)
            /\ SumFunctionOnSet(sourceAmount, S) \in Nat
            /\ SumFunctionOnSet(sourceAmount, T) \in Nat
        <4> HIDE DEF S, T
        <4> QED BY <2>1, <2>3, SumOfSubset
      <3>2. SumFunctionOnSet(sourceAmount, T)
              = sourceAmount[p] + SumFunctionOnSet(sourceAmount, today)
        <4>1. T \ {p} = today /\ p \in T
          BY <1>2
        <4> HIDE DEF T, today
        <4> QED BY <2>3, <4>1, SumWithout
      <3>3. sourceAmount[p] \in Nat /\ SumFunctionOnSet(sourceAmount, today) \in Int
        BY <1>2, LedgerAssumption, SumIsInt
      <3> HIDE DEF S, T, today
      <3> QED BY <2>2, <3>1, <3>2, <3>3, PaymentsAssumption
    <2> QED BY <2>4, <2>5 DEF Within
  <1> QED BY <1>5, <1>6

\* The limits of a sender's day are kept by the payments that never came back
\* from a dispute, whatever requests, callbacks and disputes race.
THEOREM Limits == Spec => []DailyLimitKept
  <1>1. Init => LimitInv
    <2> SUFFICES ASSUME Init PROVE LimitInv
      OBVIOUS
    <2>1. Made = {} /\ \A a \in Account : Undisputed(a) = {}
      BY DEF Init, TransactionsInit, Made, Undisputed, live
    <2>2. \A a \in Account : Within(a)
      BY <2>1, FS_EmptySet, SumOfNone, PaymentsAssumption DEF Within
    <2> QED BY <2>1, <2>2, InitType, FS_EmptySet DEF LimitInv
  <1>2. LimitInv /\ [Next]_vars => LimitInv'
    <2> SUFFICES ASSUME LimitInv, [Next]_vars PROVE LimitInv'
      OBVIOUS
    <2>1. TypeOK /\ TypeOK' /\ StatusNext
      BY StepType, NextStatus DEF LimitInv
    <2>2. CASE UNCHANGED <<status, history>>
      BY <2>1, <2>2 DEF LimitInv, Made, Within, Undisputed, live, cameBack
    <2>3. ASSUME NEW p \in Payment, Moves(p) \/ Creates(p)
          PROVE  LimitInv'
      <3>1. Made' \subseteq Made \cup {p}
        BY <2>1, <2>3, HistoryGrows DEF Made
      <3>2. IsFiniteSet(Made')
        BY <3>1, FS_AddElement, FS_Subset DEF LimitInv
      <3>3. ASSUME NEW a \in Account PROVE Within(a)'
        <4>1. CASE Moves(p)
          BY <4>1, MoveWithin, FewerWithin DEF LimitInv, Within
        <4> QED BY <2>3, <4>1, CreateWithin
      <3> QED BY <2>1, <3>2, <3>3 DEF LimitInv
    <2> QED BY <2>1, <2>2, <2>3 DEF StatusNext
  <1>3. LimitInv => DailyLimitKept
    BY DEF LimitInv, Within, Undisputed, DailyLimitKept
  <1> QED BY <1>1, <1>2, <1>3, PTL DEF Spec

---------------------------------------------------------------------------
(* Credits and events.                                                     *)

Credits(p) == ledger[p]["recipient"]["credit"]

Applied(p) ==
  {x \in Reference : issued[x] = p /\ events[x]["completed"] = "processed"}

Counted == \A p \in Payment :
  IsFiniteSet(Applied(p)) /\ Credits(p) = Cardinality(Applied(p))

\* Wherever a reference turns up, it was issued, and where it stands for a
\* payment, for that one.
Traced ==
  /\ \A p \in Payment : ref[p] # Null => issued[ref[p]] = p
  /\ \A p \in Payment, k \in JobKind :
       job[p][k].ref # Null => issued[job[p][k].ref] = p
  /\ \A d \in Delivery : hook[d].pc # "idle" => issued[hook[d].x] # Null
  /\ \A x \in Reference : events[x]["completed"] # "none" => issued[x] # Null

Crediting(d) == hook[d].pc = "logged" /\ hook[d].type = "completed"

\* A delivery that may still credit is the one that logged the event.
LoggedOnce ==
  /\ \A d \in Delivery :
       Crediting(d) => events[hook[d].x]["completed"] = "logged"
  /\ \A d, e \in Delivery :
       Crediting(d) /\ Crediting(e) /\ hook[d].x = hook[e].x => d = e

EInv == TypeOK /\ Traced /\ LoggedOnce /\ Counted

---------------------------------------------------------------------------
(* What a step leaves alone.                                               *)

NoCredit == \A p \in Payment : Credits(p)' = Credits(p)

KeepsIssued == \A x \in Reference : issued[x] # Null => issued'[x] = issued[x]

LEMMA OtherRows ==
  ASSUME LedgerTypeOK, NEW p \in Payment,
         \/ debit(p, "sender") \/ chargeback(p) \/ createCompensatingEntries(p)
  PROVE  NoCredit
  <1>1. \A q \in Payment \ {p} : ledger'[q] = ledger[q]
    BY OthersKept DEF Side
  <1>2. ledger'[p]["recipient"]["credit"] = ledger[p]["recipient"]["credit"]
    <2>1. ASSUME debit(p, "sender")
          PROVE  ledger'[p] = [ledger[p] EXCEPT !["sender"]["debit"] = @ + 1]
      BY <2>1 DEF LedgerTypeOK, debit
    <2>2. ASSUME chargeback(p)
          PROVE  ledger'[p] = [ledger[p] EXCEPT !["recipient"]["debit"] = @ + 1,
                                                !["sender"]["credit"] = @ + 1]
      BY <2>2 DEF LedgerTypeOK, chargeback
    <2>3. ASSUME createCompensatingEntries(p)
          PROVE  \E m, n : ledger'[p] = [ledger[p] EXCEPT !["sender"]["reversal"] = m,
                                                         !["recipient"]["reversal"] = n]
      BY <2>3 DEF LedgerTypeOK, createCompensatingEntries
    <2>4. ledger[p] \in [{"sender", "recipient"} -> [{"debit", "credit", "reversal"} -> Nat]]
      BY DEF LedgerTypeOK, Side, Kind
    <2>5. CASE debit(p, "sender")
      BY <2>1, <2>4, <2>5
    <2>6. CASE chargeback(p)
      BY <2>2, <2>4, <2>6
    <2>7. CASE createCompensatingEntries(p)
      BY <2>3, <2>4, <2>7
    <2> QED BY <2>5, <2>6, <2>7
  <1> QED BY <1>1, <1>2 DEF NoCredit, Credits

LEMMA OneCredit ==
  ASSUME LedgerTypeOK, NEW p \in Payment, credit(p, "recipient")
  PROVE  /\ Credits(p)' = Credits(p) + 1
         /\ \A q \in Payment \ {p} : Credits(q)' = Credits(q)
  BY DEF LedgerTypeOK, Side, Kind, credit, Credits

\* A reference that was not issued yet has no event.
LEMMA StillCounted ==
  ASSUME Counted, Traced, NoCredit, KeepsIssued,
         issued \in [Reference -> Payment \cup {Null}],
         \A x \in Reference :
           events'[x]["completed"] = "processed"
             <=> events[x]["completed"] = "processed"
  PROVE  Counted'
  <1>1. ASSUME NEW p \in Payment PROVE Applied(p)' = Applied(p)
    BY NullAssumption DEF Applied, Traced, KeepsIssued
  <1> QED BY <1>1 DEF Counted, NoCredit

LEMMA SetOneJob ==
  ASSUME JobTypeOK, NEW p \in Payment, NEW k \in JobKind, NEW j, setJob(p, k, j)
  PROVE  \A q \in Payment, l \in JobKind :
           job'[q][l] = IF q = p /\ l = k THEN j ELSE job[q][l]
  <1>1. job' = [job EXCEPT ![p] = [job[p] EXCEPT ![k] = j]]
    BY DEF setJob
  <1> QED BY <1>1 DEF JobTypeOK

\* The queue may save a reference its job holds, and jobs forget theirs.
LEMMA StillTraced ==
  ASSUME Traced, KeepsIssued, UNCHANGED hookVars,
         \A p \in Payment :
           \/ ref'[p] = ref[p]
           \/ \E k \in JobKind : ref'[p] = job[p][k].ref,
         \A p \in Payment, k \in JobKind :
           \/ job'[p][k].ref \in {Null, job[p][k].ref}
           \/ issued'[job'[p][k].ref] = p,
         TypeOK, TypeOK'
  PROVE  Traced'
  <1>1. /\ \A p \in Payment : ref[p] \in Reference \cup {Null}
        /\ \A p \in Payment, k \in JobKind : job[p][k].ref \in Reference \cup {Null}
        /\ \A d \in Delivery : hook[d].pc # "idle" => hook[d].x \in Reference
    BY DEF TypeOK, TransactionsTypeOK, QueueTypeOK, JobTypeOK, Job, WebhooksTypeOK
  <1>2. Null \notin Payment
    BY NullAssumption
  <1>3. \A p \in Payment : ref'[p] # Null => issued'[ref'[p]] = p
    BY <1>1, <1>2 DEF Traced, KeepsIssued
  <1>4. \A p \in Payment, k \in JobKind :
          job'[p][k].ref # Null => issued'[job'[p][k].ref] = p
    BY <1>1, <1>2 DEF Traced, KeepsIssued
  <1>5. \A d \in Delivery : hook'[d].pc # "idle" => issued'[hook'[d].x] # Null
    BY <1>1 DEF Traced, KeepsIssued, hookVars
  <1>6. \A x \in Reference : events'[x]["completed"] # "none" => issued'[x] # Null
    BY DEF Traced, KeepsIssued, hookVars
  <1> QED BY <1>3, <1>4, <1>5, <1>6 DEF Traced

---------------------------------------------------------------------------
(* The queue and the API.                                                  *)

LEMMA NoJobRef == NoJob.ref = Null /\ [NoJob EXCEPT !.pc = "waiting"].ref = Null
  BY DEF NoJob

LEMMA QueueEvents ==
  ASSUME EInv, TypeOK', QueueNext, UNCHANGED hookVars
  PROVE  Traced' /\ NoCredit /\ KeepsIssued
  <1>0. LedgerTypeOK /\ JobTypeOK /\ issued \in [Reference -> Payment \cup {Null}]
        /\ ref \in [Payment -> Reference \cup {Null}]
    BY DEF EInv, TypeOK, QueueTypeOK, TransactionsTypeOK
  <1> DEFINE Fine ==
        /\ KeepsIssued /\ NoCredit
        /\ \A p \in Payment :
             \/ ref'[p] = ref[p]
             \/ \E k \in JobKind : ref'[p] = job[p][k].ref
        /\ \A p \in Payment, k \in JobKind :
             \/ job'[p][k].ref \in {Null, job[p][k].ref}
             \/ issued'[job'[p][k].ref] = p
  <1>1. ASSUME UNCHANGED ledger PROVE NoCredit
    BY <1>1 DEF NoCredit, Credits
  <1>2. ASSUME UNCHANGED issued PROVE KeepsIssued
    BY <1>2 DEF KeepsIssued
  <1>3. ASSUME NEW p \in Payment, NEW k \in JobKind, NEW j, setJob(p, k, j), j.ref = Null
        PROVE  \A q \in Payment, l \in JobKind : job'[q][l].ref \in {Null, job[q][l].ref}
    BY <1>0, <1>3, SetOneJob
  <1>4. ASSUME NEW p \in Payment, NEW k \in JobKind, finishJob(p, k) \/ addJob(p, k)
        PROVE  \A q \in Payment, l \in JobKind : job'[q][l].ref \in {Null, job[q][l].ref}
    BY <1>3, <1>4, NoJobRef DEF finishJob, addJob
  <1>5. ASSUME NEW p \in Payment, NEW k \in JobKind, process(p, k) PROVE Fine
    <2>1. UNCHANGED <<ledger, ref, issued>>
      BY <1>5 DEF process, ledgerVars, transactionVars
    <2>2. CASE setJob(p, k, [job[p][k] EXCEPT !.pc = "eligible"])
      <3>1. [job[p][k] EXCEPT !.pc = "eligible"].ref = job[p][k].ref
        BY <1>0 DEF JobTypeOK, Job
      <3>2. \A q \in Payment, l \in JobKind :
              job'[q][l] = IF q = p /\ l = k THEN [job[p][k] EXCEPT !.pc = "eligible"]
                           ELSE job[q][l]
        BY <1>0, <2>2, SetOneJob
      <3>3. \A q \in Payment, l \in JobKind : job'[q][l].ref = job[q][l].ref
        BY <3>1, <3>2
      <3> QED BY <1>1, <1>2, <2>1, <3>3
    <2>3. CASE finishJob(p, k)
      BY <1>1, <1>2, <1>4, <2>1, <2>3
    <2> QED BY <1>5, <2>2, <2>3 DEF process
  <1>6. ASSUME NEW p \in Payment, NEW k \in JobKind, submitPayment(p, k) PROVE Fine
    <2> DEFINE j(x) == [job[p][k] EXCEPT !.pc = "submitted", !.ref = x]
    <2>1. PICK x \in Reference : /\ issued[x] = Null
                                 /\ issued' = [issued EXCEPT ![x] = p]
                                 /\ setJob(p, k, j(x))
      BY <1>6 DEF submitPayment
    <2>2. UNCHANGED <<ledger, ref>>
      BY <1>6 DEF submitPayment, ledgerVars, transactionVars
    <2>3. j(x).ref = x
      BY <1>0 DEF JobTypeOK, Job
    <2>4. KeepsIssued /\ issued'[x] = p
      BY <1>0, <2>1 DEF KeepsIssued
    <2>5. setJob(p, k, j(x))
      BY <2>1
    <2> HIDE DEF j
    <2>6. \A q \in Payment, l \in JobKind :
            job'[q][l] = IF q = p /\ l = k THEN j(x) ELSE job[q][l]
      BY <1>0, <2>5, SetOneJob
    <2> QED BY <1>1, <2>2, <2>3, <2>4, <2>6
  <1>7. ASSUME NEW p \in Payment, NEW k \in JobKind, saveReference(p, k) PROVE Fine
    BY <1>0, <1>1, <1>2, <1>4, <1>7 DEF saveReference, ledgerVars
  <1>8. ASSUME NEW p \in Payment, NEW k \in JobKind, attemptFails(p, k) PROVE Fine
    <2>1. UNCHANGED <<ledger, issued>>
      BY <1>8 DEF attemptFails, ledgerVars
    <2>2. \A q \in Payment, l \in JobKind : job'[q][l].ref \in {Null, job[q][l].ref}
      BY <1>3, <1>8 DEF attemptFails
    <2>3. \A q \in Payment : ref'[q] = ref[q] \/ \E l \in JobKind : ref'[q] = job[q][l].ref
      BY <1>0, <1>8 DEF attemptFails
    <2> QED BY <1>1, <1>2, <2>1, <2>2, <2>3
  <1>9. ASSUME NEW p \in Payment, NEW k \in JobKind, jobStalls(p, k) PROVE Fine
    <2>1. UNCHANGED <<ledger, ref, issued>>
      BY <1>9 DEF jobStalls, ledgerVars, transactionVars
    <2>2. [job[p][k] EXCEPT !.pc = "waiting", !.ref = Null].ref = Null
      BY <1>0 DEF JobTypeOK, Job
    <2>3. \A q \in Payment, l \in JobKind : job'[q][l].ref \in {Null, job[q][l].ref}
      BY <1>3, <1>4, <1>9, <2>2 DEF jobStalls
    <2> QED BY <1>1, <1>2, <2>1, <2>3
  <1>10. ASSUME NEW p \in Payment, NEW k \in JobKind,
                onProviderJobExhausted(p, k) \/ deadLetterLost(p, k)
         PROVE  Fine
    <2>1. UNCHANGED <<ref, issued>> /\ finishJob(p, k)
      BY <1>10 DEF onProviderJobExhausted, deadLetterLost, transactionVars
    <2>2. NoCredit
      BY <1>0, <1>1, <1>10, OtherRows DEF onProviderJobExhausted, deadLetterLost, ledgerVars
    <2> QED BY <1>2, <1>4, <2>1, <2>2
  <1>11. ASSUME NEW p \in Payment, retryStuck(p) PROVE Fine
    <2>1. UNCHANGED <<ledger, ref, issued>>
      BY <1>11 DEF retryStuck, ledgerVars, transactionVars
    <2>2. UNCHANGED job \/ addJob(p, "retry")
      BY <1>11 DEF retryStuck
    <2> QED BY <1>1, <1>2, <1>4, <2>1, <2>2 DEF JobKind
  <1>12. CASE findStuck \/ sweepDies \/ \E p \in Payment : pass24Hours(p)
    <2>1. UNCHANGED <<ledger, ref, issued, job>>
      BY <1>12 DEF findStuck, sweepDies, pass24Hours, ledgerVars, transactionVars
    <2>2. Fine
      BY <1>1, <1>2, <2>1
    <2> QED BY <2>2, StillTraced DEF EInv
  <1>13. CASE Fine
    BY <1>13, StillTraced DEF EInv
  <1> HIDE DEF Fine
  <1> QED BY <1>5, <1>6, <1>7, <1>8, <1>9, <1>10, <1>11, <1>12, <1>13 DEF QueueNext

LEMMA ApiEvents ==
  ASSUME EInv, TypeOK', PaymentsNext, UNCHANGED hookVars
  PROVE  Traced' /\ NoCredit /\ KeepsIssued
  <1>0. LedgerTypeOK /\ JobTypeOK
    BY DEF EInv, TypeOK, QueueTypeOK
  <1>1. UNCHANGED <<ref, issued>>
    BY DEF PaymentsNext, createPayment, validate, commitPayment, enqueue,
       acquireRefundLock, refundPayment, resolveReverse, raiseDispute, resolveReject,
       abort, release, releaseFails, requestDies, lockExpires, transactionVars,
       queueVars
  <1>2. NoCredit
    <2>1. CASE UNCHANGED ledger
      BY <2>1 DEF NoCredit, Credits
    <2>2. ASSUME NEW r \in Request,
                 commitPayment(r) \/ refundPayment(r) \/ resolveReverse(r),
                 ledger' # ledger
          PROVE  NoCredit
      <3>1. req[r].p \in Payment
        BY <2>2, RequestHasPayment
           DEF commitPayment, refundPayment, resolveReverse, EInv, TypeOK
      <3>2. \/ debit(req[r].p, "sender") \/ chargeback(req[r].p)
            \/ createCompensatingEntries(req[r].p)
        BY <2>2 DEF commitPayment, refundPayment, resolveReverse, ledgerVars
      <3> QED BY <1>0, <3>1, <3>2, OtherRows
    <2> QED BY <2>1, <2>2 DEF PaymentsNext, createPayment, validate, enqueue,
            acquireRefundLock, raiseDispute, resolveReject, abort, release,
            releaseFails, requestDies, lockExpires, ledgerVars
  <1>3. \A q \in Payment, l \in JobKind : job'[q][l].ref \in {Null, job[q][l].ref}
    <2>1. CASE UNCHANGED job
      BY <2>1
    <2>2. ASSUME NEW r \in Request, enqueue(r)
          PROVE  \A q \in Payment, l \in JobKind : job'[q][l].ref \in {Null, job[q][l].ref}
      <3>1. addJob(req[r].p, "first") /\ req[r].p \in Payment
        BY <2>2, RequestHasPayment DEF enqueue, EInv, TypeOK
      <3>2. \A q \in Payment, l \in JobKind :
              job'[q][l] = IF q = req[r].p /\ l = "first"
                           THEN [NoJob EXCEPT !.pc = "waiting"] ELSE job[q][l]
        BY <1>0, <3>1, SetOneJob DEF addJob, JobKind
      <3> QED BY <3>2, NoJobRef
    <2> QED BY <2>1, <2>2 DEF PaymentsNext, createPayment, validate, commitPayment,
            acquireRefundLock, refundPayment, resolveReverse, raiseDispute,
            resolveReject, abort, release, releaseFails, requestDies, lockExpires,
            queueVars
  <1>4. KeepsIssued
    BY <1>1 DEF KeepsIssued
  <1>5. Traced'
    BY <1>1, <1>3, <1>4, StillTraced DEF EInv
  <1> QED BY <1>2, <1>4, <1>5

---------------------------------------------------------------------------
(* The webhooks.                                                           *)

\* A delivery that changes stays with its callback, or is over.
LEMMA HookMoves ==
  ASSUME Traced, LoggedOnce, WebhooksTypeOK, NEW d \in Delivery, NEW h,
         hook' = [hook EXCEPT ![d] = h],
         h.pc # "idle" => h.x \in Reference /\ issued[h.x] # Null,
         h.pc # "logged",
         UNCHANGED <<ref, job, issued>>,
         \A x \in Reference : events'[x]["completed"] # events[x]["completed"] =>
            /\ issued[x] # Null
            /\ \A e \in Delivery \ {d} : ~ (Crediting(e) /\ hook[e].x = x)
  PROVE  Traced' /\ LoggedOnce'
  <1>1. hook'[d] = h /\ \A e \in Delivery \ {d} : hook'[e] = hook[e]
    BY DEF WebhooksTypeOK
  <1>2. \A e \in Delivery : hook[e].pc # "idle" => hook[e].x \in Reference
    BY DEF WebhooksTypeOK
  <1>3. Traced'
    BY <1>1 DEF Traced
  <1>4. \A e \in Delivery : Crediting(e)' => e # d /\ Crediting(e) /\ hook'[e] = hook[e]
    BY <1>1 DEF Crediting
  <1>5. ASSUME NEW e \in Delivery, Crediting(e)'
        PROVE  events'[hook'[e].x]["completed"] = "logged"
    <2>1. e # d /\ Crediting(e) /\ hook'[e] = hook[e] /\ hook[e].x \in Reference
      BY <1>2, <1>4, <1>5 DEF Crediting
    <2>2. events[hook[e].x]["completed"] = "logged"
      BY <2>1 DEF LoggedOnce
    <2>3. events'[hook[e].x]["completed"] = events[hook[e].x]["completed"]
      BY <2>1
    <2> QED BY <2>1, <2>2, <2>3
  <1>6. ASSUME NEW e \in Delivery, NEW f \in Delivery, Crediting(e)', Crediting(f)',
               hook'[e].x = hook'[f].x
        PROVE  e = f
    BY <1>4, <1>6 DEF LoggedOnce
  <1> QED BY <1>3, <1>5, <1>6 DEF LoggedOnce, Crediting

LEMMA HookThrown ==
  ASSUME Traced, WebhooksTypeOK, NEW d \in Delivery, hook[d].pc # "idle",
         hookThrows(d) \/ finishHook(d)
  PROVE  \E h : /\ hook' = [hook EXCEPT ![d] = h]
                /\ h.pc # "idle" => h.x \in Reference /\ issued[h.x] # Null
                /\ h.pc # "logged"
  <1>1. NoHook.pc = "idle"
    BY DEF NoHook
  <1>2. CASE finishHook(d)
    BY <1>1, <1>2 DEF finishHook
  <1>3. CASE hookThrows(d) /\ ~ finishHook(d)
    <2> DEFINE h == [hook[d] EXCEPT !.pc = "waiting",
                                    !.attemptsMade = hook[d].attemptsMade + 1]
    <2>1. hook' = [hook EXCEPT ![d] = h]
      BY <1>3 DEF hookThrows
    <2>2. h.pc = "waiting" /\ h.x = hook[d].x /\ h.x \in Reference
      BY DEF WebhooksTypeOK
    <2>3. issued[h.x] # Null
      BY <2>2 DEF Traced
    <2> QED BY <2>1, <2>2, <2>3
  <1> QED BY <1>2, <1>3

LEMMA ApplyEvents ==
  ASSUME EInv, NEW d \in Delivery, NEW p \in Payment, applyEvent(d, p),
         "completed" \in WebhookStatus
  PROVE  Traced' /\ LoggedOnce' /\ Counted'
  <1> DEFINE x == hook[d].x
             type == hook[d].type
  <1>1. /\ x \in Reference /\ type \in WebhookStatus /\ hook[d].pc = "logged"
        /\ ref[p] = x /\ LedgerTypeOK /\ WebhooksTypeOK
        /\ events \in [Reference -> [WebhookStatus -> {"none", "logged", "processed"}]]
        /\ UNCHANGED <<ref, job, issued>>
    BY DEF applyEvent, EInv, TypeOK, WebhooksTypeOK, queueVars
  <1>2. issued[x] = p /\ x # Null
    BY <1>1, NullAssumption DEF EInv, Traced
  <1>3. events' = [events EXCEPT ![x] = [events[x] EXCEPT ![type] = "processed"]]
    BY DEF applyEvent
  <1>4. \A y \in Reference : events'[y]["completed"] =
          IF y = x /\ type = "completed" THEN "processed" ELSE events[y]["completed"]
    BY <1>1, <1>3
  <1>5. Traced' /\ LoggedOnce'
    <2>1. NoHook.pc = "idle" /\ hook' = [hook EXCEPT ![d] = NoHook]
      BY DEF applyEvent, finishHook, NoHook
    <2>2. ASSUME NEW y \in Reference, events'[y]["completed"] # events[y]["completed"]
          PROVE  /\ issued[y] # Null
                 /\ \A e \in Delivery \ {d} : ~ (Crediting(e) /\ hook[e].x = y)
      <3>1. y = x /\ Crediting(d)
        BY <1>1, <1>4, <2>2 DEF Crediting
      <3> QED BY <1>2, <3>1, NullAssumption DEF EInv, LoggedOnce
    <2> QED BY <1>1, <2>1, <2>2, HookMoves DEF EInv
  <1>6. CASE type = "completed" /\ credit(p, "recipient")
    <2>1. events[x]["completed"] = "logged"
      BY <1>1, <1>6 DEF EInv, LoggedOnce, Crediting
    <2>2. Applied(p)' = Applied(p) \cup {x} /\ x \notin Applied(p)
      BY <1>1, <1>2, <1>4, <1>6, <2>1 DEF Applied
    <2>3. \A q \in Payment \ {p} : Applied(q)' = Applied(q)
      BY <1>1, <1>2, <1>4 DEF Applied
    <2>4. /\ Credits(p)' = Credits(p) + 1
          /\ \A q \in Payment \ {p} : Credits(q)' = Credits(q)
      BY <1>1, <1>6, OneCredit
    <2>5. IsFiniteSet(Applied(p)) /\ Credits(p) = Cardinality(Applied(p))
      BY DEF EInv, Counted
    <2>6. IsFiniteSet(Applied(p)') /\ Credits(p)' = Cardinality(Applied(p)')
      BY <2>2, <2>4, <2>5, FS_AddElement
    <2>7. \A q \in Payment \ {p} :
            IsFiniteSet(Applied(q)') /\ Credits(q)' = Cardinality(Applied(q)')
      BY <2>3, <2>4 DEF EInv, Counted
    <2>8. Counted'
      BY <2>6, <2>7 DEF Counted
    <2> QED BY <1>5, <2>8
  <1>7. CASE type # "completed" /\ createCompensatingEntries(p)
    <2>1. NoCredit /\ KeepsIssued
      BY <1>1, <1>7, OtherRows DEF KeepsIssued
    <2>2. Counted'
      BY <1>4, <1>7, <2>1, StillCounted DEF EInv, TypeOK, QueueTypeOK
    <2> QED BY <1>5, <2>2
  <1> QED BY <1>6, <1>7 DEF applyEvent

LEMMA LogEvents ==
  ASSUME EInv, NEW d \in Delivery, logEvent(d), "completed" \in WebhookStatus
  PROVE  /\ Traced' /\ LoggedOnce'
         /\ \A y \in Reference : events'[y]["completed"] = "processed"
                                  <=> events[y]["completed"] = "processed"
  <1> DEFINE x == hook[d].x
             type == hook[d].type
             h == [hook[d] EXCEPT !.pc = "logged"]
  <1>1. /\ x \in Reference /\ type \in WebhookStatus /\ hook[d].pc = "waiting"
        /\ WebhooksTypeOK /\ issued[x] # Null
        /\ events \in [Reference -> [WebhookStatus -> {"none", "logged", "processed"}]]
        /\ UNCHANGED <<ref, job, issued>>
    BY DEF logEvent, EInv, TypeOK, Traced, WebhooksTypeOK, transactionVars, queueVars
  <1>2. CASE UNCHANGED events /\ finishHook(d)
    <2>1. Traced' /\ LoggedOnce'
      BY <1>1, <1>2, HookThrown, HookMoves DEF EInv
    <2> QED BY <1>2, <2>1
  <1>3. CASE events[x][type] = "none" /\ events' = [events EXCEPT ![x][type] = "logged"]
    <2>1. events' = [events EXCEPT ![x] = [events[x] EXCEPT ![type] = "logged"]]
      BY <1>3
    <2>2. \A y \in Reference : events'[y]["completed"] =
            IF y = x /\ type = "completed" THEN "logged" ELSE events[y]["completed"]
      BY <1>1, <2>1
    <2>3. \A y \in Reference : events'[y]["completed"] = "processed"
                               <=> events[y]["completed"] = "processed"
      BY <1>3, <2>2
    \* No other delivery is about to credit on an event that is not there.
    <2>4. \A e \in Delivery : Crediting(e) /\ hook[e].x = x => type # "completed"
      BY <1>3 DEF EInv, LoggedOnce
    <2>5. CASE finishHook(d)
      <3>1. \A y \in Reference : events'[y]["completed"] # events[y]["completed"] =>
              /\ issued[y] # Null
              /\ \A e \in Delivery \ {d} : ~ (Crediting(e) /\ hook[e].x = y)
        BY <1>1, <2>2, <2>4
      <3>2. Traced' /\ LoggedOnce'
        BY <1>1, <2>5, <3>1, HookThrown, HookMoves DEF EInv
      <3> QED BY <2>3, <3>2
    <2>6. CASE hook' = [hook EXCEPT ![d].pc = "logged"]
      <3>1. /\ hook'[d] = h /\ h.pc = "logged" /\ h.x = x /\ h.type = type
            /\ \A e \in Delivery \ {d} : hook'[e] = hook[e]
        BY <1>1, <2>6 DEF WebhooksTypeOK
      <3> HIDE DEF h
      <3>2. \A e \in Delivery : hook[e].pc # "idle" => hook[e].x \in Reference
        BY <1>1 DEF WebhooksTypeOK
      <3>3. Traced'
        BY <1>1, <2>2, <3>1 DEF EInv, Traced
      <3>4. ASSUME NEW e \in Delivery, Crediting(e)'
            PROVE  events'[hook'[e].x]["completed"] = "logged"
        BY <1>1, <2>2, <3>1, <3>2, <3>4 DEF EInv, LoggedOnce, Crediting
      <3>5. ASSUME NEW e \in Delivery, NEW f \in Delivery, Crediting(e)', Crediting(f)',
                   hook'[e].x = hook'[f].x
            PROVE  e = f
        BY <2>4, <3>1, <3>5 DEF EInv, LoggedOnce, Crediting
      <3>6. LoggedOnce'
        BY <3>4, <3>5 DEF LoggedOnce, Crediting
      <3> QED BY <2>3, <3>3, <3>6
    <2> QED BY <1>3, <2>5, <2>6 DEF logEvent
  <1> QED BY <1>2, <1>3 DEF logEvent

LEMMA HookEvents ==
  ASSUME EInv, WebhooksNext, "completed" \in WebhookStatus, ~ CleansUp
  PROVE  Traced' /\ LoggedOnce' /\ Counted'
  <1>1. WebhooksTypeOK /\ issued \in [Reference -> Payment \cup {Null}]
    BY DEF EInv, TypeOK, QueueTypeOK
  <1>2. ASSUME UNCHANGED <<ledger, issued>> PROVE NoCredit /\ KeepsIssued
    BY <1>2 DEF NoCredit, Credits, KeepsIssued
  <1>3. ASSUME NEW d \in Delivery, NEW x \in Reference, NEW type \in WebhookStatus,
               NEW valid \in BOOLEAN, handleProviderWebhook(d, x, type, valid)
        PROVE  Traced' /\ LoggedOnce' /\ Counted'
    <2> DEFINE h == [pc |-> "waiting", x |-> x, type |-> type,
                     signatureValid |-> valid, attemptsMade |-> 0]
    <2>1. /\ hook' = [hook EXCEPT ![d] = h] /\ issued[x] # Null
          /\ UNCHANGED <<ledger, ref, job, issued, events>>
      BY <1>3 DEF handleProviderWebhook, ledgerVars, transactionVars, queueVars
    <2>2. h.pc = "waiting" /\ h.x = x
      OBVIOUS
    <2> HIDE DEF h
    <2>3. Traced' /\ LoggedOnce'
      BY <1>1, <2>1, <2>2, HookMoves DEF EInv
    <2> QED BY <1>1, <1>2, <2>1, <2>3, StillCounted DEF EInv
  <1>4. ASSUME NEW d \in Delivery, logEvent(d)
        PROVE  Traced' /\ LoggedOnce' /\ Counted'
    <2>1. UNCHANGED <<ledger, issued>>
      BY <1>4 DEF logEvent, ledgerVars, queueVars
    <2> QED BY <1>1, <1>2, <1>4, <2>1, LogEvents, StillCounted DEF EInv
  <1>5. ASSUME NEW d \in Delivery,
               unknownReference(d) \/ rejectEvent(d) \/ hookFails(d)
        PROVE  Traced' /\ LoggedOnce' /\ Counted'
    <2>1. /\ UNCHANGED <<ledger, ref, job, issued, events>>
          /\ hook[d].pc # "idle" /\ (hookThrows(d) \/ finishHook(d))
      BY <1>5 DEF unknownReference, rejectEvent, hookFails, ledgerVars,
                  transactionVars, queueVars
    <2>2. Traced' /\ LoggedOnce'
      BY <1>1, <2>1, HookThrown, HookMoves DEF EInv
    <2> QED BY <1>1, <1>2, <2>1, <2>2, StillCounted DEF EInv
  <1> QED BY <1>3, <1>4, <1>5, ApplyEvents DEF WebhooksNext, cleanupProcessedEvent

---------------------------------------------------------------------------
(* The theorem.                                                            *)

LEMMA EventsStart ==
  ASSUME "completed" \in WebhookStatus
  PROVE  Init => EInv
  <1> SUFFICES ASSUME Init PROVE Traced /\ LoggedOnce /\ Counted
    BY InitType DEF EInv
  <1>1. Traced /\ LoggedOnce
    BY DEF Init, TransactionsInit, QueueInit, WebhooksInit, NoJob, NoHook, Traced,
           LoggedOnce, Crediting
  <1>2. \A p \in Payment : Applied(p) = {}
    BY DEF Init, WebhooksInit, Applied
  <1>3. \A p \in Payment : Credits(p) = 0
    BY DEF Init, LedgerInit, Credits, Side, Kind
  <1> QED BY <1>1, <1>2, <1>3, FS_EmptySet DEF Counted

LEMMA EventsStep ==
  ASSUME "completed" \in WebhookStatus, ~ CleansUp
  PROVE  EInv /\ [Next]_vars => EInv'
  <1> SUFFICES ASSUME EInv, [Next]_vars PROVE Traced' /\ LoggedOnce' /\ Counted'
    BY StepType DEF EInv
  <1>1. TypeOK' /\ issued \in [Reference -> Payment \cup {Null}]
    BY StepType DEF EInv, TypeOK, QueueTypeOK
  <1>2. ASSUME UNCHANGED hookVars PROVE LoggedOnce'
    BY <1>2 DEF EInv, LoggedOnce, Crediting, hookVars
  <1>3. ASSUME UNCHANGED hookVars, NoCredit, KeepsIssued PROVE Counted'
    BY <1>1, <1>3, StillCounted DEF EInv, hookVars
  <1>4. CASE PaymentsNext /\ UNCHANGED hookVars
    BY <1>1, <1>2, <1>3, <1>4, ApiEvents
  <1>5. CASE QueueNext /\ UNCHANGED <<apiVars, hookVars>>
    BY <1>1, <1>2, <1>3, <1>5, QueueEvents
  <1>6. CASE WebhooksNext /\ UNCHANGED apiVars
    BY <1>6, HookEvents
  <1>7. CASE UNCHANGED vars
    <2>1. UNCHANGED <<ledger, ref, job, issued, hook, events>>
      BY <1>7 DEF vars, ledgerVars, transactionVars, queueVars, hookVars
    <2>2. NoCredit /\ KeepsIssued /\ UNCHANGED hookVars
      BY <2>1 DEF NoCredit, Credits, KeepsIssued, hookVars
    <2>3. Traced'
      BY <2>1 DEF EInv, Traced
    <2> QED BY <1>2, <1>3, <2>2, <2>3
  <1> QED BY <1>4, <1>5, <1>6, <1>7 DEF Next

\* Redelivered, retried, reordered and failing callbacks credit a recipient
\* once per event of a reference of that very payment, with disputes and with
\* every fault, as long as the retention job deletes no event.
THEOREM OneCreditPerEvent ==
  ASSUME "completed" \in WebhookStatus, ~ CleansUp
  PROVE  Spec => []CreditHasEvent
  <1>1. EInv => CreditHasEvent
    BY DEF EInv, Counted, CreditHasEvent, Applied, Credits
  <1>2. EInv /\ [Next]_vars => EInv'
    BY EventsStep
  <1>3. Init => EInv
    BY EventsStart
  <1> QED BY <1>1, <1>2, <1>3, PTL DEF Spec

---------------------------------------------------------------------------
(* Decisions and writes in one step.                                       *)

\* The dispute, or the rejection, that was found valid and not yet written.
Right(r) ==
  IF req[r].pc = "checked" /\ req[r].op \in {"dispute", "reject"}
  THEN {<<req[r].p, target(req[r].op)>>} ELSE {}

granted == [r \in Request |-> Right(r)]

Atomic == INSTANCE AtomicTransitions WITH
  Actor <- Request, StartStatus <- {"none"}, log <- history

LEMMA SameTable ==
  \A from, to : validateTransition(from, to) => Atomic!validateTransition(from, to)
  BY DEF validateTransition, Atomic!validateTransition,
         VALID_TRANSITIONS, Atomic!VALID_TRANSITIONS

LEMMA OneAsks ==
  ASSUME PaymentsTypeOK, NEW r \in Request, NEW q,
         req' = [req EXCEPT ![r] = q]
  PROVE  /\ req'[r] = q
         /\ granted' = [granted EXCEPT ![r] = Right(r)']
         /\ Right(r)' = Right(r) => UNCHANGED granted
  <1>1. req'[r] = q /\ \A s \in Request \ {r} : req'[s] = req[s]
    BY DEF PaymentsTypeOK
  <1>2. \A s \in Request \ {r} : Right(s)' = Right(s)
    BY <1>1 DEF Right
  <1> QED BY <1>1, <1>2 DEF granted

\* A request that does not come to "checked" has no right, or loses it.
LEMMA RightLost ==
  ASSUME PaymentsTypeOK, NEW r \in Request, NEW q, q.pc # "checked",
         req' = [req EXCEPT ![r] = q], UNCHANGED <<status, history>>
  PROVE  Atomic!AtomicNext
  <1>1. Right(r)' = {}
    BY OneAsks DEF Right
  <1>2. Atomic!giveUp(r)
    BY <1>1, OneAsks DEF Atomic!giveUp
  <1> QED BY <1>2 DEF Atomic!AtomicNext

LEMMA Lengths ==
  ASSUME NEW S, NEW g \in Seq(S), NEW h \in Seq(S)
  PROVE  Len(g \o h) = Len(g) + Len(h) /\ Len(g) \in Nat
  OBVIOUS

\* The audit rows tell of each write.
LEMMA WriteShows ==
  ASSUME TypeOK, NEW p \in Payment, NEW to \in TransactionStatus,
         status' = [status EXCEPT ![p] = to],
         \/ \E from \in State : moveTo(p, from, to)
         \/ history' = [history EXCEPT ![p] =
              @ \o << <<"none", "initiated">>, <<"initiated", "processing">> >>]
  PROVE  Atomic!write(p, to)
  <1>1. history[p] \in Seq(State \X TransactionStatus)
    BY DEF TypeOK, TransactionsTypeOK
  <1>2. CASE \E from \in State : moveTo(p, from, to)
    <2>1. PICK from \in State : moveTo(p, from, to)
      BY <1>2
    <2>2. history'[p] = Append(history[p], <<from, to>>)
      BY <2>1 DEF moveTo, TypeOK, TransactionsTypeOK
    <2>3. Len(history'[p]) = Len(history[p]) + 1 /\ Len(history[p]) \in Nat
      BY <1>1, <2>2
    <2>4. history'[p] # history[p]
      BY <2>3
    <2> QED BY <2>4 DEF Atomic!write
  <1>3. CASE history' = [history EXCEPT ![p] =
               @ \o << <<"none", "initiated">>, <<"initiated", "processing">> >>]
    <2> DEFINE h == << <<"none", "initiated">>, <<"initiated", "processing">> >>
    <2>1. h \in Seq(State \X TransactionStatus) /\ Len(h) = 2
      BY DEF State, TransactionStatus
    <2>2. history'[p] = history[p] \o h
      BY <1>3 DEF TypeOK, TransactionsTypeOK
    <2> HIDE DEF h
    <2>3. Len(history'[p]) = Len(history[p]) + 2 /\ Len(history[p]) \in Nat
      <3>1. Len(history[p] \o h) = Len(history[p]) + Len(h) /\ Len(history[p]) \in Nat
        BY <1>1, <2>1, Lengths
      <3> QED BY <2>1, <2>2, <3>1
    <2>4. history'[p] # history[p]
      BY <2>3
    <2> QED BY <2>4 DEF Atomic!write
  <1> QED BY <1>2, <1>3

LEMMA RequestDecides ==
  ASSUME TypeOK, PaymentsNext
  PROVE  Atomic!AtomicNext \/ UNCHANGED <<status, granted, history>>
  <1>0. /\ PaymentsTypeOK
        /\ "processing" \in TransactionStatus /\ "reversed" \in TransactionStatus
        /\ \A p \in Payment : status[p] \in State
    BY DEF TypeOK, TransactionsTypeOK, TransactionStatus
  <1>1. ASSUME NEW r \in Request, commitPayment(r)
        PROVE  Atomic!AtomicNext
    <2>1. PICK p \in Payment : p = req[r].p
      BY <1>0, <1>1, RequestHasPayment DEF commitPayment
    <2>2. Atomic!write(p, "processing")
      BY <1>0, <1>1, <2>1, WriteShows DEF commitPayment
    <2>3. UNCHANGED granted
      <3>1. req' = [req EXCEPT ![r] = [req[r] EXCEPT !.pc = "committed"]]
        BY <1>0, <1>1 DEF commitPayment, setRequest, PaymentsTypeOK
      <3>2. Right(r) = {} /\ Right(r)' = {}
        BY <1>0, <1>1, <3>1 DEF commitPayment, Right, PaymentsTypeOK
      <3> QED BY <1>0, <3>1, <3>2, OneAsks
    <2>4. Atomic!create(p)
      BY <1>1, <2>1, <2>2, <2>3 DEF commitPayment, Atomic!create
    <2> QED BY <2>4 DEF Atomic!AtomicNext
  <1>2. ASSUME NEW r \in Request, refundPayment(r) \/ resolveReverse(r)
        PROVE  Atomic!AtomicNext
    <2>1. PICK p \in Payment : p = req[r].p
      BY <1>0, <1>2, RequestHasPayment DEF refundPayment, resolveReverse
    <2>2. Atomic!write(p, "reversed")
      BY <1>0, <1>2, <2>1, WriteShows DEF refundPayment, resolveReverse, moveTo
    <2>3. UNCHANGED granted
      <3>1. req' = [req EXCEPT ![r] = [req[r] EXCEPT !.pc = "committed"]]
        BY <1>0, <1>2 DEF refundPayment, resolveReverse, setRequest, PaymentsTypeOK
      <3>2. Right(r) = {} /\ Right(r)' = {}
        BY <1>0, <1>2, <3>1 DEF refundPayment, resolveReverse, Right, PaymentsTypeOK
      <3> QED BY <1>0, <3>1, <3>2, OneAsks
    <2>4. Atomic!transition(p, "reversed")
      BY <1>2, <2>1, <2>2, <2>3, SameTable
         DEF refundPayment, resolveReverse, Atomic!transition
    <2> QED BY <2>4 DEF Atomic!AtomicNext, Atomic!TransactionStatus
  <1>3. ASSUME NEW r \in Request, raiseDispute(r) \/ resolveReject(r)
        PROVE  Atomic!AtomicNext
    <2>1. PICK p \in Payment, from \in State, to \in TransactionStatus :
            /\ p = req[r].p /\ to = target(req[r].op)
            /\ moveTo(p, from, to)
      <3>1. req[r].p \in Payment /\ req[r].seen \in State
        BY <1>0, <1>3, RequestHasPayment DEF raiseDispute, resolveReject, PaymentsTypeOK
      <3> QED BY <1>3, <3>1
              DEF raiseDispute, resolveReject, target, State, TransactionStatus
    <2>2. Atomic!write(p, to)
      BY <2>1, WriteShows DEF moveTo
    <2>3. granted[r] = {<<p, to>>}
      BY <1>3, <2>1 DEF raiseDispute, resolveReject, granted, Right
    <2>4. \E right \in granted[r] : Atomic!write(right[1], right[2])
      <3>1. <<p, to>>[1] = p /\ <<p, to>>[2] = to
        OBVIOUS
      <3> QED BY <2>2, <2>3, <3>1
    <2>5. granted' = [granted EXCEPT ![r] = {}]
      <3>1. req' = [req EXCEPT ![r] = NoRequest]
        BY <1>3 DEF raiseDispute, resolveReject, finish
      <3>2. req'[r] = NoRequest
        BY <1>0, <3>1, OneAsks
      <3>3. Right(r)' = {}
        BY <3>2 DEF NoRequest, Right
      <3> QED BY <1>0, <3>1, <3>3, OneAsks
    <2>6. Atomic!overwrite(r)
      BY <2>4, <2>5 DEF Atomic!overwrite
    <2> QED BY <2>6 DEF Atomic!AtomicNext
  <1>4. ASSUME NEW r \in Request, NEW op \in Op \ {"create"}, NEW p \in Payment,
               validate(r, op, p)
        PROVE  Atomic!AtomicNext \/ UNCHANGED <<status, granted, history>>
    <2>1. PICK q : /\ req' = [req EXCEPT ![r] = q]
                   /\ q.pc = "checked" /\ q.op = op /\ q.p = p
      <3> DEFINE seen == IF op = "dispute" THEN status[p] ELSE "none"
                 q == [pc |-> "checked", op |-> op, p |-> p, seen |-> seen]
      <3>1. req' = [req EXCEPT ![r] = q]
        BY <1>4 DEF validate
      <3>2. q.pc = "checked" /\ q.op = op /\ q.p = p
        OBVIOUS
      <3> QED BY <3>1, <3>2
    <2>2. UNCHANGED <<status, history>> /\ req[r].pc = "idle"
      BY <1>4 DEF validate, transactionVars
    <2>3. CASE op \in {"dispute", "reject"}
      <3>1. PICK to \in {"disputed", "completed"} : to = target(op)
        BY <2>3 DEF target
      <3>2. Right(r)' = {<<p, to>>}
        BY <1>0, <2>1, <2>3, <3>1, OneAsks DEF Right, target
      <3>3. Atomic!grant(r, p, to)
        BY <1>0, <1>4, <2>1, <2>2, <3>1, <3>2, OneAsks, SameTable
           DEF validate, Atomic!grant
      <3> QED BY <3>3 DEF Atomic!AtomicNext, Atomic!TransactionStatus
    <2>4. CASE op \notin {"dispute", "reject"}
      <3>1. Right(r) = {} /\ Right(r)' = {}
        BY <1>0, <2>1, <2>2, <2>4, OneAsks DEF Right
      <3> QED BY <1>0, <2>1, <2>2, <3>1, OneAsks
    <2> QED BY <2>3, <2>4
  <1>5. ASSUME NEW r \in Request,
               \/ \E p \in Payment : createPayment(r, p)
               \/ enqueue(r) \/ acquireRefundLock(r) \/ abort(r)
               \/ release(r) \/ releaseFails(r) \/ requestDies(r)
        PROVE  Atomic!AtomicNext
    <2>1. PICK q : q.pc # "checked" /\ req' = [req EXCEPT ![r] = q]
      <3>1. CASE \E p \in Payment : createPayment(r, p)
        BY <3>1 DEF createPayment
      <3>2. CASE finish(r)
        BY <3>2 DEF finish, NoRequest
      <3>3. CASE \E pc \in {"locked", "aborted", "released"} : setRequest(r, pc)
        <4>1. PICK pc \in {"locked", "aborted", "released"} : setRequest(r, pc)
          BY <3>3
        <4>2. req' = [req EXCEPT ![r] = [req[r] EXCEPT !.pc = pc]]
          BY <1>0, <4>1 DEF setRequest, PaymentsTypeOK
        <4>3. [req[r] EXCEPT !.pc = pc].pc = pc
          BY <1>0 DEF PaymentsTypeOK
        <4> QED BY <4>1, <4>2, <4>3
      <3> QED BY <1>5, <3>1, <3>2, <3>3
              DEF enqueue, acquireRefundLock, abort, release, releaseFails,
                  leaveFinally, requestDies
    <2>2. UNCHANGED <<status, history>>
      BY <1>5 DEF createPayment, enqueue, acquireRefundLock, abort, release,
                  releaseFails, requestDies, transactionVars
    <2> QED BY <1>0, <2>1, <2>2, RightLost
  <1>6. ASSUME NEW k \in Account \cup Payment, lockExpires(k)
        PROVE  UNCHANGED <<status, granted, history>>
    BY <1>6 DEF lockExpires, transactionVars, granted, Right
  <1> QED BY <1>1, <1>2, <1>3, <1>4, <1>5, <1>6 DEF PaymentsNext

LEMMA NextDecides ==
  TypeOK /\ [Next]_vars => [Atomic!AtomicNext]_(Atomic!atomicVars)
  <1> SUFFICES ASSUME TypeOK, [Next]_vars
               PROVE  Atomic!AtomicNext \/ UNCHANGED <<status, granted, history>>
    BY DEF Atomic!atomicVars
  <1>1. CASE PaymentsNext
    BY <1>1, RequestDecides
  <1>2. ASSUME UNCHANGED apiVars PROVE UNCHANGED granted
    BY <1>2 DEF apiVars, granted, Right
  \* A callback, or a dead letter, that moves payment p.
  <1>3. ASSUME NEW p \in Payment, NEW to \in TransactionStatus,
               UNCHANGED apiVars, moveTo(p, status[p], to),
               validateTransition(status[p], to)
        PROVE  Atomic!AtomicNext
    <2>1. Atomic!write(p, to)
      BY <1>3, WriteShows DEF moveTo, TypeOK, TransactionsTypeOK
    <2>2. Atomic!transition(p, to)
      BY <1>2, <1>3, <2>1, SameTable DEF Atomic!transition
    <2> QED BY <2>2 DEF Atomic!AtomicNext, Atomic!TransactionStatus, TransactionStatus
  <1>4. CASE WebhooksNext /\ UNCHANGED apiVars
    <2>1. ASSUME NEW d \in Delivery, NEW p \in Payment, applyEvent(d, p)
          PROVE  Atomic!AtomicNext
      <3>1. hook[d].type \in TransactionStatus
        BY <2>1 DEF applyEvent, TransactionStatus
      <3> QED BY <1>3, <1>4, <2>1, <3>1 DEF applyEvent
    <2> QED BY <1>2, <1>4, <2>1
            DEF WebhooksNext, handleProviderWebhook, logEvent, unknownReference,
                rejectEvent, hookFails, cleanupProcessedEvent, transactionVars
  <1>5. CASE QueueNext /\ UNCHANGED <<apiVars, hookVars>>
    <2>1. ASSUME NEW p \in Payment, NEW k \in JobKind, onProviderJobExhausted(p, k)
          PROVE  Atomic!AtomicNext \/ UNCHANGED <<status, granted, history>>
      <3>1. CASE UNCHANGED <<status, history>>
        BY <1>2, <1>5, <3>1
      <3>2. CASE status[p] = "processing" /\ moveTo(p, "processing", "failed")
        <4>1. validateTransition(status[p], "failed") /\ "failed" \in TransactionStatus
          BY <3>2 DEF validateTransition, VALID_TRANSITIONS, TransactionStatus
        <4> QED BY <1>3, <1>5, <3>2, <4>1
      <3> QED BY <2>1, <3>1, <3>2 DEF onProviderJobExhausted
    <2> QED BY <1>2, <1>5, <2>1
            DEF QueueNext, process, submitPayment, saveReference, attemptFails,
                jobStalls, deadLetterLost, pass24Hours, retryStuck, findStuck,
                sweepDies, transactionVars
  <1>6. CASE UNCHANGED vars
    BY <1>2, <1>6 DEF vars, transactionVars
  <1> QED BY <1>1, <1>4, <1>5, <1>6 DEF Next

\* With disputes, too, a payment is only taken along a transition that is valid at
\* that moment, but by a dispute or a rejection whose request found it valid
\* before and writes it once: the system implements AtomicTransitions, as its
\* database transactions do statement by statement.
THEOREM OnlyDisputesOverwrite == Spec => Atomic!AtomicSpec
  <1>1. Init => Atomic!AtomicInit
    BY DEF Init, TransactionsInit, PaymentsInit, NoRequest, granted, Right,
           Atomic!AtomicInit
  <1> QED BY <1>1, NextDecides, TypeCorrect, PTL DEF Spec, Atomic!AtomicSpec
=============================================================================
