--------------------------- MODULE PayRouteProofs ---------------------------
(***************************************************************************)
(* Theorems about PayRoute, for every value of the constants.              *)
(***************************************************************************)
EXTENDS PayRoute, LedgerProofs

---------------------------------------------------------------------------
(* Types of the parts a step changes.                                      *)

LEMMA ValidFrom ==
  ASSUME NEW current, NEW next, validateTransition(current, next)
  PROVE  current \in TransactionStatus
  BY DEF validateTransition, VALID_TRANSITIONS, TransactionStatus

\* A status and its audit row.
LEMMA MoveToType ==
  ASSUME TransactionsTypeOK, NEW p \in Payment, NEW from \in State,
         NEW to \in TransactionStatus, moveTo(p, from, to)
  PROVE  /\ status' \in [Payment -> State]
         /\ history' \in [Payment -> Seq(State \X TransactionStatus)]
  BY DEF TransactionsTypeOK, moveTo, State

\* Whatever happens to a job, the record it becomes is well typed.
LEMMA SetJobType ==
  ASSUME JobTypeOK, NEW p \in Payment, NEW k \in JobKind, NEW j \in Job,
         LiveJob(j), setJob(p, k, j)
  PROVE  JobTypeOK'
  <1>1. [job[p] EXCEPT ![k] = j] \in [JobKind -> Job]
    BY DEF JobTypeOK
  <1>2. job' = [job EXCEPT ![p] = [job[p] EXCEPT ![k] = j]]
    BY DEF setJob
  <1>3. job' \in [Payment -> [JobKind -> Job]]
    BY <1>1, <1>2 DEF JobTypeOK
  <1>4. ASSUME NEW q \in Payment, NEW l \in JobKind
        PROVE  LiveJob(job'[q][l])
    <2>1. job'[q][l] = IF q = p /\ l = k THEN j ELSE job[q][l]
      BY <1>2 DEF JobTypeOK
    <2> QED BY <2>1 DEF JobTypeOK, LiveJob
  <1> QED BY <1>3, <1>4 DEF JobTypeOK, LiveJob

LEMMA NewJobs ==
  /\ NoJob \in Job /\ LiveJob(NoJob)
  /\ [NoJob EXCEPT !.pc = "waiting"] \in Job
  /\ LiveJob([NoJob EXCEPT !.pc = "waiting"])
  BY MaxAttemptsAssumption DEF NoJob, Job, JobPc, ActivePc, LiveJob

LEMMA CanFail == Fault /\ faults \in 0 .. MaxFaults => faults' \in 0 .. MaxFaults
  BY MaxFaultsAssumption DEF Fault

---------------------------------------------------------------------------
(* The types are inductive: one lemma per component, one step per action.  *)

SharedTypeOK ==
  /\ LedgerTypeOK
  /\ TransactionsTypeOK
  /\ QueueTypeOK
  /\ faults \in 0 .. MaxFaults

\* Only the queue's own tables change.
LEMMA QueueOnly ==
  ASSUME SharedTypeOK, UNCHANGED <<ledgerVars, transactionVars>>,
         JobTypeOK', issued' \in [Reference -> Payment \cup {Null}],
         tooOld' \subseteq Payment, sweep' \subseteq Payment,
         faults' \in 0 .. MaxFaults
  PROVE  SharedTypeOK'
  BY DEF SharedTypeOK, LedgerTypeOK, TransactionsTypeOK, QueueTypeOK,
         ledgerVars, transactionVars

LEMMA ProcessType ==
  ASSUME SharedTypeOK, NEW p \in Payment, NEW k \in JobKind, process(p, k)
  PROVE  SharedTypeOK'
  <1> DEFINE j == [job[p][k] EXCEPT !.pc = "eligible"]
  <1>1. j \in Job /\ LiveJob(j)
    <2>1. job[p][k] \in Job /\ LiveJob(job[p][k])
      BY DEF SharedTypeOK, QueueTypeOK, JobTypeOK
    <2> QED BY <2>1 DEF process, Job, JobPc, ActivePc, LiveJob
  <1>2. setJob(p, k, j) \/ setJob(p, k, NoJob)
    BY DEF process, finishJob
  <1>3. JobTypeOK'
    <2> HIDE DEF j
    <2> QED BY <1>1, <1>2, SetJobType, NewJobs DEF SharedTypeOK, QueueTypeOK
  <1> QED BY <1>3, QueueOnly DEF process, SharedTypeOK, QueueTypeOK

LEMMA SubmitPaymentType ==
  ASSUME SharedTypeOK, NEW p \in Payment, NEW k \in JobKind, submitPayment(p, k)
  PROVE  SharedTypeOK'
  <1>1. PICK x \in Reference :
          /\ issued' = [issued EXCEPT ![x] = p]
          /\ setJob(p, k, [job[p][k] EXCEPT !.pc = "submitted", !.ref = x])
    BY DEF submitPayment
  <1> DEFINE j == [job[p][k] EXCEPT !.pc = "submitted", !.ref = x]
  <1>2. j \in Job /\ LiveJob(j)
    <2>1. job[p][k] \in Job /\ LiveJob(job[p][k])
      BY DEF SharedTypeOK, QueueTypeOK, JobTypeOK
    <2> QED BY <2>1 DEF submitPayment, Job, JobPc, ActivePc, LiveJob
  <1>3. JobTypeOK'
    <2> HIDE DEF j
    <2>1. setJob(p, k, j)
      BY <1>1 DEF j
    <2> QED BY <1>2, <2>1, SetJobType DEF SharedTypeOK, QueueTypeOK
  <1>4. issued' \in [Reference -> Payment \cup {Null}]
    BY <1>1 DEF SharedTypeOK, QueueTypeOK
  <1> QED BY <1>3, <1>4, QueueOnly DEF submitPayment, SharedTypeOK, QueueTypeOK

\* The reference a job saves is the one it holds.
LEMMA SaveReferenceType ==
  ASSUME SharedTypeOK, NEW p \in Payment, NEW k \in JobKind, saveReference(p, k)
  PROVE  SharedTypeOK'
  <1>1. job[p][k] \in Job
    BY DEF SharedTypeOK, QueueTypeOK, JobTypeOK
  <1>2. TransactionsTypeOK'
    BY <1>1 DEF SharedTypeOK, TransactionsTypeOK, saveReference, Job
  <1>3. JobTypeOK'
    BY SetJobType, NewJobs DEF saveReference, finishJob, SharedTypeOK, QueueTypeOK
  <1> QED BY <1>2, <1>3
          DEF saveReference, SharedTypeOK, QueueTypeOK, LedgerTypeOK, ledgerVars

LEMMA AttemptFailsType ==
  ASSUME SharedTypeOK, NEW p \in Payment, NEW k \in JobKind, attemptFails(p, k)
  PROVE  SharedTypeOK'
  <1> DEFINE n == job[p][k].attemptsMade + 1
             j == [pc |-> IF n < MaxAttempts THEN "waiting" ELSE "failed",
                   attemptsMade |-> n, ref |-> Null]
  <1>1. job[p][k] \in Job /\ LiveJob(job[p][k])
    BY DEF SharedTypeOK, QueueTypeOK, JobTypeOK
  <1>2. n \in 0 .. MaxAttempts
    BY <1>1, MaxAttemptsAssumption DEF attemptFails, Job, LiveJob
  <1>3. j \in Job /\ LiveJob(j)
    <2> HIDE DEF n
    <2> QED BY <1>2 DEF Job, JobPc, ActivePc, LiveJob
  <1>4. JobTypeOK'
    <2>1. setJob(p, k, j)
      BY DEF attemptFails
    <2> HIDE DEF j
    <2> QED BY <1>3, <2>1, SetJobType DEF SharedTypeOK, QueueTypeOK
  <1>5. TransactionsTypeOK'
    BY <1>1 DEF SharedTypeOK, TransactionsTypeOK, attemptFails, Job
  <1>6. faults' \in 0 .. MaxFaults
    BY CanFail DEF attemptFails, SharedTypeOK
  <1> QED BY <1>4, <1>5, <1>6
          DEF attemptFails, SharedTypeOK, QueueTypeOK, LedgerTypeOK, ledgerVars

LEMMA JobStallsType ==
  ASSUME SharedTypeOK, NEW p \in Payment, NEW k \in JobKind, jobStalls(p, k)
  PROVE  SharedTypeOK'
  <1> DEFINE j == [job[p][k] EXCEPT !.pc = "waiting", !.ref = Null]
  <1>1. j \in Job /\ LiveJob(j)
    <2>1. job[p][k] \in Job /\ LiveJob(job[p][k])
      BY DEF SharedTypeOK, QueueTypeOK, JobTypeOK
    <2> QED BY <2>1 DEF jobStalls, Job, JobPc, ActivePc, LiveJob
  <1>2. setJob(p, k, j) \/ setJob(p, k, NoJob)
    BY DEF jobStalls, finishJob
  <1>3. JobTypeOK'
    <2> HIDE DEF j
    <2> QED BY <1>1, <1>2, SetJobType, NewJobs DEF SharedTypeOK, QueueTypeOK
  <1>4. faults' \in 0 .. MaxFaults
    BY CanFail DEF jobStalls, SharedTypeOK
  <1> QED BY <1>3, <1>4, QueueOnly DEF jobStalls, SharedTypeOK, QueueTypeOK

LEMMA DeadLetterType ==
  ASSUME SharedTypeOK, NEW p \in Payment, NEW k \in JobKind,
         onProviderJobExhausted(p, k)
  PROVE  SharedTypeOK'
  <1>1. JobTypeOK'
    BY SetJobType, NewJobs
    DEF onProviderJobExhausted, finishJob, SharedTypeOK, QueueTypeOK
  <1>2. LedgerTypeOK'
    BY CompensateType
    DEF onProviderJobExhausted, SharedTypeOK, LedgerTypeOK, ledgerVars
  <1>3. TransactionsTypeOK'
    <2>1. CASE UNCHANGED <<status, history>>
      BY <2>1 DEF onProviderJobExhausted, SharedTypeOK, TransactionsTypeOK
    <2>2. CASE moveTo(p, "processing", "failed")
      <3>1. "processing" \in State /\ "failed" \in TransactionStatus
        BY DEF State, TransactionStatus
      <3> QED BY <2>2, <3>1, MoveToType
              DEF onProviderJobExhausted, SharedTypeOK, TransactionsTypeOK
    <2> QED BY <2>1, <2>2 DEF onProviderJobExhausted
  <1> QED BY <1>1, <1>2, <1>3 DEF onProviderJobExhausted, SharedTypeOK, QueueTypeOK

\* Every step of the queue, its sweep and its dead letters.
LEMMA QueueType == SharedTypeOK /\ QueueNext => SharedTypeOK'
  <1> SUFFICES ASSUME SharedTypeOK, QueueNext PROVE SharedTypeOK'
    OBVIOUS
  <1>1. ASSUME NEW p \in Payment, NEW k \in JobKind, deadLetterLost(p, k)
        PROVE  SharedTypeOK'
    <2>1. JobTypeOK' /\ faults' \in 0 .. MaxFaults
      BY <1>1, CanFail, SetJobType, NewJobs
      DEF deadLetterLost, finishJob, SharedTypeOK, QueueTypeOK
    <2> QED BY <1>1, <2>1, QueueOnly DEF deadLetterLost, SharedTypeOK, QueueTypeOK
  <1>2. ASSUME NEW p \in Payment, pass24Hours(p) PROVE SharedTypeOK'
    BY <1>2, QueueOnly
    DEF pass24Hours, SharedTypeOK, QueueTypeOK, JobTypeOK, LiveJob
  <1>3. ASSUME NEW p \in Payment, retryStuck(p) PROVE SharedTypeOK'
    <2>1. JobTypeOK'
      <3>1. CASE UNCHANGED job
        BY <3>1 DEF SharedTypeOK, QueueTypeOK, JobTypeOK, LiveJob
      <3>2. CASE addJob(p, "retry")
        BY <3>2, SetJobType, NewJobs DEF addJob, JobKind, SharedTypeOK, QueueTypeOK
      <3> QED BY <1>3, <3>1, <3>2 DEF retryStuck
    <2> QED BY <1>3, <2>1, QueueOnly DEF retryStuck, SharedTypeOK, QueueTypeOK
  <1>4. CASE findStuck
    BY <1>4, QueueOnly DEF findStuck, SharedTypeOK, QueueTypeOK, JobTypeOK, LiveJob
  <1>5. CASE sweepDies
    BY <1>5, QueueOnly, CanFail
    DEF sweepDies, SharedTypeOK, QueueTypeOK, JobTypeOK, LiveJob
  <1> QED BY <1>1, <1>2, <1>3, <1>4, <1>5, ProcessType, SubmitPaymentType,
             SaveReferenceType, AttemptFailsType, JobStallsType, DeadLetterType
          DEF QueueNext

---------------------------------------------------------------------------
(* API requests.                                                           *)

ApiTypeOK == SharedTypeOK /\ PaymentsTypeOK

RequestRecord == [pc : RequestPc, op : Ops \cup {"none"},
                  p : Payment \cup {Null}, seen : State]

ReqTypeOK ==
  /\ req \in [Request -> RequestRecord]
  /\ \A r \in Request : req[r].p = Null => req[r].pc = "idle"

\* A request that is not idle is about a payment.
LEMMA RequestHasPayment ==
  ASSUME PaymentsTypeOK, NEW r \in Request, req[r].pc # "idle"
  PROVE  req[r].p \in Payment /\ lockKey(r) \in Account \cup Payment
  BY LedgerAssumption DEF PaymentsTypeOK, lockKey

LEMMA SetRequestType ==
  ASSUME ReqTypeOK, NEW r \in Request, NEW pc \in RequestPc,
         \/ setRequest(r, pc) /\ req[r].pc # "idle"
         \/ finish(r)
  PROVE  ReqTypeOK'
  <1>1. NoRequest \in RequestRecord
    BY DEF NoRequest, RequestRecord, RequestPc, State
  <1>2. [req[r] EXCEPT !.pc = pc] \in RequestRecord
    BY DEF ReqTypeOK, RequestRecord
  <1>3. req' \in [Request -> RequestRecord]
    BY <1>1, <1>2 DEF ReqTypeOK, setRequest, finish
  <1>4. ASSUME NEW q \in Request, req'[q].p = Null PROVE req'[q].pc = "idle"
    BY <1>4 DEF ReqTypeOK, RequestRecord, setRequest, finish, NoRequest
  <1> QED BY <1>3, <1>4 DEF ReqTypeOK

LEMMA LockTypes ==
  ASSUME Redis!TypeOK, NEW k \in Account \cup Payment, NEW r \in Request,
         \/ Redis!acquireLock(k, r) \/ Redis!releaseLock(k, r)
         \/ Redis!expire(k) \/ UNCHANGED lock
  PROVE  Redis!TypeOK'
  BY DEF Redis!TypeOK, Redis!acquireLock, Redis!releaseLock, Redis!expire

\* Requests and locks change, the shared tables do not.
LEMMA ApiOnly ==
  ASSUME ApiTypeOK, UNCHANGED <<ledgerVars, transactionVars, queueVars>>,
         ReqTypeOK', Redis!TypeOK', faults' \in 0 .. MaxFaults
  PROVE  ApiTypeOK'
  BY DEF ApiTypeOK, SharedTypeOK, LedgerTypeOK, TransactionsTypeOK, QueueTypeOK,
         JobTypeOK, LiveJob, PaymentsTypeOK, ReqTypeOK, RequestRecord,
         ledgerVars, transactionVars, queueVars

LEMMA ApiParts ==
  ASSUME ApiTypeOK
  PROVE  ReqTypeOK /\ Redis!TypeOK /\ faults \in 0 .. MaxFaults
  BY DEF ApiTypeOK, SharedTypeOK, PaymentsTypeOK, ReqTypeOK, RequestRecord

LEMMA CreatePaymentType ==
  ASSUME ApiTypeOK, NEW r \in Request, NEW p \in Payment, createPayment(r, p)
  PROVE  ApiTypeOK'
  <1> DEFINE q == [pc |-> "locked", op |-> "create", p |-> p, seen |-> "none"]
  <1>1. q \in RequestRecord /\ p # Null
    BY NullAssumption DEF createPayment, RequestRecord, RequestPc, State
  <1>2. ReqTypeOK'
    BY <1>1, ApiParts DEF createPayment, ReqTypeOK
  <1>3. Redis!TypeOK'
    BY LockTypes, ApiParts, LedgerAssumption DEF createPayment
  <1> QED BY <1>2, <1>3, ApiOnly, ApiParts DEF createPayment

LEMMA ValidateType ==
  ASSUME ApiTypeOK, NEW r \in Request, NEW op \in Op, NEW p \in Payment,
         validate(r, op, p)
  PROVE  ApiTypeOK'
  <1> DEFINE seen == IF op = "dispute" THEN status[p] ELSE "none"
             q == [pc |-> "checked", op |-> op, p |-> p, seen |-> seen]
  <1>1. seen \in State
    BY DEF ApiTypeOK, SharedTypeOK, TransactionsTypeOK, State
  <1>2. q \in RequestRecord /\ p # Null
    BY <1>1, NullAssumption DEF validate, RequestRecord, RequestPc
  <1>3. ReqTypeOK'
    <2>1. req' = [req EXCEPT ![r] = q]
      BY DEF validate
    <2> QED BY <1>2, <2>1, ApiParts DEF ReqTypeOK
  <1> QED BY <1>3, ApiOnly, ApiParts DEF validate, Redis!TypeOK

LEMMA AcquireRefundLockType ==
  ASSUME ApiTypeOK, NEW r \in Request, acquireRefundLock(r)
  PROVE  ApiTypeOK'
  <1>1. ReqTypeOK'
    BY SetRequestType, ApiParts DEF acquireRefundLock, RequestPc
  <1>2. Redis!TypeOK'
    BY LockTypes, ApiParts, RequestHasPayment DEF acquireRefundLock, ApiTypeOK
  <1> QED BY <1>1, <1>2, ApiOnly, ApiParts DEF acquireRefundLock

\* The four ends of a handler, and a TTL that runs out.
LEMMA EndingsType ==
  ASSUME ApiTypeOK, NEW r \in Request,
         abort(r) \/ release(r) \/ releaseFails(r) \/ requestDies(r)
  PROVE  ApiTypeOK'
  <1>1. ReqTypeOK'
    BY SetRequestType, ApiParts
    DEF abort, release, releaseFails, requestDies, leaveFinally, RequestPc
  <1>2. Redis!TypeOK'
    BY LockTypes, ApiParts, RequestHasPayment
    DEF abort, release, releaseFails, requestDies, ApiTypeOK
  <1>3. faults' \in 0 .. MaxFaults
    BY CanFail, ApiParts DEF abort, release, releaseFails, requestDies
  <1> QED BY <1>1, <1>2, <1>3, ApiOnly
          DEF abort, release, releaseFails, requestDies

LEMMA LockExpiresType ==
  ASSUME ApiTypeOK, NEW k \in Account \cup Payment, lockExpires(k)
  PROVE  ApiTypeOK'
  <1>1. ReqTypeOK'
    BY ApiParts DEF lockExpires, ReqTypeOK, queueVars
  <1>2. Redis!TypeOK'
    BY ApiParts DEF lockExpires, Redis!TypeOK, Redis!expire
  <1> QED BY <1>1, <1>2, ApiOnly, ApiParts DEF lockExpires

\* The database transaction of a handler: what each of its tables needs.
LEMMA Commits ==
  ASSUME ApiTypeOK, LedgerTypeOK', ReqTypeOK',
         status' \in [Payment -> State],
         history' \in [Payment -> Seq(State \X TransactionStatus)],
         UNCHANGED <<ref, queueVars, lock, faults>>
  PROVE  ApiTypeOK'
  BY DEF ApiTypeOK, SharedTypeOK, TransactionsTypeOK, QueueTypeOK, JobTypeOK,
         LiveJob, PaymentsTypeOK, ReqTypeOK, RequestRecord, Redis!TypeOK, queueVars

LEMMA CommitPaymentType ==
  ASSUME ApiTypeOK, NEW r \in Request, commitPayment(r)
  PROVE  ApiTypeOK'
  <1> DEFINE p == req[r].p
             h == << <<"none", "initiated">>, <<"initiated", "processing">> >>
  <1>1. p \in Payment
    BY RequestHasPayment DEF commitPayment, ApiTypeOK
  <1>2. LedgerTypeOK'
    BY <1>1, DebitType DEF commitPayment, ApiTypeOK, SharedTypeOK, Side
  <1>3. ReqTypeOK'
    BY SetRequestType, ApiParts DEF commitPayment, RequestPc
  <1>4. status' \in [Payment -> State]
    BY <1>1 DEF commitPayment, ApiTypeOK, SharedTypeOK, TransactionsTypeOK, State,
                TransactionStatus
  <1>5. history' \in [Payment -> Seq(State \X TransactionStatus)]
    <2>1. h \in Seq(State \X TransactionStatus)
      BY DEF State, TransactionStatus
    <2>2. history[p] \o h \in Seq(State \X TransactionStatus)
      BY <1>1, <2>1 DEF ApiTypeOK, SharedTypeOK, TransactionsTypeOK
    <2> QED BY <1>1, <2>2
            DEF commitPayment, ApiTypeOK, SharedTypeOK, TransactionsTypeOK
  <1> QED BY <1>2, <1>3, <1>4, <1>5, Commits DEF commitPayment

LEMMA EnqueueType ==
  ASSUME ApiTypeOK, NEW r \in Request, enqueue(r)
  PROVE  ApiTypeOK'
  <1>1. ReqTypeOK'
    BY SetRequestType, ApiParts DEF enqueue, RequestPc
  <1>2. JobTypeOK'
    BY RequestHasPayment, SetJobType, NewJobs
    DEF enqueue, addJob, ApiTypeOK, SharedTypeOK, QueueTypeOK, JobKind
  <1> QED BY <1>1, <1>2
          DEF enqueue, ApiTypeOK, SharedTypeOK, LedgerTypeOK, TransactionsTypeOK,
              QueueTypeOK, PaymentsTypeOK, ReqTypeOK, RequestRecord, Redis!TypeOK,
              ledgerVars, transactionVars

\* refundPayment, and resolveDispute with action "reverse".
LEMMA ReversalType ==
  ASSUME ApiTypeOK, NEW r \in Request, refundPayment(r) \/ resolveReverse(r)
  PROVE  ApiTypeOK'
  <1> DEFINE p == req[r].p
  <1>1. p \in Payment
    BY RequestHasPayment DEF refundPayment, resolveReverse, ApiTypeOK
  <1>2. LedgerTypeOK'
    <2>1. UNCHANGED ledgerVars \/ chargeback(p) \/ createCompensatingEntries(p)
      BY DEF refundPayment, resolveReverse
    <2>2. LedgerTypeOK
      BY DEF ApiTypeOK, SharedTypeOK
    <2>3. CASE UNCHANGED ledgerVars
      BY <2>2, <2>3 DEF LedgerTypeOK, ledgerVars
    <2> QED BY <1>1, <2>1, <2>2, <2>3, ChargebackType, CompensateType
  <1>3. ReqTypeOK'
    BY SetRequestType, ApiParts DEF refundPayment, resolveReverse, RequestPc
  <1>4. /\ status' \in [Payment -> State]
        /\ history' \in [Payment -> Seq(State \X TransactionStatus)]
    <2>1. TransactionsTypeOK /\ status[p] \in State /\ "reversed" \in TransactionStatus
      BY <1>1 DEF ApiTypeOK, SharedTypeOK, TransactionsTypeOK, TransactionStatus
    <2>2. moveTo(p, status[p], "reversed")
      BY DEF refundPayment, resolveReverse
    <2> QED BY <1>1, <2>1, <2>2, MoveToType
  <1> QED BY <1>2, <1>3, <1>4, Commits DEF refundPayment, resolveReverse

LEMMA DisputeType ==
  ASSUME ApiTypeOK, NEW r \in Request, raiseDispute(r) \/ resolveReject(r)
  PROVE  ApiTypeOK'
  <1> DEFINE p == req[r].p
  <1>1. p \in Payment
    BY RequestHasPayment DEF raiseDispute, resolveReject, ApiTypeOK
  <1>2. ReqTypeOK'
    BY SetRequestType, ApiParts DEF raiseDispute, resolveReject, RequestPc
  <1>3. /\ status' \in [Payment -> State]
        /\ history' \in [Payment -> Seq(State \X TransactionStatus)]
    <2>1. TransactionsTypeOK
      BY DEF ApiTypeOK, SharedTypeOK
    <2>2. /\ req[r].seen \in State /\ "disputed" \in State
          /\ {"disputed", "completed"} \subseteq TransactionStatus
      BY DEF ApiTypeOK, PaymentsTypeOK, State, TransactionStatus
    <2>3. \/ moveTo(p, req[r].seen, "disputed")
          \/ moveTo(p, "disputed", "completed")
      BY DEF raiseDispute, resolveReject
    <2> QED BY <1>1, <2>1, <2>2, <2>3, MoveToType
  <1>4. LedgerTypeOK'
    BY DEF raiseDispute, resolveReject, ApiTypeOK, SharedTypeOK, LedgerTypeOK, ledgerVars
  <1> QED BY <1>2, <1>3, <1>4, Commits DEF raiseDispute, resolveReject

\* Every step of the API.
LEMMA ApiType == ApiTypeOK /\ PaymentsNext => ApiTypeOK'
  BY CreatePaymentType, ValidateType, CommitPaymentType, EnqueueType,
     AcquireRefundLockType, ReversalType, DisputeType, EndingsType, LockExpiresType
  DEF PaymentsNext

---------------------------------------------------------------------------
(* Webhook deliveries.                                                     *)

HookTypeOK == SharedTypeOK /\ WebhooksTypeOK

HookRecord == [pc : {"idle", "waiting", "logged"}, x : Reference \cup {Null},
               type : WebhookStatus \cup {"none"}, signatureValid : BOOLEAN,
               attemptsMade : 0 .. MaxAttempts]

HooksOK ==
  /\ hook \in [Delivery -> HookRecord]
  /\ \A d \in Delivery : hook[d].pc # "idle" =>
       hook[d].x \in Reference /\ hook[d].type \in WebhookStatus

EventTable == [Reference -> [WebhookStatus -> {"none", "logged", "processed"}]]

LEMMA HookParts == HookTypeOK <=> SharedTypeOK /\ HooksOK /\ events \in EventTable
  BY DEF HookTypeOK, WebhooksTypeOK, HooksOK, HookRecord, EventTable

LEMMA FinishHookType ==
  ASSUME HooksOK, NEW d \in Delivery, finishHook(d)
  PROVE  HooksOK'
  <1>1. NoHook \in HookRecord /\ NoHook.pc = "idle"
    BY MaxAttemptsAssumption DEF NoHook, HookRecord
  <1> QED BY <1>1 DEF HooksOK, finishHook

LEMMA HookThrowsType ==
  ASSUME HooksOK, NEW d \in Delivery, hook[d].pc # "idle", hookThrows(d)
  PROVE  HooksOK'
  <1> DEFINE n == hook[d].attemptsMade + 1
             h == [hook[d] EXCEPT !.pc = "waiting", !.attemptsMade = n]
  <1>1. CASE n < MaxAttempts
    <2>1. n \in 0 .. MaxAttempts
      BY <1>1, MaxAttemptsAssumption DEF HooksOK, HookRecord
    <2>2. h \in HookRecord /\ h.x \in Reference /\ h.type \in WebhookStatus
      <3> HIDE DEF n
      <3> QED BY <2>1 DEF HooksOK, HookRecord
    <2>3. hook' = [hook EXCEPT ![d] = h]
      BY <1>1 DEF hookThrows
    <2> HIDE DEF h
    <2> QED BY <2>2, <2>3 DEF HooksOK
  <1>2. CASE ~ (n < MaxAttempts)
    BY <1>2, FinishHookType DEF hookThrows
  <1> QED BY <1>1, <1>2

LEMMA SetEventType ==
  ASSUME events \in EventTable, NEW x \in Reference, NEW type \in WebhookStatus,
         NEW e \in {"none", "logged", "processed"}
  PROVE  [events EXCEPT ![x][type] = e] \in EventTable
  <1>1. [events[x] EXCEPT ![type] = e] \in [WebhookStatus -> {"none", "logged", "processed"}]
    BY DEF EventTable
  <1> QED BY <1>1 DEF EventTable

\* A delivery and the event log change, the shared tables do not.
LEMMA HookOnly ==
  ASSUME SharedTypeOK, UNCHANGED <<ledgerVars, transactionVars, queueVars>>,
         HooksOK', events' \in EventTable, faults' \in 0 .. MaxFaults
  PROVE  HookTypeOK'
  BY DEF SharedTypeOK, LedgerTypeOK, TransactionsTypeOK, QueueTypeOK, JobTypeOK,
         LiveJob, HookTypeOK, WebhooksTypeOK, HooksOK, HookRecord, EventTable,
         ledgerVars, transactionVars, queueVars

LEMMA HandleWebhookType ==
  ASSUME HookTypeOK, NEW d \in Delivery, NEW x \in Reference,
         NEW type \in WebhookStatus, NEW valid \in BOOLEAN,
         handleProviderWebhook(d, x, type, valid)
  PROVE  HookTypeOK'
  <1> DEFINE h == [pc |-> "waiting", x |-> x, type |-> type,
                   signatureValid |-> valid, attemptsMade |-> 0]
  <1>1. h \in HookRecord
    BY MaxAttemptsAssumption DEF HookRecord
  <1>2. HooksOK'
    BY <1>1, HookParts DEF handleProviderWebhook, HooksOK
  <1>3. faults' \in 0 .. MaxFaults
    BY HookParts, CanFail DEF handleProviderWebhook, SharedTypeOK
  <1> QED BY <1>2, <1>3, HookParts, HookOnly DEF handleProviderWebhook

LEMMA LogEventType ==
  ASSUME HookTypeOK, NEW d \in Delivery, logEvent(d)
  PROVE  HookTypeOK'
  <1> DEFINE x == hook[d].x
             type == hook[d].type
             h == [hook[d] EXCEPT !.pc = "logged"]
  <1>1. x \in Reference /\ type \in WebhookStatus /\ HooksOK /\ hook[d] \in HookRecord
    BY HookParts DEF logEvent, HooksOK
  <1>2. events' \in EventTable
    BY <1>1, HookParts, SetEventType DEF logEvent
  <1>3. HooksOK'
    <2>1. CASE hook' = [hook EXCEPT ![d].pc = "logged"]
      <3>1. h \in HookRecord /\ h.x = x /\ h.type = type
        BY <1>1 DEF HookRecord
      <3> QED BY <1>1, <2>1, <3>1 DEF HooksOK
    <2>2. CASE finishHook(d)
      BY <1>1, <2>2, FinishHookType
    <2> QED BY <2>1, <2>2 DEF logEvent
  <1> QED BY <1>2, <1>3, HookParts, HookOnly DEF logEvent, SharedTypeOK

LEMMA UnappliedType ==
  ASSUME HookTypeOK, NEW d \in Delivery,
         unknownReference(d) \/ rejectEvent(d) \/ hookFails(d)
  PROVE  HookTypeOK'
  <1>1. HooksOK'
    BY HookParts, FinishHookType, HookThrowsType
    DEF unknownReference, rejectEvent, hookFails
  <1>2. faults' \in 0 .. MaxFaults /\ events' \in EventTable
    BY HookParts, CanFail DEF unknownReference, rejectEvent, hookFails, SharedTypeOK
  <1> QED BY <1>1, <1>2, HookParts, HookOnly
          DEF unknownReference, rejectEvent, hookFails

LEMMA ApplyEventType ==
  ASSUME HookTypeOK, NEW d \in Delivery, NEW p \in Payment, applyEvent(d, p)
  PROVE  HookTypeOK'
  <1> DEFINE x == hook[d].x
             type == hook[d].type
  <1>1. x \in Reference /\ type \in WebhookStatus /\ HooksOK
    BY HookParts DEF applyEvent, HooksOK
  <1>2. LedgerTypeOK /\ TransactionsTypeOK
    BY HookParts DEF SharedTypeOK
  <1>3. LedgerTypeOK'
    BY <1>2, CreditType, CompensateType DEF applyEvent, Side
  <1>4. /\ status' \in [Payment -> State]
        /\ history' \in [Payment -> Seq(State \X TransactionStatus)]
    <2>1. type \in TransactionStatus /\ status[p] \in State
      BY <1>1, <1>2, WebhooksAssumption DEF TransactionsTypeOK, TransactionStatus
    <2> QED BY <1>2, <2>1, MoveToType DEF applyEvent
  <1>5. HooksOK' /\ events' \in EventTable
    BY <1>1, HookParts, FinishHookType, SetEventType DEF applyEvent
  <1>6. SharedTypeOK'
    BY <1>2, <1>3, <1>4, HookParts
    DEF applyEvent, SharedTypeOK, TransactionsTypeOK, QueueTypeOK, JobTypeOK,
        LiveJob, queueVars
  <1> QED BY <1>5, <1>6 DEF HookTypeOK, WebhooksTypeOK, HooksOK, HookRecord, EventTable

LEMMA CleanupType ==
  ASSUME HookTypeOK, NEW x \in Reference, NEW type \in WebhookStatus,
         cleanupProcessedEvent(x, type)
  PROVE  HookTypeOK'
  <1>1. HooksOK'
    BY HookParts DEF cleanupProcessedEvent, HooksOK
  <1>2. events' \in EventTable
    BY HookParts, SetEventType DEF cleanupProcessedEvent
  <1> QED BY <1>1, <1>2, HookParts, HookOnly DEF cleanupProcessedEvent, SharedTypeOK

\* Every step of the webhooks.
LEMMA HookType == HookTypeOK /\ WebhooksNext => HookTypeOK'
  BY HandleWebhookType, LogEventType, UnappliedType, ApplyEventType, CleanupType
  DEF WebhooksNext

---------------------------------------------------------------------------
(* TypeOK is an invariant.                                                 *)

LEMMA InitType == Init => TypeOK
  BY LedgerAssumption, NullAssumption, MaxFaultsAssumption,
     MaxAttemptsAssumption, PaymentsAssumption, WebhooksAssumption
  DEF Init, LedgerInit, TransactionsInit, QueueInit, PaymentsInit, WebhooksInit,
      TypeOK, LedgerTypeOK, TransactionsTypeOK, QueueTypeOK, JobTypeOK, LiveJob,
      PaymentsTypeOK, WebhooksTypeOK, Redis!Init, Redis!TypeOK, NoJob, NoRequest,
      NoHook, Job, JobPc, JobKind, ActivePc, Side, Kind, RequestPc, State,
      TransactionStatus

LEMMA StepType == TypeOK /\ [Next]_vars => TypeOK'
  <1> SUFFICES ASSUME TypeOK, [Next]_vars PROVE TypeOK'
    OBVIOUS
  <1>0. SharedTypeOK /\ ApiTypeOK /\ HookTypeOK
    BY DEF TypeOK, SharedTypeOK, ApiTypeOK, HookTypeOK
  <1>1. ASSUME UNCHANGED apiVars PROVE PaymentsTypeOK'
    BY <1>0, <1>1 DEF ApiTypeOK, PaymentsTypeOK, Redis!TypeOK, apiVars
  <1>2. ASSUME UNCHANGED hookVars PROVE WebhooksTypeOK'
    BY <1>0, <1>2 DEF HookTypeOK, WebhooksTypeOK, hookVars
  <1>3. CASE PaymentsNext /\ UNCHANGED hookVars
    BY <1>0, <1>2, <1>3, ApiType DEF TypeOK, ApiTypeOK, SharedTypeOK
  <1>4. CASE WebhooksNext /\ UNCHANGED apiVars
    BY <1>0, <1>1, <1>4, HookType DEF TypeOK, HookTypeOK, SharedTypeOK
  <1>5. CASE QueueNext /\ UNCHANGED <<apiVars, hookVars>>
    BY <1>0, <1>1, <1>2, <1>5, QueueType DEF TypeOK, SharedTypeOK
  <1>6. CASE UNCHANGED vars
    <2>1. SharedTypeOK'
      BY <1>0, <1>6 DEF SharedTypeOK, LedgerTypeOK, TransactionsTypeOK, QueueTypeOK,
           JobTypeOK, LiveJob, vars, ledgerVars, transactionVars, queueVars
    <2> QED BY <1>1, <1>2, <1>6, <2>1 DEF TypeOK, SharedTypeOK, vars
  <1> QED BY <1>3, <1>4, <1>5, <1>6 DEF Next

\* Every variable keeps its type, for any accounts, payments, requests and
\* deliveries.  LedgerTypeOK has every balance in Nat: no interleaving of
\* payments and chargebacks overdraws an account.
THEOREM TypeCorrect == Spec => []TypeOK
  BY InitType, StepType, PTL DEF Spec

---------------------------------------------------------------------------
(* Locks.                                                                  *)

\* The request that changes is the one that took or freed the lock.
LEMMA OneRequestMoves ==
  ASSUME PaymentsTypeOK, NEW r \in Request, NEW q \in Request, q # r,
         finish(r) \/ \E pc \in RequestPc : setRequest(r, pc)
  PROVE  req'[q] = req[q]
  BY DEF PaymentsTypeOK, finish, setRequest

LockKept(q) ==
  \A k \in Account \cup Payment :
    lock[k] \in Request \ {q} => lock'[k] = lock[k]

LEMMA TakenOrFreed ==
  ASSUME PaymentsTypeOK, NEW r \in Request, NEW key,
         Redis!acquireLock(key, r) \/ Redis!releaseLock(key, r)
  PROVE  LockKept(r)
  BY PaymentsAssumption
  DEF LockKept, PaymentsTypeOK, Redis!TypeOK, Redis!acquireLock,
      Redis!releaseLock, Redis!held

LEMMA ApiKeepsLocks ==
  ASSUME TypeOK, PaymentsNext, NEW q \in Request, req'[q] # req[q]
  PROVE  LockKept(q)
  <1>0. PaymentsTypeOK
    BY DEF TypeOK
  <1>1. ASSUME UNCHANGED lock PROVE LockKept(q)
    BY <1>1 DEF LockKept
  <1>2. CASE \E r \in Request, p \in Payment : createPayment(r, p)
    BY <1>0, <1>2, TakenOrFreed DEF createPayment, PaymentsTypeOK
  <1>3. CASE \E r \in Request : acquireRefundLock(r)
    BY <1>0, <1>1, <1>3, TakenOrFreed, OneRequestMoves
    DEF acquireRefundLock, RequestPc
  <1>4. CASE \E r \in Request : release(r)
    BY <1>0, <1>4, TakenOrFreed, OneRequestMoves DEF release, leaveFinally, RequestPc
  <1>5. CASE \E k \in Account \cup Payment : lockExpires(k)
    BY <1>5 DEF lockExpires
  <1>6. CASE UNCHANGED lock
    BY <1>1, <1>6
  <1> QED BY <1>2, <1>3, <1>4, <1>5, <1>6
          DEF PaymentsNext, validate, commitPayment, enqueue, refundPayment,
              resolveReverse, raiseDispute, resolveReject, abort, releaseFails,
              requestDies

\* However many locks expired under the requests that took them, no request
\* ever frees, or takes, the lock another one holds.
THEOREM OwnLocksOnly == Spec => LocksOfOthersKept
  <1> DEFINE Kept == \A q \in Request : req'[q] # req[q] => LockKept(q)
  <1>1. TypeOK /\ [Next]_vars => TypeOK'
    BY StepType
  <1>2. TypeOK /\ [Next]_vars => [Kept]_vars
    BY ApiKeepsLocks DEF Next, apiVars, vars
  <1>3. [Kept]_vars <=> [\A r \in Request : req'[r] # req[r] =>
          \A k \in Account \cup Payment :
            lock[k] \in Request \ {r} => lock'[k] = lock[k]]_vars
    BY DEF LockKept
  <1> HIDE DEF Kept
  <1> QED BY <1>1, <1>2, <1>3, InitType, PTL DEF Spec, LocksOfOthersKept

---------------------------------------------------------------------------
(* Balances.                                                               *)

LedgerStep(p) ==
  \/ debit(p, "sender") \/ credit(p, "recipient")
  \/ chargeback(p) \/ createCompensatingEntries(p)

LedgerNext == UNCHANGED ledgerVars \/ \E p \in Payment : LedgerStep(p)

\* Nothing but the operations of the ledger writes its tables, one at a time.
LEMMA NextBooks == TypeOK /\ [Next]_vars => LedgerNext
  <1> SUFFICES ASSUME TypeOK, [Next]_vars PROVE LedgerNext
    OBVIOUS
  <1>1. CASE PaymentsNext
    <2>1. ASSUME NEW r \in Request,
                 commitPayment(r) \/ refundPayment(r) \/ resolveReverse(r)
          PROVE  LedgerNext
      <3>1. req[r].p \in Payment
        BY <2>1, RequestHasPayment
           DEF commitPayment, refundPayment, resolveReverse, TypeOK
      <3>2. UNCHANGED ledgerVars \/ LedgerStep(req[r].p)
        BY <2>1 DEF commitPayment, refundPayment, resolveReverse, LedgerStep
      <3> QED BY <3>1, <3>2 DEF LedgerNext
    <2> QED BY <1>1, <2>1
            DEF PaymentsNext, createPayment, validate, enqueue, acquireRefundLock,
                raiseDispute, resolveReject, abort, release, releaseFails,
                requestDies, lockExpires, LedgerNext
  <1>2. CASE WebhooksNext
    BY <1>2 DEF WebhooksNext, handleProviderWebhook, logEvent, unknownReference,
                rejectEvent, applyEvent, hookFails, cleanupProcessedEvent,
                LedgerNext, LedgerStep
  <1>3. CASE QueueNext
    BY <1>3 DEF QueueNext, process, submitPayment, saveReference, attemptFails,
                jobStalls, onProviderJobExhausted, deadLetterLost, pass24Hours,
                retryStuck, findStuck, sweepDies, LedgerNext, LedgerStep
  <1>4. CASE UNCHANGED vars
    BY <1>4 DEF vars, LedgerNext
  <1> QED BY <1>1, <1>2, <1>3, <1>4 DEF Next

\* Every balance is the seed balance plus the account's ledger rows, whatever
\* requests, callbacks, dead letters and faults come in between.
THEOREM Reconciled ==
  ASSUME IsFiniteSet(Payment)
  PROVE  Spec => []BalanceMatchesLedger
  <1>1. Init => BalanceMatchesLedger
    BY InitBooked DEF Init
  <1>2. BalanceMatchesLedger /\ TypeOK /\ [Next]_vars => BalanceMatchesLedger'
    <2> SUFFICES ASSUME BalanceMatchesLedger, TypeOK, [Next]_vars
                 PROVE  BalanceMatchesLedger'
      OBVIOUS
    <2>1. LedgerTypeOK /\ LedgerNext
      BY NextBooks DEF TypeOK
    <2>2. CASE UNCHANGED ledgerVars
      BY <2>2 DEF ledgerVars, BalanceMatchesLedger, ledgerSum, NetRows, AmountOf
    <2> QED BY <2>1, <2>2, DebitBooked, CreditBooked, ChargebackBooked, CompensateBooked
            DEF LedgerNext, LedgerStep
  <1> QED BY <1>1, <1>2, InitType, StepType, PTL DEF Spec

\* What the hourly reconciliation job reports are false alarms throughout: the
\* accounts seeded with money, and those without rows.
THEOREM FalseAlarms ==
  ASSUME IsFiniteSet(Payment)
  PROVE  Spec => []FalseAlarmsOnly
  <1>1. BalanceMatchesLedger /\ TypeOK => FalseAlarmsOnly
    <2> SUFFICES ASSUME BalanceMatchesLedger, TypeOK, NEW a \in Account
                 PROVE  balance[a] # ledgerSum(a) <=> seedBalance[a] # 0
      BY DEF FalseAlarmsOnly, mismatches
    <2>1. ledgerSum(a) \in Int
      BY LedgerSumIsInt DEF TypeOK
    <2> QED BY <2>1, LedgerAssumption DEF BalanceMatchesLedger
  <1> QED BY <1>1, Reconciled, TypeCorrect, PTL
====
