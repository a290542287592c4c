# PayRoute: a TLA+ model of the payment system

PayRoute moves money between accounts of different currencies. A browser calls
the NestJS API, the API freezes the sender's money in PostgreSQL and hands the
payment to a BullMQ queue in Redis, a worker submits it to a provider, and the
provider reports the outcome in a webhook. Everything that can go wrong goes
wrong between these parts, so the model is about their interleavings, crashes,
retries and lost or repeated messages. All paths below are relative to the
repository; `backend/` stands for `src/backend/src/`, `frontend/` for
`src/frontend/src/`.

## 1. Inventory

| Component | State | Operations | Calls | What makes it correct |
|---|---|---|---|---|
| Payments service `backend/payments/payments.service.ts` | none of its own; a lock token per request | `createPayment`, `refundPayment`, `raiseDispute`, `resolveDispute` (reverse, reject), `findStuck`, reads | Redis locks, accounts, ledger, fx, queue | a payment's money is frozen once and given back or charged back at most once |
| Ledger `backend/ledger/ledger.service.ts` | `accounts.balance`, `ledger_entries` | `debit`, `credit`, `createCompensatingEntries`, `hasBeenReversed` | | balances equal their rows, never negative |
| State machine `backend/payments/entities` | `transactions.status`, `provider_reference`, `transaction_state_history` | `validateTransition` | | only valid transitions, an unbroken audit trail |
| Provider queue `backend/queue/provider.processor.ts` | BullMQ jobs | `process` | provider, transactions | every frozen payment gets submitted |
| Stuck payment sweep `backend/queue/stuck-payment.scheduler.ts` | a snapshot | `retryStuckPayments` | `findStuck`, queue | makes good lost jobs |
| Dead letters `backend/queue/dead-letter.handler.ts` | none | `onProviderJobExhausted` | ledger, transactions | returns the money of a payment that cannot be submitted, never of one that is settled |
| Webhooks `backend/webhooks` | `webhook_events`, BullMQ jobs | endpoint, `processWebhook` | ledger, transactions | each callback is applied at most once, only to its payment |
| Provider (simulated) `backend/provider/provider.service.ts` | references it issued | `submitPayment`, callback | webhook endpoint | external to the promise |
| Redis locks `backend/redis/redis.service.ts` | keys with a token and a TTL | `acquireLock`, `releaseLock` | | nobody frees another one's lock |
| Redis caches, same file | statistics, lists, FX rates | `getObject`, `setObject`, `deleteByPattern` | | what is shown catches up with what is so |
| Row locks of PostgreSQL, used all over the backend | locks on `accounts` and `transactions` | `FOR UPDATE [NOWAIT]`, `UPDATE`, foreign keys of an `INSERT` | | what was read under a lock still holds at the commit; no transaction waits for ever |
| Idempotency interceptor `backend/common/interceptors` | Redis record, `idempotency_keys` row, lock | `intercept` | `createPayment` | one payment per key |
| FX `backend/fx` | quotes | `getRate`, `createQuote` | | a quote is used before it expires |
| Accounts `backend/accounts` | | `lockForUpdate`, reads | | |
| Reconciliation `backend/reconciliation` | | SQL comparison | | reports an account exactly if an operation left it out of step with its rows (it does not: section 3) |
| Retention `backend/queue/retention.scheduler.ts` | | deletes old events and keys | webhooks, idempotency | forgets nothing that is still needed |
| Payment form `frontend/components/PaymentForm.tsx` | inputs, a key, the call it waits for, a receipt | submit, edit, "New Payment" | `POST /payments` | one charge per form, and a receipt that is true |
| Lists, pages, dashboard in `frontend/` | copies of answers | polling, navigation | `GET /payments...` | a settled payment is not left on the screen as being processed |
| Events, audit, health, filters, bootstrap | | logging and plumbing | | |

How they interact: shared tables (accounts, ledger_entries, transactions,
history, webhook_events) under PostgreSQL row locks; jobs in Redis; HTTP from
and to the provider. The hard behaviours: API handlers that read before they
lock; two jobs for one payment; a provider that answers after the attempt was
given up; callbacks that come early, twice or in the wrong order; locks whose
TTL runs out; crashes between the database commit and the Redis call; database
transactions that wait for each other's rows; a user who clicks twice or submits
again after a time-out; a cache written with an answer that was overtaken.

## 2. Modules

    Ledger                      accounts, ledger_entries
      Transactions              status, reference, audit trail   (+ StatusTable)
        ProviderQueue           jobs, processor, sweep, dead letters  (+ Faults)
          Payments              the API                (INSTANCE RedisLock)
          Webhooks              callbacks, retention of their events
            PayRoute            the composition and its properties
              MCPayRoute        small instances
    StatusTable                 statuses and their transitions
      RowLocks                  the database transactions, lock by lock
        MCRowLocks
      ListView                  reads behind their caches, and the browser  (+ Faults)
        MCListView
    FundsCustody                the abstract specification PayRoute implements
    AtomicTransitions           the abstract specification RowLocks and PayRoute implement
    Idempotency                 one key around createPayment  (INSTANCE RedisLock)
      MCIdempotency
      Checkout                  the form's calls and keys; implements Idempotency
        MCCheckout

    LedgerProofs <- PayRouteProofs <- SettlementProofs
                                   <- DisputeProofs
    IdempotencyProofs <- CheckoutProofs
    RowLocksProofs
    ListViewProofs

The three groups model one system from three sides: what happens to the money
(PayRoute), what a client gets for its requests (Checkout, ListView), and why a
database transaction may be one step of PayRoute (RowLocks).

**Ledger.** `balance` is `accounts.balance`. `ledger[p][side][kind]` counts the
rows of payment `p`: every row belongs to its sender or its recipient, and is a
`debit`, a `credit` or a `reversal` (a credit with `is_reversal`). The amounts
follow from `p` and the side. `chargeback` is the pair of calls
`payments.service.ts:308-319`, repeated at 434-445. `sender[p] # recipient[p]` is
what `NotSelfPaymentConstraint` in the DTO checks; `destinationAmount[p]` may be 0,
since a quote is rounded to eight places. `ledgerSum` is `SUM(ledger_entries)` of an
account and `mismatches` what `runLedgerVsBalanceCheck` reports: it compares the texts of
two NUMERICs, and with no row the sum is `'0'`, which no balance of eight decimals is.

**Transactions.** One PostgreSQL transaction is one step of the model when it
takes the payment's row lock before it reads what it decides on
(`pessimistic_write` in webhooks and dead letters, `pessimistic_write_or_fail` in
refunds) or is a single UPDATE. What a handler read *before* such a transaction
is a step of its own; this is where disputes go wrong. `createPayment` inserts a
row nobody else can see before the commit.

**ProviderQueue.** `job[p]["first"]` is the job of `createPayment`, `job[p]["retry"]`
the sweep's under its fixed id. The processor's read, the provider's answer and
the save are three steps. An attempt may fail at any of them
(`attemptFails`, also after the UPDATE took effect), a worker may die
(`jobStalls`), the dead-letter event may be lost (`deadLetterLost`). Two jobs of
one payment may be active at once, which takes two worker processes. One sweep
runs at a time. BullMQ is external: the model keeps attempts, stalled jobs and
job ids. A stalled job whose old worker is still alive is not modelled.

**Payments.** A request's `pc` says how far the handler got. Any statement of a
transaction may throw (`abort`), a release may fail, the process may die, a lock
may expire at any moment. A request that ends may be issued again, so a client's
retries are included. Reads, validation of input and the FX quote change nothing
a property mentions.

**Webhooks.** A delivery is one callback and its job. Its INSERT into
`webhook_events` is a step of its own (statement outside the transaction,
`webhooks.service.ts:40`), the transaction is the next. Callbacks come as often, as
early and with whichever status the contract allows, but only about references
the provider issued; a signature is wrong only by a fault. Where `CleansUp` says that
the instance lasts for ninety days, `cleanupProcessedEvent` deletes the row of a
processed event at any time, and its duplicate is logged as if it were new.

**FundsCustody** promises that the money of a payment is taken once, held, then
paid or given back, and given back for good. `PayRoute` reads `custody` off the
ledger rows.

**Idempotency.** The interceptor around `POST /payments`, request by request: the
Redis record (`cache`), the lock, the row, the handler and the two writes of the
answer, which run at the same time after the client got it (`tap` does not wait).
`createPayment` is seen from outside: it makes a payment and answers, throws
before its commit, or throws after it (`enqueueFails`). It is not composed with
`PayRoute`, where every request simply makes a new payment; a key belongs to none
of PayRoute's tables. `cleanupExpiredKey` is the nightly DELETE: a day passed, so it
counts as a fault, `keyExpires`. An answer is the number of the payment it tells of.
`suffered` records which faults happened, so that a property can say which ones it
stands: `Tolerated` are lost records and failed releases.

**Checkout** puts the browser around it. `call[r]` is one `POST /payments` with the key
and the inputs ("order") it carried; a call that timed out after fifteen seconds is
no longer `awaited` but goes on at the server. `key` is `idempotencyKeyRef`, drawn anew
by "New Payment" (`newPayment`), by leaving and entering the page (`remount`), and by
every failed call (`fail`, the mutation's `onError`, which runs for calls of an
earlier visit as well). The button is disabled by `isPending` as last drawn: a double
click comes in between (`lag`). `serverStep` is any step of the interceptor; `response`
says what the step means for the call. `charges` and `troubled` are history variables:
every payment made, and the visits in which a call failed.

**AtomicTransitions** promises of the status of a payment, whoever else writes it, that a
transition is decided on and written in one step. Disputes and their rejections are the
exception the code makes: such a session is granted a transition that is valid when its
handler looks (`grant`), and may write it once, at any later time (`overwrite`). `RowLocks`
implements it, which is why `Transactions` may take a database transaction for one step, and
so does `PayRoute`. `log` is whatever changes with each write, the committed sessions in the
one and the audit rows in the other: without it, a second refund that reads `completed` and
writes `reversed` over `reversed` could not be told from a step that writes nothing.

**RowLocks** opens PayRoute's database transactions. A session takes the locks of its
operation in the order of its statements: `createLocks`; `refundLocks` and `eventLocks`,
that is the payment's row, then what is to be written to the ledger. What that is
(`ledgerLocks`) is read under the first lock and kept in `writes`: a credit, a chargeback,
or the compensation of every debit row of the payment. A payment that was charged back,
and revived by a dispute, has a debit row of its recipient too (`chargedBack`), so that
its compensation locks both accounts, in the order in which an unordered query finds the
rows; one that was compensated (`reversed`, what `hasBeenReversed` finds) gets no rows any
more. Among the locks are those nobody wrote: the INSERT of a ledger row or of a
payment takes `FOR KEY SHARE` of the accounts its foreign keys name. `FOR UPDATE` and
the UPDATE of a balance conflict as in PostgreSQL's table. `seen` is the status a
session read: with its first lock if it locks the payment (`Locking`), before its
transaction if it does not (`raiseDispute`, the rejection). Left out are locks weaker
than one already held on the row, and rows nobody else can see. `circles` are the sets of
sessions that wait for each other in a circle; `deadlockDetected` aborts one of its
sessions.

**ListView** follows one query: the statistics, a list with a filter, or the page of a
payment. The look at the cache, each SQL query, the arrival of the answer and the
landing of the cache write, for which nobody waits (`landing`), are steps of their own;
so are a writer's commit and its invalidation (`owed`). The dead-letter handler commits
and invalidates nothing. `refetchInterval` is the polling rule of `usePayments.ts`:
statistics always, a list or a page only while it shows a payment being processed. A
payment's page is read in two queries, without a cache and outside a transaction; a third
one between them, of the ledger rows (`payments.service.ts:506`), is left out, since no
property depends on it.

`Ops` names the operations an instance offers. `SettlingOps` are those that
decide under the row lock: create, refund and reverse.

## 3. Runs

| Run | Checks | Instance |
|---|---|---|
| `submissions` | `HistoryIsPath`, `FalseAlarmsOnly`, `CustodyKept`, `StrictTransitions` | 1 payment, 2 jobs, 2 attempts, 2 references, 1 refund request, 2 faults |
| `accounts` | `TypeOK`, `BalanceMatchesLedger`, `LedgerMatchesStatus`, `LocksOfOthersKept` | 2 payments crossing between 2 accounts, 2 requests (create, refund, reverse) |
| `disputes` | `CreditHasEvent`, `DailyLimitKept` | 2 payments of 1 sender on a day that allows 1, and the volume of 1; create, dispute, reject |
| `progress` | `LedgerMatchesStatus`, `SubmissionProgress` | 4 references, 2 faults, events are deleted, fairness |
| `checkout` | `OneAtWork`, `OnePaymentPerKey`, `ReceiptFits`, `OneChargePerForm` | 2 calls, 2 keys, 2 orders, 1 fault of any kind |
| `rowlocks` | `UniformDeadlocks`, `DecisionsStand`, `DecidesAtOnce`, `TransactionsEnd` | 3 sessions, 2 payments in opposite directions, each of them new, processed, completed, or charged back and in dispute again, fairness |
| `listview` | `PageIsCoherent`, `SettledIsShown`, `StatsConverge` | 2 payments, 1 writer, 2 changes, 1 fault, each kind of query, fairness |
| `disputed_refund` | refutes `MoneyConserved` | create, refund, dispute |
| `reject_processing` | refutes `CompletedIsCredited` | create, reject |
| `stale_dispute` | refutes `StrictTransitions` | 2 requests: refund, dispute |
| `early_webhook` | refutes `EventsApplied` | no fault |
| `lost_enqueue` | refutes `DuplicatesAnswered` | 2 requests, 1 failed enqueue |

Every property of a passing run is also checked against a mutant: an operator kept
next to the definition it changes, marked "Mutant", that makes a plausible mistake and
violates the property.

What they show. Whatever refunds, chargebacks, callbacks, retries and dead
letters do to each other, money moves at most once in each direction, because
each of them checks the status under the payment's row lock (`accounts`,
`submissions`); the Redis locks are not needed for that, only for orderly
refusals. No operation lets a balance and its rows part (`accounts`). Each credit has its event, and
the limits of a day, on count and on volume, are exceeded only by payments that come
back from a dispute (`disputes`). The sweep makes good what crashes and lost jobs leave behind,
and a callback repeated after its event was deleted is refused by the state machine
(`progress`).

A key has one request at work and makes one payment, even if Redis forgets the record
or keeps a lock too long; what the success screen tells of was made of the inputs
submitted; and a form none of whose calls failed is charged once (`checkout`). What a
transaction decided on under its row lock still holds when it commits, so that all of them
but disputes and rejections might as well be one step (`DecidesAtOnce`); creations in
opposite directions may deadlock with each other, and so may chargebacks and refunds of
payments charged back before, but nothing else takes part in a deadlock, and everything
ends (`rowlocks`). Stale answers in the
caches do not stay on the screen: a list goes on polling as long as it shows a payment
being processed, and the statistics become right (`listview`).

Where the code and its documents disagree:

* A refund of a **disputed** payment takes the branch for money still frozen
  (`payments.service.ts:325`): the sender is repaid, the recipient keeps the money.
* A dispute can be **rejected** that was never raised: `PROCESSING` may become
  `COMPLETED`, so `resolveDispute` completes an unpaid payment (line 415).
* A dispute is written on a status read earlier (line 384) and can revive a
  reversed payment.
* A callback that comes before the reference is saved is logged and never
  applied (`webhooks.service.ts:80`); README.md:673 promises a background job that
  does not exist.
* If adding the job to the queue fails **after** the commit
  (`payments.service.ts:233`), no answer is stored and a repeated request under the
  same key makes a second payment; README.md:414 promises the cached response.

* The **reconciliation job** reports accounts nothing is wrong with
  (`reconciliation.service.ts:18-27`). It compares a balance with the bare sum of the
  account's rows, which SCHEMA.md:16 and :45 call the core invariant, but the seed script
  writes balances without rows: every account seeded with money is reported from the
  start and for ever. And it compares texts, so that an account with nothing and no rows,
  `0.00000000` against `0`, is reported as well. A passing property, `FalseAlarmsOnly` in
  `submissions`, says that these accounts are reported in every state and no others: the
  alarm is never due to an operation, and one that were would drown.

A request that outlives its thirty-second lock, a failed pre-check, a process that
dies before it stored the answer, a failed write of the answer, and a key that expired
have the same effect as the failed enqueue; they are the faults outside `Tolerated`.

Things the properties are worded around, and worth knowing:

* A payment can be credited twice: two jobs on two workers, completed, disputed,
  completed by the other reference. So `CreditHasEvent` counts events. Once events are
  deleted, a repeat of the very callback credits a disputed payment again; the property
  is checked and proved for instances that delete none.
* A call that timed out is not called back: its payment is made, while the form draws a
  new key and lets the user submit again. Two charges are then possible under two keys
  (README.md:629 against 831), so `OneChargePerForm` speaks of forms that saw no call
  fail. A failing call of an *earlier* visit draws the later form a new key as well,
  between the two clicks of a double click if it comes to that.
* `saveReference` and the dead-letter handler invalidate no cache, and a list that shows
  no payment being processed is not polled: a payment that appears elsewhere is seen when
  the user comes back. `SettledIsShown` promises no more.
* The dashboard's figures leave out disputed payments; a preview already under way is not
  cancelled when the inputs change. Neither is a property here.
* `BalanceMatchesLedger` adds the seeded balance to the rows: it says what the operations
  keep, not what the documents claim or the reconciliation job compares.

**Bounds.** `MaxFaults` (faults of any kind), `MaxAttempts` (3 in
`queue.constants.ts`; 2 has a retry and an exhaustion, 1 has exhaustion only),
`MaxHistory` (audit rows, only disputes can repeat), `MaxPaymentsPerDay` and
`MaxDailyVolume` (1 or 2, and 1 or 3, instead of 50 and 500,000,000; in `disputes` each of
them alone stops the second payment), `MaxPayments` (payments
under one key), `MaxKeys` (keys the form draws), `MaxChanges` (changes to what is listed).
References are a finite set: a reference more is a submission more. One payment suffices
where no property relates two payments: rows, status, jobs and the refund lock belong to
one payment; `accounts` has two sharing two accounts, where the balance
of one decides the other's chargeback; `disputes` has two of one sender, which share the
day's limit; `rowlocks` has two that cross, with a third session to be in the way: two
sessions make a deadlock, the third can be of any other kind; `StartTables` has six
pairs of payments that are new, processed, completed, or disputed after a chargeback, so
that every branch of `ledgerLocks` is taken and chargebacks meet compensations of two
debits (the payments are alike: one order of a pair is enough). Keys share nothing at the
server; `checkout` has two, before and after a failure, and two calls, which are a double
click, or a call that timed out and the next one. Queries share nothing but the tables, so
`listview` follows one at a time. Two requests and jobs give
every race of a pair. `SYMMETRY` is used only in runs without liveness.
`CHECK_DEADLOCK FALSE`, because a finite set of
payments, references, sessions or calls gets used up, and a key that is answered from its
record changes nothing any more; only `listview` goes on for ever and is checked.

**Fairness.** Weak fairness of the worker's steps, of the dead-letter handler,
of the sweep and of webhook jobs: BullMQ workers poll, `@Cron` fires every five
minutes. `RowLocks`: handlers go on, and PostgreSQL's deadlock detector runs after a
second; nothing obliges a statement to fail. `ListView`: the poll of a page that is open
(react-query's interval, only where `refetchInterval` holds), the serving of its request,
cache writes that land, and TTLs that run out. Not fair: clients, users, the provider's
callbacks, faults, invalidations, and
`pass24Hours`. Strong fairness is nowhere assumed. `SubmissionProgress` excepts
payments a day old, which `stuck-payment.scheduler.ts:37` gives up; `SettledIsShown`
and `StatsConverge` speak of a page that is left open.

## 4. Proofs

| Theorem | Says | Assumes |
|---|---|---|
| `PayRouteProofs!TypeCorrect` | `Spec => []TypeOK`: types, and no overdraft | |
| `PayRouteProofs!OwnLocksOnly` | `Spec => LocksOfOthersKept` | |
| `PayRouteProofs!Reconciled` | `Spec => []BalanceMatchesLedger`, with disputes | `IsFiniteSet(Payment)` |
| `PayRouteProofs!FalseAlarms` | `Spec => []FalseAlarmsOnly`, with disputes | the same |
| `SettlementProofs!Settled` | `Spec => []LedgerMatchesStatus` | `Ops \subseteq SettlingOps` |
| `SettlementProofs!Strict` | `Spec => StrictTransitions` | the same |
| `SettlementProofs!Custody` | `Spec => CustodyKept`, the refinement | the same |
| `SettlementProofs!Conserved` | `Spec => []MoneyConserved` | the same |
| `SettlementProofs!Trail` | `Spec => []HistoryIsPath` | the same |
| `DisputeProofs!Limits` | `Spec => []DailyLimitKept`, with disputes | |
| `DisputeProofs!OneCreditPerEvent` | `Spec => []CreditHasEvent`, with disputes | `"completed" \in WebhookStatus`, `~ CleansUp` |
| `DisputeProofs!OnlyDisputesOverwrite` | `Spec => Atomic!AtomicSpec`, a refinement, with disputes | |
| `IdempotencyProofs!Exclusion` | `Spec => []OneAtWork` | |
| `IdempotencyProofs!OnePayment` | `Spec => []OnePaymentPerKey` | |
| `CheckoutProofs!CheckoutImplementsIdempotency` | `CheckoutSpec => Spec`, a refinement | |
| `CheckoutProofs!Receipt` | `CheckoutSpec => []ReceiptFits` | |
| `CheckoutProofs!OneCharge` | `CheckoutSpec => []OneChargePerForm` | |
| `RowLocksProofs!Stand` | `RowLocksSpec => []DecisionsStand` | |
| `RowLocksProofs!Atomicity` | `RowLocksSpec => DecidesAtOnce`, a refinement | |
| `RowLocksProofs!Deadlocks` | `RowLocksSpec => []UniformDeadlocks` | |
| `RowLocksProofs!NoneStuck` | `RowLocksSpec => []NobodyStuck` | `IsFiniteSet(Session)` |
| `ListViewProofs!Page` | `ListViewSpec => []PageIsCoherent` | |

They hold for all sets of accounts, payments, requests, deliveries,
references, calls, keys, orders and sessions, all amounts and limits, and any number of
faults. The assumption on `Ops` is no technicality: with disputes TLC refutes `Strict`
and `Conserved`. Nor is `~ CleansUp`: a deleted event no longer counts. That `Reconciled` and `FalseAlarms` are
about finitely many payments only says that a sum over all of them exists; a run of the
service makes no others. `NoneStuck` is about finitely many sessions: the connections of a pool are
finite, and an endless line of waiting sessions would have no head.

*Types.* `TypeOK` is inductive once it says that a job that is waiting or active
has an attempt left (`LiveJob`) and that a request or delivery at work is about
a payment or a reference. One lemma per action, grouped by component; the parts a
step leaves alone are dealt with once (`QueueOnly`, `ApiOnly`, `HookOnly`). That
a chargeback keeps balances in `Nat` rests on the guard of its UPDATE.

*Sums.* A balance is compared with a sum over payments, `SumFunctionOnSet`, which the
community modules define by recursion over a finite set. Its lemmas cannot be had from an
induction theorem, so `LedgerProofs` argues by a smallest set for which there
is no sum (`Smallest`, `SumsExist`): take one element out, and the sum of the rest gives one
for the whole. `SumEquation` then says what the recursion computes, and everything later uses
only its consequences: a sum less one of its terms (`SumWithout`), equal terms
(`SumOfSame`), a part of non-negative terms (`SumOfSubset`), one term that changes
(`SumChanges`).

*Balances.* `BalanceMatchesLedger` beside `TypeOK` is inductive. Each of the four ledger
operations changes the row counts of one payment and the balances of its accounts by the same
amount (`DebitBooked`, `CreditBooked`, `ChargebackBooked`, `CompensateBooked`, all from `RowsBooked`);
`NextBooks` says that a step of the system performs one of them or leaves both tables alone.

*Limits.* `LimitInv` adds to the types that finitely many payments exist (`Made`). A step moves
one payment or creates one (`StatusNext`). A move takes payments out of `Undisputed`, never into
it: to count again a payment must come from `disputed`, and its audit row then says so
(`MoveWithin`). A creation adds one payment to a subset of those its check has counted
(`CreateWithin`). That check and the INSERT are one step because the sender's row is locked.

*Money.* `IInv == TypeOK /\ LedgerMatchesStatus` is inductive: the status alone
determines the rows (`ExpectedRows`), so a handler that checks the status under
the row lock knows the rows it will find. `LedgerProofs` says what each operation
makes of them, from shape to shape (`Untouched`, `Frozen`, `Paid`, `Released`,
`Charged`). `NextMoney` says that each step of the system is one of five moves of
a payment's money or none; all four theorems of `SettlementProofs` follow from it.

*Keys.* `OnePaymentPerKey` is not inductive: it needs that the holder of a key has
its token in the lock (`Exclusive`), that a request past the row lookup found no
payment (`InOrder`), and that a payment that was made is in the row or is being
written there by the request that made it (`Remembered`). Their conjunction `IInv`
is kept by every step: `Narrowing` says that a request after `acquire` changes
itself only and gains no key, `Alone` that two holders of a key are one.

*Trail.* `HistoryIsPath` is inductive beside `TypeOK`: without disputes a step that
moves a payment appends the very transition it makes (`Audited`), and a path that grows by
its next transition is a path (`PathGrows`).

*Credits.* A cardinality is counted step by step: `EInv` says that the credits of a payment
are as many as its processed events (`Counted`), that whatever reference turns up was issued,
for that payment (`Traced`), and that the one delivery that may still credit is the one that
logged the event (`LoggedOnce`). So the credit and the event become one more at once, and
nothing else touches either.

*The form.* `Sound` adds to the types and to the keys' own invariant that the interceptor
works on a key for a call that came with it (`Served`), that whatever is stored or told of a
payment was made under that key (`Told`), and that every charge is a payment that was made
(`Charged`). The refinement needs only the keys' types of it, the promises all of it. Two facts about keys
come on top. `Orders`: under one key one order is sent, because a key that was used is
only used again by a second click, and the inputs cannot change before that. `Visits`: a
visit without trouble spends one key, because only a failed call draws another one within it.

*Transitions.* `OnlyDisputesOverwrite` is what is left of `Strict` with disputes: a request that
is about to dispute or to reject found its payment in a status that allows it (`Right`), and no
other step writes without looking. `NextDecides` has one case per kind of step; `WriteShows` says
that each write adds its audit row. It has no run: `SettlementProofs!Strict` and the refinement
in `rowlocks` are the instances TLC checks.

*Row locks.* `RowLocksInv` says that no two sessions hold conflicting locks on a row
(`Compatible`), and that what a session decided on under its lock is so (`DecisionsStand`): a
commit would need a lock that the decider excludes. `Atomicity` follows: the status a commit
replaces is the one that was found valid (`CommitDecides`), a creation finds none (`Existing`), and
what a dispute may write is what its begin was granted (`BeginGrants`). `Deadlocks` needs no induction on the
circle: who is in a circle has its first lock and lacks its last (`Midway`), so it waits for a
share or an update of an account, and only a creation or a session that moves money back
stands in the way of that; a creation waits for creations alone (`WaitedFor`). Who else
writes to the ledger has, until its last lock, no more of an account than a share, which is
in nobody's way there: that rests on what a session may have read to write (`Planned`), and
on a payment having debits of its recipient only once it is no longer processed (`Tables`). A circle in which both occurred
would therefore have a part that waits for no one outside.

*Waiting.* `NobodyStuck`: among open sessions that wait for nobody outside, one may go on, commit,
be refused or be found by the deadlock detector. In a finite set there is a smallest part that
waits for nobody outside (`SmallestClosed`). If one of its sessions waits for nobody, that one goes
on; otherwise whoever can be reached from a session is again such a part, hence all of it,
which is a circle. `mayGoOn` states what `goesOn` needs of the state;
that the two agree would take `ENABLED` and is not proved. `TransactionsEnd`, which TLC checks, is the
liveness that rests on it.

*Pages.* `PageInv` follows an answer from the table to the screen: the last audit row of a payment
is of its status (`Audited`), rows are only added (`RowsAdded`), so the status that was read has
its row among those read later (`Fetched`). It is this order of the two reads that matters.

*Model-checked only.* Every invariant and action property the passing runs check is a theorem
above; what stays with TLC is liveness, `SubmissionProgress`, `TransactionsEnd`, `SettledIsShown` and
`StatsConverge`: liveness under fairness is out of the prover's reach. The refuted properties
need no proof: each has its trace.

## 5. Not modelled

* Event handlers, audit log, health, filters, logging, bootstrap, throttling: they keep no
  state that another part reads, or only refuse requests.
* FX: the rate is a constant of the simulator, and a quote is made, checked and used within the
  transaction of `createPayment`; an expired one is an abort. The model has the amounts that
  result, 0 included.
* In the frontend: account search, FX preview, and the buttons for refunds and disputes,
  whose requests `PayRoute` makes at any time.
* Redis locks in `RowLocks`, whose TTL may have run out; statements on rows nobody else sees.
* A stalled job whose old worker is still alive.

Time: TTLs, the thirty minutes, the day and the ninety days may pass at any moment. Amounts are
integers; the NUMERIC(20,8) columns never round a stored amount.

## 6. Plan

1. Done: ledger, state machine, API, queue, webhooks, their composition, the abstract
   custody; types, settlement, trail and credits proved.
2. Done: idempotency keys, the form around them, its refinement and its promises, proved.
3. Done: row locks, with deadlocks, decisions and the refinement of one-step transitions
   proved. Done: reads, caches and polling, checked; the coherence of a page proved.
4. Done: both retention jobs.
5. Done: balances against ledger rows and the limits of a day, proved with lemmas on sums.
6. Done: `PayRoute` implements `AtomicTransitions`; whoever waits for a row lock is behind
   a session that can go on, or in a circle that is found.
7. Left: credits per event for instances that delete events; the promises of `FundsCustody`
   that survive a dispute.
