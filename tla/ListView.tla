----------------------------- MODULE ListView -----------------------------
(***************************************************************************)
(* What the browser shows: GET /payments and GET /payments/stats behind    *)
(* their caches in Redis, GET /payments/:id without one, the writes that   *)
(* invalidate the caches, and a browser that polls.                        *)
(*                                                                         *)
(* Each query has a cache key and a poll of its own, and queries share     *)
(* nothing but the tables they read, so a behaviour follows one of them:   *)
(* "stats", a list with a filter, or the page of a payment.  The answer of *)
(* a list maps its payments to their statuses.  The endpoint's look at the *)
(* cache, each of its queries and the arrival of its answer are steps of   *)
(* their own, and so is its write of the cache, which nobody waits for.    *)
(***************************************************************************)
EXTENDS Faults, StatusTable, Sequences, FiniteSets

CONSTANTS
  Payment, Writer, None,
  Query,           \* "stats", "all", statuses lists are filtered by, payments
  MaxChanges       \* bound on the changes to payments

\* What is asked of all payments.
Overview == TransactionStatus \cup {"all", "stats"}

ASSUME ListViewAssumption ==
  /\ Query \subseteq Overview \cup Payment
  /\ Overview \cap Payment = {}
  /\ MaxChanges \in Nat

VARIABLES
  status, trail,   \* the payments and their audit rows
  stuck,           \* those 30 minutes old without a reference
  changes,
  owed,            \* owed[w]: writer w has committed and not yet invalidated
  query,           \* the one that is followed
  cache, landing,  \* its answer in Redis, and those on their way there
  fetch,           \* how far the browser's request got, and what it brings
  shown,           \* the browser's copy
  open             \* whether it is on the screen

dbVars == <<status, trail, stuck, changes>>
redisVars == <<cache, landing>>
browserVars == <<fetch, shown, open>>
viewVars == <<dbVars, owed, query, redisVars, browserVars, faults>>

NoFetch == [pc |-> "idle", answer |-> None]

ListViewInit ==
  /\ status \in [Payment -> {"none", "processing"}]
  /\ trail = [p \in Payment |-> <<status[p]>>]
  /\ stuck = {} /\ changes = 0
  /\ owed = [w \in Writer |-> FALSE]
  /\ query \in Query
  /\ cache = None /\ landing = {}
  /\ fetch = NoFetch /\ shown = None
  /\ open = TRUE
  /\ faults = 0

---------------------------------------------------------------------------
(* The writers.                                                            *)

change == changes < MaxChanges /\ changes' = changes + 1

moveTo(p, s) ==
  /\ change
  /\ status' = [status EXCEPT ![p] = s]
  /\ trail' = [trail EXCEPT ![p] = Append(@, s)]
  /\ stuck' = stuck \ {p}

\* An endpoint or a callback commits, and owes the invalidation.
commit(w, p, s) ==
  /\ ~ owed[w]
  /\ \/ status[p] = "none" /\ s = "processing"
     \/ validateTransition(status[p], s)
  /\ moveTo(p, s)
  /\ owed' = [owed EXCEPT ![w] = TRUE]
  /\ UNCHANGED <<query, redisVars, browserVars, faults>>

\* The dead-letter handler commits and invalidates nothing.
deadLetter(p) ==
  /\ status[p] = "processing"
  /\ moveTo(p, "failed")
  /\ UNCHANGED <<owed, query, redisVars, browserVars, faults>>

\* A payment is half an hour old, or the sweep's job brings it a reference.
growStuck(p) ==
  /\ status[p] = "processing"
  /\ change
  /\ stuck' = IF p \in stuck THEN stuck \ {p} ELSE stuck \cup {p}
  /\ UNCHANGED <<status, trail, owed, query, redisVars, browserVars, faults>>

\* DEL of the statistics, and SCAN with DEL of the lists.
invalidatePaymentCaches(w) ==
  /\ owed[w]
  /\ cache' = None
  /\ owed' = [owed EXCEPT ![w] = FALSE]
  /\ UNCHANGED <<dbVars, query, landing, browserVars, faults>>

\* Logged, and not tried again.
invalidationFails(w) ==
  /\ Fault
  /\ owed[w]
  /\ owed' = [owed EXCEPT ![w] = FALSE]
  /\ UNCHANGED <<dbVars, query, redisVars, browserVars>>

---------------------------------------------------------------------------
(* The endpoints.                                                          *)

counts == [s \in TransactionStatus |-> Cardinality({p \in Payment : status[p] = s})]

rows ==
  [p \in {q \in Payment : status[q] # "none" /\ query \in {"all", status[q]}} |->
     status[p]]

\* The statistics have not been read yet.
NoStats == [counts |-> None, stuck |-> None]

setFetch(pc, answer) == fetch' = [pc |-> pc, answer |-> answer]

respond(answer) ==
  /\ setFetch("answered", answer)
  /\ landing' = landing \cup {answer}

lookup ==
  /\ query \notin Payment
  /\ fetch.pc = "asked"
  /\ IF cache # None
     THEN setFetch("answered", cache)
     ELSE setFetch("missed", IF query = "stats" THEN NoStats ELSE None)
  /\ UNCHANGED <<dbVars, owed, query, redisVars, shown, open, faults>>

findAll ==
  /\ query \notin Payment \cup {"stats"}
  /\ fetch.pc = "missed"
  /\ respond(rows)
  /\ UNCHANGED <<dbVars, owed, query, cache, shown, open, faults>>

\* Two queries that run at the same time.
getStats ==
  /\ query = "stats"
  /\ fetch.pc = "missed"
  /\ \E part \in {"counts", "stuck"} :
       LET found == IF part = "counts" THEN counts ELSE Cardinality(stuck)
           read == [fetch.answer EXCEPT ![part] = found] IN
         /\ fetch.answer[part] = None
         /\ IF None \in {read.counts, read.stuck}
            THEN setFetch("missed", read) /\ UNCHANGED landing
            ELSE respond(read)
  /\ UNCHANGED <<dbVars, owed, query, cache, shown, open, faults>>

\* Mutant: the audit rows are read before the payment.
trailFirst ==
  /\ query \in Payment
  /\ \/ /\ fetch.pc = "asked"
        /\ setFetch("missed", [status |-> None, trail |-> trail[query]])
     \/ /\ fetch.pc = "missed"
        /\ setFetch("answered", [fetch.answer EXCEPT !.status = status[query]])
  /\ UNCHANGED <<dbVars, owed, query, redisVars, shown, open, faults>>

\* The payment, then its audit rows, outside any transaction.  The ledger rows,
\* which are read in between, are left out: no property depends on them.
findById ==
  /\ query \in Payment
  /\ \/ /\ fetch.pc = "asked"
        /\ setFetch("missed", [status |-> status[query], trail |-> None])
     \/ /\ fetch.pc = "missed"
        /\ setFetch("answered", [fetch.answer EXCEPT !.trail = trail[query]])
  /\ UNCHANGED <<dbVars, owed, query, redisVars, shown, open, faults>>

setObject(answer) ==
  /\ cache' = answer
  /\ landing' = landing \ {answer}
  /\ UNCHANGED <<dbVars, owed, query, browserVars, faults>>

setFails(answer) ==
  /\ Fault
  /\ landing' = landing \ {answer}
  /\ UNCHANGED <<dbVars, owed, query, cache, browserVars>>

\* Mutant: SET without PX.
neverExpires == FALSE /\ UNCHANGED viewVars

\* Ten seconds for a list and thirty for the statistics, from the write on.
expire ==
  /\ cache # None
  /\ cache' = None
  /\ UNCHANGED <<dbVars, owed, query, landing, browserVars, faults>>

---------------------------------------------------------------------------
(* The browser.                                                            *)

\* The payments on a list, or the one on its page, and their statuses.
onScreen ==
  CASE query = "stats" \/ shown = None -> {}
    [] query \in Payment /\ shown # None -> {<<query, shown.status>>}
    [] OTHER -> {<<p, shown[p]>> : p \in DOMAIN shown}

processing == {row \in onScreen : row[2] = "processing"}

\* Mutant: a list is polled as long as nothing on it is settled.
pollUnsettled ==
  query = "stats" \/ shown = None \/ processing = onScreen

\* The first time, every thirty seconds for the statistics, and every ten for a
\* list or page that shows a payment being processed.
refetchInterval ==
  query = "stats" \/ shown = None \/ processing # {}

\* Any time the user comes back to the page, and by the interval.
refetch ==
  /\ open
  /\ query \in Payment => status[query] # "none"
  /\ fetch.pc = "idle"
  /\ setFetch("asked", None)
  /\ UNCHANGED <<dbVars, owed, query, redisVars, shown, open, faults>>

arrive ==
  /\ fetch.pc = "answered"
  /\ shown' = fetch.answer
  /\ fetch' = NoFetch
  /\ UNCHANGED <<dbVars, owed, query, redisVars, open, faults>>

\* The one retry failed as well: the browser keeps its copy.
fetchFails ==
  /\ Fault
  /\ fetch.pc # "idle"
  /\ fetch' = NoFetch
  /\ UNCHANGED <<dbVars, owed, query, redisVars, shown, open>>

\* Another page, another filter, and back; the copy is kept meanwhile.
navigate ==
  /\ open' = ~ open
  /\ UNCHANGED <<dbVars, owed, query, redisVars, fetch, shown, faults>>

---------------------------------------------------------------------------
ListViewNext ==
  \/ \E w \in Writer, p \in Payment, s \in TransactionStatus : commit(w, p, s)
  \/ \E p \in Payment : deadLetter(p)
  \/ \E p \in Payment : growStuck(p)
  \/ \E w \in Writer : invalidatePaymentCaches(w)
  \/ \E w \in Writer : invalidationFails(w)
  \/ lookup
  \/ findAll
  \/ findById
  \/ getStats
  \/ \E answer \in landing : setObject(answer)
  \/ \E answer \in landing : setFails(answer)
  \/ expire
  \/ refetch
  \/ arrive
  \/ fetchFails
  \/ navigate

\* Requests are served, answers arrive, keys expire, and a page that stays open
\* is polled.
ListViewFairness ==
  /\ WF_viewVars(refetchInterval /\ refetch)
  /\ WF_viewVars(lookup \/ findAll \/ findById \/ getStats \/ arrive)
  /\ WF_viewVars(\E answer \in landing : setObject(answer))
  /\ WF_viewVars(expire)

ListViewSpec == ListViewInit /\ [][ListViewNext]_viewVars /\ ListViewFairness

---------------------------------------------------------------------------
(* Properties.                                                             *)

\* A payment on the screen as being processed is not left so after it was
\* settled: stale lists in Redis run out, and the list is polled until then.
SettledIsShown ==
  \A p \in Payment :
    LET shownProcessing == <<p, "processing">> \in onScreen IN
      shownProcessing /\ status[p] # "processing" ~> ~ open \/ ~ shownProcessing

\* Once the payments change no more, the figures on a dashboard that is left
\* open become right and stay so, whatever was invalidated too early, or not at
\* all.
StatsConverge ==
  <>[](open /\ query = "stats") =>
    <>[](shown = [counts |-> counts, stuck |-> Cardinality(stuck)])

\* The page of a payment never shows a status without its audit row, although
\* the two are read one after the other while the payment changes.
PageIsCoherent ==
  query \in Payment /\ shown # None =>
    \E i \in DOMAIN shown.trail : shown.trail[i] = shown.status
=============================================================================
