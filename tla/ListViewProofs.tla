--------------------------- MODULE ListViewProofs ---------------------------
(***************************************************************************)
(* The page of a payment, for any payments, writers and number of changes: *)
(* no status is shown without its audit row.                               *)
(***************************************************************************)
EXTENDS ListView, TLAPS

\* The last audit row is of the status the payment has.
Audited ==
  /\ status \in [Payment -> State]
  /\ trail \in [Payment -> Seq(State)]
  /\ \A p \in Payment : trail[p] # <<>> /\ trail[p][Len(trail[p])] = status[p]

Coherent(page) == \E i \in DOMAIN page.trail : page.trail[i] = page.status

\* What was read of the payment has its row in the table, or with it.
Fetched ==
  query \in Payment =>
    /\ fetch.pc = "missed" =>
         \E s \in State : /\ fetch.answer = [status |-> s, trail |-> None]
                          /\ \E i \in DOMAIN trail[query] : trail[query][i] = s
    /\ fetch.pc = "answered" => Coherent(fetch.answer)

PageInv == Audited /\ Fetched /\ PageIsCoherent

---------------------------------------------------------------------------
(* The writers.                                                            *)

\* Audit rows are added, never changed or deleted.
LEMMA RowsAdded ==
  ASSUME Audited, NEW p \in Payment, NEW s \in State, moveTo(p, s)
  PROVE  /\ Audited'
         /\ \A q \in Payment : \A i \in DOMAIN trail[q] :
              i \in DOMAIN trail'[q] /\ trail'[q][i] = trail[q][i]
  <1>1. /\ status' = [status EXCEPT ![p] = s]
        /\ trail' = [trail EXCEPT ![p] = Append(@, s)]
    BY DEF moveTo
  <1>2. trail[p] \in Seq(State) /\ Append(trail[p], s) \in Seq(State)
    BY DEF Audited
  <1>3. /\ Len(Append(trail[p], s)) = Len(trail[p]) + 1
        /\ Append(trail[p], s)[Len(trail[p]) + 1] = s
        /\ \A i \in DOMAIN trail[p] :
             i \in DOMAIN Append(trail[p], s) /\ Append(trail[p], s)[i] = trail[p][i]
    BY <1>2
  <1>4. trail'[p] = Append(trail[p], s) /\ status'[p] = s
    BY <1>1 DEF Audited
  <1>5. \A q \in Payment \ {p} : trail'[q] = trail[q] /\ status'[q] = status[q]
    BY <1>1 DEF Audited
  <1>6. Append(trail[p], s) # <<>>
    BY <1>2, <1>3
  <1>7. Audited'
    <2>1. status' \in [Payment -> State] /\ trail' \in [Payment -> Seq(State)]
      BY <1>1, <1>2 DEF Audited
    <2>2. \A q \in Payment : trail'[q] # <<>> /\ trail'[q][Len(trail'[q])] = status'[q]
      BY <1>3, <1>4, <1>5, <1>6 DEF Audited
    <2> QED BY <2>1, <2>2 DEF Audited
  <1> QED BY <1>3, <1>4, <1>5, <1>7

\* What the browser was told stays so while payments change.
LEMMA WritersKeep ==
  ASSUME PageInv, NEW p \in Payment, NEW s \in State, moveTo(p, s),
         UNCHANGED <<query, fetch, shown>>
  PROVE  PageInv'
  <1>1. /\ Audited'
        /\ \A q \in Payment : \A i \in DOMAIN trail[q] :
             i \in DOMAIN trail'[q] /\ trail'[q][i] = trail[q][i]
    BY RowsAdded DEF PageInv
  <1>2. Fetched'
    BY <1>1 DEF PageInv, Fetched, Coherent
  <1> QED BY <1>1, <1>2 DEF PageInv, PageIsCoherent

---------------------------------------------------------------------------
(* The endpoint and the browser.                                           *)

\* The answer's status was read before its rows.
LEMMA ReadsKeep == PageInv /\ findById => PageInv'
  <1> SUFFICES ASSUME PageInv, findById PROVE PageInv'
    OBVIOUS
  <1>1. /\ query \in Payment
        /\ UNCHANGED <<status, trail, query, shown>>
        /\ status[query] \in State
    BY DEF findById, dbVars, PageInv, Audited
  <1>2. CASE /\ fetch.pc = "asked"
             /\ setFetch("missed", [status |-> status[query], trail |-> None])
    <2>1. /\ fetch'.pc = "missed"
          /\ fetch'.answer = [status |-> status[query], trail |-> None]
      BY <1>2 DEF setFetch
    <2>2. /\ trail[query] \in Seq(State) /\ trail[query] # <<>>
          /\ trail[query][Len(trail[query])] = status[query]
      BY <1>1 DEF PageInv, Audited
    <2>3. Len(trail[query]) \in DOMAIN trail[query]
      BY <2>2
    <2>4. Fetched'
      BY <1>1, <2>1, <2>2, <2>3 DEF Fetched
    <2> QED BY <1>1, <2>4 DEF PageInv, Audited, PageIsCoherent
  <1>3. CASE /\ fetch.pc = "missed"
             /\ setFetch("answered", [fetch.answer EXCEPT !.trail = trail[query]])
    <2>1. PICK s \in State : /\ fetch.answer = [status |-> s, trail |-> None]
                             /\ \E i \in DOMAIN trail[query] : trail[query][i] = s
      BY <1>1, <1>3 DEF PageInv, Fetched
    <2>2. fetch'.pc = "answered" /\ fetch'.answer = [status |-> s, trail |-> trail[query]]
      BY <1>3, <2>1 DEF setFetch
    <2>3. Fetched'
      BY <2>1, <2>2 DEF Fetched, Coherent
    <2> QED BY <1>1, <2>3 DEF PageInv, Audited, PageIsCoherent
  <1> QED BY <1>2, <1>3 DEF findById

\* The page shown is the answer, or the one shown before.
LEMMA BrowserKeeps ==
  ASSUME PageInv, UNCHANGED <<status, trail, query>>,
         \/ UNCHANGED fetch
         \/ fetch' = NoFetch
         \/ fetch'.pc = "asked",
         shown' = shown \/ (fetch.pc = "answered" /\ shown' = fetch.answer)
  PROVE  PageInv'
  <1>1. Audited'
    BY DEF PageInv, Audited
  <1>2. Fetched'
    <2>1. CASE UNCHANGED fetch
      BY <2>1 DEF PageInv, Fetched, Coherent
    <2>2. CASE fetch' = NoFetch \/ fetch'.pc = "asked"
      <3>1. fetch'.pc \in {"idle", "asked"}
        BY <2>2 DEF NoFetch
      <3> QED BY <3>1 DEF Fetched
    <2> QED BY <2>1, <2>2
  <1>3. PageIsCoherent'
    <2> SUFFICES ASSUME query \in Payment, shown' # None PROVE Coherent(shown')
      BY DEF PageIsCoherent, Coherent
    <2>1. CASE shown' = shown
      BY <2>1 DEF PageInv, PageIsCoherent, Coherent
    <2>2. CASE fetch.pc = "answered" /\ shown' = fetch.answer
      BY <2>2 DEF PageInv, Fetched
    <2> QED BY <2>1, <2>2
  <1> QED BY <1>1, <1>2, <1>3 DEF PageInv

---------------------------------------------------------------------------
LEMMA PageStart == ListViewInit => PageInv
  <1> SUFFICES ASSUME ListViewInit PROVE PageInv
    OBVIOUS
  <1>1. status \in [Payment -> State] /\ trail = [p \in Payment |-> <<status[p]>>]
    BY DEF ListViewInit, State, TransactionStatus
  <1>2. \A s \in State : <<s>> \in Seq(State) /\ <<s>> # <<>> /\ <<s>>[Len(<<s>>)] = s
    OBVIOUS
  <1>3. Audited
    BY <1>1, <1>2 DEF Audited
  <1> QED BY <1>3 DEF ListViewInit, PageInv, Fetched, PageIsCoherent, NoFetch

LEMMA PageSteps == PageInv /\ [ListViewNext]_viewVars => PageInv'
  <1> SUFFICES ASSUME PageInv, [ListViewNext]_viewVars PROVE PageInv'
    OBVIOUS
  <1>1. ASSUME NEW w \in Writer, NEW p \in Payment, NEW s \in TransactionStatus,
               commit(w, p, s)
        PROVE  PageInv'
    BY <1>1, WritersKeep DEF commit, browserVars, State
  <1>2. ASSUME NEW p \in Payment, deadLetter(p)
        PROVE  PageInv'
    BY <1>2, WritersKeep DEF deadLetter, browserVars, State, TransactionStatus
  \* A list and the statistics are none of the page's business.
  <1>3. CASE lookup \/ findAll \/ getStats
    <2>1. query \notin Payment /\ UNCHANGED <<status, trail, query>>
      BY <1>3, ListViewAssumption DEF lookup, findAll, getStats, dbVars, Overview
    <2> QED BY <2>1 DEF PageInv, Audited, Fetched, PageIsCoherent
  <1>4. CASE findById
    BY <1>4, ReadsKeep
  <1>5. CASE refetch \/ arrive \/ fetchFails \/ navigate
    BY <1>5, BrowserKeeps
       DEF refetch, arrive, fetchFails, navigate, setFetch, dbVars
  <1>6. CASE \/ \E p \in Payment : growStuck(p)
             \/ \E w \in Writer : invalidatePaymentCaches(w) \/ invalidationFails(w)
             \/ \E answer \in landing : setObject(answer) \/ setFails(answer)
             \/ expire
             \/ UNCHANGED viewVars
    <2>1. UNCHANGED <<status, trail, query, fetch, shown>>
      BY <1>6 DEF growStuck, invalidatePaymentCaches, invalidationFails, setObject,
                  setFails, expire, viewVars, dbVars, browserVars
    <2> QED BY <2>1, BrowserKeeps
  <1> QED BY <1>1, <1>2, <1>3, <1>4, <1>5, <1>6 DEF ListViewNext

\* The page of a payment never shows a status without its audit row, whatever
\* happens to the payment between the two reads.
THEOREM Page == ListViewSpec => []PageIsCoherent
  <1>1. PageInv => PageIsCoherent
    BY DEF PageInv
  <1> QED BY <1>1, PageStart, PageSteps, PTL DEF ListViewSpec
=============================================================================
