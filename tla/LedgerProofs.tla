---------------------------- MODULE LedgerProofs ----------------------------
(***************************************************************************)
(* What LedgerService's operations preserve and write, one lemma each, and *)
(* sums over payments, against which their balances are compared.          *)
(***************************************************************************)
EXTENDS Ledger, FiniteSetTheorems, TLAPS

RowCounts == [Side -> [Kind -> Nat]]

\* Nonlinear arithmetic, kept out of the proofs that use it.
LEMMA NatTimesNat == \A m, n \in Nat : m * n \in Nat
  BY Z3

\* Writing one count keeps the table's type.
LEMMA SetCount ==
  ASSUME NEW L \in [Payment -> RowCounts], NEW p \in Payment,
         NEW side \in Side, NEW kind \in Kind, NEW n \in Nat
  PROVE  [L EXCEPT ![p][side][kind] = n] \in [Payment -> RowCounts]
  <1>1. [L[p][side] EXCEPT ![kind] = n] \in [Kind -> Nat]
    BY DEF RowCounts
  <1>2. [L[p] EXCEPT ![side] = [L[p][side] EXCEPT ![kind] = n]] \in RowCounts
    BY <1>1 DEF RowCounts
  <1> QED BY <1>2

LEMMA CountIsNat ==
  ASSUME LedgerTypeOK, NEW p \in Payment, NEW side \in Side, NEW kind \in Kind
  PROVE  ledger[p][side][kind] \in Nat
  BY DEF LedgerTypeOK

LEMMA RowTypes == 
  ASSUME NEW p \in Payment, NEW side \in Side
  PROVE  AccountOf(p, side) \in Account /\ AmountOf(p, side) \in Nat
  BY LedgerAssumption DEF AccountOf, AmountOf

---------------------------------------------------------------------------
(* The operations keep the types of both tables: no balance gets negative. *)

LEMMA DebitType ==
  ASSUME LedgerTypeOK, NEW p \in Payment, NEW side \in Side, debit(p, side)
  PROVE  LedgerTypeOK'
  <1>1. balance' \in [Account -> Nat]
    BY RowTypes DEF LedgerTypeOK, debit
  <1>2. ledger \in [Payment -> RowCounts] /\ ledger[p][side]["debit"] + 1 \in Nat
    BY CountIsNat DEF LedgerTypeOK, RowCounts, Kind
  <1>3. ledger' \in [Payment -> RowCounts]
    BY <1>2, SetCount DEF debit, Kind
  <1> QED BY <1>1, <1>3 DEF LedgerTypeOK, RowCounts

LEMMA CreditType ==
  ASSUME LedgerTypeOK, NEW p \in Payment, NEW side \in Side, credit(p, side)
  PROVE  LedgerTypeOK'
  <1>1. balance' \in [Account -> Nat]
    BY RowTypes DEF LedgerTypeOK, credit
  <1>2. ledger \in [Payment -> RowCounts] /\ ledger[p][side]["credit"] + 1 \in Nat
    BY CountIsNat DEF LedgerTypeOK, RowCounts, Kind
  <1>3. ledger' \in [Payment -> RowCounts]
    BY <1>2, SetCount DEF credit, Kind
  <1> QED BY <1>1, <1>3 DEF LedgerTypeOK, RowCounts

LEMMA ChargebackType ==
  ASSUME LedgerTypeOK, NEW p \in Payment, chargeback(p)
  PROVE  LedgerTypeOK'
  <1>1. balance' \in [Account -> Nat]
    <2> DEFINE s == sourceAmount[p]
               d == destinationAmount[p]
               B == [balance EXCEPT ![recipient[p]] = @ - d]
    <2>1. sender[p] \in Account /\ recipient[p] \in Account /\ s \in Nat /\ d \in Nat
      BY LedgerAssumption
    <2>2. balance[recipient[p]] \in Nat /\ balance[recipient[p]] >= d
      BY <2>1 DEF LedgerTypeOK, chargeback
    <2>3. balance[recipient[p]] - d \in Nat
      <3> HIDE DEF d
      <3> QED BY <2>1, <2>2
    <2>4. B \in [Account -> Nat]
      BY <2>1, <2>3 DEF LedgerTypeOK
    <2>5. balance' = [B EXCEPT ![sender[p]] = @ + s]
      BY <2>1, LedgerAssumption DEF LedgerTypeOK, chargeback
    <2> HIDE DEF B, s, d
    <2> QED BY <2>1, <2>4, <2>5
  <1> DEFINE d == ledger[p]["recipient"]["debit"] + 1
             c == ledger[p]["sender"]["credit"] + 1
             L == [ledger EXCEPT ![p]["recipient"]["debit"] = d]
  <1>2. ledger \in [Payment -> RowCounts] /\ d \in Nat /\ c \in Nat
    BY CountIsNat DEF LedgerTypeOK, RowCounts, Kind, Side
  <1>3. L \in [Payment -> RowCounts]
    BY <1>2, SetCount DEF Kind, Side
  <1>4. [L EXCEPT ![p]["sender"]["credit"] = c] \in [Payment -> RowCounts]
    BY <1>2, <1>3, SetCount DEF Kind, Side
  <1>5. ledger' = [L EXCEPT ![p]["sender"]["credit"] = c]
    BY <1>2 DEF chargeback, RowCounts, Side, Kind
  <1> QED BY <1>1, <1>4, <1>5 DEF LedgerTypeOK, RowCounts

LEMMA CompensateType ==
  ASSUME LedgerTypeOK, NEW p \in Payment, createCompensatingEntries(p)
  PROVE  LedgerTypeOK'
  <1> DEFINE s == ledger[p]["sender"]["debit"]
             r == ledger[p]["recipient"]["debit"]
  <1>1. /\ s \in Nat /\ r \in Nat
        /\ s * sourceAmount[p] \in Nat /\ r * destinationAmount[p] \in Nat
    BY CountIsNat, NatTimesNat, LedgerAssumption DEF Side, Kind
  <1>2. balance' \in [Account -> Nat]
    <2> DEFINE x == s * sourceAmount[p]
               y == r * destinationAmount[p]
    <2>1. balance' = [balance EXCEPT ![sender[p]] = @ + x, ![recipient[p]] = @ + y]
      BY DEF createCompensatingEntries
    <2>2. x \in Nat /\ y \in Nat
      BY <1>1
    <2> HIDE DEF x, y
    <2> QED BY <2>1, <2>2, LedgerAssumption DEF LedgerTypeOK
  <1> DEFINE L == [ledger EXCEPT
                     ![p]["sender"]["reversal"] = @ + s]
  <1>3. L \in [Payment -> RowCounts]
    BY <1>1, SetCount, CountIsNat DEF LedgerTypeOK, RowCounts, Kind, Side
  <1>4. /\ ledger' = [L EXCEPT ![p]["recipient"]["reversal"] =
                                  ledger[p]["recipient"]["reversal"] + r]
        /\ ledger[p]["recipient"]["reversal"] + r \in Nat
    BY <1>1, CountIsNat
    DEF createCompensatingEntries, LedgerTypeOK, RowCounts, Kind, Side
  <1>5. ledger' \in [Payment -> RowCounts]
    BY <1>3, <1>4, SetCount DEF Kind, Side
  <1> QED BY <1>2, <1>5 DEF LedgerTypeOK, RowCounts

---------------------------------------------------------------------------
(* The operations change the rows of one payment, from shape to shape.     *)

LEMMA OthersKept ==
  ASSUME LedgerTypeOK, NEW p \in Payment,
         \/ \E side \in Side : debit(p, side) \/ credit(p, side)
         \/ chargeback(p)
         \/ createCompensatingEntries(p)
  PROVE  \A q \in Payment \ {p} : ledger'[q] = ledger[q]
  BY DEF LedgerTypeOK, debit, credit, chargeback, createCompensatingEntries

LEMMA DebitFreezes ==
  ASSUME LedgerTypeOK, NEW p \in Payment, ledger[p] = Untouched, debit(p, "sender")
  PROVE  ledger'[p] = Frozen
  <1>1. ledger'[p] = [ledger[p] EXCEPT !["sender"]["debit"] = @ + 1]
    BY DEF LedgerTypeOK, debit
  <1> QED BY <1>1 DEF Untouched, Frozen, NoRows, Rows

LEMMA CreditPays ==
  ASSUME LedgerTypeOK, NEW p \in Payment, ledger[p] = Frozen, credit(p, "recipient")
  PROVE  ledger'[p] = Paid
  <1>1. ledger'[p] = [ledger[p] EXCEPT !["recipient"]["credit"] = @ + 1]
    BY DEF LedgerTypeOK, credit
  <1> QED BY <1>1 DEF Frozen, Paid, NoRows, Rows

LEMMA CompensateReleases ==
  ASSUME LedgerTypeOK, NEW p \in Payment, ledger[p] = Frozen,
         createCompensatingEntries(p)
  PROVE  ledger'[p] = Released
  <1>1. /\ ledger[p]["sender"]["debit"] = 1 /\ ledger[p]["sender"]["reversal"] = 0
        /\ ledger[p]["recipient"]["debit"] = 0
        /\ ledger[p]["recipient"]["reversal"] = 0
    BY DEF Frozen, NoRows, Rows
  <1>2. ledger'[p] = [ledger[p] EXCEPT !["sender"]["reversal"] = 0 + 1,
                                       !["recipient"]["reversal"] = 0 + 0]
    BY <1>1 DEF LedgerTypeOK, createCompensatingEntries
  <1> QED BY <1>2 DEF Frozen, Released, NoRows, Rows

LEMMA ChargebackCharges ==
  ASSUME LedgerTypeOK, NEW p \in Payment, ledger[p] = Paid, chargeback(p)
  PROVE  ledger'[p] = Charged
  <1>1. ledger'[p] = [ledger[p] EXCEPT !["recipient"]["debit"] = @ + 1,
                                       !["sender"]["credit"] = @ + 1]
    BY DEF LedgerTypeOK, chargeback
  <1> QED BY <1>1 DEF Paid, Charged, NoRows, Rows

LEMMA ReversedShapes ==
  ASSUME NEW p \in Payment
  PROVE  /\ ledger[p] = Released => hasBeenReversed(p)
         /\ ledger[p] \in {Untouched, Frozen, Paid, Charged} => ~ hasBeenReversed(p)
  BY DEF hasBeenReversed, Side, Untouched, Frozen, Paid, Released, Charged, NoRows, Rows

---------------------------------------------------------------------------
(* Sums over finite sets.  The library's induction takes an operator as a  *)
(* parameter; a smallest counterexample does without.                      *)

\* A set of finite sets that is not empty has a smallest member.
LEMMA Smallest ==
  ASSUME NEW S, IsFiniteSet(S), NEW Bad, Bad \subseteq SUBSET S, Bad # {}
  PROVE  \E T \in Bad : \A U \in Bad : U \subseteq T => U = T
  <1> DEFINE R == StrictSubsetOrdering(S)
  <1>1. FiniteSubsetsOf(S) = SUBSET S
    BY FS_FiniteSubsetsOfFinite
  <1>2. IsWellFoundedOn(R, SUBSET S)
    BY <1>1, FS_StrictSubsetOrderingWellFounded
  <1>3. PICK T \in Bad : \A U \in Bad : ~ (<<U, T>> \in R)
    <2> HIDE DEF R
    <2> QED BY <1>2, WFMin
  <1>4. \A U \in Bad : U \subseteq T => U = T
    BY <1>3 DEF StrictSubsetOrdering
  <1> QED BY <1>4

\* The member a sum over a set begins with.
Pick(s) == CHOOSE x \in s : TRUE

\* The recursive function behind SumFunctionOnSet.
Adds(it, f, S) ==
  it = [s \in SUBSET S |->
          IF s = {} THEN 0 ELSE f[Pick(s)] + it[s \ {Pick(s)}]]

LEMMA Unfold ==
  ASSUME NEW f, NEW S
  PROVE  SumFunctionOnSet(f, S) = (CHOOSE it : Adds(it, f, S))[S]
  BY DEF SumFunctionOnSet, FoldFunctionOnSet, MapThenFoldSet, Adds, Pick

\* Two functions that add up agree where both are defined.
LEMMA SameSums ==
  ASSUME NEW f, NEW S, NEW T, NEW g, NEW h, Adds(g, f, S), Adds(h, f, T),
         IsFiniteSet(S), NEW s, s \subseteq S, s \subseteq T
  PROVE  g[s] = h[s]
  <1> DEFINE Bad == {t \in SUBSET s : g[t] # h[t]}
  <1>1. IsFiniteSet(s)
    BY FS_Subset
  <1>2. SUFFICES ASSUME Bad # {}
                 PROVE  FALSE
    OBVIOUS
  <1>3. PICK t \in Bad : \A u \in Bad : u \subseteq t => u = t
    <2>1. Bad \subseteq SUBSET s
      OBVIOUS
    <2> HIDE DEF Bad
    <2> QED BY <1>1, <1>2, <2>1, Smallest
  <1>4. /\ t \in SUBSET S /\ t \in SUBSET T
        /\ g[t] = IF t = {} THEN 0 ELSE f[Pick(t)] + g[t \ {Pick(t)}]
        /\ h[t] = IF t = {} THEN 0 ELSE f[Pick(t)] + h[t \ {Pick(t)}]
    BY DEF Adds
  <1>5. t # {} => Pick(t) \in t
    BY DEF Pick
  <1>6. t # {} /\ t \ {Pick(t)} \notin Bad
    BY <1>3, <1>4, <1>5
  <1> QED BY <1>4, <1>6

\* A finite set has such a function.
LEMMA SumsExist ==
  ASSUME NEW f, NEW S, IsFiniteSet(S)
  PROVE  \E it : Adds(it, f, S)
  <1> DEFINE Bad == {t \in SUBSET S : ~ \E it : Adds(it, f, t)}
  <1>1. SUFFICES ASSUME Bad # {}
                 PROVE  FALSE
    OBVIOUS
  <1>2. PICK T \in Bad : \A u \in Bad : u \subseteq T => u = T
    <2>1. Bad \subseteq SUBSET S
      OBVIOUS
    <2> HIDE DEF Bad
    <2> QED BY <1>1, <2>1, Smallest
  <1> DEFINE Of(u) == CHOOSE it : Adds(it, f, u)
             rest(u) == u \ {Pick(u)}
             g == [u \in SUBSET T |->
                     IF u = {} THEN 0 ELSE f[Pick(u)] + Of(rest(u))[rest(u)]]
  <1>3. \A u \in SUBSET T : u # T => Adds(Of(u), f, u)
    BY <1>2
  <1>4. \A u \in SUBSET T : u # {} => rest(u) \in SUBSET T /\ rest(u) # T /\ rest(u) # u
    BY DEF Pick
  <1>5. ASSUME NEW u \in SUBSET T, u # {}
        PROVE  Of(rest(u))[rest(u)] = g[rest(u)]
    <2> DEFINE v == rest(u)
               w == rest(v)
    <2>1. v \in SUBSET T /\ v # T
      BY <1>4, <1>5
    <2>2. Adds(Of(v), f, v)
      BY <1>3, <2>1
    <2>3. Of(v)[v] = IF v = {} THEN 0 ELSE f[Pick(v)] + Of(v)[w]
      <3> HIDE DEF Of
      <3> QED BY <2>2 DEF Adds
    <2>4. v # {} => Of(v)[w] = Of(w)[w]
      <3>1. SUFFICES ASSUME v # {} PROVE Of(v)[w] = Of(w)[w]
        OBVIOUS
      <3>2. w \in SUBSET T /\ w # T /\ w \subseteq v
        BY <1>4, <2>1, <3>1
      <3>3. Adds(Of(w), f, w)
        BY <1>3, <3>2
      <3>4. IsFiniteSet(v)
        BY <2>1, FS_Subset
      <3> HIDE DEF Of, v, w
      <3> QED BY <2>2, <3>2, <3>3, <3>4, SameSums
    <2>5. g[v] = IF v = {} THEN 0 ELSE f[Pick(v)] + Of(w)[w]
      <3> HIDE DEF Of
      <3> QED BY <2>1
    <2> HIDE DEF Of, g, rest
    <2> QED BY <2>3, <2>4, <2>5
  <1>6. Adds(g, f, T)
    <2>1. ASSUME NEW u \in SUBSET T
          PROVE  g[u] = IF u = {} THEN 0 ELSE f[Pick(u)] + g[rest(u)]
      <3>1. g[u] = IF u = {} THEN 0 ELSE f[Pick(u)] + Of(rest(u))[rest(u)]
        <4> HIDE DEF Of, rest
        <4> QED OBVIOUS
      <3> HIDE DEF Of, rest, g
      <3> QED BY <1>5, <3>1
    <2>2. g = [u \in SUBSET T |-> g[u]]
      OBVIOUS
    <2>3. g = [u \in SUBSET T |-> IF u = {} THEN 0 ELSE f[Pick(u)] + g[rest(u)]]
      <3> HIDE DEF Of, g, rest
      <3> QED BY <2>1, <2>2
    <2> HIDE DEF Of, g
    <2> QED BY <2>3 DEF Adds
  <1> QED
    <2> HIDE DEF g, Of
    <2> QED BY <1>2, <1>6

LEMMA SumEquation ==
  ASSUME NEW f, NEW S, IsFiniteSet(S)
  PROVE  SumFunctionOnSet(f, S) =
           IF S = {} THEN 0
           ELSE f[Pick(S)] + SumFunctionOnSet(f, S \ {Pick(S)})
  <1> DEFINE Of(u) == CHOOSE it : Adds(it, f, u)
             R == S \ {Pick(S)}
  <1>1. Adds(Of(S), f, S)
    BY SumsExist
  <1>2. Adds(Of(R), f, R) /\ R \subseteq S /\ IsFiniteSet(R)
    BY SumsExist, FS_Subset
  <1>3. Of(R)[R] = Of(S)[R]
    <2> HIDE DEF Of, R
    <2> QED BY <1>1, <1>2, SameSums
  <1>4. Of(S)[S] = IF S = {} THEN 0 ELSE f[Pick(S)] + Of(S)[R]
    <2> HIDE DEF Of
    <2> QED BY <1>1 DEF Adds
  <1>5. SumFunctionOnSet(f, S) = Of(S)[S] /\ SumFunctionOnSet(f, R) = Of(R)[R]
    BY Unfold
  <1> HIDE DEF Of, R
  <1>6. SumFunctionOnSet(f, S) = IF S = {} THEN 0 ELSE f[Pick(S)] + SumFunctionOnSet(f, R)
    BY <1>3, <1>4, <1>5
  <1> QED BY <1>6 DEF R

LEMMA SumOfNone ==
  ASSUME NEW f
  PROVE  SumFunctionOnSet(f, {}) = 0
  BY SumEquation, FS_EmptySet

LEMMA SumIsInt ==
  ASSUME NEW f, NEW S, IsFiniteSet(S), \A x \in S : f[x] \in Int
  PROVE  SumFunctionOnSet(f, S) \in Int
  <1> DEFINE Bad == {t \in SUBSET S : SumFunctionOnSet(f, t) \notin Int}
  <1>1. SUFFICES ASSUME Bad # {}
                 PROVE  FALSE
    OBVIOUS
  <1>2. PICK T \in Bad : \A u \in Bad : u \subseteq T => u = T
    <2>1. Bad \subseteq SUBSET S
      OBVIOUS
    <2> HIDE DEF Bad
    <2> QED BY <1>1, <2>1, Smallest
  <1>3. IsFiniteSet(T)
    BY FS_Subset
  <1>4. T # {} => Pick(T) \in T
    BY DEF Pick
  <1>5. SumFunctionOnSet(f, T) =
          IF T = {} THEN 0 ELSE f[Pick(T)] + SumFunctionOnSet(f, T \ {Pick(T)})
    BY <1>3, SumEquation
  <1>6. T # {} => SumFunctionOnSet(f, T \ {Pick(T)}) \in Int
    BY <1>2, <1>4
  <1> QED BY <1>4, <1>5, <1>6

LEMMA SumOfZeros ==
  ASSUME NEW f, NEW S, IsFiniteSet(S), \A x \in S : f[x] = 0
  PROVE  SumFunctionOnSet(f, S) = 0
  <1> DEFINE Bad == {t \in SUBSET S : SumFunctionOnSet(f, t) # 0}
  <1>1. SUFFICES ASSUME Bad # {}
                 PROVE  FALSE
    OBVIOUS
  <1>2. PICK T \in Bad : \A u \in Bad : u \subseteq T => u = T
    <2>1. Bad \subseteq SUBSET S
      OBVIOUS
    <2> HIDE DEF Bad
    <2> QED BY <1>1, <2>1, Smallest
  <1>3. IsFiniteSet(T)
    BY FS_Subset
  <1>4. T # {} => Pick(T) \in T
    BY DEF Pick
  <1>5. SumFunctionOnSet(f, T) =
          IF T = {} THEN 0 ELSE f[Pick(T)] + SumFunctionOnSet(f, T \ {Pick(T)})
    BY <1>3, SumEquation
  <1>6. T # {} => SumFunctionOnSet(f, T \ {Pick(T)}) = 0
    BY <1>2, <1>4
  <1> QED BY <1>4, <1>5, <1>6

\* Any member may be taken out first.
LEMMA SumWithout ==
  ASSUME NEW f, NEW S, IsFiniteSet(S), \A x \in S : f[x] \in Int, NEW p \in S
  PROVE  SumFunctionOnSet(f, S) = f[p] + SumFunctionOnSet(f, S \ {p})
  <1> DEFINE Sum(t) == SumFunctionOnSet(f, t)
             Good(t) == \A q \in t : Sum(t) = f[q] + Sum(t \ {q})
             Bad == {t \in SUBSET S : ~ Good(t)}
  <1>1. SUFFICES ASSUME Bad # {}
                 PROVE  FALSE
    OBVIOUS
  <1>2. PICK T \in Bad : \A u \in Bad : u \subseteq T => u = T
    <2>1. Bad \subseteq SUBSET S
      OBVIOUS
    <2> HIDE DEF Bad
    <2> QED BY <1>1, <2>1, Smallest
  <1>3. PICK q \in T : Sum(T) # f[q] + Sum(T \ {q})
    BY <1>2
  <1> DEFINE x == Pick(T)
             U == T \ {x}
             V == T \ {q}
             W == U \ {q}
  <1>4. x \in T
    BY <1>3 DEF Pick
  <1>5. Sum(T) = f[x] + Sum(U)
    <2>1. IsFiniteSet(T)
      BY FS_Subset
    <2> QED BY <1>4, <2>1, SumEquation
  <1>6. q # x
    BY <1>3, <1>5
  <1>7. Good(U) /\ Good(V)
    <2>1. U \in SUBSET S /\ U \subseteq T /\ U # T
      BY <1>4
    <2>2. V \in SUBSET S /\ V \subseteq T /\ V # T
      OBVIOUS
    <2> HIDE DEF Good, U, V
    <2> QED BY <1>2, <2>1, <2>2
  <1>8. Sum(U) = f[q] + Sum(W)
    <2>1. q \in U
      BY <1>6
    <2> QED BY <1>7, <2>1
  <1>9. Sum(V) = f[x] + Sum(W)
    <2>1. x \in V /\ V \ {x} = W
      BY <1>4, <1>6
    <2> QED BY <1>7, <2>1
  <1>10. f[q] \in Int /\ f[x] \in Int /\ Sum(W) \in Int
    <2>1. IsFiniteSet(W) /\ W \subseteq S
      BY FS_Subset
    <2>2. Sum(W) \in Int
      <3> HIDE DEF W
      <3> QED BY <2>1, SumIsInt
    <2> QED BY <1>4, <2>2
  <1> HIDE DEF Sum, x
  <1> QED BY <1>3, <1>5, <1>8, <1>9, <1>10

\* A sum depends on what is added up only.
LEMMA SumOfSame ==
  ASSUME NEW f, NEW g, NEW S, IsFiniteSet(S), \A x \in S : f[x] = g[x]
  PROVE  SumFunctionOnSet(f, S) = SumFunctionOnSet(g, S)
  <1> DEFINE Bad == {t \in SUBSET S : SumFunctionOnSet(f, t) # SumFunctionOnSet(g, t)}
  <1>1. SUFFICES ASSUME Bad # {}
                 PROVE  FALSE
    OBVIOUS
  <1>2. PICK T \in Bad : \A u \in Bad : u \subseteq T => u = T
    <2>1. Bad \subseteq SUBSET S
      OBVIOUS
    <2> HIDE DEF Bad
    <2> QED BY <1>1, <2>1, Smallest
  <1>3. IsFiniteSet(T)
    BY FS_Subset
  <1>4. T # {} => Pick(T) \in T
    BY DEF Pick
  <1>5. /\ SumFunctionOnSet(f, T) =
             IF T = {} THEN 0 ELSE f[Pick(T)] + SumFunctionOnSet(f, T \ {Pick(T)})
        /\ SumFunctionOnSet(g, T) =
             IF T = {} THEN 0 ELSE g[Pick(T)] + SumFunctionOnSet(g, T \ {Pick(T)})
    BY <1>3, SumEquation
  <1>6. T # {} => SumFunctionOnSet(f, T \ {Pick(T)}) = SumFunctionOnSet(g, T \ {Pick(T)})
    BY <1>2, <1>4
  <1> QED BY <1>4, <1>5, <1>6

\* Of naturals, a part adds up to no more than the whole.
LEMMA SumOfSubset ==
  ASSUME NEW f, NEW S, IsFiniteSet(S), \A x \in S : f[x] \in Nat,
         NEW T, T \subseteq S
  PROVE  /\ SumFunctionOnSet(f, T) <= SumFunctionOnSet(f, S)
         /\ SumFunctionOnSet(f, T) \in Nat /\ SumFunctionOnSet(f, S) \in Nat
  <1> DEFINE Sum(t) == SumFunctionOnSet(f, t)
             Good(t) == Sum(t) \in Nat /\ \A u \in SUBSET t : Sum(u) <= Sum(t)
             Bad == {t \in SUBSET S : ~ Good(t)}
  <1>1. SUFFICES ASSUME Bad # {}
                 PROVE  FALSE
    <2>1. Good(S) /\ Good(T)
      BY <1>1
    <2> QED BY <2>1
  <1>2. PICK W \in Bad : \A u \in Bad : u \subseteq W => u = W
    <2>1. Bad \subseteq SUBSET S
      OBVIOUS
    <2> HIDE DEF Bad
    <2> QED BY <1>1, <2>1, Smallest
  <1>3. IsFiniteSet(W) /\ \A x \in W : f[x] \in Int
    BY FS_Subset
  <1>4. \A x \in W : Sum(W) = f[x] + Sum(W \ {x}) /\ Good(W \ {x})
    BY <1>2, <1>3, SumWithout
  <1>5. CASE W = {}
    <2>1. Sum(W) = 0 /\ \A u \in SUBSET W : Sum(u) = 0
      BY <1>5, SumOfNone
    <2> QED BY <1>2, <2>1
  <1>6. CASE W # {}
    <2>1. PICK x \in W : TRUE
      BY <1>6
    <2>2. Sum(W) \in Nat
      <3>1. Sum(W) = f[x] + Sum(W \ {x}) /\ Good(W \ {x}) /\ f[x] \in Nat
        BY <1>4, <2>1
      <3> HIDE DEF Sum
      <3> QED BY <3>1
    <2>3. ASSUME NEW u \in SUBSET W, u # W PROVE Sum(u) <= Sum(W)
      <3>1. PICK y \in W : y \notin u
        BY <2>3
      <3>2. /\ Sum(W) = f[y] + Sum(W \ {y}) /\ f[y] \in Nat
            /\ Sum(W \ {y}) \in Nat /\ Sum(W \ {y}) >= Sum(u)
            /\ Sum(u) \in Int
        <4>1. u \in SUBSET (W \ {y})
          BY <2>3, <3>1
        <4>2. Good(W \ {y})
          BY <1>4, <3>1
        <4>3. Sum(u) \in Int
          BY <1>3, FS_Subset, SumIsInt
        <4> QED BY <1>4, <3>1, <4>1, <4>2, <4>3
      <3> HIDE DEF Sum
      <3> QED BY <3>2
    <2>4. Sum(W) <= Sum(W)
      BY <2>2
    <2> QED BY <1>2, <2>2, <2>3, <2>4
  <1> QED BY <1>5, <1>6

\* One summand changes: the sum changes by as much.
LEMMA SumChanges ==
  ASSUME NEW f, NEW g, NEW S, IsFiniteSet(S), NEW p,
         \A x \in S : f[x] \in Int /\ g[x] \in Int,
         \A x \in S \ {p} : f[x] = g[x]
  PROVE  /\ SumFunctionOnSet(f, S) \in Int
         /\ SumFunctionOnSet(g, S) =
              IF p \in S THEN SumFunctionOnSet(f, S) + (g[p] - f[p])
              ELSE SumFunctionOnSet(f, S)
  <1> DEFINE R == S \ {p}
  <1>1. IsFiniteSet(R)
    BY FS_Subset
  <1>2. SumFunctionOnSet(f, R) = SumFunctionOnSet(g, R)
    BY <1>1, SumOfSame
  <1>3. SumFunctionOnSet(f, R) \in Int /\ SumFunctionOnSet(f, S) \in Int
    BY <1>1, SumIsInt
  <1>4. CASE p \in S
    <2>1. /\ SumFunctionOnSet(f, S) = f[p] + SumFunctionOnSet(f, R)
          /\ SumFunctionOnSet(g, S) = g[p] + SumFunctionOnSet(g, R)
      BY <1>4, SumWithout
    <2> HIDE DEF R
    <2> QED BY <1>2, <1>3, <1>4, <2>1
  <1>5. CASE p \notin S
    BY <1>3, <1>5, SumOfSame
  <1> QED BY <1>4, <1>5

---------------------------------------------------------------------------
(* The operations keep the balances equal to the rows.                     *)

LEMMA IntTimesInt == \A m, n \in Int : m * n \in Int
  BY Z3

\* One row more of an amount, and many rows more of it.
LEMMA Distributes ==
  \A m, k, n \in Int : /\ m * (k + n) = m * k + n * m
                       /\ m * (k + 1) = m * k + m
                       /\ m * (k - 1) = m * k - m
  BY Z3

\* The rows of a payment on a side of a table, debits against the rest.
NetCount(table, p, side) ==
  table[p][side]["credit"] + table[p][side]["reversal"] - table[p][side]["debit"]

LEMMA NetTypes ==
  ASSUME NEW table \in [Payment -> RowCounts], NEW p \in Payment, NEW side \in Side
  PROVE  /\ NetCount(table, p, side) \in Int
         /\ AmountOf(p, side) * NetCount(table, p, side) \in Int
  <1>1. table[p][side] \in [Kind -> Nat]
    BY DEF RowCounts
  <1>2. NetCount(table, p, side) \in Int
    BY <1>1 DEF NetCount, Kind
  <1>3. AmountOf(p, side) \in Int
    BY RowTypes
  <1> QED BY <1>2, <1>3, IntTimesInt

LEMMA NetRowsIs ==
  ASSUME NEW p \in Payment, NEW side
  PROVE  /\ NetRows(side)[p] = AmountOf(p, side) * NetCount(ledger, p, side)
         /\ NetRows(side)'[p] = AmountOf(p, side) * NetCount(ledger', p, side)
  BY DEF NetRows, NetCount, AmountOf

LEMMA LedgerSumIsInt ==
  ASSUME IsFiniteSet(Payment), LedgerTypeOK, NEW a \in Account
  PROVE  ledgerSum(a) \in Int
  <1>1. ledger \in [Payment -> RowCounts]
    BY DEF LedgerTypeOK, RowCounts
  <1>2. \A side \in Side, p \in Payment : NetRows(side)[p] \in Int
    BY <1>1, NetTypes, NetRowsIs
  <1>3. /\ IsFiniteSet({p \in Payment : sender[p] = a})
        /\ IsFiniteSet({p \in Payment : recipient[p] = a})
    BY FS_Subset
  <1> QED BY <1>2, <1>3, SumIsInt DEF ledgerSum, Side

\* What the rows of one payment moved changes by as much as the balances.
Booked(p, ds, dr) ==
  /\ NetRows("sender")'[p] = NetRows("sender")[p] + ds
  /\ NetRows("recipient")'[p] = NetRows("recipient")[p] + dr
  /\ \A a \in Account :
       balance'[a] = balance[a] + (IF a = sender[p] THEN ds ELSE 0)
                                + (IF a = recipient[p] THEN dr ELSE 0)

LEMMA BookedMatches ==
  ASSUME IsFiniteSet(Payment), LedgerTypeOK, LedgerTypeOK', BalanceMatchesLedger,
         NEW p \in Payment, \A q \in Payment \ {p} : ledger'[q] = ledger[q],
         NEW ds \in Int, NEW dr \in Int, Booked(p, ds, dr)
  PROVE  BalanceMatchesLedger'
  <1> DEFINE Sent(a) == {q \in Payment : sender[q] = a}
             Received(a) == {q \in Payment : recipient[q] = a}
  <1>1. ASSUME NEW side \in Side, NEW q \in Payment
        PROVE  NetRows(side)[q] \in Int /\ NetRows(side)'[q] \in Int
    <2>1. ledger \in [Payment -> RowCounts] /\ ledger' \in [Payment -> RowCounts]
      BY DEF LedgerTypeOK, RowCounts
    <2> QED BY <2>1, NetTypes, NetRowsIs
  <1>2. ASSUME NEW side \in Side, NEW q \in Payment \ {p}
        PROVE  NetRows(side)[q] = NetRows(side)'[q]
    BY DEF NetRows, AmountOf
  <1>3. ASSUME NEW a \in Account
        PROVE  balance'[a] = seedBalance[a] + ledgerSum(a)'
    <2>1. IsFiniteSet(Sent(a)) /\ IsFiniteSet(Received(a))
      BY FS_Subset
    <2>2. /\ SumFunctionOnSet(NetRows("sender"), Sent(a)) \in Int
          /\ SumFunctionOnSet(NetRows("sender")', Sent(a)) =
               IF p \in Sent(a) THEN SumFunctionOnSet(NetRows("sender"), Sent(a)) + ds
               ELSE SumFunctionOnSet(NetRows("sender"), Sent(a))
      BY <1>1, <1>2, <2>1, SumChanges DEF Booked, Side
    <2>3. /\ SumFunctionOnSet(NetRows("recipient"), Received(a)) \in Int
          /\ SumFunctionOnSet(NetRows("recipient")', Received(a)) =
               IF p \in Received(a)
               THEN SumFunctionOnSet(NetRows("recipient"), Received(a)) + dr
               ELSE SumFunctionOnSet(NetRows("recipient"), Received(a))
      BY <1>1, <1>2, <2>1, SumChanges DEF Booked, Side
    <2>4. /\ balance[a] = seedBalance[a] + ledgerSum(a)
          /\ balance'[a] = balance[a] + (IF a = sender[p] THEN ds ELSE 0)
                                      + (IF a = recipient[p] THEN dr ELSE 0)
          /\ seedBalance[a] \in Int
      BY LedgerAssumption DEF BalanceMatchesLedger, Booked
    <2> QED BY <2>2, <2>3, <2>4 DEF ledgerSum
  <1> QED BY <1>3 DEF BalanceMatchesLedger

\* A row more on one side, with its amount.
LEMMA OneRow ==
  ASSUME NEW p \in Payment, NEW side \in Side, LedgerTypeOK, LedgerTypeOK',
         NEW n \in Int,
         NetCount(ledger', p, side) = NetCount(ledger, p, side) + n
  PROVE  NetRows(side)'[p] = NetRows(side)[p] + n * AmountOf(p, side)
  <1>1. NetCount(ledger, p, side) \in Int /\ AmountOf(p, side) \in Int
    <2>1. ledger \in [Payment -> RowCounts]
      BY DEF LedgerTypeOK, RowCounts
    <2> QED BY <2>1, NetTypes, RowTypes
  <1> QED BY <1>1, NetRowsIs, Distributes

\* The rows of one payment change, and the balances of its two accounts.
LEMMA RowsBooked ==
  ASSUME IsFiniteSet(Payment), LedgerTypeOK, LedgerTypeOK', BalanceMatchesLedger,
         NEW p \in Payment, \A q \in Payment \ {p} : ledger'[q] = ledger[q],
         NEW m \in Int, NEW n \in Int,
         NetCount(ledger', p, "sender") = NetCount(ledger, p, "sender") + m,
         NetCount(ledger', p, "recipient") = NetCount(ledger, p, "recipient") + n,
         \A a \in Account : balance'[a] =
           CASE a = sender[p]    -> balance[a] + m * sourceAmount[p]
             [] a = recipient[p] -> balance[a] + n * destinationAmount[p]
             [] OTHER            -> balance[a]
  PROVE  BalanceMatchesLedger'
  <1> DEFINE ds == m * sourceAmount[p]
             dr == n * destinationAmount[p]
  <1>1. ds \in Int /\ dr \in Int
    BY LedgerAssumption, IntTimesInt
  <1>2. /\ NetRows("sender")'[p] = NetRows("sender")[p] + ds
        /\ NetRows("recipient")'[p] = NetRows("recipient")[p] + dr
    BY OneRow DEF Side, AmountOf
  <1>3. \A a \in Account : balance[a] \in Int
    BY DEF LedgerTypeOK
  <1>4. \A a \in Account :
          balance'[a] = balance[a] + (IF a = sender[p] THEN ds ELSE 0)
                                   + (IF a = recipient[p] THEN dr ELSE 0)
    <2>1. sender[p] # recipient[p]
      BY LedgerAssumption
    <2>2. \A a \in Account : balance'[a] = CASE a = sender[p]    -> balance[a] + ds
                                             [] a = recipient[p] -> balance[a] + dr
                                             [] OTHER            -> balance[a]
      OBVIOUS
    <2> HIDE DEF ds, dr
    <2> QED BY <1>1, <1>3, <2>1, <2>2
  <1>5. Booked(p, ds, dr)
    BY <1>2, <1>4 DEF Booked
  <1> HIDE DEF ds, dr
  <1> QED BY <1>1, <1>5, BookedMatches

LEMMA TimesOne ==
  \A m \in Int : 1 * m = m /\ (-1) * m = -m /\ 0 * m = 0 /\ m * 0 = 0
  BY Z3

LEMMA PlainRows ==
  ASSUME LedgerTypeOK, NEW p \in Payment
  PROVE  ledger[p] \in [{"sender", "recipient"} -> [{"debit", "credit", "reversal"} -> Nat]]
  BY DEF LedgerTypeOK, Side, Kind

LEMMA PlainAmounts ==
  ASSUME NEW p \in Payment, LedgerTypeOK
  PROVE  /\ sender[p] \in Account /\ recipient[p] \in Account
         /\ sender[p] # recipient[p]
         /\ sourceAmount[p] \in Int /\ destinationAmount[p] \in Int
         /\ \A a \in Account : balance[a] \in Int
  BY LedgerAssumption DEF LedgerTypeOK

LEMMA InitBooked ==
  ASSUME IsFiniteSet(Payment), LedgerInit
  PROVE  BalanceMatchesLedger
  <1>1. ASSUME NEW side \in Side, NEW p \in Payment
        PROVE  NetRows(side)[p] = 0
    <2>1. NetCount(ledger, p, side) = 0
      BY DEF LedgerInit, NetCount, Kind
    <2>2. AmountOf(p, side) \in Int
      BY RowTypes
    <2> QED BY <2>1, <2>2, NetRowsIs, TimesOne
  <1>2. ASSUME NEW side \in Side, NEW S \in SUBSET Payment
        PROVE  SumFunctionOnSet(NetRows(side), S) = 0
    BY <1>1, FS_Subset, SumOfZeros
  <1>3. ASSUME NEW a \in Account PROVE ledgerSum(a) = 0
    BY <1>2 DEF ledgerSum, Side
  <1> QED BY <1>3, LedgerAssumption DEF LedgerInit, BalanceMatchesLedger

LEMMA DebitBooked ==
  ASSUME IsFiniteSet(Payment), LedgerTypeOK, BalanceMatchesLedger,
         NEW p \in Payment, debit(p, "sender")
  PROVE  BalanceMatchesLedger'
  <1>1. LedgerTypeOK' /\ \A q \in Payment \ {p} : ledger'[q] = ledger[q]
    BY DebitType, OthersKept DEF Side
  <1>2. ledger'[p] = [ledger[p] EXCEPT !["sender"]["debit"] = @ + 1]
    BY DEF LedgerTypeOK, debit
  <1>3. /\ NetCount(ledger', p, "sender") = NetCount(ledger, p, "sender") + (-1)
        /\ NetCount(ledger', p, "recipient") = NetCount(ledger, p, "recipient") + 0
    BY <1>2, PlainRows DEF NetCount
  <1>4. \A a \in Account :
          balance'[a] = CASE a = sender[p]    -> balance[a] - sourceAmount[p]
                          [] a = recipient[p] -> balance[a]
                          [] OTHER            -> balance[a]
    BY PlainAmounts DEF debit, AccountOf, AmountOf, LedgerTypeOK
  <1>5. \A a \in Account : balance'[a] =
           CASE a = sender[p]    -> balance[a] + (-1) * sourceAmount[p]
             [] a = recipient[p] -> balance[a] + 0 * destinationAmount[p]
             [] OTHER            -> balance[a]
    BY <1>4, PlainAmounts, TimesOne
  <1> QED BY <1>1, <1>3, <1>5, RowsBooked

LEMMA CreditBooked ==
  ASSUME IsFiniteSet(Payment), LedgerTypeOK, BalanceMatchesLedger,
         NEW p \in Payment, credit(p, "recipient")
  PROVE  BalanceMatchesLedger'
  <1>1. LedgerTypeOK' /\ \A q \in Payment \ {p} : ledger'[q] = ledger[q]
    BY CreditType, OthersKept DEF Side
  <1>2. ledger'[p] = [ledger[p] EXCEPT !["recipient"]["credit"] = @ + 1]
    BY DEF LedgerTypeOK, credit
  <1>3. /\ NetCount(ledger', p, "sender") = NetCount(ledger, p, "sender") + 0
        /\ NetCount(ledger', p, "recipient") = NetCount(ledger, p, "recipient") + 1
    BY <1>2, PlainRows DEF NetCount
  <1>4. \A a \in Account :
          balance'[a] = CASE a = sender[p]    -> balance[a]
                          [] a = recipient[p] -> balance[a] + destinationAmount[p]
                          [] OTHER            -> balance[a]
    BY PlainAmounts DEF credit, AccountOf, AmountOf, LedgerTypeOK
  <1>5. \A a \in Account : balance'[a] =
           CASE a = sender[p]    -> balance[a] + 0 * sourceAmount[p]
             [] a = recipient[p] -> balance[a] + 1 * destinationAmount[p]
             [] OTHER            -> balance[a]
    BY <1>4, PlainAmounts, TimesOne
  <1> QED BY <1>1, <1>3, <1>5, RowsBooked

LEMMA ChargebackBooked ==
  ASSUME IsFiniteSet(Payment), LedgerTypeOK, BalanceMatchesLedger,
         NEW p \in Payment, chargeback(p)
  PROVE  BalanceMatchesLedger'
  <1>1. LedgerTypeOK' /\ \A q \in Payment \ {p} : ledger'[q] = ledger[q]
    BY ChargebackType, OthersKept
  <1>2. ledger'[p] = [ledger[p] EXCEPT !["recipient"]["debit"] = @ + 1,
                                       !["sender"]["credit"] = @ + 1]
    BY DEF LedgerTypeOK, chargeback
  <1>3. /\ NetCount(ledger', p, "sender") = NetCount(ledger, p, "sender") + 1
        /\ NetCount(ledger', p, "recipient") = NetCount(ledger, p, "recipient") + (-1)
    BY <1>2, PlainRows DEF NetCount
  <1>4. \A a \in Account :
          balance'[a] = CASE a = sender[p]    -> balance[a] + sourceAmount[p]
                          [] a = recipient[p] -> balance[a] - destinationAmount[p]
                          [] OTHER            -> balance[a]
    BY PlainAmounts DEF chargeback, LedgerTypeOK
  <1>5. \A a \in Account : balance'[a] =
           CASE a = sender[p]    -> balance[a] + 1 * sourceAmount[p]
             [] a = recipient[p] -> balance[a] + (-1) * destinationAmount[p]
             [] OTHER            -> balance[a]
    BY <1>4, PlainAmounts, TimesOne
  <1> QED BY <1>1, <1>3, <1>5, RowsBooked

LEMMA CompensateBooked ==
  ASSUME IsFiniteSet(Payment), LedgerTypeOK, BalanceMatchesLedger,
         NEW p \in Payment, createCompensatingEntries(p)
  PROVE  BalanceMatchesLedger'
  <1> DEFINE m == ledger[p]["sender"]["debit"]
             n == ledger[p]["recipient"]["debit"]
  <1>1. LedgerTypeOK' /\ \A q \in Payment \ {p} : ledger'[q] = ledger[q]
    BY CompensateType, OthersKept
  <1>2. ledger'[p] = [ledger[p] EXCEPT !["sender"]["reversal"] = @ + m,
                                       !["recipient"]["reversal"] = @ + n]
    BY DEF LedgerTypeOK, createCompensatingEntries
  <1>3. m \in Int /\ n \in Int
    BY PlainRows
  <1>4. /\ NetCount(ledger', p, "sender") = NetCount(ledger, p, "sender") + m
        /\ NetCount(ledger', p, "recipient") = NetCount(ledger, p, "recipient") + n
    BY <1>2, PlainRows DEF NetCount
  <1>5. \A a \in Account : balance'[a] =
           CASE a = sender[p]    -> balance[a] + m * sourceAmount[p]
             [] a = recipient[p] -> balance[a] + n * destinationAmount[p]
             [] OTHER            -> balance[a]
    BY PlainAmounts DEF createCompensatingEntries, LedgerTypeOK
  <1> HIDE DEF m, n
  <1> QED BY <1>1, <1>3, <1>4, <1>5, RowsBooked
====
