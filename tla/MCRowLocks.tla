---------------------------- MODULE MCRowLocks ----------------------------
(***************************************************************************)
(* Small instances of RowLocks for TLC.                                    *)
(***************************************************************************)
EXTENDS RowLocks, TLC

CONSTANTS a1, a2, p1, p2, t1, t2, t3

\* The two payments cross.
crossSender    == (p1 :> a1) @@ (p2 :> a2)
crossRecipient == (p1 :> a2) @@ (p2 :> a1)

\* What the two payments may be at the start.  They are alike: one order of a pair
\* is enough.
Starts == {<<"none", "none">>, <<"none", "processing">>, <<"none", "disputed">>,
           <<"processing", "disputed">>, <<"completed", "disputed">>,
           <<"disputed", "disputed">>}

\* Who is in dispute was completed, and charged back while a dispute was on its
\* way: a refund of it compensates two debits, a rejection completes it again.
startTables ==
  {[status |-> (p1 :> s[1]) @@ (p2 :> s[2]),
    chargedBack |-> {p \in Payment : s[IF p = p1 THEN 1 ELSE 2] = "disputed"},
    reversed |-> {}] : s \in Starts}
=============================================================================
