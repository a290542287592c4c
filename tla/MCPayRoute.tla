----------------------------- MODULE MCPayRoute -----------------------------
(***************************************************************************)
(* Small instances of PayRoute for TLC.                                    *)
(***************************************************************************)
EXTENDS PayRoute, TLC

CONSTANTS a1, a2, p1, p2, r1, r2, d1, d2, x1, x2, x3, x4

\* Two accounts that pay each other: p1 from a1 to a2, p2 from a2 to a1.
mcSender    == (p1 :> a1) @@ (p2 :> a2)
mcRecipient == (p1 :> a2) @@ (p2 :> a1)

\* a2 can fund p2 only with what p1 brought it, so that a chargeback of p1 may
\* find the money gone.
mcSourceAmount      == (p1 :> 2) @@ (p2 :> 1)
mcDestinationAmount == (p1 :> 1) @@ (p2 :> 2)
mcSeedBalance       == (a1 :> 2) @@ (a2 :> 0)

\* One payment alone.
oneSender            == p1 :> a1
oneRecipient         == p1 :> a2
oneSourceAmount      == p1 :> 2
oneDestinationAmount == p1 :> 1

\* Two payments alike from a1 to a2.
sameSender    == (p1 :> a1) @@ (p2 :> a1)
sameRecipient == (p1 :> a2) @@ (p2 :> a2)
unitAmount    == (p1 :> 1) @@ (p2 :> 1)

Symmetric ==
  UNION {Permutations({r1, r2}), Permutations({d1, d2}), Permutations({x1, x2})}

SymmetricPayments == Symmetric \cup Permutations({p1, p2})
=============================================================================
