----------------------------- MODULE MCCheckout -----------------------------
(***************************************************************************)
(* Small instances of Checkout for TLC.                                    *)
(***************************************************************************)
EXTENDS Checkout, TLC

CONSTANTS r1, r2, r3, o1, o2

Symmetric == Permutations({r1, r2, r3}) \cup Permutations({o1, o2})
=============================================================================
