---------------------------- MODULE FundsCustody ----------------------------
(***************************************************************************)
(* What the service promises about the money of a payment, whatever its    *)
(* queues, locks and webhooks do: it is taken from the sender once, and    *)
(* then it is held, has reached the recipient, or is back with the sender, *)
(* and it comes back for good.                                             *)
(***************************************************************************)
CONSTANT Payment

VARIABLE custody

Custody == {"idle", "held", "paid", "returned"}

Init == custody = [p \in Payment |-> "idle"]

move(p, from, to) ==
  /\ custody[p] = from
  /\ custody' = [custody EXCEPT ![p] = to]

freeze(p)   == move(p, "idle", "held")
pay(p)      == move(p, "held", "paid")
giveBack(p) == move(p, "held", "returned")
takeBack(p) == move(p, "paid", "returned")

Next ==
  \E p \in Payment : freeze(p) \/ pay(p) \/ giveBack(p) \/ takeBack(p)

Spec == Init /\ [][Next]_custody
=============================================================================
