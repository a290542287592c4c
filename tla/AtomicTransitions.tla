------------------------- MODULE AtomicTransitions -------------------------
(***************************************************************************)
(* What the service promises of the status of a payment, whoever writes it *)
(* at the same time: a transition is decided on and written in one step,   *)
(* but for a dispute and its rejection, which write what was found valid   *)
(* some time before.                                                       *)
(***************************************************************************)
EXTENDS StatusTable

CONSTANTS Payment, Actor, StartStatus

VARIABLES
  status,
  granted,   \* granted[a]: the payment and the status actor a may still write
  log        \* what tells of the writes: it changes with each of them

atomicVars == <<status, granted, log>>

AtomicInit ==
  /\ status \in [Payment -> StartStatus]
  /\ granted = [a \in Actor |-> {}]

write(p, to) ==
  /\ status' = [status EXCEPT ![p] = to]
  /\ log' # log

create(p) ==
  /\ status[p] = "none"
  /\ write(p, "processing")
  /\ UNCHANGED granted

transition(p, to) ==
  /\ validateTransition(status[p], to)
  /\ write(p, to)
  /\ UNCHANGED granted

grant(a, p, to) ==
  /\ to \in {"disputed", "completed"}
  /\ validateTransition(status[p], to)
  /\ granted' = [granted EXCEPT ![a] = {<<p, to>>}]
  /\ UNCHANGED <<status, log>>

overwrite(a) ==
  /\ \E right \in granted[a] : write(right[1], right[2])
  /\ granted' = [granted EXCEPT ![a] = {}]

giveUp(a) ==
  /\ granted' = [granted EXCEPT ![a] = {}]
  /\ UNCHANGED <<status, log>>

AtomicNext ==
  \/ \E p \in Payment : create(p)
  \/ \E p \in Payment, to \in TransactionStatus :
       \/ transition(p, to)
       \/ \E a \in Actor : grant(a, p, to)
  \/ \E a \in Actor : overwrite(a) \/ giveUp(a)

AtomicSpec == AtomicInit /\ [][AtomicNext]_atomicVars
=============================================================================
