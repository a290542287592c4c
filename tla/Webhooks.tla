------------------------------ MODULE Webhooks ------------------------------
(***************************************************************************)
(* The webhook endpoint, its queue and WebhooksService.processWebhook.     *)
(*                                                                         *)
(* A delivery is one callback of the provider and the BullMQ job made of   *)
(* it: "logged" has inserted its webhook_events row, in a statement of its *)
(* own, and not yet applied it.  The same callback may be delivered any    *)
(* number of times, in any order, as soon as the provider issued the       *)
(* reference.                                                              *)
(***************************************************************************)
EXTENDS ProviderQueue

CONSTANTS
  Delivery, WebhookStatus,
  CleansUp     \* whether the instance outlives the retention of events

ASSUME WebhooksAssumption ==
  /\ WebhookStatus \subseteq {"completed", "failed", "processing"}
  /\ CleansUp \in BOOLEAN

VARIABLES
  hook,    \* hook[d]
  events   \* the table webhook_events, unique by (reference, type)

hookVars == <<hook, events>>

NoHook == [pc |-> "idle", x |-> Null, type |-> "none", signatureValid |-> FALSE,
           attemptsMade |-> 0]

WebhooksTypeOK ==
  /\ hook \in [Delivery -> [pc : {"idle", "waiting", "logged"},
                            x : Reference \cup {Null},
                            type : WebhookStatus \cup {"none"},
                            signatureValid : BOOLEAN,
                            attemptsMade : 0 .. MaxAttempts]]
  /\ \A d \in Delivery : hook[d].pc # "idle" =>
       hook[d].x \in Reference /\ hook[d].type \in WebhookStatus
  /\ events \in
       [Reference -> [WebhookStatus -> {"none", "logged", "processed"}]]

WebhooksInit ==
  /\ hook = [d \in Delivery |-> NoHook]
  /\ events = [x \in Reference |-> [type \in WebhookStatus |-> "none"]]

finishHook(d) == hook' = [hook EXCEPT ![d] = NoHook]

\* BullMQ: back to the queue, or to the failed set, which nobody reads.
hookThrows(d) ==
  LET n == hook[d].attemptsMade + 1 IN
    IF n < MaxAttempts
    THEN hook' = [hook EXCEPT ![d].pc = "waiting", ![d].attemptsMade = n]
    ELSE finishHook(d)

\* The signature of a genuine callback is invalid only by a fault: the secret
\* differs, or the body was changed on the way.
handleProviderWebhook(d, x, type, valid) ==
  /\ hook[d].pc = "idle"
  /\ issued[x] # Null
  /\ IF valid THEN UNCHANGED faults ELSE Fault
  /\ hook' = [hook EXCEPT ![d] =
       [pc |-> "waiting", x |-> x, type |-> type, signatureValid |-> valid,
        attemptsMade |-> 0]]
  /\ UNCHANGED <<ledgerVars, transactionVars, queueVars, events>>

\* Mutant: the unique constraint is gone, a callback may be logged twice.
logEveryDelivery(d) ==
  /\ hook[d].pc = "waiting"
  /\ events' = [events EXCEPT ![hook[d].x][hook[d].type] = "logged"]
  /\ IF hook[d].signatureValid
     THEN hook' = [hook EXCEPT ![d].pc = "logged"]
     ELSE finishHook(d)
  /\ UNCHANGED <<ledgerVars, transactionVars, queueVars, faults>>

\* INSERT ... ON CONFLICT DO NOTHING.  A row that exists ends the job, also
\* when an earlier attempt of this very job inserted it.
logEvent(d) ==
  LET x == hook[d].x
      type == hook[d].type IN
    /\ hook[d].pc = "waiting"
    /\ IF events[x][type] = "none"
       THEN /\ events' = [events EXCEPT ![x][type] = "logged"]
            /\ IF hook[d].signatureValid
               THEN hook' = [hook EXCEPT ![d].pc = "logged"]
               ELSE finishHook(d)
       ELSE finishHook(d) /\ UNCHANGED events
    /\ UNCHANGED <<ledgerVars, transactionVars, queueVars, faults>>

---------------------------------------------------------------------------
(* The database transaction, in its three outcomes.                        *)

unknownReference(d) ==
  /\ hook[d].pc = "logged"
  /\ \A p \in Payment : ref[p] # hook[d].x
  /\ finishHook(d)
  /\ UNCHANGED <<ledgerVars, transactionVars, queueVars, events, faults>>

rejectEvent(d) ==
  /\ hook[d].pc = "logged"
  /\ \E p \in Payment :
       ref[p] = hook[d].x /\ ~ validateTransition(status[p], hook[d].type)
  /\ hookThrows(d)
  /\ UNCHANGED <<ledgerVars, transactionVars, queueVars, events, faults>>

\* Mutant: the sender's money is returned on every event but "completed".
applyWithoutValidation(d, p) ==
  /\ hook[d].pc = "logged" /\ ref[p] = hook[d].x
  /\ status[p] # "none"
  /\ IF hook[d].type = "completed"
     THEN credit(p, "recipient")
     ELSE createCompensatingEntries(p)
  /\ moveTo(p, status[p], hook[d].type)
  /\ events' = [events EXCEPT ![hook[d].x][hook[d].type] = "processed"]
  /\ finishHook(d)
  /\ UNCHANGED <<ref, queueVars, faults>>

\* "processing" is valid from "initiated" only, which no committed row is in.
applyEvent(d, p) ==
  /\ hook[d].pc = "logged" /\ ref[p] = hook[d].x
  /\ validateTransition(status[p], hook[d].type)
  /\ \/ hook[d].type = "completed" /\ credit(p, "recipient")
     \/ hook[d].type = "failed" /\ createCompensatingEntries(p)
  /\ moveTo(p, status[p], hook[d].type)
  /\ events' = [events EXCEPT ![hook[d].x][hook[d].type] = "processed"]
  /\ finishHook(d)
  /\ UNCHANGED <<ref, queueVars, faults>>

\* The database fails or the worker dies, before the INSERT or after it.
hookFails(d) ==
  /\ Fault
  /\ hook[d].pc # "idle"
  /\ hookThrows(d)
  /\ UNCHANGED <<ledgerVars, transactionVars, queueVars, events>>

\* RetentionScheduler: an event is ninety days old and its row is deleted, so
\* that a late duplicate is logged like a new one.
cleanupProcessedEvent(x, type) ==
  /\ CleansUp
  /\ events[x][type] = "processed"
  /\ events' = [events EXCEPT ![x][type] = "none"]
  /\ UNCHANGED <<ledgerVars, transactionVars, queueVars, hook, faults>>

hookStep(d) ==
  \/ logEvent(d) \/ unknownReference(d) \/ rejectEvent(d)
  \/ \E p \in Payment : applyEvent(d, p)

WebhooksNext ==
  \/ \E d \in Delivery :
       \/ \E x \in Reference, type \in WebhookStatus, valid \in BOOLEAN :
            handleProviderWebhook(d, x, type, valid)
       \/ logEvent(d) \/ unknownReference(d) \/ rejectEvent(d)
       \/ \E p \in Payment : applyEvent(d, p)
       \/ hookFails(d)
  \/ \E x \in Reference, type \in WebhookStatus : cleanupProcessedEvent(x, type)

WebhooksFairness == \A d \in Delivery : WF_hookVars(hookStep(d))
=============================================================================
