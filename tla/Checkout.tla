------------------------------ MODULE Checkout ------------------------------
(***************************************************************************)
(* The browser's payment form and the interceptor: what the user confirms, *)
(* what the server does under the form's keys, and what the user is told.  *)
(*                                                                         *)
(* call[r] is one POST /payments: what it carried, whether the browser     *)
(* still waits for it, and how far it got.  It is "underway" to the        *)
(* server, "served" while the interceptor works on it and "polling" while  *)
(* its key is busy; "answered" and "refused" are responses on their way    *)
(* back.  An order is a complete set of inputs.                            *)
(***************************************************************************)
EXTENDS Idempotency

CONSTANTS
  Order, NoOrder,
  MaxKeys            \* bound on the keys the form draws

ASSUME CheckoutAssumption ==
  /\ NoOrder \notin Order
  /\ MaxKeys \in Nat
  /\ Key = 1 .. MaxKeys

VARIABLES
  inputs,    \* the form's accounts and amount
  key,       \* idempotencyKeyRef; keys are drawn in order
  visit,     \* "New Payment" opens the form once more
  latest,    \* the call isPending is about: the last one sent
  lag,       \* the button was clicked and is not drawn disabled yet
  receipt,   \* the payment on the success screen
  call,
  charges,   \* every payment made: its key, number and order, and the visit
  troubled   \* the visits of calls that failed, and those that saw one fail

serverVars == <<req, lock, cache, row, made, suffered, faults>>
formVars == <<inputs, key, visit, latest, lag, receipt>>
checkoutVars ==
  <<formVars, call, charges, troubled, serverVars>>

CallPc == {"none", "underway", "served", "polling", "answered", "refused"}

NoCall == [pc |-> "none", awaited |-> FALSE, key |-> 0, order |-> NoOrder,
           visit |-> 0, payment |-> 0]

NoReceipt == [key |-> 0, payment |-> 0, order |-> NoOrder]

CheckoutTypeOK ==
  /\ TypeOK
  /\ inputs \in Order
  /\ key \in 1 .. MaxKeys + 1
  /\ visit \in Nat
  /\ latest \in Request \cup {Null}
  /\ lag \in BOOLEAN
  /\ call \in [Request -> [pc : CallPc, awaited : BOOLEAN, key : {0} \cup Key,
                           order : Order \cup {NoOrder}, visit : Nat, payment : Nat]]
  /\ receipt \in [key : {0} \cup Key, payment : Nat, order : Order \cup {NoOrder}]
  /\ charges \subseteq [key : Key, payment : Nat, order : Order, visit : Nat]
  /\ troubled \subseteq Nat

CheckoutInit ==
  /\ Init
  /\ inputs \in Order
  /\ key = 1 /\ visit = 1
  /\ latest = Null
  /\ lag = FALSE
  /\ receipt = NoReceipt
  /\ call = [r \in Request |-> NoCall]
  /\ charges = {} /\ troubled = {}

isPending == latest # Null /\ call[latest].awaited

---------------------------------------------------------------------------
(* The form.                                                               *)

edit(o) ==
  /\ receipt = NoReceipt /\ ~ lag
  /\ o # inputs
  /\ inputs' = o
  /\ UNCHANGED <<key, visit, latest, lag, receipt, call, charges, troubled, serverVars>>

\* The button is disabled as last drawn: the second click of a double click
\* comes before that.
mayClick(r) ==
  /\ receipt = NoReceipt
  /\ isPending => lag
  /\ key \in Key
  /\ call[r] = NoCall /\ req[r] = NoRequest

send(r) ==
  call' = [call EXCEPT ![r] =
    [pc |-> "underway", awaited |-> TRUE, key |-> key, order |-> inputs,
     visit |-> visit, payment |-> 0]]

drawKey == key' = IF key \in Key THEN key + 1 ELSE key

\* Mutant: a key of its own for each click.
submitAnew(r) ==
  /\ mayClick(r)
  /\ send(r)
  /\ drawKey
  /\ latest' = r
  /\ lag' = TRUE
  /\ UNCHANGED <<inputs, visit, receipt, charges, troubled, serverVars>>

handleSubmit(r) ==
  /\ mayClick(r)
  /\ send(r)
  /\ latest' = r
  /\ lag' = TRUE
  /\ UNCHANGED <<inputs, key, visit, receipt, charges, troubled, serverVars>>

rerender ==
  /\ lag
  /\ lag' = FALSE
  /\ UNCHANGED <<inputs, key, visit, latest, receipt, call, charges, troubled, serverVars>>

openForm ==
  /\ key \in Key
  /\ drawKey
  /\ visit' = visit + 1
  /\ receipt' = NoReceipt
  /\ inputs' \in Order

newPayment ==
  /\ receipt # NoReceipt
  /\ openForm
  /\ UNCHANGED <<latest, lag, call, charges, troubled, serverVars>>

\* The user goes to another page and comes back: the component is a new one
\* and what its calls bring is lost.
remount ==
  /\ openForm
  /\ latest' = Null
  /\ lag' = FALSE
  /\ call' = [r \in Request |-> [call[r] EXCEPT !.awaited = FALSE]]
  /\ UNCHANGED <<charges, troubled, serverVars>>

\* Mutant: the key lives as long as the form.
keepKey(r) ==
  /\ troubled' = troubled \cup {call[r].visit, visit}
  /\ UNCHANGED <<key, receipt>>

\* Whatever went wrong, the next attempt has a key of its own, also when the
\* call was sent on an earlier visit.
fail(r) ==
  /\ troubled' = troubled \cup {call[r].visit, visit}
  /\ drawKey
  /\ UNCHANGED receipt

\* A response the browser no longer waits for is dropped.
responseArrives(r) ==
  /\ call[r].pc \in {"answered", "refused"}
  /\ CASE ~ call[r].awaited -> UNCHANGED <<key, receipt, troubled>>
       [] call[r].awaited /\ call[r].pc = "refused" -> fail(r)
       [] OTHER ->
            /\ receipt' = [key |-> call[r].key, payment |-> call[r].payment,
                           order |-> call[r].order]
            /\ UNCHANGED <<key, troubled>>
  /\ call' = [call EXCEPT ![r] = NoCall]
  /\ UNCHANGED <<inputs, visit, latest, lag, charges, serverVars>>

\* Fifteen seconds, or the connection is gone.
callTimesOut(r) ==
  /\ call[r].awaited
  /\ fail(r)
  /\ call' = [call EXCEPT ![r].awaited = FALSE]
  /\ UNCHANGED <<inputs, visit, latest, lag, charges, serverVars>>

---------------------------------------------------------------------------
(* The server.                                                             *)

answer(r, n) == [call[r] EXCEPT !.pc = "answered", !.payment = n]

refuse(r) == [call[r] EXCEPT !.pc = "refused"]

callReaches(r) ==
  LET k == call[r].key IN
    /\ call[r].pc = "underway"
    /\ \/ /\ lookup(r, k)
          /\ call' = [call EXCEPT ![r].pc = "served"]
       \/ /\ cache[k] # 0
          /\ call' = [call EXCEPT ![r] = answer(r, cache[k])]
          /\ UNCHANGED serverVars
    /\ UNCHANGED <<formVars, charges, troubled>>

\* The record of the request at work on the key appears in time, or it does not.
poll(r) ==
  LET recorded == cache[call[r].key] IN
    /\ call[r].pc = "polling"
    /\ call' = [call EXCEPT ![r] =
         IF recorded # 0 THEN answer(r, recorded) ELSE refuse(r)]
    /\ UNCHANGED <<formVars, charges, troubled, serverVars>>

\* What a step of intercept from pc to next means for the call.
response(r, pc, next) ==
  CASE pc = "running" /\ next = "storing" -> answer(r, req'[r].payment)
    [] pc = "locked"  /\ next = "closing" -> answer(r, row[req[r].key].body)
    [] pc = "missed"  /\ next = "idle" /\ faults' = faults ->
         [call[r] EXCEPT !.pc = "polling"]
    [] pc = "running" /\ next = "closing" -> refuse(r)
    [] pc \in {"missed", "locked", "unregistered", "running"} /\ next = "idle"
         -> refuse(r)
    [] OTHER -> call[r]

newCharges ==
  {[key |-> req[r].key, payment |-> made'[req[r].key],
    order |-> call[r].order, visit |-> call[r].visit] :
     r \in {s \in Request : /\ at(s, "running") /\ req'[s] # req[s]
                            /\ made'[req[s].key] # made[req[s].key]}}

\* Every other step of the interceptor.
serverStep ==
  /\ afterLookup
  /\ call' = [r \in Request |-> response(r, req[r].pc, req'[r].pc)]
  /\ charges' = charges \cup newCharges
  /\ UNCHANGED <<formVars, troubled>>

---------------------------------------------------------------------------
CheckoutNext ==
  \/ \E o \in Order : edit(o)
  \/ rerender
  \/ newPayment
  \/ remount
  \/ \E r \in Request : handleSubmit(r)
  \/ \E r \in Request : responseArrives(r)
  \/ \E r \in Request : callTimesOut(r)
  \/ \E r \in Request : callReaches(r)
  \/ \E r \in Request : poll(r)
  \/ serverStep

CheckoutSpec == CheckoutInit /\ [][CheckoutNext]_checkoutVars

---------------------------------------------------------------------------
(* Properties.                                                             *)

\* The success screen tells of a payment made of the very inputs that were
\* submitted, also when an earlier call that timed out is still at work and
\* the inputs have been changed since.
ReceiptFits ==
  receipt # NoReceipt =>
    \E c \in charges : /\ c.key = receipt.key
                       /\ c.payment = receipt.payment
                       /\ c.order = receipt.order

\* A form that saw no call fail, of its own or of an earlier visit, is charged
\* once, however often its button was clicked before it was drawn disabled.
OneChargePerForm ==
  suffered \subseteq Tolerated =>
    \A c, d \in charges :
      c.visit = d.visit /\ c.visit \notin troubled => c = d
=============================================================================
