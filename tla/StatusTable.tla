---------------------------- MODULE StatusTable ----------------------------
(***************************************************************************)
(* The statuses of a payment and the table of valid transitions.  "none" is *)
(* a row that does not exist yet.                                          *)
(***************************************************************************)

TransactionStatus ==
  {"initiated", "processing", "completed", "failed", "reversed", "disputed"}

State == TransactionStatus \cup {"none"}

VALID_TRANSITIONS ==
  [initiated  |-> {"processing", "failed"},
   processing |-> {"completed", "failed"},
   failed     |-> {"reversed"},
   completed  |-> {"reversed", "disputed"},
   disputed   |-> {"reversed", "completed"},
   reversed   |-> {}]

validateTransition(current, next) ==
  current \in DOMAIN VALID_TRANSITIONS /\ next \in VALID_TRANSITIONS[current]
=============================================================================
