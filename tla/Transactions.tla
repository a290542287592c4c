---------------------------- MODULE Transactions ----------------------------
(***************************************************************************)
(* The tables transactions and transaction_state_history.                  *)
(*                                                                         *)
(* A database transaction holds the payment's row lock from its read to    *)
(* its commit, or is a single UPDATE, so each one is one step of the model. *)
(* RowLocks has its statements one by one.                                 *)
(***************************************************************************)
EXTENDS Ledger, StatusTable, Sequences

CONSTANTS Reference, Null

ASSUME NullAssumption ==
  /\ Null \notin Reference
  /\ Null \notin Payment

VARIABLES status, ref, history

transactionVars == <<status, ref, history>>

TransactionsTypeOK ==
  /\ status \in [Payment -> State]
  /\ ref \in [Payment -> Reference \cup {Null}]
  /\ history \in [Payment -> Seq(State \X TransactionStatus)]

TransactionsInit ==
  /\ status = [p \in Payment |-> "none"]
  /\ ref = [p \in Payment |-> Null]
  /\ history = [p \in Payment |-> <<>>]

\* UPDATE transactions SET status, and the audit row beside it.
moveTo(p, from, to) ==
  /\ status' = [status EXCEPT ![p] = to]
  /\ history' = [history EXCEPT ![p] = Append(@, <<from, to>>)]
=============================================================================
