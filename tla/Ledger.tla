------------------------------- MODULE Ledger -------------------------------
(***************************************************************************)
(* LedgerService over the tables accounts and ledger_entries.              *)
(*                                                                         *)
(* Every row the service writes for a payment p belongs to p's sender or   *)
(* to its recipient.  A sender row carries p's sourceAmount, a recipient   *)
(* row its destinationAmount, so the rows of p are counted by side and     *)
(* kind.  Kind merges entry_type and is_reversal: only credits are ever    *)
(* written with is_reversal = true, those are "reversal".                  *)
(*                                                                         *)
(* The columns a payment never changes (sender, recipient, amounts) are    *)
(* constants.  destinationAmount may be 0: the quote rounds to 8 places.   *)
(***************************************************************************)
EXTENDS Integers, Functions

CONSTANTS
  Account, Payment,
  sender, recipient,
  sourceAmount, destinationAmount,
  seedBalance          \* balances written by the seed script, with no rows

ASSUME LedgerAssumption ==
  /\ sender \in [Payment -> Account]
  /\ recipient \in [Payment -> Account]
  /\ \A p \in Payment : sender[p] # recipient[p]
  /\ sourceAmount \in [Payment -> Nat \ {0}]
  /\ destinationAmount \in [Payment -> Nat]
  /\ seedBalance \in [Account -> Nat]

VARIABLES balance, ledger

ledgerVars == <<balance, ledger>>

Side == {"sender", "recipient"}
Kind == {"debit", "credit", "reversal"}

AccountOf(p, side) == IF side = "sender" THEN sender[p] ELSE recipient[p]
AmountOf(p, side) ==
  IF side = "sender" THEN sourceAmount[p] ELSE destinationAmount[p]

\* Naturals: a balance below zero would break CHK_accounts_balance_non_negative.
LedgerTypeOK ==
  /\ balance \in [Account -> Nat]
  /\ ledger \in [Payment -> [Side -> [Kind -> Nat]]]

LedgerInit ==
  /\ balance = seedBalance
  /\ ledger = [p \in Payment |-> [side \in Side |-> [kind \in Kind |-> 0]]]

debit(p, side) ==
  /\ balance[AccountOf(p, side)] >= AmountOf(p, side)
  /\ balance' = [balance EXCEPT ![AccountOf(p, side)] = @ - AmountOf(p, side)]
  /\ ledger' = [ledger EXCEPT ![p][side]["debit"] = @ + 1]

\* Mutant: the row is written, the balance is not.
creditRowOnly(p, side) ==
  /\ ledger' = [ledger EXCEPT ![p][side]["credit"] = @ + 1]
  /\ UNCHANGED balance

credit(p, side) ==
  /\ balance' = [balance EXCEPT ![AccountOf(p, side)] = @ + AmountOf(p, side)]
  /\ ledger' = [ledger EXCEPT ![p][side]["credit"] = @ + 1]

\* Mutant: the UPDATE without AND balance >= amount.
chargebackOverdrawn(p) ==
  /\ balance' = [balance EXCEPT ![recipient[p]] = @ - destinationAmount[p],
                                ![sender[p]] = @ + sourceAmount[p]]
  /\ ledger' = [ledger EXCEPT ![p]["recipient"]["debit"] = @ + 1,
                              ![p]["sender"]["credit"] = @ + 1]

\* The recipient is debited and the sender credited in one database
\* transaction; both rows are written with is_reversal = false.
chargeback(p) ==
  /\ balance[recipient[p]] >= destinationAmount[p]
  /\ balance' = [balance EXCEPT ![recipient[p]] = @ - destinationAmount[p],
                                ![sender[p]] = @ + sourceAmount[p]]
  /\ ledger' = [ledger EXCEPT ![p]["recipient"]["debit"] = @ + 1,
                              ![p]["sender"]["credit"] = @ + 1]

\* One reversal row and one balance increment per debit row of p.
createCompensatingEntries(p) ==
  /\ ledger' = [ledger EXCEPT
       ![p]["sender"]["reversal"] = @ + ledger[p]["sender"]["debit"],
       ![p]["recipient"]["reversal"] = @ + ledger[p]["recipient"]["debit"]]
  /\ balance' = [balance EXCEPT
       ![sender[p]] = @ + ledger[p]["sender"]["debit"] * sourceAmount[p],
       ![recipient[p]] =
          @ + ledger[p]["recipient"]["debit"] * destinationAmount[p]]

hasBeenReversed(p) == \E side \in Side : ledger[p][side]["reversal"] > 0

---------------------------------------------------------------------------
(* What a balance is made of.                                              *)

\* The rows of each payment, summed: what they moved into an account and out
\* of it.
NetRows(side) ==
  [p \in Payment |-> AmountOf(p, side) * (ledger[p][side]["credit"]
                        + ledger[p][side]["reversal"] - ledger[p][side]["debit"])]

\* 0 of an account without rows.
ledgerSum(a) ==
  SumFunctionOnSet(NetRows("sender"), {p \in Payment : sender[p] = a})
  + SumFunctionOnSet(NetRows("recipient"), {p \in Payment : recipient[p] = a})

hasRows(a) ==
  \E p \in Payment, side \in Side, kind \in Kind :
    AccountOf(p, side) = a /\ ledger[p][side][kind] > 0

\* What the reconciliation job reports.  It compares texts: a balance has eight
\* decimals, and so has a sum of rows, but the sum of no rows is '0'.
mismatches == {a \in Account : balance[a] # ledgerSum(a) \/ ~ hasRows(a)}

\* Every balance is the balance the account was seeded with and its ledger rows:
\* no operation writes one table without the other.  The reconciliation job
\* compares the rows alone.
BalanceMatchesLedger ==
  \A a \in Account : balance[a] = seedBalance[a] + ledgerSum(a)

\* The reconciliation job always reports the same accounts, those that were seeded
\* with money, and those that have no row, if only because their balance is
\* '0.00000000'; it never finds one that an operation left out of step.
FalseAlarmsOnly ==
  mismatches = {a \in Account : seedBalance[a] # 0 \/ ~ hasRows(a)}

---------------------------------------------------------------------------
(* The rows of a payment in the course of its life, for the properties.    *)

Rows(debits, credits, reversals) ==
  [debit |-> debits, credit |-> credits, reversal |-> reversals]

NoRows == Rows(0, 0, 0)

Untouched == [sender |-> NoRows, recipient |-> NoRows]
Frozen    == [sender |-> Rows(1, 0, 0), recipient |-> NoRows]
Paid      == [sender |-> Rows(1, 0, 0), recipient |-> Rows(0, 1, 0)]
Released  == [sender |-> Rows(1, 0, 1), recipient |-> NoRows]
Charged   == [sender |-> Rows(1, 1, 0), recipient |-> Rows(1, 1, 0)]
=============================================================================
