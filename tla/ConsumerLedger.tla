---------------------------- MODULE ConsumerLedger ----------------------------
(***************************************************************************)
(* The balance ledger of the consumer app: wallets.balance and             *)
(* ledger_movements, changed by creditUsdBalance, debitUsdBalance,         *)
(* creditWalletBalance and debitWalletBalance (src/modules/payment/        *)
(* balanceService.ts).  Each looks its idempotency key up first; balance   *)
(* and movement then change in one database transaction, which the unique  *)
(* index on the key undoes when another call was faster.                   *)
(***************************************************************************)
EXTENDS Integers, FiniteSetsExt

CONSTANTS
  Accounts,    \* wallets, each of one user and currency
  Opening      \* wallet -> what it holds at the start

ASSUME AccountsAssumption == Opening \in [Accounts -> Nat]

VARIABLES
  balance,     \* wallet -> wallets.balance
  movements    \* the rows of ledger_movements

ledgerVars == <<balance, movements>>

LedgerInit == balance = Opening /\ movements = {}

\* A wallet's balance is never negative, and a key stands for one movement.
LedgerTypeOK ==
  /\ balance \in [Accounts -> Nat]
  /\ \A m, n \in movements : m.key = n.key => m = n

Movement(key, direction, wallet, amount) ==
  [key |-> key, direction |-> direction, wallet |-> wallet, amount |-> amount]

findMovementByKey(key) == \E m \in movements : m.key = key

\* A credit under a known key succeeds without effect.
credit(key, wallet, amount) ==
  IF findMovementByKey(key) THEN UNCHANGED ledgerVars
  ELSE /\ balance' = [balance EXCEPT ![wallet] = @ + amount]
       /\ movements' = movements \cup {Movement(key, "credit", wallet, amount)}

\* Mutant: the balance is checked by the caller only.
debitsAlways(key, wallet, amount) == TRUE

\* Whether a debit succeeds: SELECT ... FOR UPDATE, then the check.
debits(key, wallet, amount) == findMovementByKey(key) \/ balance[wallet] >= amount

\* The effect of a debit that succeeds.
debit(key, wallet, amount) ==
  IF findMovementByKey(key) THEN UNCHANGED ledgerVars
  ELSE /\ balance' = [balance EXCEPT ![wallet] = @ - amount]
       /\ movements' = movements \cup {Movement(key, "debit", wallet, amount)}
=============================================================================
