---------------------------- MODULE Reconciliation ----------------------------
(***************************************************************************)
(* How reconciliation judges a transaction by its three legs: what the     *)
(* provider, the ledger and the settlement say of it (classify in          *)
(* src/modules/infra/infraReconciliationService.ts).                       *)
(***************************************************************************)
EXTENDS Naturals, Sequences, FiniteSetsExt

\* provider: [present, status]    ledger: [present, status]
\* settlement: [required, present, status, ok]    amounts: those the legs state
NoProvider == [present |-> FALSE, status |-> "none"]
NoLedger == [present |-> FALSE, status |-> "MISSING"]
NotRequired == [required |-> FALSE, present |-> FALSE, status |-> "none", ok |-> TRUE]

isProviderConfirmed(status) == status \in {"settled", "confirmed"}
isProviderFailed(status) == status = "failed"

ProviderMismatch(provider) ==
  CASE isProviderFailed(provider.status)     -> {"PROVIDER_FAILED"}
    [] ~provider.present                     -> {"MISSING_PROVIDER"}
    [] ~isProviderConfirmed(provider.status) -> {"STATUS_MISMATCH"}
    [] OTHER                                 -> {}

LedgerMismatch(ledger) ==
  CASE ledger.status \in {"LOCKED", "PENDING_FUNDING"} -> {"LEDGER_PENDING"}
    [] ledger.present                                  -> {}
    [] OTHER                                           -> {"MISSING_LEDGER"}

SettlementMismatch(settlement) ==
  CASE ~settlement.required -> {}
    [] ~settlement.present  -> {"MISSING_SETTLEMENT"}
    [] settlement.status \in {"failed", "action_required"} -> {"SETTLEMENT_FAILED"}
    [] settlement.status \in {"pending", "submitted", "pending_treasury", "settlement_pending"} ->
         {"SETTLEMENT_PENDING"}
    [] ~settlement.ok       -> {"STATUS_MISMATCH"}
    [] OTHER                -> {}

Mismatches(provider, ledger, settlement, amounts) ==
  ProviderMismatch(provider) \cup LedgerMismatch(ledger) \cup SettlementMismatch(settlement)
    \cup IF Cardinality(amounts) > 1 THEN {"AMOUNT_MISMATCH"} ELSE {}

\* The gravest first.
Priority ==
  <<"AMOUNT_MISMATCH", "PROVIDER_FAILED", "SETTLEMENT_FAILED", "MISSING_PROVIDER",
    "MISSING_LEDGER", "MISSING_SETTLEMENT", "SETTLEMENT_PENDING", "LEDGER_PENDING",
    "STATUS_MISMATCH">>

classify(provider, ledger, settlement, amounts) ==
  LET found == Mismatches(provider, ledger, settlement, amounts)
  IN IF found = {} THEN "RECONCILED"
     ELSE Priority[Min({i \in DOMAIN Priority : Priority[i] \in found})]
===============================================================================
