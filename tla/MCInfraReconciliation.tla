------------------------ MODULE MCInfraReconciliation ------------------------
(* The instance of MCInfraFiatWithdrawal with reconciliation beside it. *)
EXTENDS MCInfraFiatWithdrawal, InfraReconciliation

\* Bound: a behaviour is followed no further than a mismatch that reconciliation finds.
NoMismatch ==
  /\ \A t \in Reviewed : item[t] \in {"none", "RECONCILED"}
  /\ audit.at # "idle" => ProviderMismatch(audit.provider) = {}
  /\ audit.at = "settlement" => LedgerMismatch(audit.ledger) = {}
=============================================================================
