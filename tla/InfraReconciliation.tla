-------------------------- MODULE InfraReconciliation --------------------------
(***************************************************************************)
(* Reconciliation of payouts (src/modules/infra/                           *)
(* infraReconciliationService.ts) beside the off-ramp and the Stellar      *)
(* settlement.  A run reads the payout's row, then its ledger movement,    *)
(* then its settlement rows, with an await between each two, and stores    *)
(* what it concludes; the payout goes on meanwhile.                        *)
(***************************************************************************)
EXTENDS InfraFiatWithdrawal, Reconciliation

CONSTANTS
  Reviewed   \* payouts that reconciliation looks at

VARIABLES
  audit,    \* the run in progress: where it is and what it has read
  item      \* payout -> result_code of its infra_reconciliation_items row

reconVars == <<audit, item>>
reconciledVars == <<everyVar, reconVars>>

NoAudit == [at |-> "idle", tx |-> NoOne, provider |-> NoProvider, ledger |-> NoLedger,
            offRamp |-> FALSE, locked |-> FALSE, amounts |-> {}]

ReconInit ==
  /\ OfframpInit
  /\ audit = NoAudit
  /\ item = [t \in Payouts |-> "none"]

-----------------------------------------------------------------------------
\* What the payout's own row says of the provider.
observeProvider(r) ==
  [present |-> r.ext # NoOne \/ r.status \in {"settled", "failed"}, status |-> r.status]

\* loadTransactions.  Bound: a payout is looked at until it has been judged.
LoadTransaction(t) ==
  /\ audit.at = "idle" /\ t \in Reviewed /\ item[t] = "none"
  /\ tx[t] # NoTx
  /\ audit' = [at |-> "ledger", tx |-> t, provider |-> observeProvider(tx[t]),
               ledger |-> NoLedger, offRamp |-> meta[t].offRamp,
               locked |-> (tx[t].fundsLocked \/ tx[t].ledgerLockId) /\ ~tx[t].fundsFinalized,
               amounts |-> IF tx[t].usdc = 0 THEN {} ELSE {tx[t].usdc}]
  /\ UNCHANGED <<everyVar, item>>

\* The payout_settle movement; without one, the metadata of the copy tells of a lock.
ObserveLedger ==
  /\ audit.at = "ledger"
  /\ LET t == audit.tx
         ms == ledger.movements[Org]
         debits == {ms[i] : i \in {j \in DOMAIN ms : ms[j].ref = t /\ ms[j].type = "payout_settle"}}
         debited == debits # {}
     IN audit' = [audit EXCEPT
                    !.at = "settlement",
                    !.ledger = IF debited THEN [present |-> TRUE, status |-> "DEBITED"]
                               ELSE IF audit.locked THEN [NoLedger EXCEPT !.status = "LOCKED"]
                               ELSE NoLedger,
                    !.amounts = @ \cup {m.amount : m \in debits}]
  /\ UNCHANGED <<everyVar, item>>

\* Both legs of an off-ramp payout must be confirmed.
OfframpLegs(t) ==
  LET received == stl[t].status = "confirmed"
      paid == prov[t] = "confirmed"
  IN [required |-> TRUE, present |-> stl[t].status # "none" \/ prov[t] # "none",
      status |-> CASE received /\ paid               -> "confirmed"
                   [] received /\ prov[t] = "failed" -> "action_required"
                   [] received                       -> "settlement_pending"
                   [] OTHER                          -> stl[t].status,
      ok |-> received /\ paid]

observeSettlement(t, offRamp) ==
  IF offRamp THEN OfframpLegs(t)
  ELSE IF t \in Banked /\ stl[t].status = "none" THEN NotRequired
  ELSE [required |-> TRUE, present |-> stl[t].status # "none", status |-> stl[t].status,
        ok |-> stl[t].status = "confirmed"]

\* The settlement rows are read last; persistItem stores the verdict.
ObserveSettlement ==
  /\ audit.at = "settlement"
  /\ item' = [item EXCEPT ![audit.tx] =
                classify(audit.provider, audit.ledger,
                         observeSettlement(audit.tx, audit.offRamp), audit.amounts)]
  /\ audit' = NoAudit
  /\ UNCHANGED everyVar

ReconNext ==
  \/ OfframpNext /\ UNCHANGED reconVars
  \/ \E t \in Payouts : LoadTransaction(t)
  \/ ObserveLedger \/ ObserveSettlement

ReconSpec == ReconInit /\ [][ReconNext]_reconciledVars

-----------------------------------------------------------------------------
\* Reconciliation "joins Provider + Dayfi Ledger + Settlement": although it reads the three
\* at different moments of a payout that goes on, RECONCILED means that the lock was
\* consumed and not returned (unless by a throw as in ReceiptKeepsLock), the USDC has moved
\* on chain where it had to, and the bank was paid.
ReconciledIsDelivered ==
  \A t \in Reviewed :
    item[t] = "RECONCILED" =>
      /\ HasPosted(t, "finalize") /\ (HasPosted(t, "release") => Doubted(t))
      /\ t \notin Banked \/ stl[t].status # "none" => Landed(chain[t]) # {}
      /\ t \in Live \cap Banked => Orders(t, {"paid"}) # {}
================================================================================
