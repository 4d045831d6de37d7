---------------------------- MODULE InfraTreasury ----------------------------
(***************************************************************************)
(* Treasury rebalances: requestTreasuryRebalance, approveTreasuryRebalance,*)
(* submitTreasuryRebalance and executeTreasuryRebalance (src/modules/infra/*)
(* infraTreasuryService.ts).  A rebalance pays USDC of the treasury to     *)
(* another account of Dayfi's; the treasury is the account that also funds *)
(* collections, so both compete for its balance and its sequence numbers.  *)
(*                                                                         *)
(* A rebalance stands for one Idempotency-Key.  Operators call the four    *)
(* operations through the admin API as they like, also at once.            *)
(***************************************************************************)
EXTENDS InfraCollection

CONSTANT RebalanceAmount   \* rebalance -> its USDC amount

ASSUME RebalanceAssumption ==
  /\ Rebalances \cap Collections = {}
  /\ RebalanceAmount \in [Rebalances -> Amounts]

VARIABLE reb   \* rebalance -> its infra_treasury_rebalances row

treasuryVars == <<vars, reb>>

NoRebalance == [status |-> "none", ref |-> 0]

TreasuryInit == Init /\ reb = [r \in Rebalances |-> NoRebalance]

-----------------------------------------------------------------------------
\* A rebalance leaves the rows of collections and the ledger alone.
CollectionsUnchanged == UNCHANGED <<ledger, tx, stl, payin>>

\* Where executeTreasuryRebalance goes on with the row the request returned.
AfterRequest(status) == IF status = "requested" THEN "exec.approve" ELSE "rebalance.load"

\* A row that exists is returned as a duplicate.
requestTreasuryRebalance(p, r) ==
  /\ reb[r] = NoRebalance
  /\ Start(p, r, "request.position")
  /\ UNCHANGED <<chain, reb>> /\ CollectionsUnchanged

executeTreasuryRebalance(p, r) ==
  /\ reb[r].status # "confirmed"
  /\ Start(p, r, IF reb[r] = NoRebalance THEN "exec.position" ELSE AfterRequest(reb[r].status))
  /\ UNCHANGED <<chain, reb>> /\ CollectionsUnchanged

\* getTreasuryPosition: a rebalance the treasury cannot pay now is not recorded.
RebalancePosition(p) ==
  /\ pc[p] \in {"request.position", "exec.position"}
  /\ IF TreasuryLeft < RebalanceAmount[Mine(p)] THEN Finish(p)
     ELSE /\ Goto(p, IF pc[p] = "exec.position" THEN "exec.insert" ELSE "request.insert")
          /\ UNCHANGED loc
  /\ UNCHANGED <<chain, reb>> /\ CollectionsUnchanged

\* A unique violation leads to the row of the other call.
RebalanceInsert(p) ==
  /\ pc[p] \in {"request.insert", "exec.insert"}
  /\ reb' = IF reb[Mine(p)] # NoRebalance THEN reb
            ELSE [reb EXCEPT ![Mine(p)].status =
                    IF pc[p] = "exec.insert" THEN "approved" ELSE "requested"]
  /\ IF pc[p] = "request.insert" \/ reb'[Mine(p)].status = "confirmed"
       THEN Finish(p)
       ELSE Goto(p, AfterRequest(reb'[Mine(p)].status)) /\ UNCHANGED loc
  /\ UNCHANGED chain /\ CollectionsUnchanged

-----------------------------------------------------------------------------
\* Only a requested row is approved, but the UPDATE does not look at the status again.
approveTreasuryRebalance(p, r) ==
  /\ reb[r].status = "requested"
  /\ Start(p, r, "approve.update")
  /\ UNCHANGED <<chain, reb>> /\ CollectionsUnchanged

ExecApprove(p) ==
  /\ pc[p] = "exec.approve"
  /\ CASE reb[Mine(p)].status = "requested" -> Goto(p, "exec.update") /\ UNCHANGED loc
       [] reb[Mine(p)].status = "failed" -> Finish(p)
       [] OTHER -> Goto(p, "rebalance.load") /\ UNCHANGED loc
  /\ UNCHANGED <<chain, reb>> /\ CollectionsUnchanged

ApproveUpdate(p) ==
  /\ pc[p] \in {"approve.update", "exec.update"}
  /\ reb' = [reb EXCEPT ![Mine(p)].status = "approved"]
  /\ IF pc[p] = "approve.update" THEN Finish(p) ELSE Goto(p, "rebalance.load") /\ UNCHANGED loc
  /\ UNCHANGED chain /\ CollectionsUnchanged

-----------------------------------------------------------------------------
(* submitTreasuryRebalance.  No code writes the status 'submitted', so its branch for *)
(* such a row is never taken.                                                         *)

submitTreasuryRebalance(p, r) ==
  /\ reb[r] # NoRebalance
  /\ Start(p, r, "rebalance.load")
  /\ UNCHANGED <<chain, reb>> /\ CollectionsUnchanged

\* A confirmed row is returned as a duplicate; any other may be sent, approved or not,
\* failed or not, if the treasury can pay it.
RebalanceLoad(p) ==
  /\ pc[p] = "rebalance.load"
  /\ IF reb[Mine(p)].status = "confirmed" THEN Finish(p)
     ELSE Goto(p, "rebalance.observe") /\ UNCHANGED loc
  /\ UNCHANGED <<chain, reb>> /\ CollectionsUnchanged

RebalanceObserve(p) ==
  /\ pc[p] = "rebalance.observe"
  /\ IF TreasuryLeft < RebalanceAmount[Mine(p)] THEN Finish(p)
     ELSE Goto(p, "rebalance.submit") /\ UNCHANGED loc
  /\ UNCHANGED <<chain, reb>> /\ CollectionsUnchanged

RebalanceSubmit(p) ==
  /\ pc[p] = "rebalance.submit"
  /\ LET r == Mine(p) a == RebalanceAmount[Mine(p)]
     IN /\ Len(chain[r]) < MaxSends
        /\ \E o \in SubmitOutcomes :
             /\ o.name \in SubmitResults
             /\ o.state = "landed" => TreasuryLeft >= a
             /\ chain' = [chain EXCEPT ![r] = submitUsdcPayment(@, a, o.state, Used)]
             /\ Goto(p, IF o.reply = "error" THEN "rebalance.failed" ELSE "rebalance.verify")
        /\ loc' = [loc EXCEPT ![p].hash = Len(chain[r]) + 1]
  /\ UNCHANGED reb /\ CollectionsUnchanged

\* Mutant: a transaction nobody has seen yet counts as confirmed.
RebalanceVerifyTrusting(p) ==
  /\ pc[p] = "rebalance.verify"
  /\ \E answer \in verifyUsdcPayment(chain[Mine(p)], loc[p].hash) :
       Goto(p, IF answer # "FAILED" THEN "rebalance.confirmed" ELSE "rebalance.unseen")
  /\ UNCHANGED <<chain, reb, loc>> /\ CollectionsUnchanged

\* The hash is looked up whatever the submission answered; the lookup, or the UPDATE
\* after it, may throw.
RebalanceVerify(p) ==
  /\ pc[p] = "rebalance.verify"
  /\ \/ \E answer \in verifyUsdcPayment(chain[Mine(p)], loc[p].hash) :
          Goto(p, IF answer = "SUCCESS" THEN "rebalance.confirmed" ELSE "rebalance.unseen")
     \/ Goto(p, "rebalance.failed")
  /\ UNCHANGED <<chain, reb, loc>> /\ CollectionsUnchanged

\* Either UPDATE names the transaction of this call; neither looks at the status.
RebalanceEnd(p) ==
  /\ pc[p] \in {"rebalance.confirmed", "rebalance.unseen"}
  /\ reb' = [reb EXCEPT ![Mine(p)] =
               [status |-> IF pc[p] = "rebalance.confirmed" THEN "confirmed" ELSE "failed",
                ref |-> loc[p].hash]]
  /\ Finish(p)
  /\ UNCHANGED chain /\ CollectionsUnchanged

\* The catch block: WHERE status NOT IN ('confirmed').
RebalanceFailed(p) ==
  /\ pc[p] = "rebalance.failed"
  /\ reb' = [reb EXCEPT ![Mine(p)].status = IF @ = "confirmed" THEN @ ELSE "failed"]
  /\ Finish(p)
  /\ UNCHANGED chain /\ CollectionsUnchanged

-----------------------------------------------------------------------------
RebalanceCall(p, r) ==
  \/ requestTreasuryRebalance(p, r) \/ executeTreasuryRebalance(p, r)
  \/ approveTreasuryRebalance(p, r) \/ submitTreasuryRebalance(p, r)

RebalanceStep(p) ==
  \/ RebalancePosition(p) \/ RebalanceInsert(p) \/ ExecApprove(p) \/ ApproveUpdate(p)
  \/ RebalanceLoad(p) \/ RebalanceObserve(p) \/ RebalanceSubmit(p) \/ RebalanceVerify(p)
  \/ RebalanceEnd(p) \/ RebalanceFailed(p)

\* A crash of any handler is InfraCollection's.
TreasuryNext ==
  \/ Next /\ UNCHANGED reb
  \/ \E p \in Procs, r \in Rebalances : RebalanceCall(p, r)
  \/ \E p \in Procs : RebalanceStep(p)

TreasurySpec == TreasuryInit /\ [][TreasuryNext]_treasuryVars

-----------------------------------------------------------------------------
\* A rebalance that says "confirmed" names a transaction that landed, however calls
\* that approve, send and give it up overlap.
ConfirmedRebalanceLanded ==
  \A r \in Rebalances : reb[r].status = "confirmed" => reb[r].ref \in Landed(chain[r])
=============================================================================
