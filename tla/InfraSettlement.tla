--------------------------- MODULE InfraSettlement ---------------------------
(***************************************************************************)
(* Crypto payouts settled on Stellar: settlePayoutOnStellar,               *)
(* confirmAndFinalize and confirmStellarSettlement                         *)
(* (src/modules/infra/infraSettlementService.ts), composed with the payout *)
(* module that creates and locks the payouts and with the Stellar adapter. *)
(***************************************************************************)
EXTENDS InfraPayout, StellarAdapter

CONSTANTS
  Outcomes,    \* names of the outcomes a submission may have
  MaxSends     \* bound: submissions per payout

VARIABLES
  stl,     \* payout -> its infra_settlements row (key stellar:payout:{id})
  chain,   \* payout -> the payments submitted for it
  st,      \* process -> the copy of the settlement row it read
  hash     \* process -> the transaction it submitted or verifies

stellarVars == <<stl, chain, st, hash>>
allVars == <<ledger, tx, pc, cur, row, amt, cont, order, stl, chain, st, hash>>

NoSettlement == [status |-> "none", ref |-> 0]

StellarInit ==
  /\ Init
  /\ stl = [t \in Payouts |-> NoSettlement]
  /\ chain = [t \in Payouts |-> <<>>]
  /\ st = [p \in Procs |-> NoSettlement]
  /\ hash = [p \in Procs |-> 0]

-----------------------------------------------------------------------------
\* The handler ends and forgets its locals, those of this module too.
End(p) ==
  /\ Finish(p)
  /\ st' = [st EXCEPT ![p] = NoSettlement]
  /\ hash' = [hash EXCEPT ![p] = 0]

\* Calls finalizePayoutDebit or releasePayoutLock; nothing of ours is needed after it.
Hand(p, fn) ==
  /\ Call(p, cur[p], fn, Idle)
  /\ st' = [st EXCEPT ![p] = NoSettlement]
  /\ hash' = [hash EXCEPT ![p] = 0]
  /\ UNCHANGED <<row, amt>>

\* Transactions of the signing account that have landed.
Used == MapThenSumSet(LAMBDA t : Cardinality(Landed(chain[t])), Payouts)

Continue(p, label) == Goto(p, label) /\ UNCHANGED <<cur, row, amt, cont>>

\* A payout that was locked once counts as locked: ledgerLockId is never cleared.
IsLocked(r) ==
  r.ledgerLockId \/ r.fundsLocked \/ (r.usdc > 0 /\ ~r.fundsReleased /\ ~r.fundsFinalized)

\* settlePayoutOnStellar up to the look-up of the settlement row.
settlePayoutOnStellar(p, t) ==
  /\ pc[p] = "idle" /\ t \notin Banked
  /\ tx[t] # NoTx /\ IsLocked(tx[t]) /\ ~tx[t].fundsFinalized
  /\ Call(p, t, "stl.find", Idle)
  /\ amt' = [amt EXCEPT ![p] = tx[t].usdc]
  /\ UNCHANGED <<ledger, tx, row, order, stellarVars>>

StlFind(p) ==
  /\ pc[p] = "stl.find"
  /\ LET s == stl[cur[p]]
     IN IF s.status = "confirmed" THEN End(p)
        ELSE /\ st' = [st EXCEPT ![p] = s]
             /\ Continue(p, IF s.status = "submitted" /\ s.ref # 0 THEN "stl.recheck"
                            ELSE "stl.insert")
             /\ UNCHANGED hash
  /\ UNCHANGED <<ledger, tx, order, stl, chain>>

\* Mutant: a row left 'submitted' is taken for confirmed.
StlRecheckTrusting(p) ==
  /\ pc[p] = "stl.recheck"
  /\ Continue(p, "stl.confirm")
  /\ hash' = [hash EXCEPT ![p] = st[p].ref]
  /\ UNCHANGED <<ledger, tx, order, stl, chain, st>>

\* A row left 'submitted': confirmed now, or submitted again.
StlRecheck(p) ==
  /\ pc[p] = "stl.recheck"
  /\ \E answer \in verifyUsdcPayment(chain[cur[p]], st[p].ref) :
       IF answer = "SUCCESS"
         THEN Continue(p, "stl.confirm") /\ hash' = [hash EXCEPT ![p] = st[p].ref]
         ELSE Continue(p, "stl.insert") /\ UNCHANGED hash
  /\ UNCHANGED <<ledger, tx, order, stl, chain, st>>

\* INSERT when there was no row: throws if another call has inserted it.
StlInsert(p) ==
  /\ pc[p] = "stl.insert"
  /\ \/ /\ st[p] # NoSettlement
        /\ Continue(p, "stl.submit")
        /\ UNCHANGED <<stl, st, hash>>
     \/ /\ st[p] = NoSettlement /\ stl[cur[p]] = NoSettlement
        /\ stl' = [stl EXCEPT ![cur[p]].status = "pending"]
        /\ Continue(p, "stl.submit")
        /\ UNCHANGED <<st, hash>>
     \/ /\ st[p] = NoSettlement /\ stl[cur[p]] # NoSettlement
        /\ End(p)
        /\ UNCHANGED stl
  /\ UNCHANGED <<ledger, tx, order, chain>>

StlSubmit(p) ==
  /\ pc[p] = "stl.submit"
  /\ Len(chain[cur[p]]) < MaxSends
  /\ \E o \in SubmitOutcomes :
       /\ o.name \in Outcomes
       /\ chain' = [chain EXCEPT ![cur[p]] = submitUsdcPayment(@, amt[p], o.state, Used)]
       /\ Continue(p, CASE o.reply = "error"     -> "stl.failed"
                        [] o.reply = "submitted" -> "stl.submitted"
                        [] o.reply = "confirmed" -> "stl.landed")
       /\ hash' = [hash EXCEPT ![p] = Len(chain[cur[p]]) + 1]
  /\ UNCHANGED <<ledger, tx, order, stl, st>>

\* The catch block, and an on-chain failure: settlement failed, lock released.
StlFailed(p) ==
  /\ pc[p] = "stl.failed"
  /\ stl' = [stl EXCEPT ![cur[p]].status = "failed"]
  /\ Hand(p, "rel.load")
  /\ UNCHANGED <<ledger, tx, order, chain>>

StlSubmitted(p) ==
  /\ pc[p] \in {"stl.submitted", "stl.landed"}
  /\ stl' = [stl EXCEPT ![cur[p]] = [status |-> "submitted", ref |-> hash[p]]]
  /\ Continue(p, IF pc[p] = "stl.landed" THEN "stl.confirm" ELSE "stl.verify")
  /\ UNCHANGED <<ledger, tx, order, chain, st, hash>>

\* Mutant: an unknown transaction counts as confirmed.
StlVerifyTrusting(p) ==
  /\ pc[p] = "stl.verify"
  /\ \E answer \in verifyUsdcPayment(chain[cur[p]], hash[p]) :
       Continue(p, IF answer = "FAILED" THEN "stl.failed" ELSE "stl.confirm")
  /\ UNCHANGED <<ledger, tx, order, stl, chain, st, hash>>

StlVerify(p) ==
  /\ pc[p] = "stl.verify"
  /\ \E answer \in verifyUsdcPayment(chain[cur[p]], hash[p]) :
       \/ answer = "SUCCESS" /\ Continue(p, "stl.confirm") /\ UNCHANGED <<st, hash>>
       \/ answer = "FAILED" /\ Continue(p, "stl.failed") /\ UNCHANGED <<st, hash>>
       \/ answer = "NOT_FOUND" /\ End(p)
  /\ UNCHANGED <<ledger, tx, order, stl, chain>>

\* confirmAndFinalize: the settlement first, the ledger after it.
confirmAndFinalize(p) ==
  /\ pc[p] = "stl.confirm"
  /\ stl' = [stl EXCEPT ![cur[p]] = [status |-> "confirmed", ref |-> hash[p]]]
  /\ Hand(p, "fin.load")
  /\ UNCHANGED <<ledger, tx, order, chain>>

confirmStellarSettlement(p, t) ==
  /\ pc[p] = "idle"
  /\ stl[t].status \notin {"none", "confirmed"} /\ stl[t].ref # 0
  /\ Call(p, t, "stl.verify", Idle)
  /\ hash' = [hash EXCEPT ![p] = stl[t].ref]
  /\ UNCHANGED <<ledger, tx, row, amt, order, stl, chain, st>>

NetworkResolves(t, i) ==
  /\ chain[t][i].state = "sent"
  /\ \E ch \in Resolutions(chain[t], i, Used) : chain' = [chain EXCEPT ![t] = ch]
  /\ UNCHANGED <<vars, stl, st, hash>>

StellarStep(p) ==
  \/ StlFind(p) \/ StlRecheck(p) \/ StlInsert(p) \/ StlSubmit(p) \/ StlFailed(p)
  \/ StlSubmitted(p) \/ StlVerify(p) \/ confirmAndFinalize(p)

\* The payout module's steps.  finalizePayoutDebit or releasePayoutLock may throw:
\* the call ends there, and what it wrote to the settlement row stays.
PayoutStep ==
  \/ \E p \in Procs, t \in Payouts : CreateFind(p, t) /\ UNCHANGED stellarVars
  \/ \E p \in Procs : Step(p) /\ UNCHANGED stellarVars
  \/ \E p \in Procs : Throw(p) /\ UNCHANGED <<order, stellarVars>>
  \/ \E p \in Procs, t \in Payouts : simulateSettlement(p, t) /\ UNCHANGED stellarVars

\* The server stops, or an await of this module throws.
StellarCrash(p) ==
  /\ pc[p] # "idle"
  /\ End(p)
  /\ UNCHANGED <<ledger, tx, order, stl, chain>>

StellarNext ==
  \/ PayoutStep
  \/ \E p \in Procs : StellarStep(p)
  \/ \E p \in Procs, t \in Payouts : settlePayoutOnStellar(p, t)
  \/ \E p \in Procs, t \in Payouts : confirmStellarSettlement(p, t)
  \/ \E t \in Payouts : \E i \in 1..Len(chain[t]) : NetworkResolves(t, i)
  \/ \E p \in Procs : StellarCrash(p)

StellarSpec == StellarInit /\ [][StellarNext]_allVars

-----------------------------------------------------------------------------
\* A settlement that says "confirmed" names a payment that landed.
ConfirmedIsLanded ==
  \A t \in Payouts : stl[t].status = "confirmed" => stl[t].ref \in Landed(chain[t])

\* A payout is paid on chain at most once.
SentOnce == \A t \in Payouts : Cardinality(Landed(chain[t])) <= 1
=============================================================================
