------------------------- MODULE InfraFiatWithdrawal -------------------------
(***************************************************************************)
(* Fiat withdrawal (off-ramp): settleFiatOfframp, its two legs             *)
(* settleStellarToTreasury and submitProviderPayout, and                   *)
(* retryFiatOfframpProvider (src/modules/infra/infraFiatWithdrawalService  *)
(* .ts); the off-ramp branches of createPayout (infraMoneyService.ts) and  *)
(* of the Yellow Card webhook (infraLifecycleService.ts).                  *)
(*                                                                         *)
(* The off-ramp is on: a bank or momo payout is created and locked, the    *)
(* organisation's USDC goes to the Dayfi treasury on Stellar, and only     *)
(* then the provider is asked to pay the bank.  The Stellar row is stl of  *)
(* InfraSettlement, whose external reference is saved before submission;   *)
(* crypto payouts and POST /settlements/:id/confirm are that module's.     *)
(***************************************************************************)
EXTENDS InfraSettlement

CONSTANTS
  Settlers,      \* processes that may run settleFiatOfframp or the retry
  LegOutcomes,   \* names of the outcomes the submission of the Stellar leg may have
  ConfirmCalls,  \* payouts whose Stellar row a client confirms with confirmStellarSettlement
  SafeStops      \* labels at which a handler may stop: a crash, or a throw nobody catches

VARIABLES
  meta,    \* payout -> the off-ramp part of its metadata
  prov,    \* payout -> status of its YELLOW_CARD settlement row
  pr       \* process -> the copy of that status it read

offVars == <<meta, prov, pr>>
everyVar == <<allVars, offVars>>

NoMeta == [offRamp |-> FALSE, stellarConfirmed |-> FALSE]

OfframpInit ==
  /\ StellarInit
  /\ meta = [t \in Payouts |-> NoMeta]
  /\ prov = [t \in Payouts |-> "none"]
  /\ pr = [p \in Procs |-> "none"]

Quit(p) == End(p) /\ pr' = [pr EXCEPT ![p] = "none"]

\* Calls a lifecycle function; afterwards the handler goes on at ok, or ends.
HandOver(p, fn, ok) ==
  /\ Call(p, cur[p], fn, [ok |-> ok, err |-> "idle"])
  /\ st' = [st EXCEPT ![p] = NoSettlement]
  /\ hash' = [hash EXCEPT ![p] = 0]
  /\ pr' = [pr EXCEPT ![p] = "none"]
  /\ UNCHANGED <<row, amt>>

Onward(p, label) == Continue(p, label) /\ UNCHANGED <<st, hash, pr>>

-----------------------------------------------------------------------------
(* createPayout with the off-ramp on: locked, marked, and left to settle calls. *)

OfframpCreate(p, t) ==
  /\ pc[p] = "idle" /\ p \in Creators[t] /\ t \in Banked
  /\ tx[t] = NoTx
  /\ Call(p, t, "insert", [ok |-> "off.mark", err |-> "lock.failed"])
  /\ UNCHANGED <<ledger, tx, row, amt, order, stellarVars, offVars>>

OfframpMark(p) ==
  /\ pc[p] = "off.mark"
  /\ meta' = [meta EXCEPT ![cur[p]].offRamp = TRUE]
  /\ Finish(p)
  /\ UNCHANGED <<ledger, tx, order, stellarVars, prov, pr>>

-----------------------------------------------------------------------------
(* settleFiatOfframp and retryFiatOfframpProvider *)

\* A payout that was locked once counts as locked, also after a release.
OfframpLocked(r) == r.ledgerLockId \/ r.fundsLocked \/ (r.usdc > 0 /\ ~r.fundsReleased)

settleFiatOfframp(p, t) ==
  /\ pc[p] = "idle" /\ p \in Settlers /\ t \in Banked
  /\ OfframpLocked(tx[t]) /\ ~tx[t].fundsFinalized /\ tx[t].status # "settled"
  /\ Call(p, t, "off.rail", Idle)
  /\ amt' = [amt EXCEPT ![p] = tx[t].usdc]
  /\ UNCHANGED <<ledger, tx, row, order, stellarVars, offVars>>

\* A provider row that failed is set back to 'pending' before settleFiatOfframp runs.
retryFiatOfframpProvider(p, t) ==
  /\ pc[p] = "idle" /\ p \in Settlers /\ t \in Banked
  /\ meta[t].stellarConfirmed /\ ~tx[t].fundsFinalized
  /\ prov' = [prov EXCEPT ![t] = IF @ = "failed" THEN "pending" ELSE @]
  /\ Call(p, t, "off.rail", Idle)
  /\ amt' = [amt EXCEPT ![p] = tx[t].usdc]
  /\ UNCHANGED <<ledger, tx, row, order, stellarVars, meta, pr>>

\* loadSettlementByRail: the Stellar leg is skipped once its row says "confirmed".
OffRail(p) ==
  /\ pc[p] = "off.rail"
  /\ IF stl[cur[p]].status = "confirmed"
       THEN Continue(p, "prov.find") /\ UNCHANGED st
       ELSE Continue(p, "leg.insert") /\ st' = [st EXCEPT ![p] = stl[cur[p]]]
  /\ UNCHANGED <<ledger, tx, order, stl, chain, hash, offVars>>

-----------------------------------------------------------------------------
(* settleStellarToTreasury *)

LegInsert(p) ==
  /\ pc[p] = "leg.insert"
  /\ IF st[p] = NoSettlement /\ stl[cur[p]] # NoSettlement
       THEN Quit(p) /\ UNCHANGED stl        \* unique violation: the call throws
       ELSE /\ stl' = IF st[p] = NoSettlement THEN [stl EXCEPT ![cur[p]].status = "pending"]
                      ELSE stl
            /\ Onward(p, "leg.mark")
  /\ UNCHANGED <<ledger, tx, order, chain, meta, prov>>

LegMark(p) ==
  /\ pc[p] = "leg.mark"
  /\ meta' = [meta EXCEPT ![cur[p]].offRamp = TRUE]
  /\ Onward(p, "leg.prepare")
  /\ UNCHANGED <<ledger, tx, order, stl, chain, prov>>

\* Mutant: every call signs an envelope of its own.
LegPrepareAgain(p) ==
  /\ pc[p] = "leg.prepare"
  /\ Len(chain[cur[p]]) < MaxSends
  /\ chain' = [chain EXCEPT ![cur[p]] = prepareSponsoredUsdcPayment(@, amt[p], Used)]
  /\ hash' = [hash EXCEPT ![p] = Len(chain[cur[p]]) + 1]
  /\ Continue(p, "leg.save")
  /\ UNCHANGED <<ledger, tx, order, stl, st, offVars>>

\* The envelope saved by an earlier call is used again, else one is signed.
LegPrepare(p) ==
  /\ pc[p] = "leg.prepare"
  /\ IF st[p].ref # 0
       THEN /\ hash' = [hash EXCEPT ![p] = st[p].ref]
            /\ Continue(p, "leg.submit")
            /\ UNCHANGED chain
       ELSE /\ Len(chain[cur[p]]) < MaxSends
            /\ chain' = [chain EXCEPT ![cur[p]] = prepareSponsoredUsdcPayment(@, amt[p], Used)]
            /\ hash' = [hash EXCEPT ![p] = Len(chain[cur[p]]) + 1]
            /\ Continue(p, "leg.save")
  /\ UNCHANGED <<ledger, tx, order, stl, st, offVars>>

LegSave(p) ==
  /\ pc[p] = "leg.save"
  /\ stl' = [stl EXCEPT ![cur[p]].ref = hash[p]]
  /\ Onward(p, "leg.submit")
  /\ UNCHANGED <<ledger, tx, order, chain, meta, prov>>

LegSubmit(p) ==
  /\ pc[p] = "leg.submit"
  /\ \E r \in submitPreparedSponsoredPayment(chain[cur[p]], hash[p], Used, LegOutcomes) :
       /\ chain' = [chain EXCEPT ![cur[p]] = r.chain]
       /\ Onward(p, CASE r.reply = "error"     -> "leg.failed"
                      [] r.reply = "submitted" -> "leg.submitted"
                      [] r.reply = "confirmed" -> "leg.landed")
  /\ UNCHANGED <<ledger, tx, order, stl, meta, prov>>

\* The catch block, and an on-chain failure: settlement failed, then the lock is released.
LegFailed(p) ==
  /\ pc[p] = "leg.failed"
  /\ stl' = [stl EXCEPT ![cur[p]].status = "failed"]
  /\ HandOver(p, "rel.load", "idle")
  /\ UNCHANGED <<ledger, tx, order, chain, meta, prov>>

LegSubmitted(p) ==
  /\ pc[p] \in {"leg.submitted", "leg.landed"}
  /\ stl' = [stl EXCEPT ![cur[p]] = [status |-> "submitted", ref |-> hash[p]]]
  /\ Onward(p, IF pc[p] = "leg.landed" THEN "leg.confirm" ELSE "leg.verify")
  /\ UNCHANGED <<ledger, tx, order, chain, meta, prov>>

\* Mutant: a transaction nobody has seen yet counts as received.
LegVerifyTrusting(p) ==
  /\ pc[p] = "leg.verify"
  /\ \E answer \in verifyUsdcPayment(chain[cur[p]], hash[p]) :
       Onward(p, IF answer = "FAILED" THEN "leg.failed" ELSE "leg.confirm")
  /\ UNCHANGED <<ledger, tx, order, stl, chain, meta, prov>>

\* NOT_CONFIRMED throws and leaves the row 'submitted' for the next call.
\* assertHorizonPayment follows; what it refuses ends the call here.
LegVerify(p) ==
  /\ pc[p] = "leg.verify"
  /\ \E answer \in verifyUsdcPayment(chain[cur[p]], hash[p]) :
       \/ answer = "SUCCESS" /\ Onward(p, "leg.confirm")
       \/ answer = "FAILED" /\ Onward(p, "leg.failed")
       \/ answer = "NOT_FOUND" /\ Quit(p)
  /\ UNCHANGED <<ledger, tx, order, stl, chain, meta, prov>>

LegConfirm(p) ==
  /\ pc[p] = "leg.confirm"
  /\ stl' = [stl EXCEPT ![cur[p]].status = "confirmed"]
  /\ Onward(p, "leg.patch")
  /\ UNCHANGED <<ledger, tx, order, chain, meta, prov>>

\* patchPayoutMeta: the metadata learns of the receipt after the settlement row.
LegPatch(p) ==
  /\ pc[p] = "leg.patch"
  /\ meta' = [meta EXCEPT ![cur[p]].stellarConfirmed = TRUE]
  /\ Onward(p, "prov.find")
  /\ UNCHANGED <<ledger, tx, order, stl, chain, prov>>

-----------------------------------------------------------------------------
(* submitProviderPayout; the sequenceId is that of the createPayout call that  *)
(* inserted the row.                                                           *)

SequenceId(t) == tx[t].ext

ProvFind(p) ==
  /\ pc[p] = "prov.find"
  /\ IF prov[cur[p]] = "confirmed"
       THEN Quit(p)
       ELSE /\ Continue(p, "prov.insert")
            /\ pr' = [pr EXCEPT ![p] = prov[cur[p]]]
            /\ UNCHANGED <<st, hash>>
  /\ UNCHANGED <<ledger, tx, order, stl, chain, meta, prov>>

ProvInsert(p) ==
  /\ pc[p] = "prov.insert"
  /\ IF pr[p] = "none" /\ prov[cur[p]] # "none"
       THEN Quit(p) /\ UNCHANGED prov
       ELSE /\ prov' = IF pr[p] = "none" THEN [prov EXCEPT ![cur[p]] = "pending"] ELSE prov
            /\ Onward(p, IF cur[p] \in Live THEN "prov.submit" ELSE "prov.submitted")
  /\ UNCHANGED <<ledger, tx, order, stl, chain, meta>>

\* An order with this sequenceId is looked up first.  A look-up or a request that
\* throws leads to a request (again), whose answer stands.  The provider keeps
\* one order per sequenceId.
ProviderReplies(o) ==
  {[order |-> o, label |-> "prov.failed"]}      \* no channel, or everything threw
    \cup (IF o = "none" THEN IF "accepted" \in SubmitResults
                               THEN {[order |-> "open", label |-> "prov.submitted"]} ELSE {}
          ELSE {[order |-> o, label |-> "prov.submitted"]})
    \cup (IF o = "none" /\ "timeout" \in SubmitResults
            THEN {[order |-> "open", label |-> "prov.failed"]} ELSE {})

ProvSubmit(p) ==
  /\ pc[p] = "prov.submit"
  /\ LET seq == SequenceId(cur[p])
     IN \E r \in ProviderReplies(order[cur[p]][seq]) :
          /\ order' = [order EXCEPT ![cur[p]][seq] = r.order]
          /\ Onward(p, r.label)
  /\ UNCHANGED <<ledger, tx, stl, chain, meta, prov>>

\* PROVIDER_FAILED: the row fails, the payout waits for a retry.
ProvFailed(p) ==
  /\ pc[p] = "prov.failed"
  /\ prov' = [prov EXCEPT ![cur[p]] = "failed"]
  /\ Onward(p, "prov.await")
  /\ UNCHANGED <<ledger, tx, order, stl, chain, meta>>

ProvAwaitRetry(p) ==
  /\ pc[p] = "prov.await"
  /\ tx' = [tx EXCEPT ![cur[p]].status = "processing"]
  /\ Quit(p)
  /\ UNCHANGED <<ledger, order, stl, chain, meta, prov>>

\* Mutant: a LIVE order counts as paid once it was accepted.
ProvSubmittedPays(p) ==
  /\ pc[p] = "prov.submitted"
  /\ prov' = [prov EXCEPT ![cur[p]] = "submitted"]
  /\ Onward(p, "prov.confirm")
  /\ UNCHANGED <<ledger, tx, order, stl, chain, meta>>

ProvSubmitted(p) ==
  /\ pc[p] = "prov.submitted"
  /\ prov' = [prov EXCEPT ![cur[p]] = "submitted"]
  /\ IF cur[p] \in Live THEN Quit(p) ELSE Onward(p, "prov.confirm")
  /\ UNCHANGED <<ledger, tx, order, stl, chain, meta>>

\* TEST payouts: confirmed and finalized at once, there is no bank behind them.
ProvConfirm(p) ==
  /\ pc[p] = "prov.confirm"
  /\ prov' = [prov EXCEPT ![cur[p]] = "confirmed"]
  /\ HandOver(p, "fin.load", "idle")
  /\ UNCHANGED <<ledger, tx, order, stl, chain, meta>>

-----------------------------------------------------------------------------
(* The payout half of applyInfraYellowCardWebhook, off-ramp branches included. *)

\* A success is left unhandled until the metadata says that Stellar was confirmed.
OfframpSuccess(p, t) ==
  /\ pc[p] = "idle" /\ Notified(t) /\ order[t][tx[t].ext] = "paid"
  /\ ~tx[t].fundsReleased
  /\ meta[t].offRamp => meta[t].stellarConfirmed
  /\ Call(p, t, "fin.load", [ok |-> IF meta[t].offRamp THEN "paid.prov" ELSE "idle",
                             err |-> "idle"])
  /\ UNCHANGED <<ledger, tx, row, amt, order, stellarVars, offVars>>

PaidProv(p) ==
  /\ pc[p] = "paid.prov"
  /\ prov' = [prov EXCEPT ![cur[p]] = IF @ = "none" THEN @ ELSE "confirmed"]
  /\ Onward(p, "paid.patch")
  /\ UNCHANGED <<ledger, tx, order, stl, chain, meta>>

PaidPatch(p) ==
  /\ pc[p] = "paid.patch"
  /\ tx' = [tx EXCEPT ![cur[p]].status = "settled"]
  /\ Quit(p)
  /\ UNCHANGED <<ledger, order, stl, chain, meta, prov>>

\* Mutant: a provider failure always releases.
OfframpFailureReleases(p, t) ==
  /\ pc[p] = "idle" /\ Notified(t) /\ order[t][tx[t].ext] = "failed"
  /\ ~tx[t].fundsFinalized
  /\ Call(p, t, "rel.load", Idle)
  /\ UNCHANGED <<ledger, tx, row, amt, order, stellarVars, offVars>>

\* "after Stellar treasury receipt, Provider failure must not unlock Alice".
OfframpFailure(p, t) ==
  /\ pc[p] = "idle" /\ Notified(t) /\ order[t][tx[t].ext] = "failed"
  /\ ~tx[t].fundsFinalized
  /\ Call(p, t, IF meta[t].offRamp /\ meta[t].stellarConfirmed THEN "unpaid.patch"
                ELSE "rel.load", Idle)
  /\ UNCHANGED <<ledger, tx, row, amt, order, stellarVars, offVars>>

UnpaidPatch(p) ==
  /\ pc[p] = "unpaid.patch"
  /\ tx' = [tx EXCEPT ![cur[p]].status = "processing"]
  /\ Onward(p, "unpaid.prov")
  /\ UNCHANGED <<ledger, order, stl, chain, meta, prov>>

UnpaidProv(p) ==
  /\ pc[p] = "unpaid.prov"
  /\ prov' = [prov EXCEPT ![cur[p]] = IF @ \in {"pending", "submitted"} THEN "failed" ELSE @]
  /\ Quit(p)
  /\ UNCHANGED <<ledger, tx, order, stl, chain, meta>>

-----------------------------------------------------------------------------
OfframpStep(p) ==
  \/ OfframpMark(p) \/ OffRail(p)
  \/ LegInsert(p) \/ LegMark(p) \/ LegPrepare(p) \/ LegSave(p) \/ LegSubmit(p)
  \/ LegFailed(p) \/ LegSubmitted(p) \/ LegVerify(p) \/ LegConfirm(p) \/ LegPatch(p)
  \/ ProvFind(p) \/ ProvInsert(p) \/ ProvSubmit(p) \/ ProvFailed(p) \/ ProvAwaitRetry(p)
  \/ ProvSubmitted(p) \/ ProvConfirm(p)
  \/ PaidProv(p) \/ PaidPatch(p) \/ UnpaidPatch(p) \/ UnpaidProv(p)

\* Crypto payouts, and the confirmation of any Stellar row by its id.
SettlementStep ==
  \/ \E p \in Procs, t \in Payouts \ Banked : CreateFind(p, t) /\ UNCHANGED stellarVars
  \/ \E p \in Procs : StellarStep(p)
  \/ \E p \in Procs, t \in Payouts : settlePayoutOnStellar(p, t)
  \/ \E p \in Procs, t \in ConfirmCalls : confirmStellarSettlement(p, t)
  \/ \E t \in Payouts : \E i \in 1..Len(chain[t]) : NetworkResolves(t, i)

OfframpStop(p) ==
  /\ pc[p] \in SafeStops
  /\ Quit(p)
  /\ UNCHANGED <<ledger, tx, order, stl, chain, meta, prov>>

OfframpNext ==
  \/ \E p \in Procs, t \in Payouts : OfframpCreate(p, t)
  \/ \E p \in Procs : OfframpStep(p)
  \/ \E p \in Settlers, t \in Payouts : settleFiatOfframp(p, t)
  \/ \E p \in Settlers, t \in Payouts : retryFiatOfframpProvider(p, t)
  \/ \E p \in Procs, t \in Payouts : OfframpSuccess(p, t)
  \/ \E p \in Procs, t \in Payouts : OfframpFailure(p, t)
  \/ \E p \in Procs : Step(p) /\ UNCHANGED <<stellarVars, offVars>>
  \/ \E t \in Payouts, p \in Procs, o \in {"paid", "failed"} :
       ProviderEnds(t, p, o) /\ UNCHANGED <<stellarVars, offVars>>
  \/ SettlementStep /\ UNCHANGED offVars
  \/ \E p \in Procs : OfframpStop(p)

OfframpSpec == OfframpInit /\ [][OfframpNext]_everyVar

-----------------------------------------------------------------------------
Received(t) == Landed(chain[t]) # {}
Doubted(t) == Doubtful(chain[t])

\* "Provider failure after Stellar success does NOT unlock Alice": once the treasury has the
\* organisation's USDC, the lock is consumed by the payout or stays.  The catch block of the
\* submission returns it after any throw, and a saved envelope may land in a later call: of
\* a payout whose submission threw for less than a dead envelope nothing is said.
ReceiptKeepsLock ==
  \A t \in Banked : Received(t) /\ HasPosted(t, "release") => Doubted(t)

\* "... and does NOT pretend the bank was paid": a LIVE payout is debited only when its
\* USDC has landed, and a withdrawal only when the provider has paid the bank too.
DebitedIsDelivered ==
  \A t \in Live :
    HasPosted(t, "finalize") => Received(t) /\ (t \in Banked => Orders(t, {"paid"}) # {})

\* "lock, Alice's USDC to the treasury, confirm, Provider payout": the provider holds an
\* order only for a payout that was locked, was received and is marked as such, and whose
\* lock was not returned, unless by a throw as in ReceiptKeepsLock.
OrderAfterReceipt ==
  \A t \in Banked :
    Orders(t, {"open", "paid"}) # {} =>
      /\ Received(t) /\ meta[t].stellarConfirmed
      /\ HasPosted(t, "lock") /\ (HasPosted(t, "release") => Doubted(t))

\* "Persist the XDR, then submit the same envelope on retry": however often a withdrawal
\* is settled again, its USDC leaves the organisation's wallet once.
ReceivedOnce == \A t \in Banked : Cardinality(Landed(chain[t])) <= 1
=============================================================================
