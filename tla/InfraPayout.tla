----------------------------- MODULE InfraPayout -----------------------------
(***************************************************************************)
(* Send: createPayout and simulateSettlement (infraMoneyService.ts) and    *)
(* the payout half of applyInfraYellowCardWebhook                          *)
(* (infraLifecycleService.ts), with the provider, Yellow Card, that takes  *)
(* payment orders and reports their outcome by webhook.                    *)
(*                                                                         *)
(* A payout row is identified by the client's Idempotency-Key, which is    *)
(* unique per organisation and environment.  Every createPayout call draws *)
(* its own sequenceId, the id of the order it places with the provider and *)
(* the external_id of the row if this call inserts it: the sequenceId is   *)
(* the process that runs the call.  The fiat off-ramp mode is off.  Crypto *)
(* and Dayfi-tag payouts are created and locked in the same way and left   *)
(* to another service (InfraSettlement): they are payouts outside Banked.  *)
(***************************************************************************)
EXTENDS InfraLifecycle

CONSTANTS
  Live,           \* payouts of the LIVE environment; the others are TEST payouts
  Banked,         \* bank and momo payouts; the others go to a crypto address or a Dayfi tag
  Unconfigured,   \* LIVE payouts asked for while Yellow Card is not configured
  Creators,       \* payout -> processes that may run createPayout for it
  SubmitResults   \* what createPaymentRequest may come back with

ASSUME PayoutAssumption ==
  /\ Live \cup Banked \subseteq Payouts /\ Unconfigured \subseteq Live \cap Banked
  /\ SubmitResults \subseteq {"accepted", "refused", "timeout"}

ViaProvider == Live \cap Banked

VARIABLE order    \* payout -> process (sequenceId) -> state of the order at the provider

vars == <<ledger, tx, pc, cur, row, amt, cont, order>>

Init ==
  /\ LifeInit
  /\ order = [t \in Payouts |-> [p \in Procs |-> "none"]]

-----------------------------------------------------------------------------
(* createPayout *)

\* findIdempotentTx: an existing row is a replay, returned without effect; the
\* same call fails when the parameters differ.  Only a miss goes on.
CreateFind(p, t) ==
  /\ pc[p] = "idle" /\ p \in Creators[t]
  /\ tx[t] = NoTx
  /\ Call(p, t, "insert", [ok |-> IF t \in ViaProvider THEN "submit" ELSE "idle",
                           err |-> "lock.failed"])
  /\ UNCHANGED <<ledger, tx, row, amt, order>>

InitialStatus(t) ==
  IF t \in Unconfigured THEN "failed" ELSE IF t \in Live THEN "pending" ELSE "processing"

\* insertTx: on a unique violation the caller goes on with the row of the other call.
InsertTx(p) ==
  /\ pc[p] = "insert"
  /\ tx' = IF tx[cur[p]] = NoTx
             THEN [tx EXCEPT ![cur[p]] = [NoTx EXCEPT !.status = InitialStatus(cur[p]),
                                                      !.ext = p]]
             ELSE tx
  /\ IF cur[p] \in Unconfigured
       THEN Finish(p)     \* the row was recorded as failed, the call throws
       ELSE Goto(p, "lock.load") /\ UNCHANGED <<cur, row, amt, cont>>
  /\ UNCHANGED <<ledger, order>>

\* The catch block of lockFundsForPayout.
LockFailed(p) ==
  /\ pc[p] = "lock.failed"
  /\ tx' = [tx EXCEPT ![cur[p]].status = "failed"]
  /\ Finish(p)
  /\ UNCHANGED <<ledger, order>>

\* createPaymentRequest.  "refused": the channel lookup or the request failed.
\* "timeout": the provider took the order but the call, or the UPDATE after it,
\* failed here; the catch block does not tell the two apart.
Submit(p) ==
  /\ pc[p] = "submit"
  /\ \E result \in SubmitResults :
       /\ order' = IF result = "refused" THEN order
                   ELSE [order EXCEPT ![cur[p]][p] = "open"]
       /\ IF result = "accepted"
            THEN Goto(p, "submitted") /\ UNCHANGED cont
            ELSE Goto(p, "rel.load") /\ cont' = [cont EXCEPT ![p] = Idle]
  /\ UNCHANGED <<ledger, tx, cur, row, amt>>

\* UPDATE ... SET status = 'processing', whatever the status is by now.
Submitted(p) ==
  /\ pc[p] = "submitted"
  /\ tx' = [tx EXCEPT ![cur[p]].status = "processing"]
  /\ Finish(p)
  /\ UNCHANGED <<ledger, order>>

-----------------------------------------------------------------------------
(* The provider and its webhooks. *)

ProviderEnds(t, p, outcome) ==
  /\ order[t][p] = "open"
  /\ order' = [order EXCEPT ![t][p] = outcome]
  /\ UNCHANGED lifeVars

\* The webhook finds the row by external_id.  Webhooks of an ended order may
\* come late and any number of times.
Notified(t) == tx[t].ext # NoOne /\ order[t][tx[t].ext] \in {"paid", "failed"}

\* Mutant: every end of an order is taken for a success.
SuccessWebhookAny(p, t) ==
  /\ pc[p] = "idle" /\ Notified(t) /\ ~tx[t].fundsReleased
  /\ Call(p, t, "fin.load", Idle)
  /\ UNCHANGED <<ledger, tx, row, amt, order>>

\* Mutant: a payout that has left 'pending' is not looked at.
SuccessWebhookPending(p, t) ==
  /\ pc[p] = "idle" /\ Notified(t) /\ order[t][tx[t].ext] = "paid"
  /\ tx[t].status = "pending"
  /\ Call(p, t, "fin.load", Idle)
  /\ UNCHANGED <<ledger, tx, row, amt, order>>

SuccessWebhook(p, t) ==
  /\ pc[p] = "idle" /\ Notified(t) /\ order[t][tx[t].ext] = "paid"
  /\ ~tx[t].fundsReleased        \* else payout_already_released
  /\ Call(p, t, "fin.load", Idle)
  /\ UNCHANGED <<ledger, tx, row, amt, order>>

FailureWebhook(p, t) ==
  /\ pc[p] = "idle" /\ Notified(t) /\ order[t][tx[t].ext] = "failed"
  /\ ~tx[t].fundsFinalized       \* else payout_already_finalized
  /\ Call(p, t, "rel.load", Idle)
  /\ UNCHANGED <<ledger, tx, row, amt, order>>

\* TEST only: settles a payout that has not failed.
simulateSettlement(p, t) ==
  /\ pc[p] = "idle" /\ t \notin Live
  /\ tx[t].status \notin {"none", "failed"}
  /\ Call(p, t, "fin.load", Idle)
  /\ UNCHANGED <<ledger, tx, row, amt, order>>

-----------------------------------------------------------------------------
Step(p) ==
  \/ LifeStep(p) /\ UNCHANGED order
  \/ InsertTx(p) \/ LockFailed(p) \/ Submit(p) \/ Submitted(p)

Next ==
  \/ \E p \in Procs, t \in Payouts : CreateFind(p, t)
  \/ \E p \in Procs : Step(p)
  \/ \E p \in Procs : (Throw(p) \/ Crash(p)) /\ UNCHANGED order
  \/ \E t \in Payouts, p \in Procs, o \in {"paid", "failed"} : ProviderEnds(t, p, o)
  \/ \E p \in Procs, t \in Payouts : SuccessWebhook(p, t)
  \/ \E p \in Procs, t \in Payouts : FailureWebhook(p, t)
  \/ \E p \in Procs, t \in Payouts : simulateSettlement(p, t)

Spec == Init /\ [][Next]_vars

\* What goes on without failures on our side, for liveness: a handler that was started runs on,
\* the provider ends every order and repeats a webhook until one was handled.
Webhook(p, t) == SuccessWebhook(p, t) \/ FailureWebhook(p, t)

Progress ==
  \/ \E p \in Procs : Step(p)
  \/ \E t \in Payouts, p \in Procs, o \in {"paid", "failed"} : ProviderEnds(t, p, o)

Fairness ==
  /\ \A p \in Procs : WF_vars(Step(p))
  /\ WF_vars(\E t \in Payouts, p \in Procs, o \in {"paid", "failed"} : ProviderEnds(t, p, o))
  /\ \A t \in ViaProvider : SF_vars(\E p \in Procs : Webhook(p, t))

-----------------------------------------------------------------------------
Orders(t, states) == {p \in Procs : order[t][p] \in states}

\* What became of a lock agrees with what the provider did with the orders: nothing is
\* ordered without a lock, money goes back to available only if the provider will not pay
\* it out, and a payout sent through the provider is debited for good only when the
\* provider has paid.
LockFollowsOrder ==
  /\ \A t \in Payouts : Orders(t, {"open"}) # {} => t \in InFlightPayouts
  /\ \A t \in Payouts : HasPosted(t, "release") => Orders(t, {"open", "paid"}) = {}
  /\ \A t \in ViaProvider : HasPosted(t, "finalize") => Orders(t, {"paid"}) # {}

\* Every order that the provider ends is accounted for: the lock is consumed
\* or returned in the end.
OrdersAreSettled ==
  \A t \in ViaProvider :
    /\ (Orders(t, {"paid"}) # {}) ~> HasPosted(t, "finalize")
    /\ (Orders(t, {"failed"}) # {}) ~> HasPosted(t, "release")
=============================================================================
