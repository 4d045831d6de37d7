-------------------------- MODULE InfraStellarDeposit --------------------------
(***************************************************************************)
(* USDC paid into the organisations' Stellar wallets from outside:         *)
(* processExternalDepositByHash with creditVerifiedDeposit, and the poll   *)
(* of a wallet's payments that calls it (src/modules/infra/                *)
(* infraStellarDepositService.ts), on the ledger of the transfer modules.  *)
(*                                                                         *)
(* A payment on Stellar is identified by its transaction hash.  The poll   *)
(* sees every USDC payment to the wallet that another account made:        *)
(* deposits from outside, and the payments of on-chain transfers too.      *)
(***************************************************************************)
EXTENDS InfraOnchainTransfer

CONSTANTS
  Deposits,    \* payments from outside: [to, amount, id]
  Watched,     \* wallets whose payments are polled or reported by hash
  Watchers     \* processes that may process a payment

ASSUME DepositsAssumption ==
  /\ \A d \in Deposits : d.to \in Wallets
  /\ \A d, e \in Deposits : d.id = e.id => d = e

VARIABLES
  arrived,    \* the deposits that have landed on Stellar
  dep,        \* hash -> its infra_stellar_deposits row
  doc,        \* process -> the payment it processes
  drow        \* process -> the copy of the row it holds

depVars == <<arrived, dep, doc, drow>>
everyVar == <<walletVars, depVars>>

PaymentOf(q, i) == [to |-> q.to, amount |-> q.amount, id |-> <<"pay", q.from, q.key, i>>]

\* What Horizon lists for the wallets.
OnStellar ==
  arrived \cup UNION {{PaymentOf(q, i) : i \in Landed(pays[q])} : q \in OnchainRequests}

Payments == Deposits \cup {PaymentOf(q, i) : q \in OnchainRequests, i \in 1..MaxSends}

Hashes == {d.id : d \in Payments}

NoDeposit == [status |-> "none", tx |-> FALSE]

DepositInit ==
  /\ OnchainInit
  /\ arrived = {}
  /\ dep = [h \in Hashes |-> NoDeposit]
  /\ doc = [p \in Procs |-> NoRequest]
  /\ drow = [p \in Procs |-> NoDeposit]

-----------------------------------------------------------------------------
OthersUnchanged == UNCHANGED <<transfers, fees, req, onVars, arrived>>

Arrives(d) ==
  /\ d \notin arrived
  /\ arrived' = arrived \cup {d}
  /\ UNCHANGED <<walletVars, dep, doc, drow>>

DepStop(p) ==
  /\ Goto(p, "idle")
  /\ doc' = [doc EXCEPT ![p] = NoRequest]
  /\ drow' = [drow EXCEPT ![p] = NoDeposit]

DepOnward(p, label) == Goto(p, label) /\ UNCHANGED <<doc, drow>>

\* verifyExternalUsdcDeposit found the payment; a confirmed row ends the call, and so
\* does a wallet that is not active.
processDeposit(p, d) ==
  /\ pc[p] = "idle" /\ p \in Watchers /\ d.to \in Watched
  /\ dep[d.id].status # "confirmed"
  /\ doc' = [doc EXCEPT ![p] = d]
  /\ drow' = [drow EXCEPT ![p] = dep[d.id]]
  /\ Goto(p, "dep.insert")
  /\ UNCHANGED <<ledger, dep>> /\ OthersUnchanged

\* INSERT, or after a unique violation the row of the other call.
DepInsert(p) ==
  /\ pc[p] = "dep.insert"
  /\ LET h == doc[p].id
         inserted == [NoDeposit EXCEPT !.status = "verified"]
     IN IF drow[p] = NoDeposit
          THEN /\ dep' = IF dep[h] = NoDeposit THEN [dep EXCEPT ![h] = inserted] ELSE dep
               /\ drow' = [drow EXCEPT ![p] = dep'[h]]
          ELSE UNCHANGED <<dep, drow>>
  /\ Goto(p, "dep.mark")
  /\ UNCHANGED <<ledger, doc>> /\ OthersUnchanged

\* ensureDepositTransaction, and the UPDATE to 'pending_ledger' by a call whose copy of
\* the row has no transaction yet.
DepMark(p) ==
  /\ pc[p] = "dep.mark"
  /\ dep' = IF drow[p].tx THEN dep
            ELSE [dep EXCEPT ![doc[p].id] = [status |-> "pending_ledger", tx |-> TRUE]]
  /\ DepOnward(p, "dep.pending")
  /\ UNCHANGED ledger /\ OthersUnchanged

\* The transaction row of a hash is its reference.
DepositLeg(label, d) ==
  CASE label = "dep.pending" ->
         [wallet |-> d.to, op |-> "creditPending", type |-> "deposit_pending",
          key |-> <<d.id, "pending">>, ref |-> d.id, amount |-> d.amount]
    [] label = "dep.available" ->
         [wallet |-> d.to, op |-> "releasePending", type |-> "deposit_credit",
          key |-> <<d.id, "available">>, ref |-> d.id, amount |-> d.amount]

ASSUME DepositLegsAssumption ==
  \A d \in Payments : DepositLeg("dep.pending", d) \in Leg /\ DepositLeg("dep.available", d) \in Leg

\* Mutant: every call posts under a key of its own.
DepPostingAgain(p) ==
  /\ pc[p] \in {"dep.pending", "dep.available"}
  /\ LET l == DepositLeg(pc[p], doc[p])
         L == ensureWalletAccount(ledger, l.wallet)
     IN ledger' = IF Covers(l.op, L.rows[l.wallet].bal, l.amount) THEN Post(L, l) ELSE L
  /\ DepOnward(p, IF pc[p] = "dep.pending" THEN "dep.pended" ELSE "dep.confirm")
  /\ UNCHANGED dep /\ OthersUnchanged

\* A duplicate goes on, a refusal throws.
DepPosting(p) ==
  /\ pc[p] \in {"dep.pending", "dep.available"}
  /\ LET l == DepositLeg(pc[p], doc[p])
         L == ensureWalletAccount(ledger, l.wallet)
         after == IF pc[p] = "dep.pending" THEN "dep.pended" ELSE "dep.confirm"
     IN \/ Posted(ledger, l.key) /\ DepOnward(p, after) /\ UNCHANGED ledger
        \/ Admissible(L, l) /\ ledger' = Post(L, l) /\ DepOnward(p, after)
        \/ ~Posted(ledger, l.key) /\ ~Admissible(L, l) /\ ledger' = L /\ DepStop(p)
  /\ UNCHANGED dep /\ OthersUnchanged

\* Mutant: the deposit is confirmed when it has been noted as pending.
DepPendedConfirms(p) ==
  /\ pc[p] = "dep.pended"
  /\ dep' = [dep EXCEPT ![doc[p].id] = [status |-> "confirmed", tx |-> TRUE]]
  /\ DepOnward(p, "dep.available") \/ DepStop(p)
  /\ UNCHANGED ledger /\ OthersUnchanged

\* The status goes back to 'pending_ledger' unless it is 'confirmed' by now.  A caller
\* may ask to stop here.
DepPended(p) ==
  /\ pc[p] = "dep.pended"
  /\ dep' = [dep EXCEPT ![doc[p].id] =
               [status |-> IF @.status = "confirmed" THEN @.status ELSE "pending_ledger",
                tx |-> TRUE]]
  /\ DepOnward(p, "dep.available") \/ DepStop(p)
  /\ UNCHANGED ledger /\ OthersUnchanged

DepConfirm(p) ==
  /\ pc[p] = "dep.confirm"
  /\ dep' = [dep EXCEPT ![doc[p].id].status = "confirmed"]
  /\ DepStop(p)
  /\ UNCHANGED ledger /\ OthersUnchanged

DepCrash(p) ==
  /\ pc[p] \in {"dep.insert", "dep.mark", "dep.pending", "dep.pended", "dep.available", "dep.confirm"}
  /\ DepStop(p)
  /\ UNCHANGED <<ledger, dep>> /\ OthersUnchanged

DepositStep(p) == DepInsert(p) \/ DepMark(p) \/ DepPosting(p) \/ DepPended(p) \/ DepConfirm(p)

DepositNext ==
  \/ OnchainNext /\ UNCHANGED depVars
  \/ \E d \in Deposits : Arrives(d)
  \/ \E p \in Procs, d \in OnStellar : processDeposit(p, d)
  \/ \E p \in Procs : DepositStep(p)
  \/ \E p \in Procs : DepCrash(p)

DepositSpec == DepositInit /\ [][DepositNext]_everyVar

-----------------------------------------------------------------------------
Holdings ==
  [w \in Wallets |-> ledger.rows[w].bal.available + ledger.rows[w].bal.pending
                       + ledger.rows[w].bal.locked]

Brought == [d \in Deposits |-> d.amount]

\* "Never credits twice": what the wallets hold in the ledger is never more than they
\* held at the start plus what arrived from outside; a transfer may only be short of
\* the part that is still to be credited.
NothingInvented ==
  SumFunction(Holdings) <= Cardinality(Funded) * Funds + SumFunctionOnSet(Brought, arrived)

\* What says that it is done has moved its money: completed transfers of either mode, and
\* a deposit that says "confirmed" has reached the available balance.
DoneIsMoved ==
  /\ EveryCompletedIsMoved
  /\ \A d \in OnStellar : dep[d.id].status = "confirmed" => Posted(ledger, <<d.id, "available">>)
=============================================================================
