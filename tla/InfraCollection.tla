--------------------------- MODULE InfraCollection ---------------------------
(***************************************************************************)
(* Collect: createCollection and simulateSettlement (infraMoneyService.ts),*)
(* settleCollectionCredit and the Yellow Card and Flutterwave webhooks     *)
(* (infraLifecycleService.ts), and fundCollectionStellarWallet with        *)
(* confirmCollectionFunding (infraStellarFundingService.ts), which moves   *)
(* the collected USDC on chain from the treasury to the organisation.      *)
(*                                                                         *)
(* A step is what a handler does between two awaits that matter: a read or *)
(* a write of the row, a ledger call, a submission.  As in InfraPayout the *)
(* sequenceId of a createCollection call is the process that runs it.      *)
(***************************************************************************)
EXTENDS InfraLedgerOps, StellarAdapter

CONSTANTS
  Procs,          \* handlers that may be in progress at once
  Collections,    \* collection rows, one per client Idempotency-Key
  Quotes,         \* collection -> USDC amounts the FX service may quote for it
  Live,           \* LIVE collections; the others are TEST
  Flutterwave,    \* collections of the flutterwave rail; the others are Yellow Card's
  Creators,       \* collection -> processes that may run createCollection for it
  FundingOff,     \* collections settled while DAYFI_INFRA_STELLAR_FUNDING_MODE is off
  SubmitResults,  \* names of the outcomes a submission may have
  Treasury,       \* USDC in the treasury at the start
  Rebalances,     \* treasury rebalances, which the same account pays (InfraTreasury)
  MaxSends,       \* bound: submissions per collection or rebalance
  Org, NoOne

ASSUME CollectionAssumption ==
  /\ Org \in Wallets
  /\ Live \cup Flutterwave \cup FundingOff \subseteq Collections
  /\ \A c \in Collections : Quotes[c] \subseteq Amounts

\* Keys and references are made from the ids of collections.
ASSUME CollectionKeysAssumption ==
  \A c \in Collections :
    c \in Refs /\ \A op \in {"credit", "creditPending", "releasePending"} : <<c, op>> \in Keys

VARIABLES
  ledger,
  tx,       \* collection -> its infra_transactions row
  stl,      \* collection -> its infra_settlements row
  chain,    \* collection or rebalance -> the payments submitted for it
  payin,    \* collection -> call -> the pay-in account the provider opened for it
  pc,       \* process -> where its handler is
  loc       \* process -> its local variables

vars == <<ledger, tx, stl, chain, payin, pc, loc>>

NoTx == [status |-> "none", ext |-> NoOne, usdc |-> 0]

NoSettlement == [status |-> "none", amount |-> 0, ref |-> 0]

\* coll: the collection; row, st: copies of the rows read; amt: the USDC amount;
\* hash: the submitted transaction.
NoLocals == [coll |-> NoOne, row |-> NoTx, st |-> NoSettlement, amt |-> 0, hash |-> 0]

Init ==
  /\ ledger = EmptyLedger
  /\ tx = [c \in Collections |-> NoTx]
  /\ stl = [c \in Collections |-> NoSettlement]
  /\ chain = [c \in Collections \cup Rebalances |-> <<>>]
  /\ payin = [c \in Collections |-> [p \in Procs |-> "none"]]
  /\ pc = [p \in Procs |-> "idle"]
  /\ loc = [p \in Procs |-> NoLocals]

-----------------------------------------------------------------------------
Goto(p, label) == pc' = [pc EXCEPT ![p] = label]

Start(p, c, label) ==
  /\ pc[p] = "idle"
  /\ Goto(p, label)
  /\ loc' = [loc EXCEPT ![p].coll = c]

Finish(p) == Goto(p, "idle") /\ loc' = [loc EXCEPT ![p] = NoLocals]

Mine(p) == loc[p].coll

TreasuryLeft == Treasury - MapThenSumSet(LAMBDA c : LandedTotal(chain[c]), DOMAIN chain)

\* Transactions of the treasury account that have landed.
Used == MapThenSumSet(LAMBDA c : Cardinality(Landed(chain[c])), DOMAIN chain)

CollectionLeg(c, op, a) ==
  [wallet |-> Org, op |-> op, key |-> <<c, op>>, ref |-> c, amount |-> a,
   type |-> IF op = "creditPending" THEN "collection_pending" ELSE "collection_credit"]

HasPosted(c, op) == Posted(ledger, <<c, op>>)

\* One ledger call: a duplicate succeeds without effect, a refused one throws.
LedgerCall(p, op, amount, okLabel) ==
  LET l == CollectionLeg(Mine(p), op, amount)
      L == ensureWalletAccount(ledger, Org)
  IN \/ HasPosted(Mine(p), op) /\ Goto(p, okLabel) /\ UNCHANGED <<ledger, loc>>
     \/ /\ Admissible(L, l)
        /\ ledger' = Post(L, l)
        /\ Goto(p, okLabel)
        /\ UNCHANGED loc
     \/ /\ ~HasPosted(Mine(p), op) /\ ~Admissible(L, l)
        /\ Finish(p)
        /\ UNCHANGED ledger

-----------------------------------------------------------------------------
(* createCollection *)

\* findIdempotentTx: a row that exists is returned as it is.
CollectFind(p, c) ==
  /\ p \in Creators[c] /\ tx[c] = NoTx
  /\ Start(p, c, IF c \in Live THEN "open" ELSE "insert")
  /\ UNCHANGED <<ledger, tx, stl, chain, payin>>

\* The provider opens a pay-in account for the call's sequenceId.  A call that
\* fails here may still have opened it.
OpenAccount(p) ==
  /\ pc[p] = "open"
  /\ \E label \in {"insert", "insertFailed"}, opened \in BOOLEAN :
       /\ label = "insert" => opened
       /\ Goto(p, label)
       /\ payin' = IF opened THEN [payin EXCEPT ![Mine(p)][p] = "open"] ELSE payin
  /\ UNCHANGED <<ledger, tx, stl, chain, loc>>

\* insertTx, and failLiveCollection: the first call's row stays.
InsertCollection(p) ==
  /\ pc[p] \in {"insert", "insertFailed"}
  /\ tx' = IF tx[Mine(p)] # NoTx THEN tx
           ELSE [tx EXCEPT ![Mine(p)] =
                   [status |-> IF pc[p] = "insert" THEN "pending" ELSE "failed",
                    ext |-> p, usdc |-> 0]]
  /\ Finish(p)
  /\ UNCHANGED <<ledger, stl, chain, payin>>

-----------------------------------------------------------------------------
(* The providers: a payer pays, pays a wrong amount (Flutterwave), or fails to. *)

PayIn(c, p, outcome) ==
  /\ payin[c][p] = "open"
  /\ payin' = [payin EXCEPT ![c][p] = outcome]
  /\ UNCHANGED <<ledger, tx, stl, chain, pc, loc>>

\* Webhooks may come late and any number of times; the row is found by
\* external_id, so a pay-in account of a call that lost the insert is not found.
Event(c) == IF tx[c].ext = NoOne THEN "none" ELSE payin[c][tx[c].ext]

YellowCardSuccess(p, c) ==
  /\ c \in Live \ Flutterwave /\ Event(c) = "paid"
  /\ Start(p, c, "settle.load")
  /\ UNCHANGED <<ledger, tx, stl, chain, payin>>

\* A failed pay-in: the status is checked on the row read, then patched.
YellowCardFailure(p, c) ==
  /\ c \in Live \ Flutterwave /\ Event(c) = "failed"
  /\ tx[c].status # "settled"
  /\ Start(p, c, "fail.patch")
  /\ UNCHANGED <<ledger, tx, stl, chain, payin>>

FailPatch(p) ==
  /\ pc[p] = "fail.patch"
  /\ tx' = [tx EXCEPT ![Mine(p)].status = "failed"]
  /\ Finish(p)
  /\ UNCHANGED <<ledger, stl, chain, payin>>

\* Mutant: only a collection in 'processing' is settled.
FlutterwaveSuccessProcessing(p, c) ==
  /\ c \in Live \cap Flutterwave /\ Event(c) = "paid"
  /\ tx[c].status = "processing"
  /\ Start(p, c, "settle.load")
  /\ UNCHANGED <<ledger, tx, stl, chain, payin>>

FlutterwaveSuccess(p, c) ==
  /\ c \in Live \cap Flutterwave /\ Event(c) = "paid"
  /\ tx[c].status # "settled"      \* else collection_already_settled
  /\ Start(p, c, "settle.load")
  /\ UNCHANGED <<ledger, tx, stl, chain, payin>>

\* Mutant: the warning does not stop the settlement.
FlutterwaveMismatchSettles(p, c) ==
  /\ c \in Live \cap Flutterwave /\ Event(c) = "mismatch"
  /\ Start(p, c, "settle.load")
  /\ UNCHANGED <<ledger, tx, stl, chain, payin>>

\* An amount that differs by more than 1: a warning, with the status that was read.
FlutterwaveMismatch(p, c) ==
  /\ c \in Live \cap Flutterwave /\ Event(c) = "mismatch"
  /\ pc[p] = "idle" /\ Goto(p, "warn.patch")
  /\ loc' = [loc EXCEPT ![p] = [NoLocals EXCEPT !.coll = c, !.row = tx[c]]]
  /\ UNCHANGED <<ledger, tx, stl, chain, payin>>

WarnPatch(p) ==
  /\ pc[p] = "warn.patch"
  /\ tx' = [tx EXCEPT ![Mine(p)].status = loc[p].row.status]
  /\ Finish(p)
  /\ UNCHANGED <<ledger, stl, chain, payin>>

simulateSettlement(p, c) ==
  /\ c \notin Live /\ tx[c].status \notin {"none", "failed"}
  /\ Start(p, c, "settle.load")
  /\ UNCHANGED <<ledger, tx, stl, chain, payin>>

-----------------------------------------------------------------------------
(* settleCollectionCredit *)

\* Mutant: the row is patched before the ledger is credited.
SettleLoadPatches(p) ==
  /\ pc[p] = "settle.load"
  /\ \E a \in Quotes[Mine(p)] : loc' = [loc EXCEPT ![p].row = tx[Mine(p)], ![p].amt = a]
  /\ Goto(p, "settle.patch")
  /\ UNCHANGED <<ledger, tx, stl, chain, payin>>

SettleLoad(p) ==
  /\ pc[p] = "settle.load"
  /\ LET r == tx[Mine(p)]
     IN \E a \in IF r.usdc # 0 THEN {r.usdc} ELSE Quotes[Mine(p)] :
          loc' = [loc EXCEPT ![p].row = r, ![p].amt = a]
  /\ Goto(p, "settle.credit")
  /\ UNCHANGED <<ledger, tx, stl, chain, payin>>

SettleCredit(p) ==
  /\ pc[p] = "settle.credit"
  /\ LedgerCall(p, IF Mine(p) \in FundingOff THEN "credit" ELSE "creditPending",
                loc[p].amt, "settle.patch")
  /\ UNCHANGED <<tx, stl, chain, payin>>

StatusAfterCredit(c) == IF c \in FundingOff THEN "settled" ELSE "processing"

\* Mutant: the amount to fund is quoted again after the credit.
SettlePatchRequotes(p) ==
  /\ pc[p] = "settle.patch"
  /\ tx' = [tx EXCEPT ![Mine(p)].usdc = loc[p].amt, ![Mine(p)].status = StatusAfterCredit(Mine(p))]
  /\ \E a \in Quotes[Mine(p)] : loc' = [loc EXCEPT ![p].amt = a]
  /\ Goto(p, "fund.find")
  /\ UNCHANGED <<ledger, stl, chain, payin>>

SettlePatch(p) ==
  /\ pc[p] = "settle.patch"
  /\ tx' = [tx EXCEPT ![Mine(p)].usdc = loc[p].amt,
                      ![Mine(p)].status = IF loc[p].row.status = "settled" THEN "settled"
                                          ELSE StatusAfterCredit(Mine(p))]
  /\ IF Mine(p) \in FundingOff THEN Finish(p) ELSE Goto(p, "fund.find") /\ UNCHANGED loc
  /\ UNCHANGED <<ledger, stl, chain, payin>>

-----------------------------------------------------------------------------
(* fundCollectionStellarWallet; settleCollectionCredit catches what it throws. *)

FundFind(p) ==
  /\ pc[p] = "fund.find"
  /\ LET s == stl[Mine(p)]
     IN IF (s.status = "confirmed" /\ s.ref # 0) \/ s.status = "pending_treasury"
          THEN Finish(p)
          ELSE Goto(p, "fund.treasury") /\ loc' = [loc EXCEPT ![p].st = s]
  /\ UNCHANGED <<ledger, tx, stl, chain, payin>>

\* The INSERT of a settlement row throws when another call has inserted one.
InsertSettlement(c, status, amount) ==
  stl' = IF stl[c] = NoSettlement
           THEN [stl EXCEPT ![c] = [status |-> status, amount |-> amount, ref |-> 0]]
           ELSE stl

\* Not enough USDC in the treasury: pending_treasury, and nothing is sent.
FundTreasury(p) ==
  /\ pc[p] = "fund.treasury"
  /\ IF TreasuryLeft < loc[p].amt
       THEN /\ IF loc[p].st = NoSettlement
                 THEN InsertSettlement(Mine(p), "pending_treasury", loc[p].amt)
                 ELSE stl' = [stl EXCEPT ![Mine(p)].status = "pending_treasury"]
            /\ Finish(p)
       ELSE Goto(p, "fund.insert") /\ UNCHANGED <<stl, loc>>
  /\ UNCHANGED <<ledger, tx, chain, payin>>

FundInsert(p) ==
  /\ pc[p] = "fund.insert"
  /\ IF loc[p].st # NoSettlement
       THEN Goto(p, "fund.submit") /\ UNCHANGED <<stl, loc>>
       ELSE /\ InsertSettlement(Mine(p), "pending", loc[p].amt)
            /\ IF stl[Mine(p)] = NoSettlement
                 THEN Goto(p, "fund.submit") /\ UNCHANGED loc
                 ELSE Finish(p)
  /\ UNCHANGED <<ledger, tx, chain, payin>>

\* submitUsdcPayment sends the amount of this call.
FundSubmit(p) ==
  /\ pc[p] = "fund.submit"
  /\ Len(chain[Mine(p)]) < MaxSends
  /\ \E o \in SubmitOutcomes :
       /\ o.name \in SubmitResults
       /\ o.state = "landed" => TreasuryLeft >= loc[p].amt
       /\ chain' = [chain EXCEPT ![Mine(p)] = submitUsdcPayment(@, loc[p].amt, o.state, Used)]
       /\ Goto(p, CASE o.reply = "error"     -> "fund.failed"
                    [] o.reply = "submitted" -> "fund.submitted"
                    [] o.reply = "confirmed" -> "fund.confirmed")
       /\ loc' = [loc EXCEPT ![p].hash = Len(chain[Mine(p)]) + 1]
  /\ UNCHANGED <<ledger, tx, stl, payin>>

FundFailed(p) ==
  /\ pc[p] = "fund.failed"
  /\ stl' = [stl EXCEPT ![Mine(p)].status = "failed"]
  /\ Finish(p)
  /\ UNCHANGED <<ledger, tx, chain, payin>>

\* UPDATE ... 'submitted' with the hash.  An answer with a ledgerSequence is a
\* confirmation, any other is verified.
FundSubmitted(p) ==
  /\ pc[p] \in {"fund.submitted", "fund.confirmed"}
  /\ stl' = [stl EXCEPT ![Mine(p)].status = "submitted", ![Mine(p)].ref = loc[p].hash]
  /\ Goto(p, IF pc[p] = "fund.confirmed" THEN "confirm" ELSE "fund.verify")
  /\ UNCHANGED <<ledger, tx, chain, payin, loc>>

\* Mutant: whatever has not failed counts as confirmed.
FundVerifyTrusting(p) ==
  /\ pc[p] = "fund.verify"
  /\ \E answer \in verifyUsdcPayment(chain[Mine(p)], loc[p].hash) :
       IF answer # "FAILED" THEN Goto(p, "confirm") /\ UNCHANGED loc ELSE Finish(p)
  /\ UNCHANGED <<ledger, tx, stl, chain, payin>>

FundVerify(p) ==
  /\ pc[p] = "fund.verify"
  /\ \E answer \in verifyUsdcPayment(chain[Mine(p)], loc[p].hash) :
       IF answer = "SUCCESS" THEN Goto(p, "confirm") /\ UNCHANGED loc ELSE Finish(p)
  /\ UNCHANGED <<ledger, tx, stl, chain, payin>>

-----------------------------------------------------------------------------
(* confirmCollectionFunding *)

ConfirmSettlement(p) ==
  /\ pc[p] = "confirm"
  /\ stl' = [stl EXCEPT ![Mine(p)].status = "confirmed", ![Mine(p)].ref = loc[p].hash]
  /\ Goto(p, "confirm.release")
  /\ UNCHANGED <<ledger, tx, chain, payin, loc>>

\* releasePendingToAvailable with the amount of the settlement row.
ConfirmRelease(p) ==
  /\ pc[p] = "confirm.release"
  /\ LedgerCall(p, "releasePending", stl[Mine(p)].amount, "confirm.patch")
  /\ UNCHANGED <<tx, stl, chain, payin>>

ConfirmPatch(p) ==
  /\ pc[p] = "confirm.patch"
  /\ tx' = [tx EXCEPT ![Mine(p)].status = "settled"]
  /\ Finish(p)
  /\ UNCHANGED <<ledger, stl, chain, payin>>

-----------------------------------------------------------------------------
\* The network includes or drops a payment it has not reported yet.
NetworkResolves(c, i) ==
  /\ chain[c][i].state = "sent"
  /\ \E ch \in Resolutions(chain[c], i, Used) :
       /\ ch[i].state = "landed" => TreasuryLeft >= chain[c][i].amount
       /\ chain' = [chain EXCEPT ![c] = ch]
  /\ UNCHANGED <<ledger, tx, stl, payin, pc, loc>>

\* The server stops, or an await throws and no catch block writes anything.
Crash(p) == pc[p] # "idle" /\ Finish(p) /\ UNCHANGED <<ledger, tx, stl, chain, payin>>

Step(p) ==
  \/ OpenAccount(p) \/ InsertCollection(p) \/ FailPatch(p) \/ WarnPatch(p)
  \/ SettleLoad(p) \/ SettleCredit(p) \/ SettlePatch(p)
  \/ FundFind(p) \/ FundTreasury(p) \/ FundInsert(p) \/ FundSubmit(p)
  \/ FundFailed(p) \/ FundSubmitted(p) \/ FundVerify(p)
  \/ ConfirmSettlement(p) \/ ConfirmRelease(p) \/ ConfirmPatch(p)

Webhook(p, c) ==
  \/ YellowCardSuccess(p, c) \/ YellowCardFailure(p, c)
  \/ FlutterwaveSuccess(p, c) \/ FlutterwaveMismatch(p, c)

PayInOutcomes(c) == IF c \in Flutterwave THEN {"paid", "mismatch"} ELSE {"paid", "failed"}

SteadyNext ==
  \/ \E p \in Procs, c \in Collections : CollectFind(p, c)
  \/ \E p \in Procs : Step(p)
  \/ \E c \in Collections : \E p \in Procs, o \in PayInOutcomes(c) : PayIn(c, p, o)
  \/ \E p \in Procs, c \in Collections : Webhook(p, c)
  \/ \E p \in Procs, c \in Collections : simulateSettlement(p, c)
  \/ \E c \in DOMAIN chain : \E i \in 1..Len(chain[c]) : NetworkResolves(c, i)

Next == SteadyNext \/ \E p \in Procs : Crash(p)

Spec == Init /\ [][Next]_vars

\* Without crashes, handlers run on and providers repeat a webhook until one
\* was handled.
SteadySpec ==
  /\ Init /\ [][SteadyNext]_vars
  /\ \A p \in Procs : WF_vars(Step(p))
  /\ \A c \in Collections : SF_vars(\E p \in Procs : Webhook(p, c))

-----------------------------------------------------------------------------
\* "Collect credits only on verified settlement events": a LIVE collection is
\* credited only if the pay-in account of its row was paid.
CreditNeedsPayment ==
  \A c \in Live : HasPosted(c, "credit") \/ HasPosted(c, "creditPending") => Event(c) = "paid"

PostedAmount(c, op) ==
  LET ms == ledger.movements[Org]
  IN ms[CHOOSE i \in 1..Len(ms) : ms[i].key = <<c, op>>].amount

PendingCollections ==
  {c \in Collections : HasPosted(c, "creditPending") /\ ~HasPosted(c, "releasePending")}

\* With wallet funding on, USDC becomes available only after a payment for the
\* collection landed on chain, and until then it is in the pending bucket: that is what
\* collections were credited and not yet released.
AvailableNeedsFunding ==
  /\ \A c \in Collections : HasPosted(c, "releasePending") => Landed(chain[c]) # {}
  /\ ledger.rows[Org].bal.pending =
       SumFunction([c \in PendingCollections |-> PostedAmount(c, "creditPending")])

\* A row says "settled" only when its USDC is available.
SettledIsAvailable ==
  \A c \in Collections :
    tx[c].status = "settled" => HasPosted(c, "credit") \/ HasPosted(c, "releasePending")

\* What reaches the organisation on chain is what its ledger was credited, once.
FundedAsCredited ==
  \A c \in Collections :
    Landed(chain[c]) # {} => LandedTotal(chain[c]) = PostedAmount(c, "creditPending")

\* A collection that was paid becomes available in the end, also when the first payment
\* of its USDC is refused: the webhook, delivered again, sends another.
PaidIsAvailable ==
  \A c \in Collections :
    (Event(c) = "paid") ~> (HasPosted(c, "credit") \/ HasPosted(c, "releasePending"))
=============================================================================
