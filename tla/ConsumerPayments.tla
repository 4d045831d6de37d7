--------------------------- MODULE ConsumerPayments ---------------------------
(***************************************************************************)
(* What the consumer app does with its balances: transferByDayfiTag and    *)
(* swapCurrency; bank transfers, bills and walletFundedYellowCardSend with *)
(* the reversal of a failed payout by webhook, status sync and repair;     *)
(* top-ups through Yellow Card; DayEarn pots (src/modules/payment).        *)
(*                                                                         *)
(* A call is a process of its own: each makes a fresh reference, which its *)
(* ledger keys hold.  A step is what a call does between two awaits that   *)
(* change something; any call may stop between two steps.                  *)
(***************************************************************************)
EXTENDS ConsumerLedger

CONSTANTS
  Calls,       \* [id, kind, from, to, amount, pot]
  UserCalls,   \* those that users make; the others are made by other services
  MaxCalls,    \* bound: calls that users make in one behaviour
  Answers,     \* what a provider may answer to an order
  Pots,        \* DayEarn pots
  OpenPots,    \* pots that exist at the start
  MaxDays      \* bound: days that pass

Kinds == {"p2p", "swap", "bank", "bill", "send", "topup", "create", "deposit", "withdraw"}

ASSUME CallsAssumption ==
  /\ UserCalls \subseteq Calls /\ MaxCalls \in Nat /\ MaxDays \in Nat /\ OpenPots \subseteq Pots
  /\ Answers \subseteq {"accepted", "failed", "refused", "lost"}
  /\ \A c \in Calls : c.kind \in Kinds /\ c.from \in Accounts /\ c.to \in Accounts
                        /\ c.amount \in Nat
  /\ \A c, d \in Calls : c.id = d.id => c = d     \* fresh references

VARIABLES
  pc,          \* call -> where it is
  order,       \* call -> the provider's order or collection for it
  row,         \* call -> status of its wallet_transactions row
  fetched,     \* call -> provider status a status sync holds for the row, or "none"
  reversing,   \* calls whose row a handler has just set to 'failed-payment'
  pot,         \* pot -> its dayearn_pots row
  held,        \* call -> the copy of a pot it read
  day

payVars == <<pc, order, row, fetched, reversing>>
potVars == <<pot, held, day>>
vars == <<ledgerVars, payVars, potVars>>

Payouts == {c \in Calls : c.kind \in {"bank", "bill", "send"}}
Sends == {c \in Calls : c.kind = "send"}
TopUps == {c \in Calls : c.kind = "topup"}

NoPot == [status |-> "none", principal |-> 0, interest |-> 0, days |-> 0, credits |-> 0]

Init ==
  /\ LedgerInit
  /\ \E made \in SUBSET UserCalls :
       /\ Cardinality(made) <= MaxCalls
       /\ pc = [c \in Calls |-> IF c \in made THEN "start" ELSE "done"]
  /\ order = [c \in Calls |-> "none"]
  /\ row = [c \in Calls |-> IF c \in TopUps THEN "pending" ELSE "none"]
  /\ fetched = [c \in Calls |-> "none"]
  /\ reversing = {}
  /\ pot = [x \in Pots |-> IF x \in OpenPots THEN [NoPot EXCEPT !.status = "active",
                                                                !.principal = 2]
                           ELSE NoPot]
  /\ held = [c \in Calls |-> NoPot]
  /\ day = 0

-----------------------------------------------------------------------------
Goto(c, label) == pc' = [pc EXCEPT ![c] = label]

Key(c, step) == <<c.id, step>>

AfterDebit ==
  [k \in Kinds \ {"topup", "withdraw"} |->
     CASE k \in {"p2p", "swap"}        -> "credit"
       [] k \in {"bank", "bill", "send"} -> "request"
       [] k = "create"                 -> "insertPot"
       [] k = "deposit"                -> "addToPot"]

\* debitUsdBalance or debitWalletBalance: the first step of every call that spends.
\* A refusal throws before anything was written.
Debit(c) ==
  /\ c.kind \in DOMAIN AfterDebit
  /\ pc[c] = IF c.kind = "deposit" THEN "pay" ELSE "start"
  /\ IF debits(Key(c, "debit"), c.from, c.amount)
       THEN debit(Key(c, "debit"), c.from, c.amount) /\ Goto(c, AfterDebit[c.kind])
       ELSE Goto(c, "done") /\ UNCHANGED ledgerVars
  /\ UNCHANGED <<order, row, fetched, reversing, potVars>>

\* The other side of transferByDayfiTag and swapCurrency (amounts in one unit here).
Credit(c) ==
  /\ pc[c] = "credit"
  /\ credit(Key(c, "credit"), c.to, c.amount)
  /\ Goto(c, "done")
  /\ UNCHANGED <<order, row, fetched, reversing, potVars>>

-----------------------------------------------------------------------------
(* Payouts: bankTransfer, payBill, walletFundedYellowCardSend. *)

\* The provider's call.  "failed": it took the order and says it failed (Yellow Card).
\* "lost": it took the order, and its answer or the activity row after it failed here.
Request(c) ==
  /\ pc[c] = "request"
  /\ \E answer \in Answers :
       /\ answer = "failed" => c \in Sends
       /\ order' = [order EXCEPT ![c] = CASE answer = "refused" -> "none"
                                          [] answer = "failed"  -> "failed"
                                          [] OTHER              -> "open"]
       /\ Goto(c, IF answer \in {"refused", "lost"} THEN "catch"
                  ELSE IF c \notin Sends THEN "done"
                  ELSE IF answer = "failed" THEN "recordFailed" ELSE "record")
  /\ UNCHANGED <<ledgerVars, row, fetched, reversing, potVars>>

\* recordWalletActivity with the status the provider answered; a failed one is reversed.
Record(c) ==
  /\ pc[c] \in {"record", "recordFailed"}
  /\ LET status == IF pc[c] = "record" THEN "pending" ELSE "failed"
     IN /\ row' = [row EXCEPT ![c] = status]
        /\ reversing' = IF status = "failed" THEN reversing \cup {c} ELSE reversing
  /\ Goto(c, "done")
  /\ UNCHANGED <<ledgerVars, order, fetched, potVars>>

\* The catch block credits the debit back, under the key the reversals use too.
Catch(c) ==
  /\ pc[c] = "catch"
  /\ credit(Key(c, "reversal"), c.from, c.amount)
  /\ Goto(c, IF c \in Sends THEN "catchRow" ELSE "done")
  /\ UNCHANGED <<order, row, fetched, reversing, potVars>>

\* A send goes on when that failed, and records the failure for the repair to find.
CatchSkips(c) ==
  /\ pc[c] = "catch" /\ c \in Sends
  /\ Goto(c, "catchRow")
  /\ UNCHANGED <<ledgerVars, order, row, fetched, reversing, potVars>>

CatchRow(c) ==
  /\ pc[c] = "catchRow"
  /\ row' = [row EXCEPT ![c] = "failed"]
  /\ Goto(c, "done")
  /\ UNCHANGED <<ledgerVars, order, fetched, reversing, potVars>>

ProviderEnds(c, outcome) ==
  /\ c \in Payouts /\ order[c] = "open"
  /\ order' = [order EXCEPT ![c] = outcome]
  /\ UNCHANGED <<ledgerVars, pc, row, fetched, reversing, potVars>>

\* resolveYellowCardPaymentStatus, mapYellowCardProviderStatus
StatusOf(c) ==
  CASE order[c] = "paid" -> "success" [] order[c] = "failed" -> "failed" [] OTHER -> "pending"

\* Mutant: a webhook that reports no success is taken for a failure.
StatusWebhookHasty(c, status) ==
  /\ c \in Sends /\ row[c] # "none"
  /\ order[c] # "none" /\ status \in {StatusOf(c), "pending"}
  /\ row' = [row EXCEPT ![c] = IF status = "success" THEN "success" ELSE "failed"]
  /\ reversing' = IF status = "success" THEN reversing ELSE reversing \cup {c}
  /\ UNCHANGED <<ledgerVars, pc, order, fetched, potVars>>

\* updateTransactionPaymentStatus, from a webhook that may be late, repeated, or overtaken
\* by a later one.
StatusWebhook(c, status) ==
  /\ c \in Sends /\ row[c] # "none"
  /\ order[c] # "none" /\ status \in {StatusOf(c), "pending"}
  /\ row' = [row EXCEPT ![c] = status]
  /\ reversing' = IF status = "failed" THEN reversing \cup {c} ELSE reversing
  /\ UNCHANGED <<ledgerVars, pc, order, fetched, potVars>>

\* Mutant: a payment that is still pending is left to its webhook.
SyncFetchSettled(c) ==
  /\ c \in Sends /\ row[c] = "success" /\ order[c] # "none"
  /\ fetched[c] = "none" /\ StatusOf(c) # row[c]
  /\ fetched' = [fetched EXCEPT ![c] = StatusOf(c)]
  /\ UNCHANGED <<ledgerVars, pc, order, row, reversing, potVars>>

\* syncYellowCardPaymentStatusesForUser: fetch the payment...
SyncFetch(c) ==
  /\ c \in Sends /\ row[c] # "none" /\ order[c] # "none"
  /\ fetched[c] = "none" /\ StatusOf(c) # row[c]
  /\ fetched' = [fetched EXCEPT ![c] = StatusOf(c)]
  /\ UNCHANGED <<ledgerVars, pc, order, row, reversing, potVars>>

\* ... and write its status, whatever the row says by now.
SyncApply(c) ==
  /\ fetched[c] # "none"
  /\ row' = [row EXCEPT ![c] = fetched[c]]
  /\ fetched' = [fetched EXCEPT ![c] = "none"]
  /\ reversing' = IF fetched[c] = "failed" THEN reversing \cup {c} ELSE reversing
  /\ UNCHANGED <<ledgerVars, pc, order, potVars>>

HasDebit(c) == Movement(Key(c, "debit"), "debit", c.from, c.amount) \in movements

\* reverseYellowCardWalletDebit: only for a send that was debited.
Reverse(c) ==
  IF HasDebit(c) THEN credit(Key(c, "reversal"), c.from, c.amount) ELSE UNCHANGED ledgerVars

\* By the handler that wrote the failure...
HandlerReverses(c) ==
  /\ c \in reversing
  /\ Reverse(c)
  /\ reversing' = reversing \ {c}
  /\ UNCHANGED <<pc, order, row, fetched, potVars>>

\* ... or by repairUnreversedFailedYellowCardDebits, whenever the wallet is looked at.
Repair(c) ==
  /\ c \in Sends /\ row[c] = "failed"
  /\ Reverse(c)
  /\ UNCHANGED <<payVars, potVars>>

-----------------------------------------------------------------------------
(* Top-ups: collections that Yellow Card reports. *)

PayIn(c, outcome) ==
  /\ c \in TopUps /\ pc[c] = "start" /\ order[c] = "none"
  /\ order' = [order EXCEPT ![c] = outcome]
  /\ UNCHANGED <<ledgerVars, pc, row, fetched, reversing, potVars>>

\* completeCollectionInflow: the status is looked at, the credit made, the status set.
CollectionComplete(c) ==
  /\ c \in TopUps /\ pc[c] = "start" /\ order[c] = "paid" /\ row[c] # "success"
  /\ credit(Key(c, "inflow"), c.to, c.amount)
  /\ Goto(c, "settle")
  /\ UNCHANGED <<order, row, fetched, reversing, potVars>>

\* updateTransactionStatus for a collection that failed, expired or was cancelled.
CollectionFailed(c) ==
  /\ c \in TopUps /\ pc[c] = "start" /\ order[c] = "failed"
  /\ row' = [row EXCEPT ![c] = "failed"]
  /\ UNCHANGED <<ledgerVars, pc, order, fetched, reversing, potVars>>

\* The webhook may be sent again when the handler did not get here.
CollectionSettled(c) ==
  /\ pc[c] = "settle"
  /\ row' = [row EXCEPT ![c] = "success"]
  /\ Goto(c, "start")
  /\ UNCHANGED <<ledgerVars, order, fetched, reversing, potVars>>

-----------------------------------------------------------------------------
(* DayEarn pots.  Interest is one unit per day on a pot that holds anything. *)

PotBalance(x) == x.principal + x.interest

\* What syncPotInterest writes, under a row lock: a movement per day not yet accounted for.
Accrued(x) ==
  IF x.status = "active" /\ PotBalance(x) > 0
    THEN [x EXCEPT !.interest = @ + (day - x.days), !.credits = @ + (day - x.days), !.days = day]
    ELSE x

NextDay ==
  /\ day < MaxDays
  /\ day' = day + 1
  /\ UNCHANGED <<ledgerVars, payVars, pot, held>>

\* Listing the pots brings their interest up to date.
syncPotInterest(x) ==
  /\ Accrued(pot[x]) # pot[x]
  /\ pot' = [pot EXCEPT ![x] = Accrued(@)]
  /\ UNCHANGED <<ledgerVars, payVars, held, day>>

\* INSERT of a pot whose amount was debited before.
InsertPot(c) ==
  /\ pc[c] = "insertPot" /\ pot[c.pot] = NoPot
  /\ pot' = [pot EXCEPT ![c.pot] = [NoPot EXCEPT !.status = "active", !.principal = c.amount,
                                                !.days = day]]
  /\ Goto(c, "done")
  /\ UNCHANGED <<ledgerVars, order, row, fetched, reversing, held, day>>

\* depositToDayEarnPot and withdrawFromDayEarnPot begin alike; a pot that is not active
\* is not found.
ReadPot(c) ==
  /\ pc[c] = "start" /\ c.kind \in {"deposit", "withdraw"}
  /\ LET x == Accrued(pot[c.pot])
     IN /\ pot' = [pot EXCEPT ![c.pot] = x]
        /\ IF x.status # "active" \/ (c.kind = "withdraw" /\ PotBalance(x) < c.amount)
             THEN Goto(c, "done") /\ UNCHANGED held
             ELSE /\ held' = [held EXCEPT ![c] = x]
                  /\ Goto(c, IF c.kind = "deposit" THEN "pay" ELSE "takeFromPot")
  /\ UNCHANGED <<ledgerVars, order, row, fetched, reversing, day>>

\* UPDATE ... SET principal = principal + $1 ... AND status = 'active', else it throws.
AddToPot(c) ==
  /\ pc[c] = "addToPot"
  /\ pot' = IF pot[c.pot].status = "active"
              THEN [pot EXCEPT ![c.pot].principal = @ + c.amount] ELSE pot
  /\ Goto(c, "done")
  /\ UNCHANGED <<ledgerVars, order, row, fetched, reversing, held, day>>

\* The amounts are computed from the copy that was read, interest first, and written as
\* they are: what happened to the pot since is overwritten.
TakeFromPot(c) ==
  /\ pc[c] = "takeFromPot"
  /\ LET fromInterest == IF c.amount < held[c].interest THEN c.amount ELSE held[c].interest
         interest == held[c].interest - fromInterest
         principal == held[c].principal - (c.amount - fromInterest)
     IN pot' = [pot EXCEPT ![c.pot] =
                 [@ EXCEPT !.principal = principal, !.interest = interest,
                           !.status = IF principal + interest = 0 THEN "closed" ELSE "active"]]
  /\ Goto(c, "payOut")
  /\ UNCHANGED <<ledgerVars, order, row, fetched, reversing, held, day>>

PayOut(c) ==
  /\ pc[c] = "payOut"
  /\ credit(Key(c, "payout"), c.to, c.amount)
  /\ Goto(c, "done")
  /\ UNCHANGED <<order, row, fetched, reversing, potVars>>

-----------------------------------------------------------------------------
\* The server stops, or an await throws and nothing catches it.  Only the webhook of a
\* top-up is called again.
CallStops(c) ==
  /\ pc[c] \notin {"start", "done"}
  /\ Goto(c, IF c \in TopUps THEN "start" ELSE "done")
  /\ UNCHANGED <<ledgerVars, order, row, fetched, reversing, potVars>>

HandlerStops(c) ==
  /\ c \in reversing \/ fetched[c] # "none"
  /\ reversing' = reversing \ {c}
  /\ fetched' = [fetched EXCEPT ![c] = "none"]
  /\ UNCHANGED <<ledgerVars, pc, order, row, potVars>>

Step(c) ==
  \/ Debit(c) \/ Credit(c)
  \/ Request(c) \/ Record(c) \/ Catch(c) \/ CatchSkips(c) \/ CatchRow(c)
  \/ CollectionComplete(c) \/ CollectionSettled(c) \/ CollectionFailed(c)
  \/ InsertPot(c) \/ ReadPot(c) \/ AddToPot(c) \/ TakeFromPot(c) \/ PayOut(c)

Handlers(c) == SyncFetch(c) \/ SyncApply(c) \/ HandlerReverses(c) \/ Repair(c)

Next ==
  \/ \E c \in Calls : Step(c) \/ CallStops(c)
  \/ \E c \in Calls : Handlers(c) \/ HandlerStops(c)
  \/ \E c \in Calls, status \in {"pending", "success", "failed"} : StatusWebhook(c, status)
  \/ \E c \in Payouts, outcome \in {"paid", "failed"} : ProviderEnds(c, outcome)
  \/ \E c \in TopUps, outcome \in {"paid", "failed"} : PayIn(c, outcome)
  \/ \E x \in Pots : syncPotInterest(x)
  \/ NextDay

Spec == Init /\ [][Next]_vars

-----------------------------------------------------------------------------
Labels == {"start", "done", "credit", "request", "record", "recordFailed", "catch", "catchRow",
           "settle", "insertPot", "pay", "addToPot", "takeFromPot", "payOut"}

Statuses == {"none", "pending", "success", "failed"}

\* No wallet is overdrawn although no caller holds a lock when it checks, and a known key
\* stands for one movement.
TypeOK ==
  /\ LedgerTypeOK
  /\ pc \in [Calls -> Labels]
  /\ order \in [Calls -> {"none", "open", "paid", "failed"}]
  /\ row \in [Calls -> Statuses] /\ fetched \in [Calls -> Statuses]

Reversed(c) == findMovementByKey(Key(c, "reversal"))

\* "Credit USD back when a wallet-funded Yellow Card payout fails after debit": what is
\* credited back was debited before, in the same amount, for a payout that the provider
\* has not paid and will not pay, whoever reversed it.
ReversalIsOfFailed ==
  \A c \in Payouts :
    Reversed(c) => /\ HasDebit(c)
                   /\ Movement(Key(c, "reversal"), "credit", c.from, c.amount) \in movements
                   /\ order[c] \in {"none", "failed"}

Total(f(_), S) == SumFunctionOnSet([x \in S |-> f(x)], S)

\* A recorded send that the provider failed is credited back in the end.
FailedSendIsReversed ==
  \A c \in Sends \cap UserCalls : (order[c] = "failed" /\ row[c] # "none") ~> Reversed(c)
=============================================================================
