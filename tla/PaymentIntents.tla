---------------------------- MODULE PaymentIntents ----------------------------
(***************************************************************************)
(* Payments agreed on in a conversation (src/modules/four): the review     *)
(* that Conversation has written into the row is confirmed by a button or  *)
(* by opening the Mini App, and authorised there with the PIN;             *)
(* authorizeIntentWithPin then makes the payment with the calls of         *)
(* ConsumerPayments.  Messages may come meanwhile and write the same row.  *)
(* updateIntent, a SELECT and an UPDATE, is one step here.                 *)
(***************************************************************************)
EXTENDS ConsumerPayments, Conversation

CONSTANTS
  Attempts,        \* calls of authorizeIntentWithPin
  ExecutionOf      \* attempt and intent -> the call it makes, with its fresh reference

\* The sends of SEND_CRYPTO are those of ConsumerProducts: none is made here.
Payable == {"SEND_MONEY", "PAY_BILL", "SEND_YC"}

ASSUME IntentsAssumption ==
  /\ \A a \in Attempts, name \in Payable : ExecutionOf[a][name] \in Calls \ UserCalls
  /\ \A a, b \in Attempts, name, other \in Payable :     \* fresh references
       ExecutionOf[a][name] = ExecutionOf[b][other] => a = b /\ name = other

VARIABLES
  page,        \* the review that the open Mini App shows
  confirming,  \* whether a confirmation has found AWAITING_CONFIRMATION
  auth         \* attempt -> where it is, the review it read and the page it came from

intentVars == <<talkVars, page, confirming, auth>>
rowVars == <<heard, handling, recent, preparing>>

NoPage == [intent |-> "none", slots |-> NoSlots]
Shown(r) == [intent |-> r.intent, slots |-> r.slots]

IntentInit ==
  /\ ConversationInit
  /\ page = NoPage
  /\ confirming = FALSE
  /\ auth = [a \in Attempts |-> [at |-> "start", review |-> NoPage, from |-> NoPage]]

\* A row that is written to be paid was not done with for good, however it had ended.
Write(status) ==
  /\ intent' = [intent EXCEPT !.status = status]
  /\ closed' = IF intent.status \in Terminal /\ status \notin Terminal THEN 0 ELSE closed

Authorizing(a) == auth[a].at \notin {"start", "done"}

\* An attempt that made no call leaves no trace.
Over(a) == auth' = [auth EXCEPT ![a] = [at |-> "done", review |-> NoPage, from |-> NoPage]]

\* One that did keeps what it paid, for ReviewPaidOnce.
Ended(a) == auth' = [auth EXCEPT ![a].at = "done", ![a].from = NoPage]

\* The conversation goes on.  Assumption: a user has one Mini App open, and leaves it for
\* the chat to write there.
Talk ==
  /\ ConversationNext
  /\ page' = IF heard' # heard THEN NoPage ELSE page
  /\ UNCHANGED <<vars, confirming, auth>>

\* The button, in the chat too, looks at the status...
ConfirmLook ==
  /\ ~confirming /\ intent.status = "AWAITING_CONFIRMATION"
  /\ confirming' = TRUE
  /\ page' = NoPage
  /\ UNCHANGED <<vars, talkVars, auth>>

\* ... and sets it, whatever it says by now.
ConfirmWrite ==
  /\ confirming
  /\ Write("AWAITING_AUTHORIZATION")
  /\ confirming' = FALSE
  /\ UNCHANGED <<vars, rowVars, page, auth>>

\* getIntentForMiniApp shows the review, and does both for a user who did not press the
\* button.  Bound: not while the button is being handled.
getIntentForMiniApp ==
  /\ intent.status \notin {"none", "COLLECTING_INFORMATION", "AWAITING_DEPOSIT", "CANCELLED"}
  /\ page # Shown(intent) \/ intent.status = "AWAITING_CONFIRMATION"
  /\ confirming => "confirm" \in Doubled
  /\ page' = Shown(intent)
  /\ IF intent.status = "AWAITING_CONFIRMATION" THEN Write("AWAITING_AUTHORIZATION")
     ELSE UNCHANGED <<intent, closed>>
  /\ UNCHANGED <<vars, rowVars, confirming, auth>>

\* Mutant: an intent that the Mini App shows may be authorised.
AUTHORIZABLEVisible == {"AWAITING_AUTHORIZATION", "PROCESSING"}

\* Mutant: a review may be authorised that was not confirmed.
AUTHORIZABLEReviewed == {"AWAITING_AUTHORIZATION", "AWAITING_CONFIRMATION"}

AUTHORIZABLE == {"AWAITING_AUTHORIZATION"}

\* authorizeIntentWithPin reads the row and checks the PIN...  Bound: not while another
\* call does.
AuthRead(a) ==
  /\ auth[a].at = "start" /\ page # NoPage
  /\ intent.status \in AUTHORIZABLE /\ intent.intent # "FUND_CRYPTO"
  /\ \A b \in Attempts : auth[b].at = "pin" => "authorize" \in Doubled
  /\ auth' = [auth EXCEPT ![a] = [at |-> "pin", review |-> Shown(intent), from |-> page]]
  /\ UNCHANGED <<vars, talkVars, page, confirming>>

\* ... which may be wrong ...
AuthRefused(a) ==
  /\ auth[a].at = "pin"
  /\ Over(a)
  /\ UNCHANGED <<vars, talkVars, page, confirming>>

\* ... and claims the row, whoever wrote it since.
AuthProcessing(a) ==
  /\ auth[a].at = "pin"
  /\ Write("PROCESSING")
  /\ auth' = [auth EXCEPT ![a].at = "execute"]
  /\ UNCHANGED <<vars, rowVars, page, confirming>>

\* executeBankSend, executeBillPayFromSlots, executeYellowCardSendFromSlots,
\* executeCryptoSendFromSlots of what was read, when it is complete
AuthExecute(a) ==
  /\ auth[a].at = "execute"
  /\ auth[a].review.slots.amount # 0 /\ auth[a].review.slots.to # 0
  /\ IF auth[a].review.intent = "SEND_CRYPTO" THEN UNCHANGED pc
     ELSE Goto(ExecutionOf[a][auth[a].review.intent], "start")
  /\ auth' = [auth EXCEPT ![a].at = "paying"]
  /\ UNCHANGED <<ledgerVars, order, row, fetched, reversing, potVars, talkVars, page, confirming>>

\* Incomplete, the KYC check, a wallet that is missing: FAILED before any call was made.
AuthUnfit(a) ==
  /\ auth[a].at = "execute"
  /\ Write("FAILED")
  /\ Over(a)
  /\ UNCHANGED <<vars, rowVars, page, confirming>>

\* The row's status by the outcome, whatever the row says by now; when the receipt cannot
\* be stored or pushed, the catch block writes FAILED after COMPLETED.
AuthEnd(a) ==
  /\ auth[a].at = "paying"
  /\ \/ Write("FAILED")
     \/ Write("COMPLETED")
  /\ auth[a].review.intent # "SEND_CRYPTO" =>
       LET c == ExecutionOf[a][auth[a].review.intent]
       IN /\ pc[c] = "done"
          /\ intent'.status = "COMPLETED" => order[c] # "none" /\ ~Reversed(c)
  /\ Ended(a)
  /\ UNCHANGED <<vars, rowVars, page, confirming>>

\* The server stops: the row stays as it is.
AuthStops(a) ==
  /\ Authorizing(a)
  /\ IF auth[a].at = "paying" THEN Ended(a) ELSE Over(a)
  /\ UNCHANGED <<vars, talkVars, page, confirming>>

IntentNext ==
  \/ Talk \/ ConfirmLook \/ ConfirmWrite \/ getIntentForMiniApp
  \/ \E a \in Attempts : \/ AuthRead(a) \/ AuthRefused(a) \/ AuthProcessing(a)
                         \/ AuthExecute(a) \/ AuthUnfit(a) \/ AuthEnd(a) \/ AuthStops(a)

-----------------------------------------------------------------------------
\* What an attempt took for the review of message n: an order that the provider has or
\* has paid.
Taken(a, n) ==
  /\ auth[a].review.slots.by = n
  /\ auth[a].review.intent \in DOMAIN ExecutionOf[a]
  /\ order[ExecutionOf[a][auth[a].review.intent]] \in {"open", "paid"}

\* A review is paid once, whatever other messages write into the row meanwhile, whichever
\* attempts fail or stop, and however often the user tries (authorizeIntentWithPin).
ReviewPaidOnce ==
  \A n \in 1..MaxMessages : Cardinality({a \in Attempts : Taken(a, n)}) <= 1

\* What is paid is what the page showed on which the PIN was entered, though the handler
\* of an earlier message may write another review into the row meanwhile.
PaidAsShown ==
  \A a \in Attempts : auth[a].at \in {"execute", "paying"} => auth[a].review = auth[a].from
=============================================================================
