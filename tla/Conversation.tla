----------------------------- MODULE Conversation -----------------------------
(***************************************************************************)
(* The conversation engine (src/modules/four/engine, finance): a message   *)
(* is answered by the first rule of handleUserText that fits it, from a    *)
(* copy of the conversation's row of four_active_intents that was read     *)
(* before, and ends by writing that row whole, whatever it says by then.   *)
(*                                                                         *)
(* What the user said is kept by provenance: an amount or a recipient is   *)
(* the number of the message that named it, 0 when none did.  A review is  *)
(* known by the message that brought it up.                                *)
(***************************************************************************)
EXTENDS Integers, Sequences

CONSTANTS
  Utterances,   \* what may be said: [kind, amount (is one named), to (who or where), again]
  MaxMessages,  \* bound: messages in one behaviour, the last only for a send (SEND_YC),
                \* which takes more of them than other payments
  Doubled       \* bound: what may overlap itself, of {"message", "confirm", "authorize"}

Destinations == {"none", "name", "pronoun", "bank", "part", "account"}

ASSUME ConversationAssumption ==
  /\ MaxMessages \in Nat /\ Doubled \subseteq {"message", "confirm", "authorize"}
  /\ \A w \in Utterances : w.amount \in BOOLEAN /\ w.again \in BOOLEAN /\ w.to \in Destinations

VARIABLES
  intent,      \* the row of four_active_intents: intent, status, slots
  heard,       \* messages so far, in the order in which their handlers read the row
  handling,    \* message -> where its handler is, and the copy of the row it has read
  recent,      \* rememberMoneyContext: the recipient of the last review
  preparing,   \* pendingAddressNotifies: a deposit address is made in the background
  closed       \* number of the message that last cancelled what was going on, while no
               \* other message was being handled

talkVars == <<intent, heard, handling, recent, preparing, closed>>

NoSlots == [amount |-> 0, to |-> 0, pending |-> {}, by |-> 0]
NoIntent == [intent |-> "none", status |-> "none", slots |-> NoSlots]
Silence == [kind |-> "nothing", amount |-> FALSE, to |-> "none", again |-> FALSE]
Idle == [at |-> "idle", said |-> Silence, seen |-> NoIntent, planned |-> FALSE]

Messages == 1..MaxMessages

Terminal == {"COMPLETED", "FAILED", "CANCELLED"}
Open == {"COLLECTING_INFORMATION", "AWAITING_CONFIRMATION"}

\* A conversation, or none in this behaviour.
ConversationInit ==
  /\ intent = NoIntent
  /\ heard \in {0, MaxMessages}
  /\ handling = [n \in Messages |-> Idle]
  /\ recent = 0 /\ preparing = FALSE /\ closed = 0

-----------------------------------------------------------------------------
\* The handler of message n is done, or goes on.
Handled(n) == handling' = [handling EXCEPT ![n] = Idle]

upsertActiveIntent(name, status, slots) ==
  intent' = [intent |-> name, status |-> status, slots |-> slots]

Collect(name, slots) == upsertActiveIntent(name, "COLLECTING_INFORMATION", [slots EXCEPT !.by = 0])

Review(n, name, slots) ==
  upsertActiveIntent(name, "AWAITING_CONFIRMATION",
                     [slots EXCEPT !.pending = {}, !.by = n])

cancelActiveIntent(n) ==
  /\ intent' = IF intent.status \in Terminal \cup {"none"} THEN intent
               ELSE [intent EXCEPT !.status = "CANCELLED"]
  /\ closed' = IF \A m \in Messages \ {n} : handling[m].at = "idle" THEN n ELSE closed

Slots(amount, to, pending) == [amount |-> amount, to |-> to, pending |-> pending, by |-> 0]

\* finalizeSendReview.  Without the balance for it nothing is written: HandlerEnds.
finalizeSendReview(n, amount, to) ==
  \/ Collect("SEND_MONEY", Slots(amount, to, {})) /\ UNCHANGED recent
  \/ Review(n, "SEND_MONEY", Slots(amount, to, {})) /\ recent' = to

\* What every caller of resolveSendDestination does with a recipient that was found...
Found(n, amount, to) ==
  IF amount = 0 THEN Collect("SEND_MONEY", Slots(0, to, {})) /\ UNCHANGED recent
  ELSE finalizeSendReview(n, amount, to)

\* ... and with several of that name.
Several(amount) ==
  Collect("SEND_MONEY", Slots(amount, 0, {"recipientLabel", "candidates"})) /\ UNCHANGED recent

\* getActiveIntentForConversation (its 24 hours are not modelled)
getActive == IF intent.status \in Terminal THEN NoIntent ELSE intent

\* A message comes, and its handler reads the row; nothing in the code makes it wait for
\* the handlers of earlier messages.  Bound: it does without "message".
Hear ==
  /\ heard < MaxMessages
  /\ (\E n \in Messages : handling[n].at # "idle") => "message" \in Doubled
  /\ heard + 1 = MaxMessages => intent.intent = "SEND_YC" /\ intent.status \in Open
  /\ heard' = heard + 1
  /\ \E w \in Utterances :
       handling' = [handling EXCEPT ![heard + 1] =
                      [at |-> IF w.kind = "button" THEN "button" ELSE "route", said |-> w,
                       seen |-> getActive, planned |-> FALSE]]
  /\ UNCHANGED <<intent, recent, preparing, closed>>

-----------------------------------------------------------------------------
\* What the handler of message n answers, and the row as it has read it.
said(n) == handling[n].said
seen(n) == handling[n].seen

Named(n) == IF said(n).amount THEN n ELSE 0

\* shouldInterruptCollection: a new request takes the place of what was being collected.
Interrupts(n) ==
  /\ seen(n).status = "COLLECTING_INFORMATION"
  /\ \/ said(n).kind \in {"fund", "bill", "kyc", "balance", "value", "corridor"}
     \/ said(n).kind = "send" /\ said(n).to # "none"

\* Mutant: only the row is cancelled.
InterruptForgetful(n) ==
  /\ handling[n].at = "route" /\ Interrupts(n)
  /\ cancelActiveIntent(n)
  /\ handling' = [handling EXCEPT ![n].at = "rules"]
  /\ UNCHANGED <<heard, recent, preparing>>

\* The row is cancelled, and the rules below see none.
Interrupt(n) ==
  /\ handling[n].at = "route" /\ Interrupts(n)
  /\ cancelActiveIntent(n)
  /\ handling' = [handling EXCEPT ![n].at = "rules", ![n].seen = NoIntent]
  /\ UNCHANGED <<heard, recent, preparing>>

\* The rules of handleUserText in their order; the first that fits answers the message.
Rules(n) ==
  LET k == said(n).kind
      sending == seen(n).intent = "SEND_MONEY" /\ seen(n).status \in Open
      collecting == sending /\ seen(n).status = "COLLECTING_INFORMATION"
      has == seen(n).slots.pending
  IN <<
    <<"cancel",      k = "cancel">>,
    <<"defer",       k = "defer" /\ collecting>>,
    <<"pick",        k = "pick" /\ collecting /\ "candidates" \in has>>,
    <<"nothing",     k = "kyc">>,
    <<"bill",        k = "bill">>,
    <<"corridor",    seen(n).intent = "SEND_YC" /\ seen(n).status \in Open
                       /\ k \notin {"balance", "fund", "ask"}>>,
    <<"bill",        seen(n).intent = "PAY_BILL" /\ seen(n).status \in Open
                       /\ k \notin {"balance", "fund", "send", "ask", "value", "corridor"}>>,
    <<"nothing",     k = "ask">>,
    <<"crypto",      (seen(n).intent = "SEND_CRYPTO" \/ k = "crypto") /\ k # "balance">>,
    <<"deposit",     (seen(n).intent = "FUND_CRYPTO" \/ k = "deposit")
                       /\ k \notin {"send", "balance", "fund", "value", "corridor"}>>,
    <<"destination", sending /\ (k = "destination"
                                 \/ (k = "send" /\ said(n).to \in {"bank", "part", "account"}))>>,
    <<"amount",      k = "amount" /\ sending>>,
    <<"resume",      said(n).again /\ seen(n).intent # "SEND_MONEY" /\ recent # 0>>,
    <<"recipient",   k = "recipient" /\ sending>>,
    <<"digits",      k = "digits" /\ collecting /\ "bankHint" \in has>>,
    <<"bankName",    k = "bankName" /\ collecting
                       /\ \/ "account" \in has
                          \/ /\ "bankHint" \notin has
                             /\ "recipientLabel" \in has \/ seen(n).slots.amount # 0>>,
    <<"balance",     k \in {"balance", "value"}>>,
    <<"cancel",      k \in {"fund", "bankDetails"}>>,
    <<"corridor",    k = "corridor">>,
    <<"send",        k = "send">>,
    <<"nothing",     seen(n).intent # "SEND_YC" /\ seen(n).status \in Open \cup {"AWAITING_DEPOSIT"}>>,
    <<"plan",        ~handling[n].planned>>,
    <<"nothing",     TRUE>> >>

Route(n) ==
  LET rules == Rules(n)
  IN rules[CHOOSE i \in DOMAIN rules : rules[i][2] /\ \A j \in 1..(i - 1) : ~rules[j][2]][1]

-----------------------------------------------------------------------------
(* Each rule, by the writes it makes. *)

\* "cancel", but also a wish to fund the wallet
Cancel(n) == cancelActiveIntent(n) /\ UNCHANGED recent

\* The balance, unless it is asked for in the middle of a deposit.
Balance(n) == seen(n).intent # "FUND_CRYPTO" /\ Cancel(n)

Defer(n) ==
  /\ Collect("SEND_MONEY", [seen(n).slots EXCEPT !.pending = @ \ {"bankHint"}])
  /\ UNCHANGED recent

\* pickAmbiguousCandidate
Pick(n) == Found(n, seen(n).slots.amount, n)

\* A bank and an account number for the payment that is open; what is missing of them
\* is asked for, beside all else the draft holds.
Destination(n) ==
  LET amount == IF said(n).amount THEN n ELSE seen(n).slots.amount
      Wanting(what) ==
        /\ Collect("SEND_MONEY", [seen(n).slots EXCEPT !.amount = amount, !.pending = @ \cup {what}])
        /\ UNCHANGED recent
  IN \/ said(n).to = "part" /\ Wanting("bankHint")
     \/ said(n).to = "account" /\ Wanting("account")
     \/ said(n).to = "bank" /\ Found(n, amount, n)

\* Without a recipient the amount is not kept.
Amount(n) == seen(n).slots.to # 0 /\ finalizeSendReview(n, n, seen(n).slots.to)

\* "actually send 10k instead", after a cancellation: to the recipient of the last review
Resume(n) ==
  \/ finalizeSendReview(n, n, recent)
  \/ Collect("SEND_MONEY", Slots(n, 0, {"recipientLabel"})) /\ UNCHANGED recent

Recipient(n) == Found(n, seen(n).slots.amount, n) \/ Several(seen(n).slots.amount)

Digits(n) == Found(n, seen(n).slots.amount, n)

BankName(n) ==
  \/ "account" \in seen(n).slots.pending /\ Found(n, seen(n).slots.amount, n)
  \/ /\ "account" \notin seen(n).slots.pending
     /\ Collect("SEND_MONEY", [seen(n).slots EXCEPT !.pending = @ \cup {"bankHint"}])
     /\ UNCHANGED recent

\* A payment asked for in one message.  What it does not name is taken from the payment
\* that is open or being paid; "him" is the last recipient.
Send(n) ==
  LET inherits == seen(n).intent = "SEND_MONEY"
      amount == IF ~said(n).amount /\ inherits THEN seen(n).slots.amount ELSE Named(n)
      who == CASE said(n).to = "none"    -> IF inherits THEN seen(n).slots.to ELSE 0
               [] said(n).to = "pronoun" -> recent
               [] OTHER            -> n
      byName == said(n).to \in {"none", "name", "pronoun"} /\ who # 0
      Draft(pending) == Collect("SEND_MONEY", Slots(amount, 0, pending)) /\ UNCHANGED recent
  IN /\ said(n).to = "pronoun" => recent # 0
     /\ \/ said(n).to = "part" /\ Draft({"bankHint"})
        \/ said(n).to = "account" /\ Draft({"account"})
        \/ said(n).to \in {"bank", "none"} /\ ~byName /\ amount # 0 /\ Draft({})
        \/ byName /\ (Several(amount) \/ Draft({"recipientLabel"}))
        \/ (byName \/ said(n).to = "bank") /\ Found(n, amount, who)

\* beginBillPayment and continueBillPayment.  A bill of another category, or a first one,
\* starts from nothing; providers, packages and the check of the customer may fail.
Bill(n) ==
  /\ \E begins \in BOOLEAN :
       /\ seen(n).intent # "PAY_BILL" \/ seen(n).status \notin Open => begins
       /\ said(n).kind # "bill" => ~begins
       /\ LET s == IF begins THEN Slots(0, 0, {"category"}) ELSE seen(n).slots
              filled == Slots(IF said(n).amount THEN n ELSE s.amount,
                              IF said(n).to # "none" THEN n ELSE s.to, {})
          IN \/ "category" \in s.pending /\ Collect("PAY_BILL", s)
             \/ Collect("PAY_BILL", filled)
             \/ filled.amount # 0 /\ filled.to # 0 /\ Review(n, "PAY_BILL", filled)
  /\ UNCHANGED recent

\* beginYellowCardSend and continueYellowCardSend: amount, bank, account, one by one.
Corridor(n) ==
  /\ IF seen(n).intent # "SEND_YC" \/ seen(n).status \notin Open
       THEN Collect("SEND_YC", Slots(Named(n), 0, {IF said(n).amount THEN "bank" ELSE "amount"}))
       ELSE \/ /\ "amount" \in seen(n).slots.pending /\ said(n).amount
               /\ Collect("SEND_YC", Slots(n, 0, {"bank"}))
            \/ /\ "bank" \in seen(n).slots.pending
               /\ Collect("SEND_YC", Slots(seen(n).slots.amount, 0, {"account"}))
            \/ /\ "account" \in seen(n).slots.pending
               /\ Review(n, "SEND_YC", Slots(seen(n).slots.amount, n, {}))
  /\ UNCHANGED recent

\* continueCryptoSend, also for any message while one is open: it puts a complete one up
\* for review again.
CryptoSend(n) ==
  /\ LET s == IF seen(n).intent = "SEND_CRYPTO" THEN seen(n).slots ELSE Slots(0, 0, {"asset"})
         filled == Slots(IF said(n).amount THEN n ELSE s.amount,
                         IF said(n).to # "none" THEN n ELSE s.to, {})
     IN \/ "asset" \in s.pending /\ Collect("SEND_CRYPTO", [filled EXCEPT !.pending = {"asset"}])
        \/ (filled.amount = 0 \/ filled.to = 0) /\ Collect("SEND_CRYPTO", filled)
        \/ filled.amount # 0 /\ filled.to # 0 /\ Review(n, "SEND_CRYPTO", filled)
  /\ UNCHANGED recent

\* The language model reads the message as one of the requests above.  A bank transfer is
\* worded anew and handled from the start; the other ones go to their handler.
Plan(n) ==
  /\ \E w \in Utterances :
       /\ w.kind \in {"send", "bill", "crypto", "deposit", "fund"}
       /\ handling' = [handling EXCEPT ![n].at = "route", ![n].said = w, ![n].planned = TRUE,
                         ![n].seen = IF w.kind = "send" THEN getActive ELSE NoIntent]
  /\ UNCHANGED <<intent, recent, closed>>

(* Deposits of crypto. *)
Fund(status, pending) == upsertActiveIntent("FUND_CRYPTO", status, Slots(0, 0, pending))

\* beginCryptoFunding, by a button
DepositButton(n) ==
  /\ handling[n].at = "button"
  /\ Fund("COLLECTING_INFORMATION", {})
  /\ Handled(n) /\ UNCHANGED <<heard, recent, preparing, closed>>

\* continueCryptoFunding: the asset or the network may be missing or unknown...
Deposit(n) ==
  /\ LET has == IF seen(n).intent = "FUND_CRYPTO" THEN seen(n).slots.pending ELSE {}
     IN \/ Fund("COLLECTING_INFORMATION", has) /\ Handled(n)
        \/ /\ "issued" \in has
           /\ Fund("AWAITING_DEPOSIT", has) /\ Handled(n)
        \/ /\ "issued" \notin has
           /\ Fund("COLLECTING_INFORMATION", has)
           /\ handling' = [handling EXCEPT ![n] = [Idle EXCEPT !.at = "issue"]]
  /\ UNCHANGED <<recent, closed>>

\* ... and issueDepositAddress waits for a wallet, which may take too long.
issueDepositAddress(n) ==
  /\ handling[n].at = "issue" /\ ~preparing
  /\ \/ Fund("AWAITING_DEPOSIT", {"issued"}) /\ UNCHANGED preparing
     \/ Fund("COLLECTING_INFORMATION", {"address"}) /\ preparing' \in BOOLEAN
  /\ Handled(n) /\ UNCHANGED <<heard, recent, closed>>

\* scheduleDepositAddressReadyNotify: the wallet is ready, or cannot be made.
DepositAddressReady ==
  /\ preparing
  /\ preparing' = FALSE
  /\ intent' = intent \/ Fund("AWAITING_DEPOSIT", {"issued"})
  /\ UNCHANGED <<heard, handling, recent, closed>>

-----------------------------------------------------------------------------
\* A handler that is done with interrupting does what its rule says; after "nothing" it
\* only replies: HandlerEnds.
Answer(n) ==
  /\ handling[n].at = "rules" \/ (handling[n].at = "route" /\ ~Interrupts(n))
  /\ \E rule \in {Route(n)} :
       \/ rule = "plan" /\ Plan(n)
       \/ rule = "deposit" /\ Deposit(n)
       \/ /\ \/ rule = "cancel" /\ Cancel(n)
             \/ rule = "balance" /\ Balance(n)
          /\ Handled(n)
       \/ /\ \/ rule = "defer" /\ Defer(n)
             \/ rule = "pick" /\ Pick(n)
             \/ rule = "destination" /\ Destination(n)
             \/ rule = "amount" /\ Amount(n)
             \/ rule = "resume" /\ Resume(n)
             \/ rule = "recipient" /\ Recipient(n)
             \/ rule = "digits" /\ Digits(n)
             \/ rule = "bankName" /\ BankName(n)
             \/ rule = "send" /\ Send(n)
             \/ rule = "bill" /\ Bill(n)
             \/ rule = "corridor" /\ Corridor(n)
             \/ rule = "crypto" /\ CryptoSend(n)
          /\ Handled(n) /\ UNCHANGED closed
  /\ UNCHANGED <<heard, preparing>>

\* A reply without a write: rules that only answer, a look-up that failed, a balance that
\* is too low, an address that is being prepared already; or the server stops.
HandlerEnds(n) ==
  /\ handling[n].at # "idle"
  /\ Handled(n)
  /\ UNCHANGED <<intent, heard, recent, preparing, closed>>

ConversationNext ==
  \/ Hear \/ DepositAddressReady
  \/ \E n \in Messages : \/ Interrupt(n) \/ Answer(n) \/ DepositButton(n)
                         \/ issueDepositAddress(n) \/ HandlerEnds(n)

-----------------------------------------------------------------------------
\* What was cancelled does not come back: no draft or review of a payment has an amount
\* that the user named before the last "cancel", or before the last request that took the
\* place of a draft (cancelActiveIntent and shouldInterruptCollection), however messages
\* overlap before and after it.  Of a cancellation that comes while another message is
\* being handled nothing is said: that handler writes the amount back that it has read.
FreshAmount ==
  intent.status \in Open /\ intent.slots.amount # 0 => intent.slots.amount >= closed
=============================================================================
