------------------------------ MODULE InfraBills ------------------------------
(***************************************************************************)
(* Bills of organisations: payInfraBill, refreshInfraBillStatus and what   *)
(* they share (src/modules/infra/infraBillsService.ts), next to the        *)
(* payouts of InfraPayout, with which they share wallet, lock and rows.    *)
(*                                                                         *)
(* A bill is a payout row of its own: its USDC is locked, the biller is    *)
(* paid through Flutterwave, and the status Flutterwave gives decides      *)
(* between finalize, release and waiting.  There is no webhook: a bill     *)
(* that is waiting ends when the client asks for its status.               *)
(***************************************************************************)
EXTENDS InfraPayout

CONSTANTS
  Bills,        \* payouts that are bills
  Payers,       \* bill -> processes that may run payInfraBill for it
  BillAnswers,  \* what createBillPayment may come back with
  Blind,        \* states of a bill at the provider in which the status query may fail
  Asked         \* "early": clients ask about bills payInfraBill has not told them about;
                \* "simulate": they settle TEST bills by hand

ASSUME BillsAssumption ==
  /\ Bills \subseteq Payouts
  /\ \A b \in Bills : Creators[b] = {}
  /\ BillAnswers \subseteq {"paid", "open", "queued", "refused", "lost"}
  /\ Blind \subseteq {"none", "open", "paid", "failed"} /\ Asked \subseteq {"early", "simulate"}

VARIABLES
  bill,   \* bill -> what its metadata keeps of the provider's answer and last status
  heard   \* process -> the same, as its handler knows them

billVars == <<vars, bill, heard>>

Nothing == [fw |-> "none", status |-> "none"]

BillInit ==
  /\ Init
  /\ bill = [b \in Bills |-> Nothing]
  /\ heard = [p \in Procs |-> Nothing]

Leave(p) == Finish(p) /\ heard' = [heard EXCEPT ![p] = Nothing]

\* On to a lifecycle function, with where to go on after it.
Into(p, fn, continuation) ==
  /\ Goto(p, fn)
  /\ cont' = [cont EXCEPT ![p] = continuation]
  /\ UNCHANGED <<cur, row, amt, heard>>

\* failLockedBillPayment: releases, then writes 'failed'; a release that throws leaves a
\* row for an operator (needsManualRelease).
failLockedBillPayment(p) == Into(p, "rel.load", [ok |-> "bill.failed", err |-> "idle"])

-----------------------------------------------------------------------------
(* payInfraBill *)

\* The quote, the look at the available balance, and the look for the Idempotency-Key.
payInfraBill(p, b) ==
  /\ pc[p] = "idle" /\ p \in Payers[b] /\ tx[b] = NoTx
  /\ \E a \in Quotes[b] :
       /\ ledger.rows[Org].bal.available >= a
       /\ amt' = [amt EXCEPT ![p] = a]
  /\ Goto(p, "bill.insert")
  /\ cur' = [cur EXCEPT ![p] = b]
  /\ UNCHANGED <<ledger, tx, row, cont, order, bill, heard>>

\* INSERT; a row of another call under the same key makes it throw.
insertBillTx(p) ==
  /\ pc[p] = "bill.insert"
  /\ IF tx[cur[p]] = NoTx
       THEN /\ tx' = [tx EXCEPT ![cur[p]] =
                       [NoTx EXCEPT !.status = IF cur[p] \in Live THEN "pending" ELSE "processing",
                                    !.usdc = amt[p]]]
            /\ Into(p, "lock.load", [ok |-> "bill.validate", err |-> "lock.failed"])
            /\ UNCHANGED ledger
       ELSE Leave(p) /\ UNCHANGED <<ledger, tx>>
  /\ UNCHANGED <<order, bill>>

\* Airtime and data are not validated; the rest may be refused before it is paid.
validateInfraBill(p) ==
  /\ pc[p] = "bill.validate"
  /\ \/ Goto(p, "bill.request") /\ UNCHANGED <<cur, row, amt, cont, heard>>
     \/ failLockedBillPayment(p)
  /\ UNCHANGED <<ledger, tx, order, bill>>

\* createBillPayment: "paid" and "open" are answers without a status, before and after the
\* biller was paid, "queued" is one that says pending.  "lost" is thrown like "refused",
\* although the provider took the order.
BillRequest(p) ==
  /\ pc[p] = "bill.request"
  /\ \E answer \in BillAnswers :
       /\ order' = IF answer = "refused" THEN order
                   ELSE [order EXCEPT ![cur[p]][p] = IF answer = "paid" THEN "paid" ELSE "open"]
       /\ IF answer \in {"refused", "lost"}
            THEN IF cur[p] \in Live THEN failLockedBillPayment(p)
                 ELSE Into(p, "fin.load", Idle)       \* shouldSimulateBillOnProviderFailure
            ELSE /\ Goto(p, "bill.status")
                 /\ heard' = [heard EXCEPT ![p].fw = IF answer = "queued" THEN "pending" ELSE "clean"]
                 /\ UNCHANGED <<cur, row, amt, cont>>
  /\ UNCHANGED <<ledger, tx, bill>>

-----------------------------------------------------------------------------
(* The provider's status, and what follows from it. *)

AtProvider(b) ==
  LET orders == {order[b][q] : q \in Procs}
  IN IF "failed" \in orders THEN "failed" ELSE IF "paid" \in orders THEN "paid"
     ELSE IF "open" \in orders THEN "open" ELSE "none"

Word == [failed |-> "failed", paid |-> "success", open |-> "pending"]

\* fetchBillPaymentStatus; when it throws, the status stored before counts.  Asking for a
\* bill that the provider does not know is an error, too.
Fetched(p, b) ==
  {Word[s] : s \in {AtProvider(b)} \ {"none"}}
    \cup {heard[p].status : s \in {AtProvider(b)} \cap (Blind \cup {"none"})}

\* Mutant: a status that cannot be had is taken for a failure.
OutcomeBlind(fw, status) ==
  IF status \in {"failed", "none"} THEN "failed"
  ELSE IF "pending" \in {fw, status} THEN "pending" ELSE "success"

\* resolveFlutterwaveBillOutcome looks at the words of both answers together: one that
\* says pending outweighs one that says success, whichever is newer.
resolveFlutterwaveBillOutcome(fw, status) ==
  IF status = "failed" THEN "failed"
  ELSE IF "pending" \in {fw, status} THEN "pending"
  ELSE IF status = "success" \/ fw # "none" THEN "success" ELSE "failed"

\* The status is fetched and the outcome acted on.  A refresh also looks at the flags of the
\* row it read; in payInfraBill neither is set.
BillStatus(p) ==
  /\ pc[p] \in {"bill.status", "poll.status"}
  /\ \E status \in Fetched(p, cur[p]) :
       LET polled == pc[p] = "poll.status"
           outcome == resolveFlutterwaveBillOutcome(heard[p].fw, status)
           fails == outcome = "failed" /\ ~row[p].fundsFinalized /\ ~row[p].fundsReleased
           hear == heard' = [heard EXCEPT ![p].status = status]
       IN \/ fails /\ failLockedBillPayment(p)
          \/ outcome = "pending" /\ hear /\ Goto(p, "bill.mark") /\ UNCHANGED <<cur, row, amt, cont>>
          \/ /\ ~fails /\ outcome # "pending" /\ row[p].fundsFinalized
             /\ Leave(p)
          \/ /\ ~fails /\ outcome # "pending" /\ ~row[p].fundsFinalized
             /\ hear /\ Goto(p, "fin.load")
             /\ cont' = [cont EXCEPT ![p] =
                  [ok |-> "bill.settled", err |-> IF polled THEN "idle" ELSE "bill.mark"]]
             /\ UNCHANGED <<cur, row, amt>>
  /\ UNCHANGED <<ledger, tx, order, bill>>

\* The UPDATEs that end a handler: failLockedBillPayment, markBillProcessing and
\* completeBillSettlement.  "Provider already accepted payment: never release the lock".
BillEnd(p) ==
  /\ pc[p] \in {"bill.failed", "bill.mark", "bill.settled"}
  /\ tx' = [tx EXCEPT ![cur[p]].status =
              CASE pc[p] = "bill.failed"  -> "failed"
                [] pc[p] = "bill.mark"    -> "processing"
                [] pc[p] = "bill.settled" -> "settled"]
  /\ bill' = IF pc[p] = "bill.failed" THEN bill ELSE [bill EXCEPT ![cur[p]] = heard[p]]
  /\ Leave(p)
  /\ UNCHANGED <<ledger, order>>

\* A client that asks early has the id from a list, or from a repeated call.
Known(b) == bill[b] # Nothing \/ "early" \in Asked

\* refreshInfraBillStatus reads a bill that has not ended.
refreshInfraBillStatus(p, b) ==
  /\ pc[p] = "idle" /\ tx[b].status \in {"pending", "processing"}
  /\ Known(b)
  /\ Goto(p, "poll.status")
  /\ cur' = [cur EXCEPT ![p] = b]
  /\ row' = [row EXCEPT ![p] = tx[b]]
  /\ heard' = [heard EXCEPT ![p] = bill[b]]
  /\ UNCHANGED <<ledger, tx, amt, cont, order, bill>>

-----------------------------------------------------------------------------
BillStep(p) == insertBillTx(p) \/ validateInfraBill(p) \/ BillRequest(p) \/ BillStatus(p) \/ BillEnd(p)

\* An await of payInfraBill's settlement that throws after the finalize leads to its catch
\* block; every other one ends the handler.
BillThrow(p) ==
  /\ pc[p] = "bill.settled" /\ cont[p].err = "bill.mark"
  /\ Goto(p, "bill.mark")
  /\ UNCHANGED <<ledger, tx, cur, row, amt, cont, order, bill, heard>>

\* What InfraPayout does, for which bills are rows like others; a handler that ends
\* forgets what it heard.
PayoutNext ==
  /\ \/ \E p \in Procs, t \in Payouts : CreateFind(p, t)
     \/ \E p \in Procs : Step(p) \/ ((Throw(p) \/ Crash(p)) /\ UNCHANGED order)
     \/ \E t \in Payouts, p \in Procs, o \in {"paid", "failed"} : ProviderEnds(t, p, o)
     \/ \E p \in Procs, t \in Payouts \ Bills : SuccessWebhook(p, t) \/ FailureWebhook(p, t)
     \/ \E p \in Procs, t \in Payouts : simulateSettlement(p, t) /\ (t \in Bills => "simulate" \in Asked)
  /\ heard' = [p \in Procs |-> IF pc'[p] = "idle" THEN Nothing ELSE heard[p]]
  /\ UNCHANGED bill

BillNext ==
  \/ PayoutNext
  \/ \E p \in Procs, b \in Bills : payInfraBill(p, b) \/ refreshInfraBillStatus(p, b)
  \/ \E p \in Procs : BillStep(p) \/ BillThrow(p)

BillSpec == BillInit /\ [][BillNext]_billVars

-----------------------------------------------------------------------------
=============================================================================
