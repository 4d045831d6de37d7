----------------------------- MODULE PayoutProofs -----------------------------
(***************************************************************************)
(* That what becomes of a lock agrees with what the provider and Stellar   *)
(* do, for any number of payouts, bills and handlers.                      *)
(*                                                                         *)
(* First, payouts and bills that the provider is paid for at once, each    *)
(* asked for by one process, every answer of the provider arriving.  The   *)
(* argument: one process may place an order for a payout, so there is one  *)
(* at most, and the order, not the flags that the handlers read and check  *)
(* on old copies, keeps finalize and release apart: who finalizes has seen *)
(* it paid, and who releases has seen it failed, or is the one who would   *)
(* have placed it.                                                         *)
(*                                                                         *)
(* Then withdrawals, whose USDC goes to the treasury before the provider   *)
(* is asked to pay the bank, and reconciliation beside them.               *)
(***************************************************************************)
EXTENDS InfraBills, InfraReconciliation, LedgerLemmas

Callers(t) == Creators[t] \cup (IF t \in Bills THEN Payers[t] ELSE {})

\* Section 5 of the README has what happens otherwise.
OneCaller == \A t \in Payouts : \A p, q \in Callers(t) : p = q

AnswersArrive ==
  /\ "timeout" \notin SubmitResults /\ "lost" \notin BillAnswers
  /\ Blind \subseteq {"paid"} /\ Asked = {}

-----------------------------------------------------------------------------
Early == {"insert", "bill.insert"}
Locking == {"lock.load", "lock.post", "lock.patch"}
Finalizing == {"fin.load", "fin.post", "fin.patch"}
Releasing == {"rel.load", "rel.post", "rel.patch"}

\* Where a handler may still place an order.
PreOrder == Early \cup Locking \cup {"submit", "bill.validate", "bill.request"}

\* Where payInfraBill or a refresh knows that there is an order.
Told == {"bill.status", "poll.status", "bill.mark", "bill.settled"}

Labels ==
  {"idle", "lock.failed", "submitted", "bill.failed"}
    \cup PreOrder \cup Finalizing \cup Releasing \cup Told

Creation == {[ok |-> "submit", err |-> "lock.failed"], [ok |-> "idle", err |-> "lock.failed"]}
BillCreation == [ok |-> "bill.validate", err |-> "lock.failed"]
BillRelease == [ok |-> "bill.failed", err |-> "idle"]
BillSettle == {[ok |-> "bill.settled", err |-> e] : e \in {"idle", "bill.mark"}}

Continuations == Creation \cup BillSettle \cup {Idle, BillCreation, BillRelease}

Note == [fw : {"none", "clean", "pending"}, status : {"none", "pending", "success", "failed"}]

\* The ledger, the rows, the orders ...
SharedTyped ==
  /\ Well(ledger) /\ ledger.rows[Org].status # "absent"
  /\ tx \in [Payouts -> TxRow]
  /\ order \in [Payouts -> [Procs -> {"none", "open", "paid", "failed"}]]
  /\ bill \in [Bills -> Note]

\* ... and what the handlers hold.
LocalTyped ==
  /\ pc \in [Procs -> Labels]
  /\ cur \in [Procs -> Payouts \cup {NoOne}]
  /\ row \in [Procs -> TxRow]
  /\ amt \in [Procs -> Amounts \cup {0}]
  /\ cont \in [Procs -> Continuations]
  /\ heard \in [Procs -> Note]

\* A movement with a reference is one of the lifecycle of that payout.
KeyOfType == [funds_lock |-> "lock", funds_release |-> "release", payout_settle |-> "finalize"]

SlotsAreKeys ==
  \A w \in Wallets : \A i \in 1..Len(ledger.movements[w]) :
    LET m == ledger.movements[w][i]
    IN m.ref # NoRef => m.type \in DOMAIN KeyOfType /\ m.key = <<m.ref, KeyOfType[m.type]>>

LedgerSound == Well(ledger) /\ ledger.rows[Org].status # "absent" /\ SlotsAreKeys

NoOrder(t) == \A q \in Procs : order[t][q] = "none"
Ended(t, outcome) == \E q \in Procs : order[t][q] = outcome
Placed(t) == \E q \in Procs : order[t][q] # "none"

BeforeOrder(q, t) == cur[q] = t /\ pc[q] \in PreOrder

\* A finalize that will post: one that finds the payout released will not.
WillFinalize(q, t) ==
  /\ cur[q] = t
  /\ pc[q] \in {"fin.post", "fin.patch"} \/ (pc[q] = "fin.load" /\ ~tx[t].fundsReleased)

\* The provider has paid t, or will never have an order for it, as in TEST.
PaidOrNever(t) ==
  /\ tx[t] # NoTx
  /\ \/ Ended(t, "paid")
     \/ /\ t \notin Live /\ NoOrder(t)
        /\ t \in Bills => \A q \in Procs : ~BeforeOrder(q, t)

\* The provider will not pay t, and nobody debits it.
Dead(t) ==
  /\ tx[t] # NoTx /\ t \in ViaProvider \cup Bills
  /\ \A q \in Procs : order[t][q] \in {"none", "failed"}
  /\ \A q \in Procs : ~BeforeOrder(q, t) /\ ~WillFinalize(q, t)
  /\ ~HasPosted(t, "finalize")

\* What an order rests on, and what was posted.
Settling(t) ==
  /\ \A q \in Procs : order[t][q] # "none" =>
       /\ q \in Callers(t) /\ t \in ViaProvider \cup Bills
       /\ tx[t] # NoTx /\ HasPosted(t, "lock")
  /\ HasPosted(t, "finalize") => PaidOrNever(t)
  /\ HasPosted(t, "release") => Dead(t)

\* What a bill's stored answers say of its order.
Truthful(t, note) ==
  /\ note # Nothing => Placed(t) /\ note.fw # "none"
  /\ note.status = "failed" => Ended(t, "failed")

\* What a handler may count on where it is.
Working(p) ==
  LET t == cur[p]
  IN /\ pc[p] # "idle" => t \in Payouts
     /\ pc[p] = "idle" => heard[p] = Nothing
     /\ pc[p] \in Early => tx[t] = NoTx
     /\ pc[p] \notin Early \cup {"idle"} => tx[t] # NoTx
     /\ pc[p] \in PreOrder => p \in Callers(t) /\ NoOrder(t) /\ heard[p] = Nothing
     /\ pc[p] \in {"lock.post", "lock.patch", "bill.insert"} => amt[p] # 0
     /\ pc[p] \in {"lock.patch", "submit", "bill.validate", "bill.request"} => HasPosted(t, "lock")
     /\ pc[p] = "submit" => t \in ViaProvider
     /\ pc[p] \in Told \cup {"bill.insert", "bill.validate", "bill.request", "bill.failed"} => t \in Bills
     /\ pc[p] \in {"insert"} \cup Locking =>
          /\ cont[p] \in Creation \cup {BillCreation}
          /\ cont[p].ok = "submit" => t \in ViaProvider
          /\ cont[p] = BillCreation => t \in Bills
     /\ pc[p] = "insert" => cont[p] \in Creation
     /\ pc[p] \in {"fin.post", "fin.patch", "rel.post", "rel.patch"} => amt[p] # 0
     /\ pc[p] \in Finalizing => cont[p] \in BillSettle \cup {Idle}
     /\ WillFinalize(p, t) => PaidOrNever(t)
     /\ pc[p] \in Releasing => Dead(t) /\ (cont[p] = Idle \/ (cont[p] = BillRelease /\ t \in Bills))
     /\ pc[p] \in Told \/ (pc[p] \in Finalizing /\ cont[p] # Idle) =>
          t \in Bills /\ Placed(t) /\ heard[p].fw # "none"
     /\ heard[p].status = "failed" => Ended(t, "failed")
     /\ pc[p] = "bill.settled" => cont[p] \in BillSettle
     /\ row[p].fundsReleased => pc[p] # "idle" /\ tx[t].fundsReleased

PayoutInv ==
  /\ SharedTyped /\ LocalTyped
  /\ SlotsAreKeys
  /\ \A t \in Payouts : Settling(t)
  /\ \A b \in Bills : Truthful(b, bill[b])
  /\ \A p \in Procs : Working(p)
-----------------------------------------------------------------------------
(* What a step of p may do, so that the others keep what they count on. *)

Elsewhere(p) ==
  \A q \in Procs \ {p} :
    /\ pc'[q] = pc[q] /\ cur'[q] = cur[q] /\ row'[q] = row[q]
    /\ amt'[q] = amt[q] /\ cont'[q] = cont[q] /\ heard'[q] = heard[q]

\* A row is inserted by the one who found none, and never lost; a release is for good.
RowsMove(p) ==
  \A t \in Payouts :
    /\ tx[t] # NoTx => tx'[t] # NoTx
    /\ tx[t].fundsReleased => tx'[t].fundsReleased
    /\ tx[t] = NoTx /\ tx'[t] # NoTx => cur[p] = t /\ pc[p] \in Early

PostsMove(p) ==
  \A t \in Payouts :
    /\ HasPosted(t, "lock") => HasPosted(t, "lock")'
    /\ HasPosted(t, "finalize")' => HasPosted(t, "finalize") \/ (cur[p] = t /\ pc[p] = "fin.post")
    /\ HasPosted(t, "release")' => HasPosted(t, "release") \/ (cur[p] = t /\ pc[p] = "rel.post")

OrdersMove(p) ==
  \/ order' = order
  \/ /\ pc[p] \in {"submit", "bill.request"}
     /\ \E s \in {"open", "paid"} : order' = [order EXCEPT ![cur[p]][p] = s]

NotesMove(p) ==
  \A b \in Bills :
    \/ bill'[b] = bill[b]
    \/ cur[p] = b /\ pc[p] \in Told /\ bill'[b] = heard[p]

\* Who may order next could before, or found no row; who will finalize would before, or
\* comes to a payout that is not dead.
Enters(p) ==
  /\ pc'[p] \in PreOrder =>
       \/ pc[p] \in PreOrder /\ cur'[p] = cur[p]
       \/ pc'[p] \in Early /\ tx[cur'[p]] = NoTx
  /\ \A t \in Payouts : WillFinalize(p, t)' => WillFinalize(p, t) \/ ~Dead(t)

Moves(p) ==
  Elsewhere(p) /\ RowsMove(p) /\ PostsMove(p) /\ OrdersMove(p) /\ NotesMove(p) /\ Enters(p)

\* What the provider has ended stays so, and an order is placed by the one before it.
LEMMA OrdersGrow ==
  ASSUME PayoutInv, NEW p \in Procs, Moves(p), NEW t \in Payouts
  PROVE  /\ ~(cur[p] = t /\ pc[p] \in {"submit", "bill.request"}) => order'[t] = order[t]
         /\ \A q \in Procs : order[t][q] # "none" => order'[t][q] = order[t][q]
         /\ \A q \in Procs : order'[t][q] # order[t][q] =>
              q = p /\ cur[p] = t /\ pc[p] \in {"submit", "bill.request"}
<1>1. order \in [Payouts -> [Procs -> {"none", "open", "paid", "failed"}]]
  BY DEF PayoutInv, SharedTyped
<1>2. CASE order' = order
  BY <1>2
<1>3. ASSUME pc[p] \in {"submit", "bill.request"}, NEW s \in {"open", "paid"},
             order' = [order EXCEPT ![cur[p]][p] = s]
      PROVE  /\ cur[p] # t => order'[t] = order[t]
             /\ \A q \in Procs : order[t][q] # "none" => order'[t][q] = order[t][q]
             /\ \A q \in Procs : order'[t][q] # order[t][q] => q = p /\ cur[p] = t
  <2>1. NoOrder(cur[p]) /\ cur[p] \in Payouts
    BY <1>3 DEF PayoutInv, Working, PreOrder
  <2>2. cur[p] # t => order'[t] = order[t]
    BY <1>1, <1>3, <2>1
  <2>3. cur[p] = t => order'[t] = [order[t] EXCEPT ![p] = s]
    BY <1>1, <1>3, <2>1
  <2>4. order[t] \in [Procs -> {"none", "open", "paid", "failed"}]
    BY <1>1
  <2>5. QED
    BY <2>1, <2>2, <2>3, <2>4 DEF NoOrder
<1>4. QED
  BY <1>2, <1>3 DEF Moves, OrdersMove

\* A payout that is dead stays dead.
LEMMA DeadStays ==
  ASSUME PayoutInv, NEW p \in Procs, Moves(p), NEW t \in Payouts, Dead(t)
  PROVE  Dead(t)'
<1>1. ~BeforeOrder(p, t) /\ ~WillFinalize(p, t) /\ tx[t] # NoTx
  BY DEF Dead
<1>2. order'[t] = order[t]
  BY <1>1, OrdersGrow DEF BeforeOrder, PreOrder
<1>3. ASSUME NEW q \in Procs PROVE ~BeforeOrder(q, t)' /\ ~WillFinalize(q, t)'
  <2>1. CASE q = p
    BY <1>1, <2>1 DEF Moves, Enters, BeforeOrder, Dead
  <2>2. CASE q # p
    <3>1. /\ pc'[q] = pc[q] /\ cur'[q] = cur[q]
          /\ tx[t].fundsReleased => tx'[t].fundsReleased
      BY <2>2 DEF Moves, Elsewhere, RowsMove
    <3>2. ~BeforeOrder(q, t) /\ ~WillFinalize(q, t)
      BY DEF Dead
    <3>3. QED
      BY <3>1, <3>2 DEF BeforeOrder, WillFinalize
  <2>3. QED
    BY <2>1, <2>2
<1>4. ~HasPosted(t, "finalize")'
  BY <1>1 DEF Moves, PostsMove, Dead, WillFinalize
<1>5. QED
  BY <1>1, <1>2, <1>3, <1>4 DEF Moves, RowsMove, Dead

\* So does one that was paid, or for which no order will be placed.
LEMMA PaidStays ==
  ASSUME PayoutInv, NEW p \in Procs, Moves(p), NEW t \in Payouts, PaidOrNever(t)
  PROVE  PaidOrNever(t)'
<1>1. tx[t] # NoTx /\ tx'[t] # NoTx
  BY DEF Moves, RowsMove, PaidOrNever
<1>2. CASE Ended(t, "paid")
  BY <1>1, <1>2, OrdersGrow DEF Ended, PaidOrNever
<1>3. CASE /\ t \notin Live /\ NoOrder(t)
           /\ t \in Bills => \A q \in Procs : ~BeforeOrder(q, t)
  <2>1. ~(cur[p] = t /\ pc[p] \in {"submit", "bill.request"})
    BY <1>3 DEF PayoutInv, Working, ViaProvider, BeforeOrder, PreOrder
  <2>2. NoOrder(t)'
    BY <1>3, <2>1, OrdersGrow DEF NoOrder
  <2>3. ASSUME t \in Bills, NEW q \in Procs PROVE ~BeforeOrder(q, t)'
    BY <1>1, <1>3, <2>3 DEF Moves, Elsewhere, Enters, BeforeOrder
  <2>4. QED
    BY <1>1, <1>3, <2>2, <2>3 DEF PaidOrNever
<1>4. QED
  BY <1>2, <1>3 DEF PaidOrNever

\* The handlers that p does not touch go on counting on what they did.
LEMMA OthersWork ==
  ASSUME PayoutInv, OneCaller, NEW p \in Procs, Moves(p), NEW q \in Procs \ {p}
  PROVE  Working(q)'
<1>1. /\ pc'[q] = pc[q] /\ cur'[q] = cur[q] /\ row'[q] = row[q]
      /\ amt'[q] = amt[q] /\ cont'[q] = cont[q] /\ heard'[q] = heard[q]
      /\ Working(q) /\ Working(p)
  BY DEF Moves, Elsewhere, PayoutInv
<1>2. CASE pc[q] = "idle"
  BY <1>1, <1>2 DEF Working, Nothing, WillFinalize, PreOrder, Early, Locking, Finalizing,
                    Releasing, Told
<1>3. CASE pc[q] # "idle"
  <2>1. PICK t \in Payouts : t = cur[q]
    BY <1>1, <1>3 DEF Working
  <2>2. pc[q] \in PreOrder => ~(cur[p] = t /\ pc[p] \in PreOrder)
    BY <1>1, <2>1 DEF Working, OneCaller
  <2>3. pc[q] \in Early => tx'[t] = NoTx
    <3>1. SUFFICES ASSUME pc[q] \in Early PROVE tx'[t] = NoTx
      OBVIOUS
    <3>2. tx[t] = NoTx
      BY <2>1, <1>1, <3>1 DEF Working
    <3>3. QED
      BY <2>1, <2>2, <3>1, <3>2 DEF Moves, RowsMove, PreOrder
  <2>4. pc[q] \notin Early => tx'[t] # NoTx
    BY <1>1, <1>3, <2>1 DEF Working, Moves, RowsMove
  <2>5. pc[q] \in PreOrder => NoOrder(t)'
    <3>1. SUFFICES ASSUME pc[q] \in PreOrder PROVE NoOrder(t)'
      OBVIOUS
    <3>2. order'[t] = order[t]
      BY <2>1, <2>2, <3>1, OrdersGrow DEF PreOrder
    <3>3. NoOrder(t)
      BY <2>1, <1>1, <3>1 DEF Working
    <3>4. QED
      BY <3>2, <3>3 DEF NoOrder
  <2>6. HasPosted(t, "lock") => HasPosted(t, "lock")'
    BY <2>1 DEF Moves, PostsMove
  <2>7. WillFinalize(q, t)' => PaidOrNever(t)'
    <3>1. SUFFICES ASSUME WillFinalize(q, t)' PROVE PaidOrNever(t)'
      OBVIOUS
    <3>2. tx[t].fundsReleased => tx'[t].fundsReleased
      BY <2>1 DEF Moves, RowsMove
    <3>3. WillFinalize(q, t)
      BY <2>1, <1>1, <3>1, <3>2 DEF WillFinalize
    <3>4. PaidOrNever(t)
      BY <2>1, <1>1, <3>3 DEF Working
    <3>5. QED
      BY <2>1, <3>4, PaidStays
  <2>8. pc[q] \in Releasing => Dead(t)'
    <3>1. SUFFICES ASSUME pc[q] \in Releasing PROVE Dead(t)'
      OBVIOUS
    <3>2. Dead(t)
      BY <2>1, <1>1, <3>1 DEF Working
    <3>3. QED
      BY <2>1, <3>2, DeadStays
  <2>9. /\ Placed(t) => Placed(t)'
        /\ Ended(t, "failed") => Ended(t, "failed")'
    BY <2>1, OrdersGrow DEF Placed, Ended
  <2>10. tx[t].fundsReleased => tx'[t].fundsReleased
    BY <2>1 DEF Moves, RowsMove
  <2>11. QED
    BY <1>1, <1>3, <2>1, <2>3, <2>4, <2>5, <2>6, <2>7, <2>8, <2>9, <2>10 DEF Working
<1>4. QED
  BY <1>2, <1>3

\* What an order rests on stays, and what p posts it may post.
LEMMA SettlingStays ==
  ASSUME PayoutInv, NEW p \in Procs, Moves(p), NEW t \in Payouts
  PROVE  Settling(t)'
<1>1. Settling(t) /\ Working(p)
  BY DEF PayoutInv
<1>2. ASSUME NEW q \in Procs, order'[t][q] # "none"
      PROVE  /\ q \in Callers(t) /\ t \in ViaProvider \cup Bills
             /\ tx'[t] # NoTx /\ HasPosted(t, "lock")'
  <2>1. CASE order[t][q] # "none"
    BY <1>1, <2>1 DEF Settling, Moves, RowsMove, PostsMove
  <2>2. CASE order[t][q] = "none"
    <3>1. q = p /\ cur[p] = t /\ pc[p] \in {"submit", "bill.request"}
      BY <1>2, <2>2, OrdersGrow
    <3>2. /\ p \in Callers(t) /\ t \in ViaProvider \cup Bills
          /\ tx[t] # NoTx /\ HasPosted(t, "lock")
      BY <1>1, <3>1 DEF Working, PreOrder, Early, Told
    <3>3. QED
      BY <3>1, <3>2 DEF Moves, RowsMove, PostsMove
  <2>3. QED
    BY <2>1, <2>2
<1>3. ASSUME HasPosted(t, "finalize")' PROVE PaidOrNever(t)'
  <2>1. PaidOrNever(t)
    <3>1. CASE HasPosted(t, "finalize")
      BY <1>1, <3>1 DEF Settling
    <3>2. CASE cur[p] = t /\ pc[p] = "fin.post"
      BY <1>1, <3>2 DEF Working, WillFinalize
    <3>3. QED
      BY <1>3, <3>1, <3>2 DEF Moves, PostsMove
  <2>2. QED
    BY <2>1, PaidStays
<1>4. ASSUME HasPosted(t, "release")' PROVE Dead(t)'
  <2>1. Dead(t)
    <3>1. CASE HasPosted(t, "release")
      BY <1>1, <3>1 DEF Settling
    <3>2. CASE cur[p] = t /\ pc[p] = "rel.post"
      BY <1>1, <3>2 DEF Working, Releasing
    <3>3. QED
      BY <1>4, <3>1, <3>2 DEF Moves, PostsMove
  <2>2. QED
    BY <2>1, DeadStays
<1>5. QED
  BY <1>2, <1>3, <1>4 DEF Settling

\* What is stored of a bill was heard of its order.
LEMMA TruthfulStays ==
  ASSUME PayoutInv, NEW p \in Procs, Moves(p), NEW b \in Bills
  PROVE  Truthful(b, bill[b])'
<1>0. b \in Payouts
  BY BillsAssumption
<1>1. /\ Placed(b) => Placed(b)'
      /\ Ended(b, "failed") => Ended(b, "failed")'
  BY <1>0, OrdersGrow DEF Placed, Ended
<1>2. CASE bill'[b] = bill[b]
  <2>1. Truthful(b, bill[b])
    BY DEF PayoutInv
  <2>2. QED
    BY <1>1, <1>2, <2>1 DEF Truthful
<1>3. CASE cur[p] = b /\ pc[p] \in Told /\ bill'[b] = heard[p]
  <2>1. Working(p)
    BY DEF PayoutInv
  <2>2. Placed(b) /\ heard[p].fw # "none" /\ (heard[p].status = "failed" => Ended(b, "failed"))
    BY <1>3, <2>1 DEF Working
  <2>3. QED
    BY <1>1, <1>3, <2>2 DEF Truthful
<1>4. QED
  BY <1>2, <1>3 DEF Moves, NotesMove

\* So a step of p keeps the invariant when p itself may count on what it does.
LEMMA StepKeeps ==
  ASSUME PayoutInv, OneCaller, NEW p \in Procs, Moves(p),
         SharedTyped', LocalTyped', SlotsAreKeys', Working(p)'
  PROVE  PayoutInv'
<1>1. \A q \in Procs : Working(q)'
  BY OthersWork
<1>2. \A t \in Payouts : Settling(t)'
  BY SettlingStays
<1>3. \A b \in Bills : Truthful(b, bill[b])'
  BY TruthfulStays
<1>4. QED
  BY <1>1, <1>2, <1>3 DEF PayoutInv

-----------------------------------------------------------------------------
(* Where a handler is after its step. *)

HeardKept(p) ==
  /\ heard' \in [Procs -> Note]
  /\ \A q \in Procs \ {p} : heard'[q] = heard[q]
  /\ heard'[p] = IF pc'[p] = "idle" THEN Nothing ELSE heard[p]

Rests(p) ==
  Elsewhere(p) /\ LocalTyped' /\ pc'[p] = "idle" /\ heard'[p] = Nothing /\ row'[p] = NoTx

Goes(p, label) ==
  /\ Elsewhere(p) /\ LocalTyped'
  /\ pc'[p] = label /\ cur'[p] = cur[p] /\ row'[p] = row[p]
  /\ amt'[p] = amt[p] /\ cont'[p] = cont[p] /\ heard'[p] = heard[p]

\* The frame of PayoutNext leaves every other handler what it heard.
LEMMA PayoutHeard ==
  ASSUME PayoutInv, NEW p \in Procs, \A q \in Procs \ {p} : pc'[q] = pc[q],
         heard' = [q \in Procs |-> IF pc'[q] = "idle" THEN Nothing ELSE heard[q]]
  PROVE  HeardKept(p)
<1>1. \A q \in Procs \ {p} : heard'[q] = heard[q]
  BY DEF PayoutInv, Working
<1>2. heard' \in [Procs -> Note]
  BY DEF PayoutInv, LocalTyped, Note, Nothing
<1>3. QED
  BY <1>1, <1>2 DEF HeardKept

\* A handler that ends counts on nothing.
LEMMA RestWorks ==
  ASSUME NEW p \in Procs, Rests(p)
  PROVE  Working(p)' /\ Enters(p)
BY DEF Rests, Working, Enters, WillFinalize, Nothing, NoTx, PreOrder, Early, Locking, Finalizing,
       Releasing, Told

\* Finish ends a handler ...
LEMMA FinishRests ==
  ASSUME PayoutInv, NEW p \in Procs, Finish(p), HeardKept(p)
  PROVE  Rests(p)
<1>1. /\ pc \in [Procs -> Labels] /\ cur \in [Procs -> Payouts \cup {NoOne}]
      /\ row \in [Procs -> TxRow] /\ amt \in [Procs -> Amounts \cup {0}]
      /\ cont \in [Procs -> Continuations]
  BY DEF PayoutInv, LocalTyped
<1>2. pc'[p] = "idle" /\ row'[p] = NoTx
  BY <1>1 DEF Finish, Goto
<1>3. NoTx \in TxRow
  BY DEF NoTx, TxRow
<1>4. Idle \in Continuations /\ "idle" \in Labels
  BY DEF Continuations, Labels
<1>5. LocalTyped'
  BY <1>1, <1>3, <1>4 DEF LocalTyped, Finish, Goto, HeardKept
<1>6. Elsewhere(p)
  BY <1>1 DEF Elsewhere, Finish, Goto, HeardKept
<1>7. QED
  BY <1>2, <1>5, <1>6 DEF Rests, HeardKept

\* ... and Goto takes it on with what it knows.
LEMMA GotoGoes ==
  ASSUME PayoutInv, NEW p \in Procs, NEW label \in Labels \ {"idle"}, Goto(p, label),
         UNCHANGED <<cur, row, amt, cont>>, HeardKept(p)
  PROVE  Goes(p, label)
<1>1. LocalTyped
  BY DEF PayoutInv
<1>2. pc'[p] = label /\ pc' \in [Procs -> Labels]
  BY <1>1 DEF Goto, LocalTyped
<1>3. LocalTyped'
  BY <1>1, <1>2 DEF LocalTyped, HeardKept
<1>4. Elsewhere(p)
  BY <1>1 DEF Elsewhere, Goto, HeardKept, LocalTyped
<1>5. QED
  BY <1>2, <1>3, <1>4 DEF Goes, HeardKept

\* Return does one or the other.
LEMMA ReturnDoes ==
  ASSUME PayoutInv, NEW p \in Procs, NEW label \in Labels, Return(p, label), HeardKept(p)
  PROVE  \/ label = "idle" /\ Rests(p)
         \/ label # "idle" /\ Goes(p, label)
BY FinishRests, GotoGoes DEF Return

\* The catch block of a lifecycle call, wherever the call was.
LEMMA ReturnErr ==
  ASSUME PayoutInv, NEW p \in Procs, pc[p] \in InLifecycle, Return(p, cont[p].err), HeardKept(p),
         RowsMove(p), order' = order
  PROVE  Elsewhere(p) /\ LocalTyped' /\ Enters(p) /\ Working(p)'
<1>1. Working(p) /\ cont[p] \in Continuations /\ cur[p] \in Payouts
  BY DEF PayoutInv, LocalTyped, Working, InLifecycle
<1>2. cont[p].err \in {"idle", "lock.failed", "bill.mark"}
  BY <1>1 DEF Continuations, Creation, BillSettle, Idle, BillCreation, BillRelease
<1>3. cont[p].err \in Labels
  BY <1>2 DEF Labels, Told
<1>4. CASE Rests(p)
  BY <1>4, RestWorks DEF Rests
<1>5. CASE cont[p].err # "idle" /\ Goes(p, cont[p].err)
  <2>1. PICK t \in Payouts : t = cur[p]
    BY <1>1
  <2>2. tx'[t] # NoTx /\ (row[p].fundsReleased => tx'[t].fundsReleased)
    BY <1>1, <2>1 DEF Working, RowsMove, InLifecycle, Early
  <2>3. /\ Placed(t) => Placed(t)'
        /\ Ended(t, "failed") => Ended(t, "failed")'
    BY DEF Placed, Ended
  <2>4. pc'[p] = "bill.mark" => t \in Bills /\ Placed(t) /\ heard[p].fw # "none"
    <3>1. SUFFICES ASSUME cont[p].err = "bill.mark"
                   PROVE  t \in Bills /\ Placed(t) /\ heard[p].fw # "none"
      BY <1>5 DEF Goes
    <3>2. cont[p] \in BillSettle /\ cont[p] # Idle
      BY <1>1, <3>1 DEF Continuations, Creation, BillSettle, Idle, BillCreation, BillRelease
    <3>3. cont[p] \notin Creation \cup {BillCreation, BillRelease}
      BY <3>1 DEF Creation, BillCreation, BillRelease
    <3>4. pc[p] \in Finalizing
      BY <1>1, <3>2, <3>3 DEF Working, InLifecycle, Locking, Finalizing, Releasing
    <3>5. QED
      BY <1>1, <2>1, <3>2, <3>4 DEF Working
  <2>5. Working(p)'
    BY <1>1, <1>2, <1>5, <2>1, <2>2, <2>3, <2>4
       DEF Goes, Working, WillFinalize, PreOrder, Early, Locking, Finalizing, Releasing, Told
  <2>6. Enters(p)
    BY <1>2, <1>5 DEF Goes, Enters, WillFinalize, PreOrder, Early, Locking
  <2>7. QED
    BY <1>5, <2>5, <2>6 DEF Goes
<1>6. QED
  BY <1>3, <1>4, <1>5, ReturnDoes

\* Back in the caller after the UPDATE that ends a lifecycle call.
LEMMA ReturnOk ==
  ASSUME PayoutInv, NEW p \in Procs, pc[p] \in {"lock.patch", "fin.patch", "rel.patch"},
         Return(p, cont[p].ok), HeardKept(p), RowsMove(p), order' = order, ledger' = ledger
  PROVE  Elsewhere(p) /\ LocalTyped' /\ Enters(p) /\ Working(p)'
<1>1. Working(p) /\ cont[p] \in Continuations /\ cur[p] \in Payouts
  BY DEF PayoutInv, LocalTyped, Working
<1>2. /\ pc[p] = "lock.patch" => cont[p].ok \in {"idle", "submit", "bill.validate"}
      /\ pc[p] = "fin.patch" => cont[p].ok \in {"idle", "bill.settled"}
      /\ pc[p] = "rel.patch" => cont[p].ok \in {"idle", "bill.failed"}
  BY <1>1 DEF Working, Locking, Finalizing, Releasing, Creation, BillSettle, Idle,
              BillCreation, BillRelease
<1>3. cont[p].ok \in Labels
  BY <1>2 DEF Labels, PreOrder, Told
<1>4. CASE Rests(p)
  BY <1>4, RestWorks DEF Rests
<1>5. CASE cont[p].ok # "idle" /\ Goes(p, cont[p].ok)
  <2>1. PICK t \in Payouts : t = cur[p]
    BY <1>1
  <2>2. tx'[t] # NoTx /\ (row[p].fundsReleased => tx'[t].fundsReleased)
    BY <1>1, <2>1 DEF Working, RowsMove, Early
  <2>3. /\ Placed(t) => Placed(t)'
        /\ Ended(t, "failed") => Ended(t, "failed")'
        /\ NoOrder(t) => NoOrder(t)'
        /\ HasPosted(t, "lock") => HasPosted(t, "lock")'
    BY DEF Placed, Ended, NoOrder, HasPosted
  <2>4. CASE pc[p] = "lock.patch"
    <3>1. /\ p \in Callers(t) /\ NoOrder(t) /\ heard[p] = Nothing /\ HasPosted(t, "lock")
          /\ cont[p].ok = "submit" => t \in ViaProvider
          /\ cont[p].ok = "bill.validate" => t \in Bills
      BY <1>1, <2>1, <2>4 DEF Working, PreOrder, Locking, Creation
    <3>2. Working(p)'
      BY <1>1, <1>2, <1>5, <2>1, <2>2, <2>3, <2>4, <3>1
         DEF Goes, Working, WillFinalize, PreOrder, Early, Locking, Finalizing, Releasing, Told
    <3>3. Enters(p)
      BY <1>2, <1>5, <2>4 DEF Goes, Enters, WillFinalize, PreOrder, Early, Locking
    <3>4. QED
      BY <1>5, <3>2, <3>3 DEF Goes
  <2>5. CASE pc[p] = "fin.patch"
    <3>1. pc'[p] = "bill.settled" /\ cont[p] \in BillSettle /\ cont[p] # Idle
      BY <1>1, <1>2, <1>5, <2>5 DEF Goes, Working, Finalizing, Idle
    <3>2. t \in Bills /\ Placed(t) /\ heard[p].fw # "none"
      BY <1>1, <2>1, <2>5, <3>1 DEF Working, Finalizing
    <3>3. Working(p)'
      BY <1>1, <1>5, <2>1, <2>2, <2>3, <3>1, <3>2
         DEF Goes, Working, WillFinalize, PreOrder, Early, Locking, Finalizing, Releasing, Told
    <3>4. Enters(p)
      BY <3>1 DEF Enters, WillFinalize, PreOrder, Early, Locking
    <3>5. QED
      BY <1>5, <3>3, <3>4 DEF Goes
  <2>6. CASE pc[p] = "rel.patch"
    <3>1. pc'[p] = "bill.failed" /\ t \in Bills
      BY <1>1, <1>2, <1>5, <2>1, <2>6 DEF Goes, Working, Releasing, Idle
    <3>2. Working(p)'
      BY <1>1, <1>5, <2>1, <2>2, <2>3, <3>1
         DEF Goes, Working, WillFinalize, PreOrder, Early, Locking, Finalizing, Releasing, Told
    <3>3. Enters(p)
      BY <3>1 DEF Enters, WillFinalize, PreOrder, Early, Locking
    <3>4. QED
      BY <1>5, <3>2, <3>3 DEF Goes
  <2>7. QED
    BY <2>4, <2>5, <2>6
<1>6. QED
  BY <1>3, <1>4, <1>5, ReturnDoes

-----------------------------------------------------------------------------
(* What the steps leave alone. *)

PayoutFrame ==
  /\ heard' = [q \in Procs |-> IF pc'[q] = "idle" THEN Nothing ELSE heard[q]]
  /\ UNCHANGED bill

\* Every step of one handler leaves the others what they heard.
LEMMA GotoHeard ==
  ASSUME PayoutInv, NEW p \in Procs, NEW label, Goto(p, label), PayoutFrame
  PROVE  HeardKept(p)
<1>1. \A q \in Procs \ {p} : pc'[q] = pc[q]
  BY DEF Goto, PayoutInv, LocalTyped
<1>2. QED
  BY <1>1, PayoutHeard DEF PayoutFrame

\* A handler that goes back to its caller hears nothing new either.
LEMMA ReturnHeard ==
  ASSUME PayoutInv, NEW p \in Procs, NEW label, Return(p, label), PayoutFrame
  PROVE  HeardKept(p)
<1>1. Goto(p, label)
  BY DEF Return, Finish
<1>2. QED
  BY <1>1, GotoHeard

\* A step that does not post leaves the keys and the slots as they are.
LEMMA SameLedger ==
  ASSUME PayoutInv, NEW p \in Procs, ledger' = ledger
  PROVE  /\ PostsMove(p) /\ SlotsAreKeys'
         /\ Well(ledger)' /\ ledger'.rows[Org].status # "absent"
         /\ \A t \in Payouts, op \in {"lock", "release", "finalize"} :
              HasPosted(t, op)' <=> HasPosted(t, op)
<1>1. SlotsAreKeys /\ Well(ledger) /\ ledger.rows[Org].status # "absent"
  BY DEF PayoutInv, SharedTyped
<1>2. SlotsAreKeys'
  BY <1>1 DEF SlotsAreKeys
<1>3. Well(ledger)'
  BY <1>1
<1>4. QED
  BY <1>1, <1>2, <1>3 DEF PostsMove, HasPosted

\* A step that writes to rows and notes only.
LEMMA PatchKeeps ==
  ASSUME PayoutInv, OneCaller, NEW p \in Procs, UNCHANGED <<ledger, order>>,
         tx' \in [Payouts -> TxRow], bill' \in [Bills -> Note], RowsMove(p), NotesMove(p),
         Elsewhere(p), LocalTyped', Enters(p), Working(p)'
  PROVE  PayoutInv'
<1>1. SharedTyped'
  BY SameLedger DEF SharedTyped, PayoutInv
<1>2. Moves(p)
  BY SameLedger DEF Moves, OrdersMove
<1>3. QED
  BY <1>1, <1>2, SameLedger, StepKeeps

\* A step that moves a handler on and writes nothing.
LEMMA QuietKeeps ==
  ASSUME PayoutInv, OneCaller, NEW p \in Procs, UNCHANGED <<ledger, tx, order, bill>>,
         Elsewhere(p), LocalTyped', Enters(p), Working(p)'
  PROVE  PayoutInv'
<1>1. tx' \in [Payouts -> TxRow] /\ bill' \in [Bills -> Note]
  BY DEF PayoutInv, SharedTyped
<1>2. RowsMove(p) /\ NotesMove(p)
  BY DEF RowsMove, NotesMove
<1>3. QED
  BY <1>1, <1>2, PatchKeeps

\* An UPDATE of the row of the handler's payout.
LEMMA PatchRow ==
  ASSUME PayoutInv, NEW p \in Procs, cur[p] \in Payouts, NEW r \in TxRow, r # NoTx,
         tx' = [tx EXCEPT ![cur[p]] = r],
         tx[cur[p]].fundsReleased => r.fundsReleased,
         tx[cur[p]] # NoTx \/ pc[p] \in Early
  PROVE  tx' \in [Payouts -> TxRow] /\ RowsMove(p) /\ tx'[cur[p]] = r
<1>1. tx \in [Payouts -> TxRow]
  BY DEF PayoutInv, SharedTyped
<1>2. tx' \in [Payouts -> TxRow] /\ tx'[cur[p]] = r
  BY <1>1
<1>3. \A t \in Payouts : t # cur[p] => tx'[t] = tx[t]
  BY <1>1
<1>4. RowsMove(p)
  BY <1>2, <1>3 DEF RowsMove
<1>5. QED
  BY <1>2, <1>4

\* Crash and the ends of handlers that write nothing.
LEMMA FinishKeeps ==
  ASSUME PayoutInv, OneCaller, NEW p \in Procs, Finish(p), HeardKept(p),
         UNCHANGED <<ledger, tx, order, bill>>
  PROVE  PayoutInv'
<1>1. Rests(p)
  BY FinishRests
<1>2. QED
  BY <1>1, RestWorks, QuietKeeps DEF Rests

\* A throw inside a lifecycle call, wherever.
LEMMA ThrowKeeps ==
  ASSUME PayoutInv, OneCaller, NEW p \in Procs, pc[p] \in InLifecycle, Return(p, cont[p].err),
         HeardKept(p), UNCHANGED <<ledger, tx, order, bill>>
  PROVE  PayoutInv'
<1>1. RowsMove(p) /\ order' = order
  BY DEF RowsMove
<1>2. Elsewhere(p) /\ LocalTyped' /\ Enters(p) /\ Working(p)'
  BY <1>1, ReturnErr
<1>3. QED
  BY <1>2, QuietKeeps

\* The three UPDATEs that end a lifecycle call.
LEMMA ReturnedKeeps ==
  ASSUME PayoutInv, OneCaller, NEW p \in Procs, pc[p] \in {"lock.patch", "fin.patch", "rel.patch"},
         Returned(p), HeardKept(p), UNCHANGED <<ledger, order, bill>>,
         tx' \in [Payouts -> TxRow], RowsMove(p)
  PROVE  PayoutInv'
<1>1. pc[p] \in InLifecycle /\ order' = order /\ ledger' = ledger
  BY DEF InLifecycle
<1>2. Elsewhere(p) /\ LocalTyped' /\ Enters(p) /\ Working(p)'
  BY <1>1, ReturnErr, ReturnOk DEF Returned
<1>3. NotesMove(p) /\ bill' \in [Bills -> Note]
  BY DEF NotesMove, PayoutInv, SharedTyped
<1>4. QED
  BY <1>2, <1>3, PatchKeeps

-----------------------------------------------------------------------------
(* The ledger calls. *)

LifeOps == {"lock", "release", "finalize"}

\* The three legs of a payout, field by field.
LEMMA LegTyped ==
  ASSUME NEW t \in Payouts, NEW op \in LifeOps, NEW a \in Amounts
  PROVE  LET l == PayoutLeg(t, op, a)
         IN /\ l \in Leg
            /\ l.wallet = Org /\ l.op = op /\ l.key = <<t, op>> /\ l.ref = t /\ l.amount = a
            /\ l.type \in DOMAIN KeyOfType /\ KeyOfType[l.type] = op
<1>1. PICK ty : ty = CASE op = "lock" -> "funds_lock"
                       [] op = "release" -> "funds_release"
                       [] op = "finalize" -> "payout_settle"
  OBVIOUS
<1>2. PICK l : l = [wallet |-> Org, op |-> op, key |-> <<t, op>>, ref |-> t, amount |-> a, type |-> ty]
  OBVIOUS
<1>3. l = PayoutLeg(t, op, a)
  BY <1>1, <1>2, Zenon DEF PayoutLeg
<1>4. /\ op = "lock" => ty = "funds_lock"
      /\ op = "release" => ty = "funds_release"
      /\ op = "finalize" => ty = "payout_settle"
  BY <1>1
<1>5. ty \in DOMAIN KeyOfType /\ KeyOfType[ty] = op
  BY <1>4 DEF KeyOfType, LifeOps
<1>6. Org \in Wallets /\ t \in Refs /\ <<t, op>> \in Keys
  BY QuotesAssumption, PayoutKeysAssumption DEF LifeOps
<1>7. ty \in MovementTypes /\ op \in OpNames
  BY <1>4 DEF LifeOps, MovementTypes, OpNames
<1>8. l \in Leg
  BY <1>2, <1>6, <1>7 DEF Leg
<1>9. QED
  BY <1>2, <1>3, <1>5, <1>8

\* One that is not posted and covered may be posted, and is the only news.
LEMMA LegPosts ==
  ASSUME LedgerSound, NEW t \in Payouts, NEW op \in LifeOps, NEW a \in Amounts,
         ~HasPosted(t, op), Covers(op, ledger.rows[Org].bal, a),
         ledger' = Post(ledger, PayoutLeg(t, op, a))
  PROVE  /\ Admissible(ledger, PayoutLeg(t, op, a))
         /\ LedgerSound'
         /\ \A u \in Payouts, o \in LifeOps :
              HasPosted(u, o)' <=> HasPosted(u, o) \/ (u = t /\ o = op)
<1>1. PICK l \in Leg : l = PayoutLeg(t, op, a)
  BY LegTyped
<1>2. /\ l.wallet = Org /\ l.op = op /\ l.key = <<t, op>> /\ l.ref = t /\ l.amount = a
      /\ l.type \in DOMAIN KeyOfType /\ KeyOfType[l.type] = op
  BY <1>1, LegTyped
<1>3. /\ Well(ledger) /\ ledger.rows[Org].status # "absent" /\ SlotsAreKeys
      /\ ledger \in Ledger /\ Org \in Wallets
  BY QuotesAssumption DEF LedgerSound, Well
<1>4. ~Posted(ledger, l.key)
  BY <1>2 DEF HasPosted
<1>5. ~SlotTaken(ledger, l)
  <2>1. SUFFICES ASSUME NEW i \in 1..Len(ledger.movements[Org]), l.ref # NoRef,
                        ledger.movements[Org][i].ref = l.ref,
                        ledger.movements[Org][i].type = l.type
                 PROVE  FALSE
    BY <1>2 DEF SlotTaken
  <2>2. ledger.movements[Org][i].key = <<l.ref, KeyOfType[l.type]>>
    BY <1>3, <2>1 DEF SlotsAreKeys
  <2>3. Posted(ledger, l.key)
    BY <1>2, <1>3, <2>2 DEF Posted
  <2>4. QED
    BY <1>4, <2>3
<1>6. Covers(l.op, ledger.rows[l.wallet].bal, l.amount)
  BY <1>2
<1>7. Admissible(ledger, l)
  BY <1>2, <1>3, <1>4, <1>5, <1>6 DEF Admissible
<1>8. Well(ledger)'
  BY <1>1, <1>3, <1>7, PostWell
<1>9. ledger'.rows[Org].status # "absent"
  BY <1>1, <1>2, <1>3, <1>6, PostMovements
<1>10. ASSUME NEW u \in Payouts, NEW o \in LifeOps
       PROVE  HasPosted(u, o)' <=> HasPosted(u, o) \/ (u = t /\ o = op)
  <2>1. Posted(Post(ledger, l), <<u, o>>) <=> Posted(ledger, <<u, o>>) \/ <<u, o>> = l.key
    BY <1>3, <1>6, PostPosted
  <2>2. <<u, o>> = l.key <=> u = t /\ o = op
    BY <1>2
  <2>3. QED
    BY <1>1, <2>1, <2>2 DEF HasPosted
<1>11. SlotsAreKeys'
  <2>1. SUFFICES ASSUME NEW w \in Wallets, NEW i \in 1..Len(ledger'.movements[w]),
                        ledger'.movements[w][i].ref # NoRef
                 PROVE  /\ ledger'.movements[w][i].type \in DOMAIN KeyOfType
                        /\ ledger'.movements[w][i].key =
                             <<ledger'.movements[w][i].ref, KeyOfType[ledger'.movements[w][i].type]>>
    BY DEF SlotsAreKeys
  <2>2. /\ w # l.wallet => ledger'.movements[w] = ledger.movements[w]
        /\ w = l.wallet => /\ Len(ledger'.movements[w]) = Len(ledger.movements[w]) + 1
                           /\ ledger'.movements[w][Len(ledger'.movements[w])] = NewMovement(ledger, l)
        /\ Len(ledger.movements[w]) \in Nat
        /\ \A j \in 1..Len(ledger.movements[w]) : ledger'.movements[w][j] = ledger.movements[w][j]
    BY <1>1, <1>3, <1>6, PostMovements
  <2>3. CASE i \in 1..Len(ledger.movements[w])
    BY <1>3, <2>1, <2>2, <2>3 DEF SlotsAreKeys
  <2>4. CASE i \notin 1..Len(ledger.movements[w])
    <3>1. ledger'.movements[w][i] = NewMovement(ledger, l)
      BY <2>2, <2>4
    <3>2. /\ NewMovement(ledger, l).type = l.type /\ NewMovement(ledger, l).key = l.key
          /\ NewMovement(ledger, l).ref = l.ref
      BY DEF NewMovement
    <3>3. QED
      BY <1>2, <3>1, <3>2
  <2>5. QED
    BY <2>3, <2>4
<1>12. QED
  BY <1>1, <1>7, <1>8, <1>9, <1>10, <1>11 DEF LedgerSound

\* A call that comes back leaves the key posted, whoever posted it.
LEMMA CallKeeps ==
  ASSUME PayoutInv, OneCaller, NEW p \in Procs, NEW op \in LifeOps, NEW label \in Labels \ {"idle"},
         pc[p] \in InLifecycle, LedgerCall(p, op, label, cont[p].err), PayoutFrame,
         UNCHANGED <<tx, order>>, amt[p] # 0,
         op = "finalize" => pc[p] = "fin.post", op = "release" => pc[p] = "rel.post",
         Goes(p, label) /\ HasPosted(cur[p], op)' /\ PostsMove(p) => Enters(p) /\ Working(p)'
  PROVE  PayoutInv'
<1>1. /\ Working(p) /\ LocalTyped /\ cur[p] \in Payouts /\ amt[p] \in Amounts
      /\ tx \in [Payouts -> TxRow]
  BY DEF PayoutInv, Working, InLifecycle, LocalTyped, SharedTyped
<1>2. CASE HasPosted(cur[p], op) /\ Goto(p, label) /\ UNCHANGED <<ledger, cur, row, amt, cont>>
  <2>1. HeardKept(p) /\ bill' = bill
    BY <1>2, GotoHeard DEF PayoutFrame
  <2>2. Goes(p, label)
    BY <1>2, <2>1, GotoGoes
  <2>3. HasPosted(cur[p], op)'
    BY <1>2 DEF HasPosted
  <2>4. Enters(p) /\ Working(p)'
    BY <1>2, <2>2, <2>3, SameLedger
  <2>5. QED
    BY <1>2, <2>1, <2>2, <2>4, QuietKeeps DEF Goes
<1>3. CASE /\ ~HasPosted(cur[p], op) /\ Covers(op, ledger.rows[Org].bal, amt[p])
           /\ ledger' = Post(ledger, PayoutLeg(cur[p], op, amt[p]))
           /\ Goto(p, label) /\ UNCHANGED <<cur, row, amt, cont>>
  <2>1. HeardKept(p) /\ bill' = bill
    BY <1>3, GotoHeard DEF PayoutFrame
  <2>2. Goes(p, label)
    BY <1>3, <2>1, GotoGoes
  <2>3. /\ Well(ledger)' /\ ledger'.rows[Org].status # "absent" /\ SlotsAreKeys'
        /\ \A u \in Payouts, o \in LifeOps :
              HasPosted(u, o)' <=> HasPosted(u, o) \/ (u = cur[p] /\ o = op)
    BY <1>1, <1>3, LegPosts DEF LedgerSound, PayoutInv, SharedTyped
  <2>4. HasPosted(cur[p], op)'
    BY <1>1, <1>3, <2>3 DEF HasPosted
  <2>5. PostsMove(p)
    BY <2>3 DEF PostsMove, LifeOps
  <2>6. Enters(p) /\ Working(p)'
    BY <2>2, <2>4, <2>5
  <2>7. Moves(p)
    BY <2>1, <2>2, <2>5, <2>6 DEF Moves, Goes, RowsMove, OrdersMove, NotesMove
  <2>8. SharedTyped'
    BY <2>1, <2>3 DEF SharedTyped, PayoutInv
  <2>9. QED
    BY <2>2, <2>3, <2>6, <2>7, <2>8, StepKeeps DEF Goes
<1>4. CASE Return(p, cont[p].err) /\ UNCHANGED ledger
  <2>1. HeardKept(p) /\ bill' = bill
    BY <1>4, ReturnHeard DEF PayoutFrame
  <2>2. QED
    BY <1>4, <2>1, ThrowKeeps
<1>5. QED
  BY <1>2, <1>3, <1>4 DEF LedgerCall

-----------------------------------------------------------------------------
(* createPayout *)

\* A call begins with a payout and a continuation.
LEMMA CallStarts ==
  ASSUME PayoutInv, NEW p \in Procs, NEW t \in Payouts, NEW fn \in Labels \ {"idle"},
         NEW c \in Continuations, pc[p] = "idle", Call(p, t, fn, c), UNCHANGED <<row, amt>>,
         PayoutFrame
  PROVE  /\ Elsewhere(p) /\ LocalTyped'
         /\ pc'[p] = fn /\ cur'[p] = t /\ cont'[p] = c
         /\ ~row'[p].fundsReleased /\ heard'[p] = Nothing
<1>1. LocalTyped /\ heard[p] = Nothing /\ ~row[p].fundsReleased
  BY DEF PayoutInv, Working
<1>2. HeardKept(p)
  BY GotoHeard DEF Call
<1>3. /\ pc' = [pc EXCEPT ![p] = fn] /\ cur' = [cur EXCEPT ![p] = t] /\ cont' = [cont EXCEPT ![p] = c]
      /\ row' = row /\ amt' = amt
  BY DEF Call, Goto
<1>4. LocalTyped'
  BY <1>1, <1>2, <1>3 DEF LocalTyped, HeardKept
<1>5. Elsewhere(p)
  BY <1>1, <1>2, <1>3 DEF LocalTyped, Elsewhere, HeardKept
<1>6. /\ pc'[p] = fn /\ cur'[p] = t /\ cont'[p] = c /\ row'[p] = row[p]
  BY <1>1, <1>3 DEF LocalTyped
<1>7. QED
  BY <1>1, <1>2, <1>4, <1>5, <1>6 DEF HeardKept

\* A new call finds no row, so nobody has placed an order.
LEMMA CreateFindKeeps ==
  ASSUME PayoutInv, OneCaller, NEW p \in Procs, NEW t \in Payouts, CreateFind(p, t), PayoutFrame
  PROVE  PayoutInv'
<1>1. PICK c : c = [ok |-> IF t \in ViaProvider THEN "submit" ELSE "idle", err |-> "lock.failed"]
  OBVIOUS
<1>2. c \in Creation /\ (c.ok = "submit" => t \in ViaProvider)
  BY <1>1 DEF Creation
<1>3. c \in Continuations /\ c # BillCreation /\ c # Idle /\ c \notin BillSettle
  BY <1>2 DEF Continuations, Creation, BillCreation, Idle, BillSettle
<1>4. /\ Elsewhere(p) /\ LocalTyped'
      /\ pc'[p] = "insert" /\ cur'[p] = t /\ cont'[p] = c /\ heard'[p] = Nothing
      /\ ~row'[p].fundsReleased
  <2>1. Call(p, t, "insert", c)
    BY <1>1 DEF CreateFind
  <2>2. "insert" \in Labels \ {"idle"}
    BY DEF Labels, PreOrder, Early
  <2>3. QED
    BY <1>3, <2>1, <2>2, CallStarts DEF CreateFind
<1>5. /\ tx'[t] = NoTx /\ NoOrder(t)' /\ p \in Callers(t)
  BY DEF CreateFind, PayoutInv, Settling, NoOrder, Callers
<1>6. Working(p)'
  BY <1>2, <1>3, <1>4, <1>5
     DEF Working, WillFinalize, PreOrder, Early, Locking, Finalizing, Releasing, Told, Nothing
<1>7. Enters(p)
  BY <1>4 DEF Enters, CreateFind, WillFinalize, Early
<1>8. QED
  BY <1>4, <1>6, <1>7, QuietKeeps DEF CreateFind, PayoutFrame

\* The row is inserted once; the other call goes on with it.
LEMMA InsertTxKeeps ==
  ASSUME PayoutInv, OneCaller, NEW p \in Procs, InsertTx(p), PayoutFrame
  PROVE  PayoutInv'
<1>1. PICK t \in Payouts : t = cur[p]
  BY DEF PayoutInv, Working, InsertTx
<1>2. /\ Working(p) /\ tx[t] = NoTx /\ tx \in [Payouts -> TxRow] /\ pc[p] = "insert"
  BY <1>1 DEF PayoutInv, Working, InsertTx, Early, SharedTyped
<1>3. PICK r \in TxRow : r # NoTx /\ tx' = [tx EXCEPT ![t] = r]
  <2>1. PICK s \in {"pending", "processing", "failed"} : s = InitialStatus(t)
    BY DEF InitialStatus
  <2>2. [NoTx EXCEPT !.status = s, !.ext = p] \in TxRow
    BY DEF NoTx, TxRow
  <2>3. [NoTx EXCEPT !.status = s, !.ext = p] # NoTx
    BY DEF NoTx
  <2>4. QED
    BY <1>1, <1>2, <2>1, <2>2, <2>3 DEF InsertTx
<1>4. tx' \in [Payouts -> TxRow] /\ RowsMove(p) /\ tx'[t] = r
  <2>1. ~tx[t].fundsReleased
    BY <1>2 DEF NoTx
  <2>2. QED
    BY <1>1, <1>2, <1>3, <2>1, PatchRow DEF Early
<1>5. NotesMove(p) /\ bill' \in [Bills -> Note] /\ UNCHANGED <<ledger, order>>
  BY DEF NotesMove, PayoutFrame, PayoutInv, SharedTyped, InsertTx
<1>6. CASE Finish(p)
  <2>1. Rests(p)
    BY <1>6, GotoHeard, FinishRests DEF Finish
  <2>2. QED
    BY <1>4, <1>5, <2>1, RestWorks, PatchKeeps DEF Rests
<1>7. CASE Goto(p, "lock.load") /\ UNCHANGED <<cur, row, amt, cont>>
  <2>1. Goes(p, "lock.load")
    BY <1>7, GotoHeard, GotoGoes DEF Labels, PreOrder, Locking
  <2>2. NoOrder(t)' /\ p \in Callers(t) /\ heard[p] = Nothing /\ cont[p] \in Creation
    BY <1>1, <1>2, <1>5 DEF Working, NoOrder, PreOrder, Early
  <2>3. cont[p].ok = "submit" => t \in ViaProvider
    BY <1>1, <1>2 DEF Working
  <2>4. cont[p] # BillCreation /\ ~row[p].fundsReleased
    BY <1>1, <1>2, <2>2 DEF Creation, BillCreation, Working, NoTx
  <2>5. Working(p)'
    BY <1>1, <1>3, <1>4, <2>1, <2>2, <2>3, <2>4
       DEF Goes, Working, WillFinalize, PreOrder, Early, Locking, Finalizing, Releasing, Told, Nothing
  <2>6. Enters(p)
    BY <1>2, <2>1 DEF Goes, Enters, WillFinalize, PreOrder, Early, Locking
  <2>7. QED
    BY <1>4, <1>5, <2>1, <2>5, <2>6, PatchKeeps DEF Goes
<1>8. QED
  BY <1>6, <1>7 DEF InsertTx

\* An UPDATE of the status alone, at the end of a handler.
LEMMA StatusKeeps ==
  ASSUME PayoutInv, OneCaller, NEW p \in Procs, pc[p] \notin Early \cup {"idle"},
         NEW s \in {"pending", "processing", "settled", "failed"},
         tx' = [tx EXCEPT ![cur[p]].status = s], Rests(p),
         UNCHANGED <<ledger, order>>, bill' \in [Bills -> Note], NotesMove(p)
  PROVE  PayoutInv'
<1>1. PICK t \in Payouts : t = cur[p]
  BY DEF PayoutInv, Working
<1>2. tx[t] # NoTx /\ tx \in [Payouts -> TxRow]
  BY <1>1 DEF PayoutInv, Working, SharedTyped
<1>3. PICK r : r = [tx[t] EXCEPT !.status = s]
  OBVIOUS
<1>4. r \in TxRow /\ r # NoTx /\ r.fundsReleased = tx[t].fundsReleased
  BY <1>2, <1>3 DEF TxRow, NoTx
<1>5. tx' = [tx EXCEPT ![t] = r]
  BY <1>1, <1>2, <1>3
<1>6. tx' \in [Payouts -> TxRow] /\ RowsMove(p)
  BY <1>1, <1>2, <1>4, <1>5, PatchRow
<1>7. QED
  BY <1>6, RestWorks, PatchKeeps DEF Rests

\* The catch block of the lock, and the UPDATE after the order.
LEMMA LockFailedKeeps ==
  ASSUME PayoutInv, OneCaller, NEW p \in Procs, LockFailed(p) \/ Submitted(p), PayoutFrame
  PROVE  PayoutInv'
<1>1. Rests(p)
  BY GotoHeard, FinishRests DEF LockFailed, Submitted, Finish
<1>2. pc[p] \notin Early \cup {"idle"} /\ UNCHANGED <<ledger, order>>
  BY DEF LockFailed, Submitted, Early
<1>3. bill' \in [Bills -> Note] /\ NotesMove(p)
  BY DEF NotesMove, PayoutFrame, PayoutInv, SharedTyped
<1>4. QED
  BY <1>1, <1>2, <1>3, StatusKeeps DEF LockFailed, Submitted

\* On to a lifecycle function with another continuation.
LEMMA IntoGoes ==
  ASSUME PayoutInv, NEW p \in Procs, NEW label \in Labels \ {"idle"}, NEW c \in Continuations,
         Goto(p, label), cont' = [cont EXCEPT ![p] = c], UNCHANGED <<cur, row, amt>>, HeardKept(p)
  PROVE  /\ Elsewhere(p) /\ LocalTyped'
         /\ pc'[p] = label /\ cont'[p] = c
         /\ cur'[p] = cur[p] /\ row'[p] = row[p] /\ amt'[p] = amt[p] /\ heard'[p] = heard[p]
<1>1. LocalTyped
  BY DEF PayoutInv
<1>2. pc' \in [Procs -> Labels] /\ pc'[p] = label
  BY <1>1 DEF LocalTyped, Goto
<1>3. LocalTyped'
  BY <1>1, <1>2 DEF LocalTyped, HeardKept
<1>4. Elsewhere(p) /\ cont'[p] = c
  BY <1>1 DEF LocalTyped, Elsewhere, HeardKept, Goto
<1>5. QED
  BY <1>2, <1>3, <1>4 DEF HeardKept

\* Before the order of a payout that needs one, nobody finalizes it, and nobody else may order.
LEMMA AloneBefore ==
  ASSUME PayoutInv, OneCaller, NEW p \in Procs, NEW t \in ViaProvider \cup Bills, BeforeOrder(p, t)
  PROVE  /\ \A q \in Procs : ~WillFinalize(q, t)
         /\ ~HasPosted(t, "finalize")
         /\ \A q \in Procs \ {p} : ~BeforeOrder(q, t)
         /\ NoOrder(t)
<1>1. t \in Payouts
  BY BillsAssumption, PayoutAssumption DEF ViaProvider
<1>2. p \in Callers(t) /\ NoOrder(t)
  BY DEF PayoutInv, Working, BeforeOrder
<1>3. ~PaidOrNever(t)
  BY <1>2 DEF PaidOrNever, Ended, NoOrder, ViaProvider
<1>4. ASSUME NEW q \in Procs, WillFinalize(q, t) PROVE FALSE
  BY <1>3, <1>4 DEF PayoutInv, Working, WillFinalize
<1>5. ~HasPosted(t, "finalize")
  BY <1>1, <1>3 DEF PayoutInv, Settling
<1>6. ASSUME NEW q \in Procs \ {p}, BeforeOrder(q, t) PROVE FALSE
  <2>1. q \in Callers(t)
    BY <1>6 DEF PayoutInv, Working, BeforeOrder
  <2>2. QED
    BY <1>1, <1>2, <2>1 DEF OneCaller
<1>7. QED
  BY <1>2, <1>4, <1>5, <1>6

\* Who would have placed the order and does not, may release.
LEMMA GivesUp ==
  ASSUME PayoutInv, OneCaller, NEW p \in Procs, NEW t \in ViaProvider \cup Bills, BeforeOrder(p, t),
         pc[p] \notin Early, UNCHANGED <<ledger, tx, order, bill>>,
         Elsewhere(p), LocalTyped', pc'[p] = "rel.load", cur'[p] = cur[p], row'[p] = row[p],
         heard'[p] = heard[p],
         cont'[p] = Idle \/ (cont'[p] = BillRelease /\ t \in Bills)
  PROVE  PayoutInv'
<1>1. t \in Payouts /\ cur[p] = t
  BY BillsAssumption, PayoutAssumption DEF ViaProvider, BeforeOrder
<1>2. tx[t] # NoTx /\ heard[p] = Nothing /\ (row[p].fundsReleased => tx[t].fundsReleased)
  BY <1>1 DEF PayoutInv, Working, BeforeOrder, PreOrder, Early, Locking
<1>3. /\ \A q \in Procs : ~WillFinalize(q, t)
      /\ ~HasPosted(t, "finalize")
      /\ \A q \in Procs \ {p} : ~BeforeOrder(q, t)
      /\ NoOrder(t)
  BY AloneBefore
<1>4. ASSUME NEW q \in Procs PROVE ~BeforeOrder(q, t)' /\ ~WillFinalize(q, t)'
  <2>1. CASE q = p
    BY <2>1 DEF BeforeOrder, WillFinalize, PreOrder, Early, Locking
  <2>2. CASE q # p
    BY <1>3, <2>2 DEF BeforeOrder, WillFinalize, Elsewhere
  <2>3. QED
    BY <2>1, <2>2
<1>5. Dead(t)'
  BY <1>2, <1>3, <1>4 DEF Dead, NoOrder, HasPosted
<1>6. Working(p)'
  BY <1>1, <1>2, <1>4, <1>5
     DEF Working, WillFinalize, PreOrder, Early, Locking, Finalizing, Releasing, Told, Nothing
<1>7. Enters(p)
  BY DEF Enters, WillFinalize, PreOrder, Early, Locking
<1>8. QED
  BY <1>6, <1>7, QuietKeeps

\* The order is placed or refused.
LEMMA SubmitKeeps ==
  ASSUME PayoutInv, OneCaller, AnswersArrive, NEW p \in Procs, Submit(p), PayoutFrame
  PROVE  PayoutInv'
<1>1. PICK t \in Payouts : t = cur[p]
  BY DEF PayoutInv, Working, Submit
<1>2. /\ pc[p] = "submit" /\ Working(p) /\ t \in ViaProvider /\ BeforeOrder(p, t)
      /\ HasPosted(t, "lock") /\ tx[t] # NoTx /\ heard[p] = Nothing
  BY <1>1 DEF PayoutInv, Working, Submit, BeforeOrder, PreOrder, Early
<1>3. CASE /\ order' = order /\ Goto(p, "rel.load") /\ cont' = [cont EXCEPT ![p] = Idle]
  <2>1. "rel.load" \in Labels \ {"idle"} /\ Idle \in Continuations
    BY DEF Labels, Releasing, Continuations
  <2>2. HeardKept(p) /\ UNCHANGED <<ledger, tx, order, bill>> /\ UNCHANGED <<cur, row, amt>>
    BY <1>3, GotoHeard DEF Submit, PayoutFrame
  <2>3. /\ Elsewhere(p) /\ LocalTyped' /\ pc'[p] = "rel.load" /\ cur'[p] = cur[p]
        /\ row'[p] = row[p] /\ heard'[p] = heard[p] /\ cont'[p] = Idle
    BY <1>3, <2>1, <2>2, IntoGoes
  <2>4. pc[p] \notin Early
    BY <1>2 DEF Early
  <2>5. QED
    BY <1>2, <2>2, <2>3, <2>4, GivesUp
<1>4. CASE /\ order' = [order EXCEPT ![cur[p]][p] = "open"]
           /\ Goto(p, "submitted") /\ UNCHANGED cont
  <2>1. HeardKept(p) /\ UNCHANGED <<ledger, tx, bill>> /\ UNCHANGED <<cur, row, amt, cont>>
    BY <1>4, GotoHeard DEF Submit, PayoutFrame
  <2>2. Goes(p, "submitted")
    BY <1>4, <2>1, GotoGoes DEF Labels
  <2>3. Working(p)'
    BY <1>1, <1>2, <2>1, <2>2
       DEF Goes, Working, WillFinalize, PreOrder, Early, Locking, Finalizing, Releasing, Told, Nothing
  <2>4. Enters(p)
    BY <2>2 DEF Goes, Enters, WillFinalize, PreOrder, Early, Locking
  <2>5. Moves(p)
    BY <1>2, <1>4, <2>1, <2>2, <2>4, SameLedger DEF Goes, Moves, RowsMove, OrdersMove, NotesMove
  <2>6. order' \in [Payouts -> [Procs -> {"none", "open", "paid", "failed"}]]
    BY <1>1, <1>4 DEF PayoutInv, SharedTyped
  <2>7. SharedTyped'
    BY <2>1, <2>6, SameLedger DEF PayoutInv, SharedTyped
  <2>8. QED
    BY <2>1, <2>2, <2>3, <2>5, <2>7, SameLedger, StepKeeps DEF Goes
<1>5. PICK result \in SubmitResults :
         /\ order' = IF result = "refused" THEN order ELSE [order EXCEPT ![cur[p]][p] = "open"]
         /\ IF result = "accepted"
              THEN Goto(p, "submitted") /\ UNCHANGED cont
              ELSE Goto(p, "rel.load") /\ cont' = [cont EXCEPT ![p] = Idle]
  BY DEF Submit
<1>6. result \in {"accepted", "refused"}
  BY PayoutAssumption DEF AnswersArrive
<1>7. QED
  BY <1>3, <1>4, <1>5, <1>6

-----------------------------------------------------------------------------
(* The lifecycle functions *)

\* The first step of each: the handler takes a copy of the row and an amount.
LEMMA LoadGoes ==
  ASSUME PayoutInv, NEW p \in Procs, NEW label \in Labels \ {"idle"}, NEW r \in TxRow, NEW a \in Amounts,
         Goto(p, label), row' = [row EXCEPT ![p] = r], amt' = [amt EXCEPT ![p] = a],
         UNCHANGED <<cur, cont>>, HeardKept(p)
  PROVE  /\ Elsewhere(p) /\ LocalTyped'
         /\ pc'[p] = label /\ cont'[p] = cont[p] /\ cur'[p] = cur[p] /\ heard'[p] = heard[p]
         /\ row'[p] = r /\ amt'[p] = a
<1>1. LocalTyped
  BY DEF PayoutInv
<1>2. pc' \in [Procs -> Labels] /\ pc'[p] = label
  BY <1>1 DEF LocalTyped, Goto
<1>3. LocalTyped'
  BY <1>1, <1>2 DEF LocalTyped, HeardKept
<1>4. Elsewhere(p) /\ row'[p] = r /\ amt'[p] = a
  BY <1>1 DEF LocalTyped, Elsewhere, HeardKept, Goto
<1>5. QED
  BY <1>2, <1>3, <1>4 DEF HeardKept

\* The amount to lock is the one on the row or a quote.
LEMMA LockLoadKeeps ==
  ASSUME PayoutInv, OneCaller, NEW p \in Procs, LockLoad(p), order' = order, PayoutFrame
  PROVE  PayoutInv'
<1>1. PICK t \in Payouts : t = cur[p]
  BY DEF PayoutInv, Working, LockLoad
<1>2. Working(p) /\ tx[t] \in TxRow /\ pc[p] = "lock.load"
  BY <1>1 DEF PayoutInv, SharedTyped, LockLoad
<1>3. PICK a \in Amounts : amt' = [amt EXCEPT ![p] = a]
  BY <1>1, <1>2, QuotesAssumption DEF LockLoad, TxRow
<1>4. a # 0
  BY AmountsAssumption
<1>5. HeardKept(p)
  BY GotoHeard DEF LockLoad
<1>6. /\ Elsewhere(p) /\ LocalTyped'
      /\ pc'[p] = "lock.post" /\ cont'[p] = cont[p] /\ cur'[p] = cur[p] /\ heard'[p] = heard[p]
      /\ row'[p] = tx[t] /\ amt'[p] = a
  <2>1. "lock.post" \in Labels \ {"idle"}
    BY DEF Labels, PreOrder, Locking
  <2>2. row' = [row EXCEPT ![p] = tx[t]] /\ UNCHANGED <<cur, cont>> /\ Goto(p, "lock.post")
    BY <1>1 DEF LockLoad
  <2>3. QED
    BY <1>2, <1>3, <1>5, <2>1, <2>2, LoadGoes
<1>7. UNCHANGED <<ledger, tx, order, bill>>
  BY DEF LockLoad, PayoutFrame
<1>8. Working(p)'
  BY <1>1, <1>2, <1>4, <1>6, <1>7
     DEF Working, NoOrder, WillFinalize, PreOrder, Early, Locking, Finalizing, Releasing, Told, Nothing
<1>9. Enters(p)
  BY <1>2, <1>6 DEF Enters, WillFinalize, PreOrder, Early, Locking
<1>10. QED
  BY <1>6, <1>7, <1>8, <1>9, QuietKeeps

\* What is ordered next is locked.
LEMMA LockPostKeeps ==
  ASSUME PayoutInv, OneCaller, NEW p \in Procs, LockPost(p), order' = order, PayoutFrame
  PROVE  PayoutInv'
<1>1. PICK t \in Payouts : t = cur[p]
  BY DEF PayoutInv, Working, LockPost
<1>2. Working(p) /\ pc[p] = "lock.post" /\ amt[p] # 0 /\ pc[p] \in InLifecycle
  BY <1>1 DEF PayoutInv, Working, LockPost, InLifecycle
<1>3. ASSUME Goes(p, "lock.patch"), HasPosted(cur[p], "lock")', PostsMove(p)
      PROVE  Enters(p) /\ Working(p)'
  <2>1. tx' = tx /\ order' = order
    BY DEF LockPost
  <2>2. Working(p)'
    BY <1>1, <1>2, <1>3, <2>1
       DEF Goes, Working, NoOrder, WillFinalize, PreOrder, Early, Locking, Finalizing, Releasing, Told, Nothing
  <2>3. Enters(p)
    BY <1>2, <1>3 DEF Goes, Enters, WillFinalize, PreOrder, Early, Locking
  <2>4. QED
    BY <2>2, <2>3
<1>4. "lock.patch" \in Labels \ {"idle"} /\ "lock" \in LifeOps
  BY DEF Labels, PreOrder, Locking, LifeOps
<1>5. LedgerCall(p, "lock", "lock.patch", cont[p].err) /\ UNCHANGED <<tx, order>>
  BY DEF LockPost
<1>6. QED
  BY <1>2, <1>3, <1>4, <1>5, CallKeeps

\* The three patches of a row keep what the others count on.
LEMMA PatchesKeep ==
  ASSUME PayoutInv, OneCaller, NEW p \in Procs, LockPatch(p) \/ FinalizePatch(p) \/ ReleasePatch(p),
         order' = order, PayoutFrame
  PROVE  PayoutInv'
<1>1. pc[p] \in {"lock.patch", "fin.patch", "rel.patch"} /\ Returned(p)
  BY DEF LockPatch, FinalizePatch, ReleasePatch
<1>2. PICK t \in Payouts : t = cur[p]
  BY <1>1 DEF PayoutInv, Working
<1>3. /\ tx[t] # NoTx /\ tx[t] \in TxRow /\ row[p] \in TxRow /\ amt[p] \in Amounts \cup {0}
      /\ tx \in [Payouts -> TxRow]
  BY <1>1, <1>2 DEF PayoutInv, Working, SharedTyped, LocalTyped, Early
<1>4. PICK r \in TxRow : /\ r # NoTx /\ (tx[t].fundsReleased => r.fundsReleased)
                         /\ tx' = [tx EXCEPT ![t] = r]
  <2>1. CASE LockPatch(p)
    <3>1. PICK r : r = [tx[t] EXCEPT !.status = row[p].status, !.usdc = amt[p],
                                     !.fundsLocked = TRUE, !.ledgerLockId = TRUE]
      OBVIOUS
    <3>2. r \in TxRow /\ r # NoTx /\ r.fundsReleased = tx[t].fundsReleased
      BY <1>3, <3>1 DEF TxRow, NoTx
    <3>3. QED
      BY <1>2, <2>1, <3>1, <3>2 DEF LockPatch
  <2>2. CASE FinalizePatch(p)
    <3>1. PICK r : r = [tx[t] EXCEPT !.status = "settled", !.fundsLocked = FALSE,
                                     !.fundsFinalized = TRUE]
      OBVIOUS
    <3>2. r \in TxRow /\ r # NoTx /\ r.fundsReleased = tx[t].fundsReleased
      BY <1>3, <3>1 DEF TxRow, NoTx
    <3>3. QED
      BY <1>2, <2>2, <3>1, <3>2 DEF FinalizePatch
  <2>3. CASE ReleasePatch(p)
    <3>1. PICK r : r = [tx[t] EXCEPT !.status = "failed", !.fundsLocked = FALSE,
                                     !.fundsReleased = TRUE]
      OBVIOUS
    <3>2. r \in TxRow /\ r # NoTx /\ r.fundsReleased
      BY <1>3, <3>1 DEF TxRow, NoTx
    <3>3. QED
      BY <1>2, <2>3, <3>1, <3>2 DEF ReleasePatch
  <2>4. QED
    BY <2>1, <2>2, <2>3
<1>5. tx' \in [Payouts -> TxRow] /\ RowsMove(p)
  BY <1>2, <1>3, <1>4, PatchRow
<1>6. HeardKept(p)
  BY <1>1, ReturnHeard DEF Returned
<1>7. UNCHANGED <<ledger, order, bill>>
  BY DEF LockPatch, FinalizePatch, ReleasePatch, PayoutFrame
<1>8. QED
  BY <1>1, <1>5, <1>6, <1>7, ReturnedKeeps

\* A step that writes nothing but postings moves as the others expect.
LEMMA PostsMoveOnly ==
  ASSUME PayoutInv, NEW p \in Procs, UNCHANGED <<tx, order, bill>>, PostsMove(p), Elsewhere(p), Enters(p)
  PROVE  Moves(p)
BY DEF Moves, RowsMove, OrdersMove, NotesMove

\* A finalize that passes its check has a payout that was paid, or is of TEST ...
LEMMA FinalizeLoadKeeps ==
  ASSUME PayoutInv, OneCaller, NEW p \in Procs, FinalizeLoad(p), order' = order, PayoutFrame
  PROVE  PayoutInv'
<1>1. PICK t \in Payouts : t = cur[p]
  BY DEF PayoutInv, Working, FinalizeLoad
<1>2. /\ Working(p) /\ tx[t] \in TxRow /\ pc[p] = "fin.load" /\ pc[p] \in InLifecycle
      /\ UNCHANGED <<ledger, tx, order, bill>>
  BY <1>1 DEF PayoutInv, SharedTyped, FinalizeLoad, InLifecycle, PayoutFrame
<1>3. CASE Return(p, cont[p].err)
  BY <1>2, <1>3, ReturnHeard, ThrowKeeps
<1>4. CASE /\ ~tx[t].fundsReleased /\ tx[t].usdc # 0
           /\ row' = [row EXCEPT ![p] = tx[t]] /\ amt' = [amt EXCEPT ![p] = tx[t].usdc]
           /\ Goto(p, "fin.post") /\ UNCHANGED <<cur, cont>>
  <2>1. "fin.post" \in Labels \ {"idle"} /\ tx[t].usdc \in Amounts
    BY <1>2, <1>4 DEF Labels, Finalizing, TxRow
  <2>2. HeardKept(p)
    BY <1>4, GotoHeard
  <2>3. /\ Elsewhere(p) /\ LocalTyped'
        /\ pc'[p] = "fin.post" /\ cont'[p] = cont[p] /\ cur'[p] = cur[p] /\ heard'[p] = heard[p]
        /\ row'[p] = tx[t] /\ amt'[p] = tx[t].usdc
    BY <1>2, <1>4, <2>1, <2>2, LoadGoes
  <2>4. WillFinalize(p, t)
    BY <1>1, <1>2, <1>4 DEF WillFinalize
  <2>5. Enters(p)
    BY <1>1, <2>3, <2>4 DEF Enters, WillFinalize, PreOrder, Early, Locking
  <2>6. PaidOrNever(t)'
    <3>1. PaidOrNever(t)
      BY <1>1, <1>2, <2>4 DEF Working
    <3>2. QED
      BY <1>2, <2>3, <2>5, <3>1, SameLedger, PostsMoveOnly, PaidStays
  <2>7. Working(p)'
    BY <1>1, <1>2, <1>4, <2>3, <2>6
       DEF Working, Placed, Ended, PreOrder, Early, Locking, Finalizing, Releasing, Told
  <2>8. QED
    BY <1>2, <2>3, <2>5, <2>7, QuietKeeps
<1>5. QED
  BY <1>1, <1>3, <1>4 DEF FinalizeLoad

\* ... and when it posts, still.
LEMMA FinalizePostKeeps ==
  ASSUME PayoutInv, OneCaller, NEW p \in Procs, FinalizePost(p), order' = order, PayoutFrame
  PROVE  PayoutInv'
<1>1. PICK t \in Payouts : t = cur[p]
  BY DEF PayoutInv, Working, FinalizePost
<1>2. /\ Working(p) /\ pc[p] = "fin.post" /\ amt[p] # 0 /\ pc[p] \in InLifecycle
      /\ UNCHANGED <<tx, order, bill>>
  BY <1>1 DEF PayoutInv, Working, FinalizePost, InLifecycle, PayoutFrame
<1>3. ASSUME Goes(p, "fin.patch"), HasPosted(cur[p], "finalize")', PostsMove(p)
      PROVE  Enters(p) /\ Working(p)'
  <2>1. WillFinalize(p, t)
    BY <1>1, <1>2 DEF WillFinalize
  <2>2. Enters(p)
    BY <1>1, <1>3, <2>1 DEF Goes, Enters, WillFinalize, PreOrder, Early, Locking
  <2>3. PaidOrNever(t)'
    <3>1. PaidOrNever(t)
      BY <1>1, <1>2, <2>1 DEF Working
    <3>2. QED
      BY <1>2, <1>3, <2>2, <3>1, PostsMoveOnly, PaidStays DEF Goes
  <2>4. Working(p)'
    BY <1>1, <1>2, <1>3, <2>3
       DEF Goes, Working, Placed, Ended, PreOrder, Early, Locking, Finalizing, Releasing, Told
  <2>5. QED
    BY <2>2, <2>4
<1>4. "fin.patch" \in Labels \ {"idle"} /\ "finalize" \in LifeOps
  BY DEF Labels, Finalizing, LifeOps
<1>5. LedgerCall(p, "finalize", "fin.patch", cont[p].err)
  BY DEF FinalizePost
<1>6. QED
  BY <1>2, <1>3, <1>4, <1>5, CallKeeps

\* A release has a payout that is dead ...
LEMMA ReleaseLoadKeeps ==
  ASSUME PayoutInv, OneCaller, NEW p \in Procs, ReleaseLoad(p), order' = order, PayoutFrame
  PROVE  PayoutInv'
<1>1. PICK t \in Payouts : t = cur[p]
  BY DEF PayoutInv, Working, ReleaseLoad
<1>2. /\ Working(p) /\ tx[t] \in TxRow /\ pc[p] = "rel.load" /\ pc[p] \in InLifecycle
      /\ UNCHANGED <<ledger, tx, order, bill>>
  BY <1>1 DEF PayoutInv, SharedTyped, ReleaseLoad, InLifecycle, PayoutFrame
<1>3. CASE Return(p, cont[p].err)
  BY <1>2, <1>3, ReturnHeard, ThrowKeeps
<1>4. CASE /\ tx[t].usdc # 0
           /\ row' = [row EXCEPT ![p] = tx[t]] /\ amt' = [amt EXCEPT ![p] = tx[t].usdc]
           /\ Goto(p, "rel.post") /\ UNCHANGED <<cur, cont>>
  <2>1. "rel.post" \in Labels \ {"idle"} /\ tx[t].usdc \in Amounts
    BY <1>2, <1>4 DEF Labels, Releasing, TxRow
  <2>2. HeardKept(p)
    BY <1>4, GotoHeard
  <2>3. /\ Elsewhere(p) /\ LocalTyped'
        /\ pc'[p] = "rel.post" /\ cont'[p] = cont[p] /\ cur'[p] = cur[p] /\ heard'[p] = heard[p]
        /\ row'[p] = tx[t] /\ amt'[p] = tx[t].usdc
    BY <1>2, <1>4, <2>1, <2>2, LoadGoes
  <2>4. Enters(p)
    BY <2>3 DEF Enters, WillFinalize, PreOrder, Early, Locking
  <2>5. Dead(t)'
    <3>1. Dead(t)
      BY <1>1, <1>2 DEF Working, Releasing
    <3>2. QED
      BY <1>2, <2>3, <2>4, <3>1, SameLedger, PostsMoveOnly, DeadStays
  <2>6. Working(p)'
    BY <1>1, <1>2, <1>4, <2>3, <2>5
       DEF Working, WillFinalize, Ended, PreOrder, Early, Locking, Finalizing, Releasing, Told
  <2>7. QED
    BY <1>2, <2>3, <2>4, <2>6, QuietKeeps
<1>5. QED
  BY <1>1, <1>3, <1>4 DEF ReleaseLoad

\* ... and when it posts, still.
LEMMA ReleasePostKeeps ==
  ASSUME PayoutInv, OneCaller, NEW p \in Procs, ReleasePost(p), order' = order, PayoutFrame
  PROVE  PayoutInv'
<1>1. PICK t \in Payouts : t = cur[p]
  BY DEF PayoutInv, Working, ReleasePost
<1>2. /\ Working(p) /\ pc[p] = "rel.post" /\ amt[p] # 0 /\ pc[p] \in InLifecycle
      /\ UNCHANGED <<tx, order, bill>>
  BY <1>1 DEF PayoutInv, Working, ReleasePost, InLifecycle, PayoutFrame
<1>3. ASSUME Goes(p, "rel.patch"), HasPosted(cur[p], "release")', PostsMove(p)
      PROVE  Enters(p) /\ Working(p)'
  <2>1. Enters(p)
    BY <1>3 DEF Goes, Enters, WillFinalize, PreOrder, Early, Locking
  <2>2. Dead(t)'
    <3>1. Dead(t)
      BY <1>1, <1>2 DEF Working, Releasing
    <3>2. QED
      BY <1>2, <1>3, <2>1, <3>1, PostsMoveOnly, DeadStays DEF Goes
  <2>3. Working(p)'
    BY <1>1, <1>2, <1>3, <2>2
       DEF Goes, Working, WillFinalize, Ended, PreOrder, Early, Locking, Finalizing, Releasing, Told
  <2>4. QED
    BY <2>1, <2>3
<1>4. "rel.patch" \in Labels \ {"idle"} /\ "release" \in LifeOps
  BY DEF Labels, Releasing, LifeOps
<1>5. LedgerCall(p, "release", "rel.patch", cont[p].err)
  BY DEF ReleasePost
<1>6. QED
  BY <1>2, <1>3, <1>4, <1>5, CallKeeps

-----------------------------------------------------------------------------
(* Failures, the provider and its webhooks *)

\* A throw or a crash leaves what was written.
LEMMA FailuresKeep ==
  ASSUME PayoutInv, OneCaller, NEW p \in Procs, Throw(p) \/ Crash(p), order' = order, PayoutFrame
  PROVE  PayoutInv'
<1>1. UNCHANGED <<ledger, tx, order, bill>>
  BY DEF Throw, Crash, PayoutFrame
<1>2. CASE Throw(p)
  BY <1>1, <1>2, ReturnHeard, ThrowKeeps DEF Throw
<1>3. CASE Crash(p)
  <2>1. HeardKept(p) /\ Finish(p)
    BY <1>3, GotoHeard DEF Crash, Finish
  <2>2. QED
    BY <1>1, <2>1, FinishKeeps
<1>4. QED
  BY <1>2, <1>3

\* An order that ends was placed before, and leaves alone who had none.
LEMMA ProviderEndsKeeps ==
  ASSUME PayoutInv, NEW t \in Payouts, NEW p \in Procs, NEW o \in {"paid", "failed"},
         ProviderEnds(t, p, o), PayoutFrame
  PROVE  PayoutInv'
<1>1. order \in [Payouts -> [Procs -> {"none", "open", "paid", "failed"}]]
  BY DEF PayoutInv, SharedTyped
<1>2. /\ order[t][p] = "open" /\ order' = [order EXCEPT ![t][p] = o]
      /\ UNCHANGED <<ledger, tx, pc, cur, row, amt, cont, bill>>
  BY DEF ProviderEnds, lifeVars, PayoutFrame
<1>3. heard' \in [Procs -> Note] /\ \A q \in Procs : heard'[q] = heard[q]
  BY <1>2 DEF PayoutFrame, PayoutInv, Working, LocalTyped, Note, Nothing
<1>4. /\ order' \in [Payouts -> [Procs -> {"none", "open", "paid", "failed"}]]
      /\ \A u \in Payouts, q \in Procs : order'[u][q] = IF u = t /\ q = p THEN o ELSE order[u][q]
  BY <1>1, <1>2
<1>5. SharedTyped' /\ LocalTyped' /\ SlotsAreKeys'
  BY <1>2, <1>3, <1>4, SameLedger DEF PayoutInv, SharedTyped, LocalTyped
<1>6. ASSUME NEW u \in Payouts
      PROVE  /\ NoOrder(u)' <=> NoOrder(u)
             /\ Placed(u) => Placed(u)'
             /\ Ended(u, "paid") => Ended(u, "paid")'
             /\ Ended(u, "failed") => Ended(u, "failed")'
             /\ \A q \in Procs : order'[u][q] = "none" <=> order[u][q] = "none"
  BY <1>2, <1>4 DEF NoOrder, Placed, Ended
<1>7. ASSUME NEW u \in Payouts
      PROVE  /\ HasPosted(u, "lock")' <=> HasPosted(u, "lock")
             /\ HasPosted(u, "finalize")' <=> HasPosted(u, "finalize")
             /\ HasPosted(u, "release")' <=> HasPosted(u, "release")
             /\ \A q \in Procs : /\ WillFinalize(q, u)' <=> WillFinalize(q, u)
                                 /\ BeforeOrder(q, u)' <=> BeforeOrder(q, u)
             /\ tx'[u] = tx[u]
  BY <1>2 DEF HasPosted, WillFinalize, BeforeOrder
<1>8. ASSUME NEW u \in Payouts, PaidOrNever(u) PROVE PaidOrNever(u)'
  BY <1>6, <1>7, <1>8 DEF PaidOrNever
<1>9. ASSUME NEW u \in Payouts, Dead(u) PROVE Dead(u)'
  <2>1. u # t
    BY <1>2, <1>9 DEF Dead
  <2>2. \A q \in Procs : order'[u][q] = order[u][q]
    BY <1>4, <2>1
  <2>3. QED
    BY <1>7, <1>9, <2>2 DEF Dead
<1>10. ASSUME NEW u \in Payouts PROVE Settling(u)'
  <2>1. Settling(u)
    BY DEF PayoutInv
  <2>2. QED
    BY <1>6, <1>7, <1>8, <1>9, <2>1 DEF Settling
<1>11. ASSUME NEW b \in Bills PROVE Truthful(b, bill[b])'
  <2>1. Truthful(b, bill[b]) /\ b \in Payouts
    BY BillsAssumption DEF PayoutInv
  <2>2. QED
    BY <1>2, <1>6, <2>1 DEF Truthful
<1>12. ASSUME NEW q \in Procs PROVE Working(q)'
  <2>1. /\ pc'[q] = pc[q] /\ cur'[q] = cur[q] /\ row'[q] = row[q] /\ amt'[q] = amt[q]
        /\ cont'[q] = cont[q] /\ heard'[q] = heard[q] /\ Working(q)
    BY <1>2, <1>3 DEF PayoutInv
  <2>2. CASE pc[q] = "idle"
    BY <2>1, <2>2 DEF Working, Nothing, WillFinalize, PreOrder, Early, Locking, Finalizing,
                      Releasing, Told
  <2>3. CASE pc[q] # "idle"
    <3>1. PICK u \in Payouts : u = cur[q]
      BY <2>1, <2>3 DEF Working
    <3>2. WillFinalize(q, u)' => PaidOrNever(u)'
      BY <1>7, <1>8, <2>1, <3>1 DEF Working
    <3>3. pc[q] \in Releasing => Dead(u)'
      BY <1>9, <2>1, <3>1 DEF Working
    <3>4. /\ NoOrder(u)' <=> NoOrder(u)
          /\ Placed(u) => Placed(u)'
          /\ Ended(u, "failed") => Ended(u, "failed")'
      BY <1>6, <3>1
    <3>5. tx'[u] = tx[u] /\ (HasPosted(u, "lock")' <=> HasPosted(u, "lock"))
      BY <1>7, <3>1
    <3>6. QED
      BY <2>1, <2>3, <3>1, <3>2, <3>3, <3>4, <3>5 DEF Working
  <2>4. QED
    BY <2>2, <2>3
<1>13. QED
  BY <1>5, <1>10, <1>11, <1>12 DEF PayoutInv

\* One order at most: once it has failed, the payout is dead.
LEMMA FailedIsDead ==
  ASSUME PayoutInv, OneCaller, NEW t \in Payouts, Ended(t, "failed")
  PROVE  Dead(t)
<1>1. PICK o \in Procs : order[t][o] = "failed"
  BY DEF Ended
<1>2. Settling(t)
  BY DEF PayoutInv
<1>3. o \in Callers(t) /\ t \in ViaProvider \cup Bills /\ tx[t] # NoTx
  BY <1>1, <1>2 DEF Settling
<1>4. ASSUME NEW q \in Procs PROVE order[t][q] \in {"none", "failed"}
  <2>1. CASE order[t][q] # "none"
    <3>1. q \in Callers(t)
      BY <1>2, <2>1 DEF Settling
    <3>2. q = o
      BY <1>3, <3>1 DEF OneCaller
    <3>3. QED
      BY <1>1, <3>2
  <2>2. QED
    BY <2>1
<1>5. ~PaidOrNever(t)
  BY <1>1, <1>4 DEF PaidOrNever, Ended, NoOrder
<1>6. ~HasPosted(t, "finalize")
  BY <1>2, <1>5 DEF Settling
<1>7. ASSUME NEW q \in Procs PROVE ~BeforeOrder(q, t) /\ ~WillFinalize(q, t)
  BY <1>1, <1>5 DEF PayoutInv, Working, BeforeOrder, WillFinalize, NoOrder
<1>8. QED
  BY <1>3, <1>4, <1>6, <1>7 DEF Dead

\* A finalize is asked for when the provider has paid, or in TEST by hand.
LEMMA FinalizeAsked ==
  ASSUME PayoutInv, OneCaller, NEW p \in Procs, NEW t \in Payouts, pc[p] = "idle",
         Call(p, t, "fin.load", Idle), UNCHANGED <<ledger, tx, row, amt, order>>, PayoutFrame,
         PaidOrNever(t), ~Dead(t)
  PROVE  PayoutInv'
<1>1. /\ Elsewhere(p) /\ LocalTyped'
      /\ pc'[p] = "fin.load" /\ cur'[p] = t /\ cont'[p] = Idle /\ heard'[p] = Nothing
      /\ ~row'[p].fundsReleased
  <2>1. "fin.load" \in Labels \ {"idle"} /\ Idle \in Continuations
    BY DEF Labels, Finalizing, Continuations
  <2>2. QED
    BY <2>1, CallStarts
<1>2. UNCHANGED <<ledger, tx, order, bill>>
  BY DEF PayoutFrame
<1>3. Enters(p)
  BY <1>1 DEF Enters, WillFinalize, PreOrder, Early, Locking
<1>4. PaidOrNever(t)' /\ tx'[t] # NoTx
  BY <1>1, <1>2, <1>3, SameLedger, PostsMoveOnly, PaidStays DEF PaidOrNever
<1>5. Working(p)'
  BY <1>1, <1>4 DEF Working, PreOrder, Early, Locking, Finalizing, Releasing, Told, Nothing
<1>6. QED
  BY <1>1, <1>2, <1>3, <1>5, QuietKeeps

\* The webhook of a payment.
LEMMA SuccessWebhookKeeps ==
  ASSUME PayoutInv, OneCaller, NEW p \in Procs, NEW t \in Payouts, SuccessWebhook(p, t), PayoutFrame
  PROVE  PayoutInv'
<1>1. PICK o \in Procs : order[t][o] = "paid"
  BY DEF SuccessWebhook, Notified, PayoutInv, SharedTyped, TxRow
<1>2. tx[t] # NoTx
  BY <1>1 DEF PayoutInv, Settling
<1>3. PaidOrNever(t) /\ ~Dead(t)
  BY <1>1, <1>2 DEF PaidOrNever, Ended, Dead
<1>4. QED
  BY <1>3, FinalizeAsked DEF SuccessWebhook

\* The webhook of a failure.
LEMMA FailureWebhookKeeps ==
  ASSUME PayoutInv, OneCaller, NEW p \in Procs, NEW t \in Payouts, FailureWebhook(p, t), PayoutFrame
  PROVE  PayoutInv'
<1>1. Dead(t)
  <2>1. \E o \in Procs : order[t][o] = "failed"
    BY DEF FailureWebhook, Notified, PayoutInv, SharedTyped, TxRow
  <2>2. QED
    BY <2>1, FailedIsDead DEF Ended
<1>2. /\ Elsewhere(p) /\ LocalTyped'
      /\ pc'[p] = "rel.load" /\ cur'[p] = t /\ cont'[p] = Idle /\ heard'[p] = Nothing
      /\ ~row'[p].fundsReleased
  <2>1. "rel.load" \in Labels \ {"idle"} /\ Idle \in Continuations
    BY DEF Labels, Releasing, Continuations
  <2>2. QED
    BY <2>1, CallStarts DEF FailureWebhook
<1>3. UNCHANGED <<ledger, tx, order, bill>>
  BY DEF PayoutFrame, FailureWebhook
<1>4. Enters(p)
  BY <1>2 DEF Enters, WillFinalize, PreOrder, Early, Locking
<1>5. Dead(t)' /\ tx'[t] # NoTx
  BY <1>1, <1>2, <1>3, <1>4, SameLedger, PostsMoveOnly, DeadStays DEF Dead
<1>6. Working(p)'
  BY <1>2, <1>5 DEF Working, WillFinalize, PreOrder, Early, Locking, Finalizing, Releasing, Told, Nothing
<1>7. QED
  BY <1>2, <1>3, <1>4, <1>6, QuietKeeps

\* A TEST payout that is no bill has no order, now or later.
LEMMA SimulateKeeps ==
  ASSUME PayoutInv, OneCaller, NEW p \in Procs, NEW t \in Payouts \ Bills, simulateSettlement(p, t),
         PayoutFrame
  PROVE  PayoutInv'
<1>1. tx[t] # NoTx
  BY DEF simulateSettlement, NoTx
<1>2. NoOrder(t)
  BY DEF PayoutInv, Settling, simulateSettlement, NoOrder, ViaProvider
<1>3. PaidOrNever(t) /\ ~Dead(t)
  BY <1>1, <1>2 DEF PaidOrNever, Dead, simulateSettlement, ViaProvider
<1>4. QED
  BY <1>3, FinalizeAsked DEF simulateSettlement

-----------------------------------------------------------------------------
(* Bills *)

\* A handler of a bill that goes on, with what it heard.
LEMMA HeardGoes ==
  ASSUME PayoutInv, NEW p \in Procs, NEW label \in Labels \ {"idle"}, NEW note \in Note,
         Goto(p, label), UNCHANGED <<cur, row, amt, cont>>, heard' = [heard EXCEPT ![p] = note]
  PROVE  /\ Elsewhere(p) /\ LocalTyped'
         /\ pc'[p] = label /\ cur'[p] = cur[p] /\ row'[p] = row[p]
         /\ amt'[p] = amt[p] /\ cont'[p] = cont[p] /\ heard'[p] = note
<1>1. LocalTyped
  BY DEF PayoutInv
<1>2. pc' \in [Procs -> Labels] /\ pc'[p] = label
  BY <1>1 DEF LocalTyped, Goto
<1>3. heard' \in [Procs -> Note] /\ heard'[p] = note
  BY <1>1 DEF LocalTyped
<1>4. LocalTyped'
  BY <1>1, <1>2, <1>3 DEF LocalTyped
<1>5. Elsewhere(p)
  BY <1>1 DEF LocalTyped, Elsewhere, Goto
<1>6. QED
  BY <1>2, <1>3, <1>4, <1>5

\* A handler of a bill that ends forgets what it heard.
LEMMA LeaveRests ==
  ASSUME PayoutInv, NEW p \in Procs, Leave(p)
  PROVE  Rests(p) /\ HeardKept(p)
<1>1. LocalTyped
  BY DEF PayoutInv
<1>2. pc'[p] = "idle"
  BY <1>1 DEF Leave, Finish, Goto, LocalTyped
<1>3. heard' \in [Procs -> Note] /\ heard'[p] = Nothing /\ \A q \in Procs \ {p} : heard'[q] = heard[q]
  BY <1>1 DEF Leave, LocalTyped, Nothing, Note
<1>4. HeardKept(p)
  BY <1>2, <1>3 DEF HeardKept
<1>5. QED
  BY <1>4, FinishRests DEF Leave

\* The client's request to pay a bill.
LEMMA payInfraBillKeeps ==
  ASSUME PayoutInv, OneCaller, NEW p \in Procs, NEW b \in Bills, payInfraBill(p, b)
  PROVE  PayoutInv'
<1>1. b \in Payouts /\ LocalTyped /\ Working(p) /\ pc[p] = "idle" /\ tx[b] = NoTx
  BY BillsAssumption DEF PayoutInv, payInfraBill
<1>2. PICK a \in Quotes[b] : amt' = [amt EXCEPT ![p] = a]
  BY DEF payInfraBill
<1>3. a \in Amounts /\ a # 0
  BY <1>1, QuotesAssumption, AmountsAssumption
<1>4. /\ pc' = [pc EXCEPT ![p] = "bill.insert"] /\ cur' = [cur EXCEPT ![p] = b]
      /\ UNCHANGED <<row, cont, heard>> /\ UNCHANGED <<ledger, tx, order, bill>>
  BY DEF payInfraBill, Goto
<1>5. "bill.insert" \in Labels
  BY DEF Labels, PreOrder, Early
<1>6. LocalTyped'
  BY <1>1, <1>2, <1>3, <1>4, <1>5 DEF LocalTyped
<1>7. Elsewhere(p)
  BY <1>1, <1>2, <1>4 DEF LocalTyped, Elsewhere
<1>8. /\ pc'[p] = "bill.insert" /\ cur'[p] = b /\ amt'[p] = a /\ row'[p] = row[p]
      /\ heard'[p] = Nothing /\ ~row[p].fundsReleased
  BY <1>1, <1>2, <1>4 DEF LocalTyped, Working
<1>9. NoOrder(b) /\ p \in Callers(b)
  BY <1>1 DEF PayoutInv, Settling, NoOrder, payInfraBill, Callers
<1>10. Working(p)'
  BY <1>1, <1>3, <1>4, <1>8, <1>9
     DEF Working, NoOrder, WillFinalize, PreOrder, Early, Locking, Finalizing, Releasing, Told, Nothing
<1>11. Enters(p)
  BY <1>1, <1>4, <1>8 DEF Enters, WillFinalize, Early
<1>12. QED
  BY <1>4, <1>6, <1>7, <1>10, <1>11, QuietKeeps

\* The row of a bill is inserted by the one who asked.
LEMMA insertBillTxKeeps ==
  ASSUME PayoutInv, OneCaller, NEW p \in Procs, insertBillTx(p)
  PROVE  PayoutInv'
<1>1. PICK t \in Payouts : t = cur[p]
  BY DEF PayoutInv, Working, insertBillTx
<1>2. /\ Working(p) /\ tx[t] = NoTx /\ tx \in [Payouts -> TxRow] /\ pc[p] = "bill.insert"
      /\ amt[p] \in Amounts \cup {0} /\ amt[p] # 0 /\ t \in Bills
  BY <1>1 DEF PayoutInv, Working, insertBillTx, Early, SharedTyped, LocalTyped
<1>3. PICK r \in TxRow : r # NoTx /\ tx' = [tx EXCEPT ![t] = r]
  <2>1. PICK s \in {"pending", "processing"} : s = IF t \in Live THEN "pending" ELSE "processing"
    OBVIOUS
  <2>2. [NoTx EXCEPT !.status = s, !.usdc = amt[p]] \in TxRow
    BY <1>2 DEF NoTx, TxRow
  <2>3. [NoTx EXCEPT !.status = s, !.usdc = amt[p]] # NoTx
    BY DEF NoTx
  <2>4. QED
    BY <1>1, <1>2, <2>1, <2>2, <2>3 DEF insertBillTx
<1>4. tx' \in [Payouts -> TxRow] /\ RowsMove(p) /\ tx'[t] = r
  <2>1. ~tx[t].fundsReleased
    BY <1>2 DEF NoTx
  <2>2. QED
    BY <1>1, <1>2, <1>3, <2>1, PatchRow DEF Early
<1>5. NotesMove(p) /\ bill' \in [Bills -> Note] /\ UNCHANGED <<ledger, order>>
  BY <1>1, <1>2 DEF NotesMove, PayoutInv, SharedTyped, insertBillTx
<1>6. /\ Goto(p, "lock.load") /\ cont' = [cont EXCEPT ![p] = BillCreation]
      /\ UNCHANGED <<cur, row, amt, heard>>
  BY <1>1, <1>2 DEF insertBillTx, Into, BillCreation
<1>7. HeardKept(p)
  BY <1>6 DEF HeardKept, Goto, PayoutInv, LocalTyped
<1>8. /\ Elsewhere(p) /\ LocalTyped' /\ pc'[p] = "lock.load" /\ cont'[p] = BillCreation
      /\ cur'[p] = cur[p] /\ row'[p] = row[p] /\ amt'[p] = amt[p] /\ heard'[p] = heard[p]
  BY <1>6, <1>7, IntoGoes DEF Labels, PreOrder, Locking, Continuations
<1>9. NoOrder(t)' /\ p \in Callers(t) /\ heard[p] = Nothing /\ ~row[p].fundsReleased
  BY <1>1, <1>2, <1>5 DEF Working, NoOrder, PreOrder, Early, NoTx
<1>10. BillCreation.ok # "submit"
  BY DEF BillCreation
<1>11. Working(p)'
  BY <1>1, <1>2, <1>3, <1>4, <1>8, <1>9, <1>10
     DEF Working, WillFinalize, PreOrder, Early, Locking, Finalizing, Releasing, Told, Nothing
<1>12. Enters(p)
  BY <1>2, <1>8 DEF Enters, WillFinalize, PreOrder, Early, Locking
<1>13. QED
  BY <1>4, <1>5, <1>8, <1>11, <1>12, PatchKeeps

\* failLockedBillPayment before the order.
LEMMA BillGivesUp ==
  ASSUME PayoutInv, OneCaller, NEW p \in Procs, pc[p] \in {"bill.validate", "bill.request"},
         failLockedBillPayment(p), UNCHANGED <<ledger, tx, order, bill>>
  PROVE  PayoutInv'
<1>1. PICK t \in Payouts : t = cur[p]
  BY DEF PayoutInv, Working
<1>2. t \in Bills /\ BeforeOrder(p, t) /\ pc[p] \notin Early
  BY <1>1 DEF PayoutInv, Working, BeforeOrder, PreOrder, Early
<1>3. HeardKept(p)
  BY DEF failLockedBillPayment, Into, HeardKept, Goto, PayoutInv, LocalTyped
<1>4. "rel.load" \in Labels \ {"idle"} /\ BillRelease \in Continuations
  BY DEF Labels, Releasing, Continuations
<1>5. /\ Elsewhere(p) /\ LocalTyped' /\ pc'[p] = "rel.load" /\ cont'[p] = BillRelease
      /\ cur'[p] = cur[p] /\ row'[p] = row[p] /\ heard'[p] = heard[p]
  BY <1>3, <1>4, IntoGoes DEF failLockedBillPayment, Into, BillRelease
<1>6. QED
  BY <1>2, <1>5, GivesUp

\* Validation goes on to the order or gives it up.
LEMMA validateInfraBillKeeps ==
  ASSUME PayoutInv, OneCaller, NEW p \in Procs, validateInfraBill(p)
  PROVE  PayoutInv'
<1>1. pc[p] = "bill.validate" /\ UNCHANGED <<ledger, tx, order, bill>>
  BY DEF validateInfraBill
<1>2. CASE Goto(p, "bill.request") /\ UNCHANGED <<cur, row, amt, cont, heard>>
  <2>1. PICK t \in Payouts : t = cur[p]
    BY <1>1 DEF PayoutInv, Working
  <2>2. HeardKept(p)
    BY <1>2 DEF HeardKept, Goto, PayoutInv, LocalTyped
  <2>3. Goes(p, "bill.request")
    BY <1>2, <2>2, GotoGoes DEF Labels, PreOrder
  <2>4. Working(p) /\ HasPosted(t, "lock")' = HasPosted(t, "lock")
    BY <1>1 DEF PayoutInv, HasPosted
  <2>5. Working(p)'
    BY <1>1, <2>1, <2>3, <2>4
       DEF Goes, Working, NoOrder, WillFinalize, PreOrder, Early, Locking, Finalizing, Releasing, Told, Nothing
  <2>6. Enters(p)
    BY <1>1, <2>3 DEF Goes, Enters, WillFinalize, PreOrder, Early, Locking
  <2>7. QED
    BY <1>1, <2>3, <2>5, <2>6, QuietKeeps DEF Goes
<1>3. CASE failLockedBillPayment(p)
  BY <1>1, <1>3, BillGivesUp
<1>4. QED
  BY <1>2, <1>3 DEF validateInfraBill

\* createBillPayment: the order is placed, or refused and the lock given back, or, in TEST,
\* the bill taken for paid although there will be no order.
LEMMA BillRequestKeeps ==
  ASSUME PayoutInv, OneCaller, AnswersArrive, NEW p \in Procs, BillRequest(p)
  PROVE  PayoutInv'
<1>1. PICK t \in Payouts : t = cur[p]
  BY DEF PayoutInv, Working, BillRequest
<1>2. /\ pc[p] = "bill.request" /\ Working(p) /\ t \in Bills /\ BeforeOrder(p, t)
      /\ HasPosted(t, "lock") /\ tx[t] # NoTx /\ heard[p] = Nothing /\ NoOrder(t)
  BY <1>1 DEF PayoutInv, Working, BillRequest, BeforeOrder, PreOrder, Early
<1>3. UNCHANGED <<ledger, tx, bill>>
  BY DEF BillRequest
<1>4. PICK answer \in BillAnswers :
        /\ order' = IF answer = "refused" THEN order
                    ELSE [order EXCEPT ![cur[p]][p] = IF answer = "paid" THEN "paid" ELSE "open"]
        /\ IF answer \in {"refused", "lost"}
             THEN IF cur[p] \in Live THEN failLockedBillPayment(p) ELSE Into(p, "fin.load", Idle)
             ELSE /\ Goto(p, "bill.status")
                  /\ heard' = [heard EXCEPT ![p].fw = IF answer = "queued" THEN "pending" ELSE "clean"]
                  /\ UNCHANGED <<cur, row, amt, cont>>
  BY DEF BillRequest
<1>5. answer \in {"paid", "open", "queued", "refused"}
  BY BillsAssumption DEF AnswersArrive
<1>6. CASE answer = "refused" /\ t \in Live
  <2>1. failLockedBillPayment(p) /\ order' = order
    BY <1>1, <1>4, <1>6
  <2>2. QED
    BY <1>2, <1>3, <2>1, BillGivesUp
<1>7. CASE answer = "refused" /\ t \notin Live
  <2>1. Into(p, "fin.load", Idle) /\ order' = order
    BY <1>1, <1>4, <1>7
  <2>2. HeardKept(p)
    BY <2>1 DEF Into, HeardKept, Goto, PayoutInv, LocalTyped
  <2>3. "fin.load" \in Labels \ {"idle"} /\ Idle \in Continuations
    BY DEF Labels, Finalizing, Continuations
  <2>4. /\ Elsewhere(p) /\ LocalTyped' /\ pc'[p] = "fin.load" /\ cont'[p] = Idle
        /\ cur'[p] = cur[p] /\ row'[p] = row[p] /\ heard'[p] = heard[p]
    BY <2>1, <2>2, <2>3, IntoGoes DEF Into
  <2>5. ASSUME NEW q \in Procs PROVE ~BeforeOrder(q, t)'
    <3>1. CASE q = p
      BY <2>4, <3>1 DEF BeforeOrder, PreOrder, Early, Locking
    <3>2. CASE q # p
      <4>1. ~BeforeOrder(q, t)
        BY <1>2, <3>2, AloneBefore
      <4>2. QED
        BY <2>4, <3>2, <4>1 DEF BeforeOrder, Elsewhere
    <3>3. QED
      BY <3>1, <3>2
  <2>6. PaidOrNever(t)'
    BY <1>2, <1>3, <1>7, <2>1, <2>5 DEF PaidOrNever, NoOrder
  <2>7. Working(p)'
    BY <1>1, <1>2, <1>3, <2>4, <2>6
       DEF Working, PreOrder, Early, Locking, Finalizing, Releasing, Told, Nothing
  <2>8. Enters(p)
    BY <1>1, <1>2, <2>4 DEF Enters, WillFinalize, Dead, PreOrder, Early, Locking
  <2>9. QED
    BY <1>3, <2>1, <2>4, <2>7, <2>8, QuietKeeps
<1>8. CASE answer # "refused"
  <2>1. PICK s \in {"open", "paid"} : order' = [order EXCEPT ![t][p] = s]
    BY <1>1, <1>4, <1>8
  <2>2. PICK note \in Note : /\ note.fw # "none" /\ note.status = "none"
                             /\ heard' = [heard EXCEPT ![p] = note]
    <3>1. PICK fw \in {"pending", "clean"} : heard' = [heard EXCEPT ![p].fw = fw]
      BY <1>4, <1>5, <1>8
    <3>2. PICK note : note = [heard[p] EXCEPT !.fw = fw]
      OBVIOUS
    <3>3. note \in Note /\ note.fw = fw /\ note.status = "none"
      BY <1>2, <3>2 DEF Nothing, Note
    <3>4. heard' = [heard EXCEPT ![p] = note]
      BY <3>1, <3>2 DEF PayoutInv, LocalTyped
    <3>5. QED
      BY <3>1, <3>3, <3>4
  <2>3. Goto(p, "bill.status") /\ UNCHANGED <<cur, row, amt, cont>>
    BY <1>4, <1>5, <1>8
  <2>4. /\ Elsewhere(p) /\ LocalTyped' /\ pc'[p] = "bill.status" /\ cur'[p] = cur[p]
        /\ row'[p] = row[p] /\ cont'[p] = cont[p] /\ heard'[p] = note
    BY <2>2, <2>3, HeardGoes DEF Labels, Told
  <2>5. order' \in [Payouts -> [Procs -> {"none", "open", "paid", "failed"}]] /\ Placed(t)'
    BY <2>1 DEF PayoutInv, SharedTyped, Placed
  <2>6. Working(p)'
    BY <1>1, <1>2, <1>3, <2>2, <2>4, <2>5
       DEF Working, WillFinalize, PreOrder, Early, Locking, Finalizing, Releasing, Told, Nothing
  <2>7. Enters(p)
    BY <2>4 DEF Enters, WillFinalize, PreOrder, Early, Locking
  <2>8. Moves(p)
    BY <1>1, <1>2, <1>3, <2>1, <2>4, <2>7, SameLedger DEF Moves, RowsMove, OrdersMove, NotesMove
  <2>9. SharedTyped'
    BY <1>3, <2>5, SameLedger DEF PayoutInv, SharedTyped
  <2>10. QED
    BY <1>3, <2>4, <2>6, <2>8, <2>9, SameLedger, StepKeeps
<1>9. QED
  BY <1>6, <1>7, <1>8

\* What the provider says of a bill that was placed.
LEMMA ProviderSays ==
  ASSUME PayoutInv, NEW t \in Payouts, Placed(t)
  PROVE  /\ AtProvider(t) \in {"failed", "paid", "open"}
         /\ AtProvider(t) = "failed" => Ended(t, "failed")
         /\ AtProvider(t) = "paid" => Ended(t, "paid")
<1>1. PICK orders : orders = {order[t][q] : q \in Procs}
  OBVIOUS
<1>2. AtProvider(t) = IF "failed" \in orders THEN "failed" ELSE IF "paid" \in orders THEN "paid"
                      ELSE IF "open" \in orders THEN "open" ELSE "none"
  BY <1>1 DEF AtProvider
<1>3. \A q \in Procs : order[t][q] \in {"none", "open", "paid", "failed"}
  BY DEF PayoutInv, SharedTyped
<1>4. "failed" \in orders \/ "paid" \in orders \/ "open" \in orders
  BY <1>1, <1>3 DEF Placed
<1>5. /\ "failed" \in orders => Ended(t, "failed")
      /\ "paid" \in orders => Ended(t, "paid")
  BY <1>1 DEF Ended
<1>6. QED
  BY <1>2, <1>4, <1>5

\* What is made of it: failure only of an order that failed, success only of one that was paid.
LEMMA OutcomeOf ==
  ASSUME PayoutInv, AnswersArrive, NEW p \in Procs, NEW t \in Payouts, Placed(t),
         heard[p].fw # "none", heard[p].status = "failed" => Ended(t, "failed"),
         NEW status \in Fetched(p, t)
  PROVE  LET outcome == resolveFlutterwaveBillOutcome(heard[p].fw, status)
         IN /\ status \in {"none", "pending", "success", "failed"}
            /\ outcome \in {"failed", "pending", "success"}
            /\ status = "failed" => Ended(t, "failed")
            /\ outcome = "failed" => status = "failed"
            /\ outcome = "success" => Ended(t, "paid")
<1>1. heard[p] \in Note
  BY DEF PayoutInv, LocalTyped
<1>2. \/ status = Word[AtProvider(t)]
      \/ status = heard[p].status /\ AtProvider(t) \in Blind \cup {"none"}
  BY DEF Fetched
<1>3. /\ AtProvider(t) \in {"failed", "paid", "open"}
      /\ AtProvider(t) = "failed" => Ended(t, "failed")
      /\ AtProvider(t) = "paid" => Ended(t, "paid")
  BY ProviderSays
<1>4. \/ status = "failed" /\ AtProvider(t) = "failed"
      \/ status = "success" /\ AtProvider(t) = "paid"
      \/ status = "pending" /\ AtProvider(t) = "open"
      \/ status = heard[p].status /\ AtProvider(t) = "paid"
  BY <1>2, <1>3 DEF Word, AnswersArrive
<1>5. status \in {"none", "pending", "success", "failed"}
  BY <1>1, <1>4 DEF Note
<1>6. /\ resolveFlutterwaveBillOutcome(heard[p].fw, status) \in {"failed", "pending", "success"}
      /\ resolveFlutterwaveBillOutcome(heard[p].fw, status) = "failed" => status = "failed"
      /\ resolveFlutterwaveBillOutcome(heard[p].fw, status) = "success" => status \notin {"failed", "pending"}
  BY DEF resolveFlutterwaveBillOutcome
<1>7. QED
  BY <1>3, <1>4, <1>5, <1>6

\* What a handler does about it.
LEMMA BillStatusKeeps ==
  ASSUME PayoutInv, OneCaller, AnswersArrive, NEW p \in Procs, BillStatus(p)
  PROVE  PayoutInv'
<1>1. PICK t \in Payouts : t = cur[p]
  BY DEF PayoutInv, Working, BillStatus
<1>2. /\ pc[p] \in {"bill.status", "poll.status"} /\ Working(p) /\ t \in Bills /\ Placed(t)
      /\ heard[p].fw # "none" /\ (heard[p].status = "failed" => Ended(t, "failed"))
      /\ tx[t] # NoTx /\ UNCHANGED <<ledger, tx, order, bill>> /\ heard[p] \in Note
  BY <1>1 DEF PayoutInv, Working, BillStatus, LocalTyped, Told, Early
<1>3. PICK status \in Fetched(p, t) :
        LET outcome == resolveFlutterwaveBillOutcome(heard[p].fw, status)
            fails == outcome = "failed" /\ ~row[p].fundsFinalized /\ ~row[p].fundsReleased
            hear == heard' = [heard EXCEPT ![p].status = status]
        IN \/ fails /\ failLockedBillPayment(p)
           \/ outcome = "pending" /\ hear /\ Goto(p, "bill.mark") /\ UNCHANGED <<cur, row, amt, cont>>
           \/ Leave(p)
           \/ /\ ~fails /\ outcome # "pending" /\ ~row[p].fundsFinalized
              /\ hear /\ Goto(p, "fin.load")
              /\ \E e \in {"idle", "bill.mark"} :
                   cont' = [cont EXCEPT ![p] = [ok |-> "bill.settled", err |-> e]]
              /\ UNCHANGED <<cur, row, amt>>
  BY <1>1 DEF BillStatus
<1>4. PICK outcome : outcome = resolveFlutterwaveBillOutcome(heard[p].fw, status)
  OBVIOUS
<1>5. /\ status \in {"none", "pending", "success", "failed"}
      /\ outcome \in {"failed", "pending", "success"}
      /\ status = "failed" => Ended(t, "failed")
      /\ outcome = "failed" => status = "failed"
      /\ outcome = "success" => Ended(t, "paid")
  BY <1>2, <1>4, OutcomeOf
<1>6. PICK note \in Note : note = [heard[p] EXCEPT !.status = status]
  BY <1>2, <1>5 DEF Note
<1>7. note.fw # "none" /\ note.status = status
  BY <1>2, <1>6 DEF Note
<1>8. ASSUME heard' = [heard EXCEPT ![p].status = status]
      PROVE  heard' = [heard EXCEPT ![p] = note]
  BY <1>6, <1>8 DEF PayoutInv, LocalTyped
<1>9. Placed(t)' /\ (Ended(t, "failed") => Ended(t, "failed")')
  BY <1>2 DEF Placed, Ended
<1>10. CASE outcome = "failed" /\ failLockedBillPayment(p)
  <2>1. Dead(t)
    BY <1>5, <1>10, FailedIsDead
  <2>2. HeardKept(p)
    BY <1>10 DEF failLockedBillPayment, Into, HeardKept, Goto, PayoutInv, LocalTyped
  <2>3. "rel.load" \in Labels \ {"idle"} /\ BillRelease \in Continuations
    BY DEF Labels, Releasing, Continuations
  <2>4. /\ Elsewhere(p) /\ LocalTyped' /\ pc'[p] = "rel.load" /\ cont'[p] = BillRelease
        /\ cur'[p] = cur[p] /\ row'[p] = row[p] /\ heard'[p] = heard[p]
    BY <1>10, <2>2, <2>3, IntoGoes DEF failLockedBillPayment, Into, BillRelease
  <2>5. Enters(p)
    BY <2>4 DEF Enters, WillFinalize, PreOrder, Early, Locking
  <2>6. Dead(t)'
    BY <1>2, <2>1, <2>4, <2>5, SameLedger, PostsMoveOnly, DeadStays
  <2>7. Working(p)'
    BY <1>1, <1>2, <1>9, <2>4, <2>6
       DEF Working, WillFinalize, PreOrder, Early, Locking, Finalizing, Releasing, Told
  <2>8. QED
    BY <1>2, <2>4, <2>5, <2>7, QuietKeeps
<1>11. CASE heard' = [heard EXCEPT ![p] = note] /\ Goto(p, "bill.mark") /\ UNCHANGED <<cur, row, amt, cont>>
  <2>1. /\ Elsewhere(p) /\ LocalTyped' /\ pc'[p] = "bill.mark" /\ cur'[p] = cur[p]
        /\ row'[p] = row[p] /\ cont'[p] = cont[p] /\ heard'[p] = note
    BY <1>11, HeardGoes DEF Labels, Told
  <2>2. Working(p)'
    BY <1>1, <1>2, <1>5, <1>7, <1>9, <2>1
       DEF Working, WillFinalize, PreOrder, Early, Locking, Finalizing, Releasing, Told
  <2>3. Enters(p)
    BY <2>1 DEF Enters, WillFinalize, PreOrder, Early, Locking
  <2>4. QED
    BY <1>2, <2>1, <2>2, <2>3, QuietKeeps
<1>12. CASE Leave(p)
  BY <1>2, <1>12, LeaveRests, RestWorks, QuietKeeps DEF Rests
<1>13. ASSUME NEW e \in {"idle", "bill.mark"}, outcome # "pending",
              outcome = "failed" => row[p].fundsFinalized \/ row[p].fundsReleased,
              ~row[p].fundsFinalized, heard' = [heard EXCEPT ![p] = note], Goto(p, "fin.load"),
              cont' = [cont EXCEPT ![p] = [ok |-> "bill.settled", err |-> e]],
              UNCHANGED <<cur, row, amt>>
       PROVE  PayoutInv'
  <2>1. PICK c \in BillSettle : c = [ok |-> "bill.settled", err |-> e]
    BY DEF BillSettle
  <2>2. LocalTyped /\ c \in Continuations /\ c # Idle
    BY <2>1 DEF PayoutInv, Continuations, Idle
  <2>3. /\ pc' = [pc EXCEPT ![p] = "fin.load"] /\ cont' = [cont EXCEPT ![p] = c]
        /\ "fin.load" \in Labels
    BY <1>13, <2>1 DEF Goto, Labels, Finalizing
  <2>4. LocalTyped'
    BY <1>13, <2>2, <2>3 DEF LocalTyped
  <2>5. Elsewhere(p)
    BY <1>13, <2>2, <2>3 DEF LocalTyped, Elsewhere
  <2>6. /\ pc'[p] = "fin.load" /\ cur'[p] = cur[p] /\ row'[p] = row[p] /\ cont'[p] = c
        /\ heard'[p] = note
    BY <1>13, <2>2, <2>3 DEF LocalTyped
  <2>7. WillFinalize(p, t)' => Ended(t, "paid")
    <3>1. CASE outcome = "failed"
      <4>1. tx'[t].fundsReleased
        BY <1>1, <1>2, <1>13, <3>1 DEF Working
      <4>2. QED
        BY <2>6, <4>1 DEF WillFinalize
    <3>2. CASE outcome = "success"
      BY <1>5, <3>2
    <3>3. QED
      BY <1>5, <1>13, <3>1, <3>2
  <2>8. Enters(p)
    <3>1. Ended(t, "paid") => ~Dead(t)
      BY DEF Ended, Dead
    <3>2. QED
      BY <1>1, <2>6, <2>7, <3>1 DEF Enters, WillFinalize, PreOrder, Early, Locking
  <2>9. WillFinalize(p, t)' => PaidOrNever(t)'
    BY <1>2, <2>7 DEF PaidOrNever, Ended
  <2>10. Working(p)'
    BY <1>1, <1>2, <1>5, <1>7, <1>9, <2>1, <2>6, <2>9
       DEF Working, PreOrder, Early, Locking, Finalizing, Releasing, Told
  <2>11. QED
    BY <1>2, <2>4, <2>5, <2>8, <2>10, QuietKeeps
<1>14. QED
  BY <1>3, <1>4, <1>5, <1>8, <1>10, <1>11, <1>12, <1>13

\* The UPDATE that ends a handler of a bill stores what was heard.
LEMMA BillEndKeeps ==
  ASSUME PayoutInv, OneCaller, NEW p \in Procs, BillEnd(p)
  PROVE  PayoutInv'
<1>1. PICK t \in Payouts : t = cur[p]
  BY DEF PayoutInv, Working, BillEnd
<1>2. /\ pc[p] \in {"bill.failed", "bill.mark", "bill.settled"} /\ t \in Bills
      /\ pc[p] \notin Early \cup {"idle"} /\ UNCHANGED <<ledger, order>>
      /\ heard[p] \in Note /\ bill \in [Bills -> Note]
  BY <1>1 DEF PayoutInv, Working, BillEnd, Told, Early, LocalTyped, SharedTyped
<1>3. PICK s : s = CASE pc[p] = "bill.failed"  -> "failed"
                     [] pc[p] = "bill.mark"    -> "processing"
                     [] pc[p] = "bill.settled" -> "settled"
  OBVIOUS
<1>4. s \in {"pending", "processing", "settled", "failed"}
  BY <1>2, <1>3
<1>5. tx' = [tx EXCEPT ![cur[p]].status = s]
  BY <1>3, Zenon DEF BillEnd
<1>6. \/ bill' = bill
      \/ pc[p] \in {"bill.mark", "bill.settled"} /\ bill' = [bill EXCEPT ![t] = heard[p]]
  BY <1>1, <1>2 DEF BillEnd
<1>7. bill' \in [Bills -> Note] /\ NotesMove(p)
  BY <1>1, <1>2, <1>6 DEF NotesMove, Told
<1>8. Rests(p)
  BY LeaveRests DEF BillEnd
<1>9. QED
  BY <1>2, <1>4, <1>5, <1>7, <1>8, StatusKeeps

\* A refresh starts from what is stored.
LEMMA refreshKeeps ==
  ASSUME PayoutInv, OneCaller, AnswersArrive, NEW p \in Procs, NEW b \in Bills, refreshInfraBillStatus(p, b)
  PROVE  PayoutInv'
<1>1. b \in Payouts /\ LocalTyped /\ Working(p) /\ pc[p] = "idle" /\ bill[b] # Nothing
  BY BillsAssumption DEF PayoutInv, refreshInfraBillStatus, Known, AnswersArrive
<1>2. /\ Truthful(b, bill[b]) /\ tx[b] # NoTx /\ tx[b] \in TxRow /\ bill[b] \in Note
  BY <1>1 DEF PayoutInv, refreshInfraBillStatus, NoTx, SharedTyped
<1>3. /\ pc' = [pc EXCEPT ![p] = "poll.status"] /\ cur' = [cur EXCEPT ![p] = b]
      /\ row' = [row EXCEPT ![p] = tx[b]] /\ heard' = [heard EXCEPT ![p] = bill[b]]
      /\ UNCHANGED <<amt, cont>> /\ UNCHANGED <<ledger, tx, order, bill>>
      /\ "poll.status" \in Labels
  BY DEF refreshInfraBillStatus, Goto, Labels, Told
<1>4. LocalTyped'
  BY <1>1, <1>2, <1>3 DEF LocalTyped
<1>5. Elsewhere(p)
  BY <1>1, <1>3 DEF LocalTyped, Elsewhere
<1>6. /\ pc'[p] = "poll.status" /\ cur'[p] = b /\ row'[p] = tx[b] /\ heard'[p] = bill[b]
  BY <1>1, <1>3 DEF LocalTyped
<1>7. Placed(b) /\ bill[b].fw # "none" /\ (bill[b].status = "failed" => Ended(b, "failed"))
  BY <1>1, <1>2 DEF Truthful
<1>8. Working(p)'
  BY <1>1, <1>2, <1>3, <1>6, <1>7
     DEF Working, Placed, Ended, WillFinalize, PreOrder, Early, Locking, Finalizing, Releasing, Told
<1>9. Enters(p)
  BY <1>6 DEF Enters, WillFinalize, PreOrder, Early, Locking
<1>10. QED
  BY <1>3, <1>4, <1>5, <1>8, <1>9, QuietKeeps

\* The catch block of payInfraBill after the finalize.
LEMMA BillThrowKeeps ==
  ASSUME PayoutInv, OneCaller, NEW p \in Procs, BillThrow(p)
  PROVE  PayoutInv'
<1>1. PICK t \in Payouts : t = cur[p]
  BY DEF PayoutInv, Working, BillThrow
<1>2. Working(p) /\ pc[p] = "bill.settled" /\ UNCHANGED <<ledger, tx, order, bill>>
  BY DEF PayoutInv, BillThrow
<1>3. HeardKept(p)
  BY DEF BillThrow, HeardKept, Goto, PayoutInv, LocalTyped
<1>4. Goes(p, "bill.mark")
  BY <1>3, GotoGoes DEF BillThrow, Labels, Told
<1>5. Working(p)'
  BY <1>1, <1>2, <1>4
     DEF Goes, Working, Placed, Ended, WillFinalize, PreOrder, Early, Locking, Finalizing, Releasing, Told
<1>6. Enters(p)
  BY <1>4 DEF Goes, Enters, WillFinalize, PreOrder, Early, Locking
<1>7. QED
  BY <1>2, <1>4, <1>5, <1>6, QuietKeeps DEF Goes

-----------------------------------------------------------------------------
(* The theorems *)

\* Every step, whoever takes it.
LEMMA NextKeeps ==
  ASSUME PayoutInv, OneCaller, AnswersArrive, BillNext
  PROVE  PayoutInv'
<1>1. CASE PayoutNext
  <2>1. PayoutFrame
    BY <1>1 DEF PayoutNext, PayoutFrame
  <2>2. ASSUME NEW p \in Procs, NEW t \in Payouts, CreateFind(p, t) PROVE PayoutInv'
    BY <2>1, <2>2, CreateFindKeeps
  <2>3. ASSUME NEW p \in Procs, LifeStep(p), order' = order PROVE PayoutInv'
    BY <2>1, <2>3, LockLoadKeeps, LockPostKeeps, FinalizeLoadKeeps, FinalizePostKeeps,
       ReleaseLoadKeeps, ReleasePostKeeps, PatchesKeep DEF LifeStep
  <2>4. ASSUME NEW p \in Procs, Step(p) PROVE PayoutInv'
    BY <2>1, <2>3, <2>4, InsertTxKeeps, LockFailedKeeps, SubmitKeeps DEF Step
  <2>5. ASSUME NEW p \in Procs, (Throw(p) \/ Crash(p)) /\ UNCHANGED order PROVE PayoutInv'
    BY <2>1, <2>5, FailuresKeep
  <2>6. ASSUME NEW t \in Payouts, NEW p \in Procs, NEW o \in {"paid", "failed"}, ProviderEnds(t, p, o)
        PROVE  PayoutInv'
    BY <2>1, <2>6, ProviderEndsKeeps
  <2>7. ASSUME NEW p \in Procs, NEW t \in Payouts \ Bills, SuccessWebhook(p, t) \/ FailureWebhook(p, t)
        PROVE  PayoutInv'
    BY <2>1, <2>7, SuccessWebhookKeeps, FailureWebhookKeeps
  <2>8. ASSUME NEW p \in Procs, NEW t \in Payouts, simulateSettlement(p, t),
               t \in Bills => "simulate" \in Asked
        PROVE  PayoutInv'
    BY <2>1, <2>8, SimulateKeeps DEF AnswersArrive
  <2>9. QED
    BY <1>1, <2>2, <2>4, <2>5, <2>6, <2>7, <2>8 DEF PayoutNext
<1>2. ASSUME NEW p \in Procs, NEW b \in Bills, payInfraBill(p, b) \/ refreshInfraBillStatus(p, b)
      PROVE  PayoutInv'
  BY <1>2, payInfraBillKeeps, refreshKeeps
<1>3. ASSUME NEW p \in Procs, BillStep(p) \/ BillThrow(p) PROVE PayoutInv'
  BY <1>3, insertBillTxKeeps, validateInfraBillKeeps, BillRequestKeeps, BillStatusKeeps,
     BillEndKeeps, BillThrowKeeps DEF BillStep
<1>4. QED
  BY <1>1, <1>2, <1>3 DEF BillNext

\* The variables of the invariant are those of the specification.
LEMMA StutterKeeps ==
  ASSUME PayoutInv, UNCHANGED billVars
  PROVE  PayoutInv'
BY DEF billVars, vars, PayoutInv, SharedTyped, LocalTyped, SlotsAreKeys, Settling, Truthful, Working,
       Placed, Ended, NoOrder, BeforeOrder, WillFinalize, PaidOrNever, Dead, HasPosted

\* At the start the wallet is funded and nothing else has happened.
LEMMA LedgerStart ==
  ASSUME LifeInit
  PROVE  LedgerSound /\ \A t \in Payouts, op \in LifeOps : ~HasPosted(t, op)
<1>1. PICK L : L = ensureWalletAccount(EmptyLedger, Org)
  OBVIOUS
<1>2. PICK l : l = FundingLeg
  OBVIOUS
<1>3. /\ l.wallet = Org /\ l.op = "credit" /\ l.key = <<"funding", "credit">> /\ l.ref = NoRef
      /\ l.amount = Funds /\ l \in Leg /\ Org \in Wallets
  BY <1>2, QuotesAssumption, PayoutKeysAssumption DEF FundingLeg, Leg, OpNames, MovementTypes
<1>4. Well(L)
  BY <1>1, <1>3, EmptyWell, EnsureWell
<1>5. L.rows[Org].status # "absent" /\ L.movements = [w \in Wallets |-> <<>>]
  BY <1>1, <1>3 DEF ensureWalletAccount, EmptyLedger
<1>6. Covers(l.op, L.rows[l.wallet].bal, l.amount)
  BY <1>3 DEF Covers
<1>7. ASSUME NEW k PROVE ~Posted(L, k)
  BY <1>5 DEF Posted
<1>8. Admissible(L, l)
  BY <1>3, <1>5, <1>6, <1>7 DEF Admissible, SlotTaken
<1>9. ledger = Post(L, l) /\ L \in Ledger
  <2>1. ledger = Post(ensureWalletAccount(EmptyLedger, Org), FundingLeg)
    BY Zenon DEF LifeInit
  <2>2. ledger = Post(L, l)
    BY <1>1, <1>2, <2>1
  <2>3. L \in Ledger
    BY <1>4 DEF Well
  <2>4. QED
    BY <2>2, <2>3
<1>10. Well(ledger)
  BY <1>3, <1>4, <1>8, <1>9, PostWell
<1>11. ledger.rows[Org].status # "absent"
  BY <1>3, <1>5, <1>6, <1>9, PostMovements
<1>12. ASSUME NEW t \in Payouts, NEW op \in LifeOps PROVE ~HasPosted(t, op)
  <2>1. Posted(ledger, <<t, op>>) => <<t, op>> = l.key
    BY <1>6, <1>7, <1>9, PostPosted, <1>3
  <2>2. <<t, op>> # l.key
    BY <1>3 DEF LifeOps
  <2>3. QED
    BY <2>1, <2>2 DEF HasPosted
<1>13. SlotsAreKeys
  <2>1. SUFFICES ASSUME NEW w \in Wallets, NEW i \in 1..Len(ledger.movements[w])
                 PROVE  ledger.movements[w][i].ref = NoRef
    BY DEF SlotsAreKeys
  <2>2. /\ w # l.wallet => ledger.movements[w] = L.movements[w]
        /\ w = l.wallet => /\ Len(ledger.movements[w]) = Len(L.movements[w]) + 1
                           /\ ledger.movements[w][Len(ledger.movements[w])] = NewMovement(L, l)
    BY <1>3, <1>6, <1>9, PostMovements
  <2>3. L.movements[w] = <<>>
    BY <1>5
  <2>4. w = l.wallet /\ i = Len(ledger.movements[w])
    BY <2>2, <2>3
  <2>5. NewMovement(L, l).ref = NoRef
    BY <1>3 DEF NewMovement
  <2>6. QED
    BY <2>2, <2>4, <2>5
<1>14. QED
  BY <1>10, <1>11, <1>12, <1>13 DEF LedgerSound

\* So the invariant holds at the start.
LEMMA InitKeeps ==
  ASSUME BillInit
  PROVE  PayoutInv
<1>1. /\ tx = [t \in Payouts |-> NoTx] /\ order = [t \in Payouts |-> [p \in Procs |-> "none"]]
      /\ pc = [p \in Procs |-> "idle"] /\ cur = [p \in Procs |-> NoOne] /\ row = [p \in Procs |-> NoTx]
      /\ amt = [p \in Procs |-> 0] /\ cont = [p \in Procs |-> Idle]
      /\ bill = [b \in Bills |-> Nothing] /\ heard = [p \in Procs |-> Nothing]
  BY DEF BillInit, Init, LifeInit
<1>2. NoTx \in TxRow /\ Nothing \in Note /\ Idle \in Continuations /\ "idle" \in Labels
  BY DEF NoTx, TxRow, Nothing, Note, Continuations, Labels
<1>3. SharedTyped /\ LocalTyped /\ SlotsAreKeys
  BY <1>1, <1>2, LedgerStart DEF SharedTyped, LocalTyped, LedgerSound, BillInit, Init
<1>4. ASSUME NEW t \in Payouts PROVE Settling(t)
  <2>1. ~HasPosted(t, "finalize") /\ ~HasPosted(t, "release")
    BY LedgerStart DEF LifeOps, BillInit, Init
  <2>2. QED
    BY <1>1, <2>1 DEF Settling
<1>5. ASSUME NEW b \in Bills PROVE Truthful(b, bill[b])
  BY <1>1 DEF Truthful, Nothing
<1>6. ASSUME NEW p \in Procs PROVE Working(p)
  BY <1>1 DEF Working, WillFinalize, Nothing, NoTx, PreOrder, Early, Locking, Finalizing, Releasing, Told
<1>7. QED
  BY <1>3, <1>4, <1>5, <1>6 DEF PayoutInv

\* PayoutInv is an invariant of the payouts and bills.
LEMMA PayoutsInvariant == OneCaller /\ AnswersArrive => (BillSpec => []PayoutInv)
<1>. SUFFICES ASSUME OneCaller, AnswersArrive PROVE BillSpec => []PayoutInv
  OBVIOUS
<1>1. BillInit => PayoutInv
  BY InitKeeps
<1>2. PayoutInv /\ [BillNext]_billVars => PayoutInv'
  BY NextKeeps, StutterKeeps
<1>3. QED
  BY <1>1, <1>2, PTL DEF BillSpec

\* Nothing is ordered without a lock, money goes back to available only when the provider will
\* not pay, and is debited for good only when it has: submitting, webhooks, bills and crashes in
\* any order (infraMoneyService.ts, infraLifecycleService.ts and infraBillsService.ts).
THEOREM LocksFollowOrders == OneCaller /\ AnswersArrive => (BillSpec => []LockFollowsOrder)
<1>. SUFFICES ASSUME OneCaller, AnswersArrive PROVE BillSpec => []LockFollowsOrder
  OBVIOUS
<1>1. PayoutInv => LockFollowsOrder
  <2>. SUFFICES ASSUME PayoutInv PROVE LockFollowsOrder
    OBVIOUS
  <2>1. ASSUME NEW t \in Payouts
        PROVE  /\ Orders(t, {"open"}) # {} => t \in InFlightPayouts
               /\ HasPosted(t, "release") => Orders(t, {"open", "paid"}) = {}
               /\ t \in ViaProvider /\ HasPosted(t, "finalize") => Orders(t, {"paid"}) # {}
    <3>1. Settling(t)
      BY DEF PayoutInv
    <3>2. ASSUME NEW o \in Procs, order[t][o] = "open"
          PROVE  HasPosted(t, "lock") /\ ~HasPosted(t, "finalize") /\ ~HasPosted(t, "release")
      <4>1. HasPosted(t, "lock") /\ o \in Callers(t)
        BY <3>1, <3>2 DEF Settling
      <4>2. ~Ended(t, "paid")
        BY <3>1, <3>2, <4>1 DEF Settling, Ended, OneCaller
      <4>3. ~PaidOrNever(t) /\ ~Dead(t)
        BY <3>2, <4>2 DEF PaidOrNever, NoOrder, Dead
      <4>4. QED
        BY <3>1, <4>1, <4>3 DEF Settling
    <3>3. Orders(t, {"open"}) # {} => t \in InFlightPayouts
      BY <3>2 DEF Orders, InFlightPayouts
    <3>4. HasPosted(t, "release") => Orders(t, {"open", "paid"}) = {}
      BY <3>1 DEF Settling, Dead, Orders
    <3>5. t \in ViaProvider /\ HasPosted(t, "finalize") => Orders(t, {"paid"}) # {}
      BY <3>1 DEF Settling, PaidOrNever, ViaProvider, Ended, Orders
    <3>6. QED
      BY <3>3, <3>4, <3>5
  <2>2. ViaProvider \subseteq Payouts
    BY PayoutAssumption DEF ViaProvider
  <2>3. QED
    BY <2>1, <2>2 DEF LockFollowsOrder
<1>2. QED
  BY <1>1, PayoutsInvariant, PTL

\* A lock is consumed or returned, never both: the header of infraLedgerService.ts, "Send locks
\* funds first, then finalizes or releases", whatever the flags on the copies the handlers read say.
THEOREM LocksEndOnce == OneCaller /\ AnswersArrive => (BillSpec => []LockEndsOnce)
<1>. SUFFICES ASSUME OneCaller, AnswersArrive PROVE BillSpec => []LockEndsOnce
  OBVIOUS
<1>1. PayoutInv => LockEndsOnce
  BY DEF PayoutInv, Settling, Dead, LockEndsOnce
<1>2. QED
  BY <1>1, PayoutsInvariant, PTL
-----------------------------------------------------------------------------
(* Amounts: what is finalized or released is what was locked, so the locked bucket is *)
(* the sum of what is in flight.                                                      *)

\* The row's amount, once there is a lock, is the lock's.  A bill's row has one before.
Priced(t) ==
  /\ tx[t] = NoTx => ~HasPosted(t, "lock")
  /\ tx[t].usdc # 0 /\ t \notin Bills => HasPosted(t, "lock")
  /\ tx[t].usdc # 0 /\ HasPosted(t, "lock") => tx[t].usdc = PostedAmount(t, "lock")
  /\ HasPosted(t, "finalize") \/ HasPosted(t, "release") => HasPosted(t, "lock")

\* Who locks is the first to; who finalizes or releases has the amount of the lock.
Holding(p) ==
  LET t == cur[p]
  IN /\ pc[p] \in {"lock.load", "lock.post"} => ~HasPosted(t, "lock")
     /\ pc[p] = "lock.post" /\ tx[t].usdc # 0 => amt[p] = tx[t].usdc
     /\ pc[p] \in {"lock.patch", "fin.post", "rel.post"} =>
          HasPosted(t, "lock") /\ amt[p] = PostedAmount(t, "lock")
     /\ pc[p] \in {"fin.load", "rel.load"} /\ t \in Bills => HasPosted(t, "lock")

AmountInv ==
  /\ OnlyIn(ledger, Org)
  /\ \A t \in Payouts : Priced(t)
  /\ \A p \in Procs : Holding(p)
  /\ LockedIsInFlight

Others(p) ==
  \A q \in Procs \ {p} : pc'[q] = pc[q] /\ cur'[q] = cur[q] /\ amt'[q] = amt[q]

\* One handler at a time is before the order of a payout.
LEMMA OneBefore ==
  ASSUME PayoutInv, OneCaller, NEW p \in Procs, NEW q \in Procs,
         pc[p] \in PreOrder, pc[q] \in PreOrder, cur[p] = cur[q]
  PROVE  p = q
<1>1. PICK t \in Payouts : t = cur[p]
  BY DEF PayoutInv, Working, PreOrder, Early, Locking
<1>2. p \in Callers(t) /\ q \in Callers(t)
  BY <1>1 DEF PayoutInv, Working
<1>3. QED
  BY <1>2 DEF OneCaller

LEMMA LockedSame ==
  ASSUME LockedIsInFlight, ledger' = ledger
  PROVE  LockedIsInFlight'
<1>1. InFlightPayouts' = InFlightPayouts
  BY DEF InFlightPayouts, HasPosted
<1>2. [t \in InFlightPayouts |-> PostedAmount(t, "lock")]' = [t \in InFlightPayouts |-> PostedAmount(t, "lock")]
  BY <1>1 DEF InFlightPayouts, PostedAmount
<1>3. QED
  BY <1>2 DEF LockedIsInFlight

\* A step that posts nothing, and changes the amount of no row or of its own before the order.
LEMMA UnpostedHolds ==
  ASSUME PayoutInv, AmountInv, OneCaller, NEW p \in Procs, ledger' = ledger, Others(p),
         \A t \in Payouts : tx'[t].usdc = tx[t].usdc \/ (t = cur[p] /\ pc[p] \in PreOrder),
         \A t \in Payouts : Priced(t)',
         Holding(p)'
  PROVE  AmountInv'
<1>1. /\ \A t \in Payouts : \A op : HasPosted(t, op)' <=> HasPosted(t, op)
      /\ \A t \in Payouts : \A op : PostedAmount(t, op)' = PostedAmount(t, op)
  BY DEF HasPosted, PostedAmount
<1>2. ASSUME NEW q \in Procs, q # p PROVE Holding(q)'
  <2>1. pc'[q] = pc[q] /\ cur'[q] = cur[q] /\ amt'[q] = amt[q] /\ Holding(q)
    BY <1>2 DEF Others, AmountInv
  <2>2. CASE pc[q] = "lock.post"
    <3>1. PICK t \in Payouts : t = cur[q]
      BY <2>2 DEF PayoutInv, Working
    <3>2. tx'[t].usdc = tx[t].usdc
      BY <1>2, <2>2, <3>1, OneBefore DEF PreOrder, Locking
    <3>3. QED
      BY <1>1, <2>1, <2>2, <3>1, <3>2 DEF Holding
  <2>3. CASE pc[q] # "lock.post" /\ pc[q] # "idle"
    <3>1. PICK t \in Payouts : t = cur[q]
      BY <2>3 DEF PayoutInv, Working
    <3>2. QED
      BY <1>1, <2>1, <2>3, <3>1 DEF Holding
  <2>4. CASE pc[q] = "idle"
    BY <2>1, <2>4 DEF Holding
  <2>5. QED
    BY <2>2, <2>3, <2>4
<1>3. OnlyIn(ledger, Org)'
  BY DEF AmountInv, OnlyIn
<1>4. LockedIsInFlight'
  BY LockedSame DEF AmountInv
<1>5. QED
  BY <1>2, <1>3, <1>4 DEF AmountInv

SameUsdc == \A t \in Payouts : tx'[t].usdc = tx[t].usdc /\ (tx'[t] = NoTx => tx[t] = NoTx)

\* Where a handler need not have an amount.
Calm(p) ==
  /\ pc'[p] \notin {"lock.load", "lock.post", "lock.patch", "fin.post", "rel.post"}
  /\ pc'[p] \in {"fin.load", "rel.load"} /\ cur'[p] \in Bills => HasPosted(cur'[p], "lock")

LEMMA SameHolds ==
  ASSUME PayoutInv, AmountInv, OneCaller, NEW p \in Procs, ledger' = ledger, Others(p), SameUsdc,
         Holding(p)'
  PROVE  AmountInv'
<1>1. /\ \A t \in Payouts : \A op : HasPosted(t, op)' <=> HasPosted(t, op)
      /\ \A t \in Payouts : \A op : PostedAmount(t, op)' = PostedAmount(t, op)
  BY DEF HasPosted, PostedAmount
<1>2. ASSUME NEW t \in Payouts PROVE Priced(t)'
  BY <1>1 DEF AmountInv, Priced, SameUsdc
<1>3. QED
  BY <1>2, UnpostedHolds DEF SameUsdc

LEMMA CalmHolds ==
  ASSUME PayoutInv, AmountInv, OneCaller, NEW p \in Procs, ledger' = ledger, Others(p), SameUsdc, Calm(p)
  PROVE  AmountInv'
<1>1. Holding(p)'
  BY DEF Calm, Holding, HasPosted
<1>2. QED
  BY <1>1, SameHolds

CalmLabels ==
  Labels \ {"lock.load", "lock.post", "lock.patch", "fin.load", "fin.post", "rel.load", "rel.post"}

\* Where a handler goes on after a lifecycle call.
LEMMA ReturnCalm ==
  ASSUME PayoutInv, NEW p \in Procs, Return(p, cont[p].ok) \/ Return(p, cont[p].err)
  PROVE  Others(p) /\ Calm(p)
<1>1. cont[p].ok \in CalmLabels /\ cont[p].err \in CalmLabels
  BY DEF PayoutInv, LocalTyped, Continuations, Creation, BillSettle, Idle, BillCreation, BillRelease,
         CalmLabels, Labels, PreOrder, Told
<1>2. PICK label \in CalmLabels : Return(p, label)
  BY <1>1
<1>3. Others(p) /\ pc'[p] = label
  BY <1>2 DEF Return, Finish, Goto, Others, PayoutInv, LocalTyped
<1>4. QED
  BY <1>3 DEF Calm, CalmLabels

\* A handler that ends, or goes on to where it needs no amount.
LEMMA FinishCalm ==
  ASSUME PayoutInv, NEW p \in Procs, Finish(p)
  PROVE  Others(p) /\ Calm(p)
BY DEF Finish, Goto, Others, Calm, PayoutInv, LocalTyped

LEMMA GotoCalm ==
  ASSUME PayoutInv, NEW p \in Procs, NEW label \in CalmLabels, Goto(p, label), UNCHANGED <<cur, amt>>
  PROVE  Others(p) /\ Calm(p)
BY DEF Goto, Others, Calm, CalmLabels, PayoutInv, LocalTyped

\* A handler that begins a lifecycle call on a payout that is no bill.
LEMMA CallHolds ==
  ASSUME PayoutInv, AmountInv, OneCaller, NEW p \in Procs, NEW t \in Payouts, NEW c,
         NEW fn \in {"insert", "fin.load", "rel.load"}, fn # "insert" => t \notin Bills,
         Call(p, t, fn, c), UNCHANGED <<ledger, tx, amt>>
  PROVE  AmountInv'
<1>1. Others(p) /\ pc'[p] = fn /\ cur'[p] = t
  BY DEF Call, Goto, Others, PayoutInv, LocalTyped
<1>2. Calm(p)
  BY <1>1 DEF Calm
<1>3. SameUsdc
  BY DEF SameUsdc
<1>4. QED
  BY <1>1, <1>2, <1>3, CalmHolds

\* An UPDATE of a row that leaves its amount.
LEMMA RowSame ==
  ASSUME PayoutInv, NEW p \in Procs, cur[p] \in Payouts, NEW r, tx' = [tx EXCEPT ![cur[p]] = r],
         r.usdc = tx[cur[p]].usdc, r.status # "none"
  PROVE  SameUsdc
<1>1. tx \in [Payouts -> TxRow]
  BY DEF PayoutInv, SharedTyped
<1>2. \A t \in Payouts : tx'[t] = IF t = cur[p] THEN r ELSE tx[t]
  BY <1>1
<1>3. r # NoTx
  BY DEF NoTx
<1>4. QED
  BY <1>2, <1>3 DEF SameUsdc

\* Insertion of a payout's row, from which it is locked, if it is sent at all.
LEMMA InsertTxHolds ==
  ASSUME PayoutInv, AmountInv, OneCaller, NEW p \in Procs, InsertTx(p)
  PROVE  AmountInv'
<1>1. PICK t \in Payouts : t = cur[p]
  BY DEF PayoutInv, Working, InsertTx
<1>2. tx[t] = NoTx /\ ~HasPosted(t, "lock")
  BY <1>1 DEF PayoutInv, Working, InsertTx, Early, AmountInv, Priced
<1>3. PICK r : r = [NoTx EXCEPT !.status = InitialStatus(t), !.ext = p]
  OBVIOUS
<1>4. r.usdc = tx[t].usdc /\ r.status # "none"
  BY <1>2, <1>3 DEF NoTx, InitialStatus
<1>5. SameUsdc /\ ledger' = ledger
  BY <1>1, <1>2, <1>3, <1>4, RowSame DEF InsertTx
<1>6. CASE Finish(p)
  BY <1>5, <1>6, FinishCalm, CalmHolds
<1>7. CASE Goto(p, "lock.load") /\ UNCHANGED <<cur, row, amt, cont>>
  <2>1. Others(p) /\ pc'[p] = "lock.load" /\ cur'[p] = t
    BY <1>1, <1>7 DEF Goto, Others, PayoutInv, LocalTyped
  <2>2. Holding(p)'
    BY <1>2, <1>5, <2>1 DEF Holding, HasPosted
  <2>3. QED
    BY <1>5, <2>1, <2>2, SameHolds
<1>8. QED
  BY <1>6, <1>7 DEF InsertTx

\* The UPDATEs of a payout's status, and those that end a finalize and a release.
LEMMA StatusHolds ==
  ASSUME PayoutInv, AmountInv, OneCaller, NEW p \in Procs,
         LockFailed(p) \/ Submitted(p) \/ FinalizePatch(p) \/ ReleasePatch(p)
  PROVE  AmountInv'
<1>1. PICK t \in Payouts : t = cur[p]
  BY DEF PayoutInv, Working, LockFailed, Submitted, FinalizePatch, ReleasePatch
<1>2. tx[t] \in TxRow
  BY DEF PayoutInv, SharedTyped
<1>3. PICK r : /\ tx' = [tx EXCEPT ![t] = r]
               /\ r.usdc = tx[t].usdc /\ r.status # "none"
  <2>1. CASE LockFailed(p)
    <3>1. PICK r : r = [tx[t] EXCEPT !.status = "failed"]
      OBVIOUS
    <3>2. tx' = [tx EXCEPT ![t] = r]
      BY <1>1, <2>1, <3>1 DEF LockFailed
    <3>3. r.usdc = tx[t].usdc /\ r.status # "none"
      BY <1>2, <3>1 DEF TxRow
    <3>4. QED
      BY <3>2, <3>3
  <2>2. CASE Submitted(p)
    <3>1. PICK r : r = [tx[t] EXCEPT !.status = "processing"]
      OBVIOUS
    <3>2. tx' = [tx EXCEPT ![t] = r]
      BY <1>1, <2>2, <3>1 DEF Submitted
    <3>3. r.usdc = tx[t].usdc /\ r.status # "none"
      BY <1>2, <3>1 DEF TxRow
    <3>4. QED
      BY <3>2, <3>3
  <2>3. CASE FinalizePatch(p)
    <3>1. PICK r : r = [tx[t] EXCEPT !.status = "settled", !.fundsLocked = FALSE, !.fundsFinalized = TRUE]
      OBVIOUS
    <3>2. tx' = [tx EXCEPT ![t] = r]
      BY <1>1, <2>3, <3>1 DEF FinalizePatch
    <3>3. r.usdc = tx[t].usdc /\ r.status # "none"
      BY <1>2, <3>1 DEF TxRow
    <3>4. QED
      BY <3>2, <3>3
  <2>4. CASE ReleasePatch(p)
    <3>1. PICK r : r = [tx[t] EXCEPT !.status = "failed", !.fundsLocked = FALSE, !.fundsReleased = TRUE]
      OBVIOUS
    <3>2. tx' = [tx EXCEPT ![t] = r]
      BY <1>1, <2>4, <3>1 DEF ReleasePatch
    <3>3. r.usdc = tx[t].usdc /\ r.status # "none"
      BY <1>2, <3>1 DEF TxRow
    <3>4. QED
      BY <3>2, <3>3
  <2>5. QED
    BY <2>1, <2>2, <2>3, <2>4
<1>4. SameUsdc
  BY <1>1, <1>3, RowSame
<1>5. Others(p) /\ Calm(p) /\ ledger' = ledger
  BY FinishCalm, ReturnCalm DEF LockFailed, Submitted, FinalizePatch, ReleasePatch, Returned
<1>6. QED
  BY <1>4, <1>5, CalmHolds

\* createPaymentRequest, whatever it comes to.
LEMMA SubmitHolds ==
  ASSUME PayoutInv, AmountInv, OneCaller, NEW p \in Procs, Submit(p)
  PROVE  AmountInv'
<1>1. HasPosted(cur[p], "lock")
  BY DEF PayoutInv, Working, Submit
<1>2. UNCHANGED <<ledger, tx, cur, amt>> /\ (Goto(p, "submitted") \/ Goto(p, "rel.load"))
  BY DEF Submit
<1>3. Others(p) /\ Calm(p)
  BY <1>1, <1>2 DEF Goto, Others, Calm, PayoutInv, LocalTyped
<1>4. SameUsdc
  BY <1>2 DEF SameUsdc
<1>5. QED
  BY <1>2, <1>3, <1>4, CalmHolds

\* A handler that stops, anywhere.
LEMMA StopHolds ==
  ASSUME PayoutInv, AmountInv, OneCaller, NEW p \in Procs, Throw(p) \/ Crash(p)
  PROVE  AmountInv'
<1>1. Others(p) /\ Calm(p) /\ UNCHANGED <<ledger, tx>>
  BY FinishCalm, ReturnCalm DEF Throw, Crash
<1>2. SameUsdc
  BY <1>1 DEF SameUsdc
<1>3. QED
  BY <1>1, <1>2, CalmHolds

\* A client begins to pay a bill, or to ask for one.
LEMMA AskHolds ==
  ASSUME PayoutInv, AmountInv, OneCaller, NEW p \in Procs, NEW b \in Bills,
         payInfraBill(p, b) \/ refreshInfraBillStatus(p, b)
  PROVE  AmountInv'
<1>1. Others(p) /\ Calm(p)
  BY DEF payInfraBill, refreshInfraBillStatus, Goto, Others, Calm, PayoutInv, LocalTyped
<1>2. SameUsdc /\ ledger' = ledger
  BY DEF payInfraBill, refreshInfraBillStatus, SameUsdc
<1>3. QED
  BY <1>1, <1>2, CalmHolds

\* A bill's row has its amount before it is locked.
LEMMA insertBillTxHolds ==
  ASSUME PayoutInv, AmountInv, OneCaller, NEW p \in Procs, insertBillTx(p)
  PROVE  AmountInv'
<1>1. PICK t \in Payouts : t = cur[p]
  BY DEF PayoutInv, Working, insertBillTx
<1>2. /\ tx[t] = NoTx /\ ~HasPosted(t, "lock") /\ t \in Bills /\ pc[p] = "bill.insert" /\ pc[p] \in PreOrder
      /\ Priced(t)
  BY <1>1 DEF PayoutInv, Working, insertBillTx, Early, PreOrder, AmountInv, Priced
<1>3. PICK r : r = [NoTx EXCEPT !.status = IF t \in Live THEN "pending" ELSE "processing", !.usdc = amt[p]]
  OBVIOUS
<1>4. tx' = [tx EXCEPT ![t] = r] /\ Into(p, "lock.load", BillCreation) /\ ledger' = ledger
  BY <1>1, <1>2, <1>3 DEF insertBillTx, BillCreation
<1>5. r # NoTx
  BY <1>3 DEF NoTx
<1>6. \A u \in Payouts : tx'[u] = IF u = t THEN r ELSE tx[u]
  BY <1>4 DEF PayoutInv, SharedTyped
<1>7. Others(p) /\ pc'[p] = "lock.load" /\ cur'[p] = t
  BY <1>1, <1>4 DEF Into, Goto, Others, PayoutInv, LocalTyped
<1>8. \A u \in Payouts : \A op : /\ HasPosted(u, op)' <=> HasPosted(u, op)
                                /\ PostedAmount(u, op)' = PostedAmount(u, op)
  BY <1>4 DEF HasPosted, PostedAmount
<1>9. ASSUME NEW u \in Payouts PROVE Priced(u)'
  BY <1>2, <1>5, <1>6, <1>8 DEF AmountInv, Priced
<1>10. Holding(p)'
  BY <1>2, <1>7, <1>8 DEF Holding
<1>11. QED
  BY <1>1, <1>2, <1>4, <1>6, <1>7, <1>9, <1>10, UnpostedHolds

\* The provider's answers to a bill: what is released or finalized has been locked.
LEMMA AnswerHolds ==
  ASSUME PayoutInv, AmountInv, OneCaller, NEW p \in Procs,
         validateInfraBill(p) \/ BillRequest(p) \/ BillStatus(p) \/ BillThrow(p)
  PROVE  AmountInv'
<1>1. PICK t \in Payouts : t = cur[p]
  BY DEF PayoutInv, Working, validateInfraBill, BillRequest, BillStatus, BillThrow
<1>2. HasPosted(t, "lock")
  <2>1. CASE pc[p] \in {"bill.validate", "bill.request"}
    BY <1>1, <2>1 DEF PayoutInv, Working
  <2>2. CASE pc[p] \in Told
    <3>1. Placed(t) /\ Settling(t)
      BY <1>1, <2>2 DEF PayoutInv, Working
    <3>2. QED
      BY <3>1 DEF Placed, Settling
  <2>3. QED
    BY <2>1, <2>2 DEF validateInfraBill, BillRequest, BillStatus, BillThrow, Told
<1>3. UNCHANGED <<ledger, tx>>
  BY DEF validateInfraBill, BillRequest, BillStatus, BillThrow
<1>4. \/ Finish(p)
      \/ /\ UNCHANGED <<cur, amt>>
         /\ \E label \in {"bill.request", "bill.status", "bill.mark", "fin.load", "rel.load"} : Goto(p, label)
  <2>1. failLockedBillPayment(p) => UNCHANGED <<cur, amt>> /\ Goto(p, "rel.load")
    BY DEF failLockedBillPayment, Into
  <2>2. Into(p, "fin.load", Idle) => UNCHANGED <<cur, amt>> /\ Goto(p, "fin.load")
    BY DEF Into
  <2>3. CASE validateInfraBill(p)
    BY <2>1, <2>3 DEF validateInfraBill
  <2>4. CASE BillRequest(p)
    BY <2>1, <2>2, <2>4 DEF BillRequest
  <2>5. CASE BillStatus(p)
    BY <2>1, <2>5 DEF BillStatus, Leave
  <2>6. CASE BillThrow(p)
    BY <2>6 DEF BillThrow
  <2>7. QED
    BY <2>3, <2>4, <2>5, <2>6
<1>5. Others(p) /\ Calm(p)
  <2>1. CASE Finish(p)
    BY <2>1, FinishCalm
  <2>2. ASSUME UNCHANGED <<cur, amt>>, NEW label \in {"bill.request", "bill.status", "bill.mark", "fin.load", "rel.load"},
               Goto(p, label)
        PROVE  Others(p) /\ Calm(p)
    BY <1>1, <1>2, <2>2 DEF Goto, Others, Calm, PayoutInv, LocalTyped
  <2>3. QED
    BY <1>4, <2>1, <2>2
<1>6. SameUsdc
  BY <1>3 DEF SameUsdc
<1>7. QED
  BY <1>3, <1>5, <1>6, CalmHolds

\* The UPDATE that ends a bill's handler.
LEMMA BillEndHolds ==
  ASSUME PayoutInv, AmountInv, OneCaller, NEW p \in Procs, BillEnd(p)
  PROVE  AmountInv'
<1>1. PICK t \in Payouts : t = cur[p]
  BY DEF PayoutInv, Working, BillEnd
<1>2. tx[t] \in TxRow
  BY DEF PayoutInv, SharedTyped
<1>3. PICK s \in {"failed", "processing", "settled"} : tx' = [tx EXCEPT ![t].status = s]
  BY <1>1 DEF BillEnd
<1>4. PICK r : r = [tx[t] EXCEPT !.status = s]
  OBVIOUS
<1>5. tx' = [tx EXCEPT ![t] = r]
  BY <1>3, <1>4
<1>6. r.usdc = tx[t].usdc /\ r.status # "none"
  BY <1>2, <1>4 DEF TxRow
<1>7. SameUsdc
  BY <1>1, <1>5, <1>6, RowSame
<1>8. Others(p) /\ Calm(p) /\ ledger' = ledger
  BY FinishCalm DEF BillEnd, Leave
<1>9. QED
  BY <1>7, <1>8, CalmHolds

\* The amount to lock is the row's, if it has one.
LEMMA LockLoadHolds ==
  ASSUME PayoutInv, AmountInv, OneCaller, NEW p \in Procs, LockLoad(p)
  PROVE  AmountInv'
<1>1. PICK t \in Payouts : t = cur[p]
  BY DEF PayoutInv, Working, LockLoad
<1>2. PICK a : amt' = [amt EXCEPT ![p] = a] /\ (tx[t].usdc # 0 => a = tx[t].usdc)
  BY <1>1 DEF LockLoad
<1>3. Others(p) /\ pc'[p] = "lock.post" /\ cur'[p] = t /\ amt'[p] = a
  BY <1>1, <1>2 DEF LockLoad, Goto, Others, PayoutInv, LocalTyped
<1>4. ~HasPosted(t, "lock") /\ UNCHANGED <<ledger, tx>>
  BY <1>1 DEF AmountInv, Holding, LockLoad
<1>5. Holding(p)'
  BY <1>2, <1>3, <1>4 DEF Holding, HasPosted
<1>6. SameUsdc
  BY <1>4 DEF SameUsdc
<1>7. QED
  BY <1>3, <1>4, <1>5, <1>6, SameHolds

\* The row takes over the amount of the lock.
LEMMA LockPatchHolds ==
  ASSUME PayoutInv, AmountInv, OneCaller, NEW p \in Procs, LockPatch(p)
  PROVE  AmountInv'
<1>1. PICK t \in Payouts : t = cur[p]
  BY DEF PayoutInv, Working, LockPatch
<1>2. /\ HasPosted(t, "lock") /\ amt[p] = PostedAmount(t, "lock") /\ ledger' = ledger /\ tx[t] \in TxRow
      /\ pc[p] \in PreOrder
  BY <1>1 DEF AmountInv, Holding, LockPatch, PayoutInv, SharedTyped, PreOrder, Locking
<1>3. PICK r : r = [tx[t] EXCEPT !.status = row[p].status, !.usdc = amt[p],
                                 !.fundsLocked = TRUE, !.ledgerLockId = TRUE]
  OBVIOUS
<1>4. r.usdc = amt[p] /\ r # NoTx
  BY <1>2, <1>3 DEF TxRow, NoTx
<1>5. tx' = [tx EXCEPT ![t] = r]
  BY <1>1, <1>3 DEF LockPatch
<1>6. \A u \in Payouts : tx'[u] = IF u = t THEN r ELSE tx[u]
  BY <1>5 DEF PayoutInv, SharedTyped
<1>7. \A u \in Payouts : \A op : /\ HasPosted(u, op)' <=> HasPosted(u, op)
                                /\ PostedAmount(u, op)' = PostedAmount(u, op)
  BY <1>2 DEF HasPosted, PostedAmount
<1>8. ASSUME NEW u \in Payouts PROVE Priced(u)'
  BY <1>2, <1>4, <1>6, <1>7 DEF AmountInv, Priced
<1>9. Others(p) /\ Calm(p)
  BY ReturnCalm DEF LockPatch, Returned
<1>10. Holding(p)'
  BY <1>2, <1>9 DEF Calm, Holding, HasPosted
<1>11. QED
  BY <1>1, <1>2, <1>6, <1>8, <1>9, <1>10, UnpostedHolds

\* The amount to finalize or to release is the row's, which is the lock's.
LEMMA LoadHolds ==
  ASSUME PayoutInv, AmountInv, OneCaller, NEW p \in Procs, FinalizeLoad(p) \/ ReleaseLoad(p)
  PROVE  AmountInv'
<1>1. PICK t \in Payouts : t = cur[p]
  BY DEF PayoutInv, Working, FinalizeLoad, ReleaseLoad
<1>2. UNCHANGED <<ledger, tx>> /\ SameUsdc
  BY DEF FinalizeLoad, ReleaseLoad, SameUsdc
<1>3. CASE Return(p, cont[p].err)
  BY <1>2, <1>3, ReturnCalm, CalmHolds
<1>4. ASSUME tx[t].usdc # 0, amt' = [amt EXCEPT ![p] = tx[t].usdc], cur' = cur,
             NEW label \in {"fin.post", "rel.post"}, Goto(p, label)
      PROVE  AmountInv'
  <2>1. HasPosted(t, "lock") /\ tx[t].usdc = PostedAmount(t, "lock")
    BY <1>1, <1>4 DEF AmountInv, Priced, Holding, FinalizeLoad, ReleaseLoad
  <2>2. Others(p) /\ pc'[p] = label /\ cur'[p] = t /\ amt'[p] = tx[t].usdc
    BY <1>1, <1>4 DEF Goto, Others, PayoutInv, LocalTyped
  <2>3. HasPosted(t, "lock")' /\ PostedAmount(t, "lock")' = PostedAmount(t, "lock")
    BY <1>2, <2>1 DEF HasPosted, PostedAmount
  <2>4. Holding(p)'
    BY <2>1, <2>2, <2>3 DEF Holding
  <2>5. QED
    BY <1>2, <2>2, <2>4, SameHolds
<1>5. QED
  BY <1>1, <1>3, <1>4 DEF FinalizeLoad, ReleaseLoad

\* What a posting changes: its key and its amount are news, and the buckets.
LEMMA PostingHolds ==
  ASSUME PayoutInv, AmountInv, NEW t \in Payouts, NEW op \in LifeOps, NEW a \in Amounts,
         ~HasPosted(t, op), Covers(op, ledger.rows[Org].bal, a),
         ledger' = Post(ledger, PayoutLeg(t, op, a))
  PROVE  /\ OnlyIn(ledger, Org)'
         /\ \A u \in Payouts, o \in LifeOps :
              /\ HasPosted(u, o)' <=> HasPosted(u, o) \/ (u = t /\ o = op)
              /\ HasPosted(u, o) => PostedAmount(u, o)' = PostedAmount(u, o)
         /\ PostedAmount(t, op)' = a
         /\ ledger.rows[Org].bal \in Balance
         /\ ledger'.rows[Org].bal = After(op, ledger.rows[Org].bal, a)
<1>1. PICK l \in Leg : l = PayoutLeg(t, op, a)
  BY LegTyped
<1>2. l.wallet = Org /\ l.op = op /\ l.key = <<t, op>> /\ l.amount = a
  BY <1>1, LegTyped
<1>3. Well(ledger) /\ ledger \in Ledger /\ Org \in Wallets /\ OnlyIn(ledger, Org)
  BY QuotesAssumption DEF PayoutInv, SharedTyped, Well, AmountInv
<1>4. Admissible(ledger, l) /\ Covers(l.op, ledger.rows[l.wallet].bal, l.amount)
  BY <1>1, <1>2, LegPosts DEF LedgerSound, PayoutInv, SharedTyped
<1>5. OnlyIn(ledger, Org)'
  BY <1>1, <1>2, <1>3, <1>4, OnlyInStays
<1>6. /\ AmountOf(ledger', Org, <<t, op>>) = a
      /\ \A k : PostedIn(ledger, Org, k) => AmountOf(ledger', Org, k) = AmountOf(ledger, Org, k)
  BY <1>1, <1>2, <1>3, <1>4, PostAmounts
<1>7. ASSUME NEW u \in Payouts, NEW o \in LifeOps, HasPosted(u, o)
      PROVE  PostedAmount(u, o)' = PostedAmount(u, o)
  <2>1. PostedIn(ledger, Org, <<u, o>>)
    BY <1>3, <1>7, OnlyInPosted DEF HasPosted
  <2>2. QED
    BY <1>6, <2>1 DEF AmountOf, PostedAmount
<1>8. PostedAmount(t, op)' = a
  BY <1>6 DEF AmountOf, PostedAmount
<1>9. \A u \in Payouts, o \in LifeOps : HasPosted(u, o)' <=> HasPosted(u, o) \/ (u = t /\ o = op)
  BY LegPosts DEF LedgerSound, PayoutInv, SharedTyped
<1>10. ledger.rows[Org].bal \in Balance /\ ledger'.rows[Org].bal = NewBalance(ledger, l)
  BY <1>1, <1>2, <1>3, <1>4, PostMovements DEF Ledger, Row
<1>11. NewBalance(ledger, l) = After(op, ledger.rows[Org].bal, a)
  BY <1>2 DEF NewBalance
<1>12. QED
  BY <1>5, <1>7, <1>8, <1>9, <1>10, <1>11

\* The amounts in flight are natural numbers, finitely many.
LEMMA FlightsFinite ==
  ASSUME PayoutInv, AmountInv
  PROVE  /\ IsFiniteSet(InFlightPayouts)
         /\ \A t \in Payouts : HasPosted(t, "lock") => PostedAmount(t, "lock") \in Nat
<1>1. Well(ledger) /\ ledger \in Ledger /\ Org \in Wallets /\ OnlyIn(ledger, Org)
  BY QuotesAssumption DEF PayoutInv, SharedTyped, Well, AmountInv
<1>2. PICK S : S = {t \in Payouts : Posted(ledger, <<t, "lock">>)}
  OBVIOUS
<1>3. IsFiniteSet(S)
  BY <1>1, <1>2, PostedFinite
<1>4. InFlightPayouts \subseteq S
  BY <1>2 DEF InFlightPayouts, HasPosted
<1>5. IsFiniteSet(InFlightPayouts)
  BY <1>3, <1>4, FS_Subset
<1>6. ASSUME NEW t \in Payouts, HasPosted(t, "lock")
      PROVE  PostedAmount(t, "lock") \in Nat
  <2>1. PostedIn(ledger, Org, <<t, "lock">>)
    BY <1>1, <1>6, OnlyInPosted DEF HasPosted
  <2>2. AmountOf(ledger, Org, <<t, "lock">>) \in Nat
    BY <1>1, <2>1, AmountTyped, AmountsAssumption
  <2>3. QED
    BY <2>2 DEF AmountOf, PostedAmount
<1>7. QED
  BY <1>5, <1>6

\* The lock of a payout that had none is in flight ...
LEMMA LockCounts ==
  ASSUME PayoutInv, AmountInv, NEW t \in Payouts, NEW a \in Amounts,
         ~HasPosted(t, "lock"), Covers("lock", ledger.rows[Org].bal, a),
         ledger' = Post(ledger, PayoutLeg(t, "lock", a))
  PROVE  LockedIsInFlight'
<1>1. /\ \A u \in Payouts, o \in LifeOps :
           /\ HasPosted(u, o)' <=> HasPosted(u, o) \/ (u = t /\ o = "lock")
           /\ HasPosted(u, o) => PostedAmount(u, o)' = PostedAmount(u, o)
      /\ PostedAmount(t, "lock")' = a
      /\ ledger.rows[Org].bal \in Balance
      /\ ledger'.rows[Org].bal = After("lock", ledger.rows[Org].bal, a)
  BY PostingHolds DEF LifeOps
<1>2. PICK S : S = InFlightPayouts
  OBVIOUS
<1>3. PICK f : f = [u \in S |-> PostedAmount(u, "lock")]
  OBVIOUS
<1>4. PICK T : T = InFlightPayouts'
  OBVIOUS
<1>5. PICK g : g = [u \in T |-> PostedAmount(u, "lock")']
  OBVIOUS
<1>6. ~HasPosted(t, "finalize") /\ ~HasPosted(t, "release")
  BY DEF AmountInv, Priced
<1>7. t \notin S /\ T = S \cup {t}
  BY <1>1, <1>2, <1>4, <1>6 DEF InFlightPayouts, LifeOps
<1>8. IsFiniteSet(S) /\ \A u \in S : f[u] \in Nat
  BY <1>2, <1>3, FlightsFinite DEF InFlightPayouts
<1>9. a \in Nat /\ g[t] = a
  BY <1>1, <1>5, <1>7, AmountsAssumption
<1>10. \A u \in S : g[u] = f[u]
  BY <1>1, <1>2, <1>3, <1>5, <1>7 DEF InFlightPayouts, LifeOps
<1>11. SumFunctionOnSet(g, S \cup {t}) = SumFunctionOnSet(f, S) + a
  BY <1>7, <1>8, <1>9, <1>10, SumAdd
<1>12. ledger.rows[Org].bal.locked = SumFunctionOnSet(f, S)
  BY <1>2, <1>3 DEF AmountInv, LockedIsInFlight, SumFunction
<1>13. ledger'.rows[Org].bal.locked = ledger.rows[Org].bal.locked + a
  BY <1>1 DEF After, lockOrgFunds
<1>14. QED
  BY <1>4, <1>5, <1>7, <1>11, <1>12, <1>13 DEF LockedIsInFlight, SumFunction

\* ... until it ends, one way.
LEMMA EndCounts ==
  ASSUME PayoutInv, AmountInv, NEW t \in Payouts, NEW op \in {"finalize", "release"}, NEW a \in Amounts,
         t \in InFlightPayouts, a = PostedAmount(t, "lock"), Covers(op, ledger.rows[Org].bal, a),
         ledger' = Post(ledger, PayoutLeg(t, op, a))
  PROVE  LockedIsInFlight'
<1>0. ~HasPosted(t, op)
  BY DEF InFlightPayouts
<1>1. /\ \A u \in Payouts, o \in LifeOps :
           /\ HasPosted(u, o)' <=> HasPosted(u, o) \/ (u = t /\ o = op)
           /\ HasPosted(u, o) => PostedAmount(u, o)' = PostedAmount(u, o)
      /\ ledger.rows[Org].bal \in Balance
      /\ ledger'.rows[Org].bal = After(op, ledger.rows[Org].bal, a)
  BY <1>0, PostingHolds DEF LifeOps
<1>2. PICK S : S = InFlightPayouts
  OBVIOUS
<1>3. PICK f : f = [u \in S |-> PostedAmount(u, "lock")]
  OBVIOUS
<1>4. PICK T : T = InFlightPayouts'
  OBVIOUS
<1>5. PICK g : g = [u \in T |-> PostedAmount(u, "lock")']
  OBVIOUS
<1>6. t \notin T /\ S = T \cup {t}
  BY <1>1, <1>2, <1>4 DEF InFlightPayouts, LifeOps
<1>7. IsFiniteSet(S) /\ \A u \in S : f[u] \in Nat
  BY <1>2, <1>3, FlightsFinite DEF InFlightPayouts
<1>8. IsFiniteSet(T) /\ T \subseteq S
  BY <1>6, <1>7, FS_Subset
<1>9. \A u \in T : g[u] = f[u] /\ g[u] \in Nat
  BY <1>1, <1>2, <1>3, <1>5, <1>6, <1>7 DEF InFlightPayouts, LifeOps
<1>10. f[t] = a /\ a \in Nat
  BY <1>3, <1>6, AmountsAssumption
<1>11. SumFunctionOnSet(f, T \cup {t}) = SumFunctionOnSet(g, T) + a
  BY <1>6, <1>8, <1>9, <1>10, SumAdd
<1>12. ledger.rows[Org].bal.locked = SumFunctionOnSet(f, S)
  BY <1>2, <1>3 DEF AmountInv, LockedIsInFlight, SumFunction
<1>13. ledger'.rows[Org].bal.locked = ledger.rows[Org].bal.locked - a
  <2>1. CASE op = "finalize"
    <3>1. ledger'.rows[Org].bal = finalizeLockedDebit(ledger.rows[Org].bal, a)
      BY <1>1, <2>1 DEF After
    <3>2. QED
      BY <1>1, <3>1 DEF finalizeLockedDebit, Balance
  <2>2. CASE op = "release"
    <3>1. ledger'.rows[Org].bal = releaseOrgFunds(ledger.rows[Org].bal, a)
      BY <1>1, <2>2 DEF After
    <3>2. QED
      BY <3>1 DEF releaseOrgFunds
  <2>3. QED
    BY <2>1, <2>2
<1>14. SumFunctionOnSet(g, T) \in Nat
  BY <1>8, <1>9, SumType
<1>15. ledger'.rows[Org].bal.locked = SumFunctionOnSet(g, T)
  BY <1>6, <1>10, <1>11, <1>12, <1>13, <1>14
<1>16. QED
  BY <1>4, <1>5, <1>15 DEF LockedIsInFlight, SumFunction

\* The three ledger calls.
LEMMA PostHolds ==
  ASSUME PayoutInv, AmountInv, OneCaller, NEW p \in Procs,
         LockPost(p) \/ FinalizePost(p) \/ ReleasePost(p)
  PROVE  AmountInv'
<1>1. PICK t \in Payouts : t = cur[p]
  BY DEF PayoutInv, Working, LockPost, FinalizePost, ReleasePost
<1>2. PICK op \in LifeOps, label \in {"lock.patch", "fin.patch", "rel.patch"} :
        /\ LedgerCall(p, op, label, cont[p].err) /\ tx' = tx
        /\ pc[p] = "lock.post" => op = "lock" /\ label = "lock.patch"
        /\ pc[p] = "fin.post" => op = "finalize" /\ label = "fin.patch"
        /\ pc[p] = "rel.post" => op = "release" /\ label = "rel.patch"
        /\ pc[p] \in {"lock.post", "fin.post", "rel.post"}
  BY DEF LockPost, FinalizePost, ReleasePost, LifeOps
<1>3. amt[p] \in Amounts /\ Working(p) /\ Settling(t) /\ Holding(p) /\ Priced(t)
  BY <1>2 DEF PayoutInv, Working, LocalTyped, AmountInv
<1>4. SameUsdc
  BY <1>2 DEF SameUsdc
<1>5. CASE HasPosted(t, op) /\ Goto(p, label) /\ UNCHANGED <<ledger, cur, row, amt, cont>>
  <2>1. label \in CalmLabels
    <3>1. op # "lock"
      BY <1>1, <1>2, <1>3, <1>5 DEF Holding
    <3>2. QED
      BY <1>2, <3>1 DEF CalmLabels, Labels, Finalizing, Releasing
  <2>2. QED
    BY <1>4, <1>5, <2>1, GotoCalm, CalmHolds
<1>6. CASE Return(p, cont[p].err) /\ UNCHANGED ledger
  BY <1>4, <1>6, ReturnCalm, CalmHolds
<1>7. CASE /\ ~HasPosted(t, op) /\ Covers(op, ledger.rows[Org].bal, amt[p])
           /\ ledger' = Post(ledger, PayoutLeg(t, op, amt[p]))
           /\ Goto(p, label) /\ UNCHANGED <<cur, row, amt, cont>>
  <2>1. /\ OnlyIn(ledger, Org)'
        /\ \A u \in Payouts, o \in LifeOps :
             /\ HasPosted(u, o)' <=> HasPosted(u, o) \/ (u = t /\ o = op)
             /\ HasPosted(u, o) => PostedAmount(u, o)' = PostedAmount(u, o)
        /\ PostedAmount(t, op)' = amt[p]
    BY <1>3, <1>7, PostingHolds
  <2>2. Others(p) /\ pc'[p] = label /\ cur'[p] = t /\ amt'[p] = amt[p]
    BY <1>1, <1>7 DEF Goto, Others, PayoutInv, LocalTyped
  <2>3. tx[t] # NoTx
    BY <1>1, <1>2, <1>3 DEF Working, Early
  <2>4. ASSUME NEW u \in Payouts PROVE Priced(u)'
    <3>1. Priced(u)
      BY DEF AmountInv
    <3>2. CASE u # t
      BY <1>2, <2>1, <3>1, <3>2 DEF Priced, LifeOps
    <3>3. CASE u = t /\ op = "lock"
      BY <1>1, <1>2, <1>3, <2>1, <2>3, <3>3 DEF Priced, Holding, LifeOps
    <3>4. CASE u = t /\ op # "lock"
      BY <1>1, <1>2, <1>3, <2>1, <2>3, <3>4 DEF Priced, Holding, LifeOps
    <3>5. QED
      BY <3>2, <3>3, <3>4
  <2>5. Holding(p)'
    <3>1. CASE op = "lock"
      BY <1>2, <2>1, <2>2, <3>1 DEF Holding, LifeOps
    <3>2. CASE op # "lock"
      BY <1>2, <2>2, <3>2 DEF Holding, LifeOps
    <3>3. QED
      BY <3>1, <3>2
  <2>6. ASSUME NEW q \in Procs, q # p PROVE Holding(q)'
    <3>1. pc'[q] = pc[q] /\ cur'[q] = cur[q] /\ amt'[q] = amt[q] /\ Holding(q)
      BY <2>2, <2>6 DEF Others, AmountInv
    <3>2. CASE pc[q] = "idle"
      BY <3>1, <3>2 DEF Holding
    <3>3. CASE pc[q] # "idle"
      <4>1. PICK u \in Payouts : u = cur[q]
        BY <3>3 DEF PayoutInv, Working
      <4>2. pc[q] \in {"lock.load", "lock.post"} => ~(u = t /\ op = "lock")
        BY <1>1, <1>2, <2>6, <4>1, OneBefore DEF PreOrder, Locking
      <4>3. HasPosted(u, "lock") => HasPosted(u, "lock")' /\ PostedAmount(u, "lock")' = PostedAmount(u, "lock")
        BY <2>1 DEF LifeOps
      <4>4. pc[q] \in {"lock.load", "lock.post"} => ~HasPosted(u, "lock")'
        BY <2>1, <3>1, <4>1, <4>2 DEF Holding, LifeOps
      <4>5. QED
        BY <1>2, <3>1, <4>1, <4>3, <4>4 DEF Holding
    <3>4. QED
      BY <3>2, <3>3
  <2>7. LockedIsInFlight'
    <3>1. CASE op = "lock"
      BY <1>3, <1>7, <3>1, LockCounts
    <3>2. CASE op \in {"finalize", "release"}
      <4>1. HasPosted(t, "lock") /\ amt[p] = PostedAmount(t, "lock")
        BY <1>1, <1>2, <1>3, <3>2 DEF Holding
      <4>2. ~HasPosted(t, "finalize") /\ ~HasPosted(t, "release")
        <5>1. CASE op = "finalize"
          <6>1. pc[p] = "fin.post"
            BY <1>2, <5>1
          <6>2. WillFinalize(p, t)
            BY <1>1, <6>1 DEF WillFinalize
          <6>3. QED
            BY <1>3, <1>7, <5>1, <6>2 DEF Settling, Dead
        <5>2. CASE op = "release"
          <6>1. pc[p] = "rel.post"
            BY <1>2, <5>2
          <6>2. Dead(t)
            BY <1>1, <1>3, <6>1 DEF Working, Releasing
          <6>3. QED
            BY <1>7, <5>2, <6>2 DEF Dead
        <5>3. QED
          BY <3>2, <5>1, <5>2
      <4>3. t \in InFlightPayouts
        BY <4>1, <4>2 DEF InFlightPayouts
      <4>4. QED
        BY <1>3, <1>7, <3>2, <4>1, <4>3, EndCounts
    <3>3. QED
      BY <3>1, <3>2 DEF LifeOps
  <2>8. QED
    <3>1. \A q \in Procs : Holding(q)'
      BY <2>5, <2>6
    <3>2. QED
      BY <2>1, <2>4, <2>7, <3>1 DEF AmountInv
<1>8. QED
  BY <1>1, <1>2, <1>5, <1>6, <1>7 DEF LedgerCall

\* Every step keeps the amounts.
LEMMA AmountsKeep ==
  ASSUME PayoutInv, AmountInv, OneCaller, AnswersArrive, BillNext
  PROVE  AmountInv'
<1>1. ASSUME NEW p \in Procs, LifeStep(p) PROVE AmountInv'
  BY <1>1, LockLoadHolds, PostHolds, LockPatchHolds, LoadHolds, StatusHolds DEF LifeStep
<1>2. ASSUME NEW p \in Procs, Step(p) PROVE AmountInv'
  BY <1>1, <1>2, InsertTxHolds, StatusHolds, SubmitHolds DEF Step
<1>3. ASSUME NEW p \in Procs, NEW t \in Payouts, CreateFind(p, t) PROVE AmountInv'
  BY <1>3, CallHolds DEF CreateFind
<1>4. ASSUME NEW p \in Procs, NEW t \in Payouts \ Bills,
             SuccessWebhook(p, t) \/ FailureWebhook(p, t) \/ simulateSettlement(p, t)
      PROVE  AmountInv'
  BY <1>4, CallHolds DEF SuccessWebhook, FailureWebhook, simulateSettlement
<1>5. ASSUME NEW t \in Payouts, NEW p \in Procs, NEW o \in {"paid", "failed"}, ProviderEnds(t, p, o)
      PROVE  AmountInv'
  <2>1. UNCHANGED lifeVars
    BY <1>5 DEF ProviderEnds
  <2>2. Others(p) /\ SameUsdc /\ ledger' = ledger
    BY <2>1 DEF Others, SameUsdc, lifeVars
  <2>3. Holding(p)'
    BY <2>1 DEF lifeVars, AmountInv, Holding, HasPosted, PostedAmount
  <2>4. QED
    BY <2>2, <2>3, SameHolds
<1>6. CASE PayoutNext
  BY <1>2, <1>3, <1>4, <1>5, <1>6, StopHolds DEF PayoutNext, AnswersArrive
<1>7. ASSUME NEW p \in Procs, BillStep(p) \/ BillThrow(p) PROVE AmountInv'
  BY <1>7, insertBillTxHolds, AnswerHolds, BillEndHolds DEF BillStep
<1>8. QED
  BY <1>6, <1>7, AskHolds DEF BillNext

LEMMA AmountsStutter ==
  ASSUME AmountInv, UNCHANGED billVars
  PROVE  AmountInv'
<1>1. ledger' = ledger /\ UNCHANGED <<tx, pc, cur, amt>>
  BY DEF billVars, vars
<1>2. LockedIsInFlight'
  BY <1>1, LockedSame DEF AmountInv
<1>3. QED
  BY <1>1, <1>2 DEF AmountInv, OnlyIn, Priced, Holding, HasPosted, PostedAmount

\* At the start nothing is locked.
LEMMA AmountsStart ==
  ASSUME BillInit
  PROVE  AmountInv
<1>1. \A t \in Payouts, op \in LifeOps : ~HasPosted(t, op)
  BY LedgerStart DEF BillInit, Init
<1>2. PICK L : L = ensureWalletAccount(EmptyLedger, Org)
  OBVIOUS
<1>3. PICK l : l = FundingLeg
  OBVIOUS
<1>4. l.wallet = Org /\ l.op = "credit" /\ l.amount = Funds /\ l \in Leg /\ Org \in Wallets /\ Funds \in Nat
  BY <1>3, QuotesAssumption, PayoutKeysAssumption, AmountsAssumption DEF FundingLeg, Leg, OpNames, MovementTypes
<1>5. L \in Ledger /\ L.movements = [w \in Wallets |-> <<>>] /\ L.rows[Org].bal = ZeroBalance
  <2>1. PICK E : E = EmptyLedger
    OBVIOUS
  <2>2. E \in Ledger /\ E.movements = [w \in Wallets |-> <<>>] /\ E.rows[Org].bal = ZeroBalance
    BY <1>4, <2>1, EmptyWell DEF Well, EmptyLedger
  <2>3. L = ensureWalletAccount(E, Org) /\ L \in Ledger
    BY <1>2, <1>4, <2>1, EmptyWell, EnsureWell DEF Well
  <2>4. L.movements = E.movements /\ L.rows[Org].bal = E.rows[Org].bal
    BY <1>4, <2>2, <2>3 DEF ensureWalletAccount, Ledger, Row
  <2>5. QED
    BY <2>2, <2>3, <2>4
<1>6. ledger = Post(L, l)
  <2>1. ledger = Post(ensureWalletAccount(EmptyLedger, Org), FundingLeg)
    BY Zenon DEF BillInit, Init, LifeInit
  <2>2. QED
    BY <1>2, <1>3, <2>1
<1>7. Covers(l.op, L.rows[l.wallet].bal, l.amount)
  BY <1>4 DEF Covers
<1>8. OnlyIn(ledger, Org)
  BY <1>4, <1>5, <1>6, <1>7, OnlyInStays DEF OnlyIn
<1>9. ledger.rows[Org].bal.locked = 0
  <2>1. ledger.rows[Org].bal = NewBalance(L, l)
    BY <1>4, <1>5, <1>6, <1>7, PostMovements
  <2>2. NewBalance(L, l) = creditOrgWallet(ZeroBalance, Funds)
    BY <1>4, <1>5 DEF NewBalance, After
  <2>3. QED
    BY <2>1, <2>2 DEF creditOrgWallet, ZeroBalance
<1>10. LockedIsInFlight
  <2>1. InFlightPayouts = {}
    BY <1>1 DEF InFlightPayouts, LifeOps
  <2>2. PICK f : f = [t \in InFlightPayouts |-> PostedAmount(t, "lock")]
    OBVIOUS
  <2>3. SumFunctionOnSet(f, {}) = 0
    BY SumEmpty
  <2>4. QED
    BY <1>9, <2>1, <2>2, <2>3 DEF LockedIsInFlight, SumFunction
<1>11. \A t \in Payouts : tx[t] = NoTx
  BY DEF BillInit, Init, LifeInit
<1>12. \A t \in Payouts : Priced(t)
  BY <1>1, <1>11 DEF Priced, NoTx, LifeOps
<1>13. \A p \in Procs : Holding(p)
  BY DEF BillInit, Init, LifeInit, Holding
<1>14. QED
  BY <1>8, <1>10, <1>12, <1>13 DEF AmountInv

\* The locked bucket of an organisation is what the payouts and bills in flight have locked,
\* whatever the FX service quotes between the lock, the UPDATE and the end
\* (infraLifecycleService.ts): nothing stays locked for a payout that has ended.
THEOREM LockedAsInFlight == OneCaller /\ AnswersArrive => (BillSpec => []LockedIsInFlight)
<1>. SUFFICES ASSUME OneCaller, AnswersArrive PROVE BillSpec => []LockedIsInFlight
  OBVIOUS
<1>1. BillInit => AmountInv
  BY AmountsStart
<1>2. PayoutInv /\ AmountInv /\ [BillNext]_billVars => AmountInv'
  BY AmountsKeep, AmountsStutter
<1>3. AmountInv => LockedIsInFlight
  BY DEF AmountInv
<1>4. BillSpec => []PayoutInv
  BY PayoutsInvariant
<1>5. QED
  BY <1>1, <1>2, <1>3, <1>4, PTL DEF BillSpec

-----------------------------------------------------------------------------
(***************************************************************************)
(* The off-ramp, for any number of payouts and handlers, when one process  *)
(* settles withdrawals.  An envelope that was handed to the network is the *)
(* one of the settlement row, and what the network decides of it is for    *)
(* good.  So "confirmed" is true for good, the provider is asked only      *)
(* after it, and a lock is returned only after the opposite.               *)
(***************************************************************************)

\* One process settles withdrawals at a time, it does not stop between the receipt in the
\* settlement row and that in the metadata, and clients confirm the rows of crypto payouts
\* only.
OneSettler ==
  /\ Settlers \subseteq Procs /\ \A p, q \in Settlers : p = q
  /\ "leg.patch" \notin SafeStops
  /\ ConfirmCalls \subseteq Payouts \ Banked

SendingCrypto ==
  {"stl.find", "stl.recheck", "stl.insert", "stl.submit", "stl.failed", "stl.submitted",
   "stl.landed", "stl.verify", "stl.confirm"}

BeforeReceipt ==
  {"leg.insert", "leg.mark", "leg.prepare", "leg.save", "leg.submit", "leg.submitted",
   "leg.landed", "leg.failed", "leg.verify", "leg.confirm"}

AfterReceipt ==
  {"prov.find", "prov.insert", "prov.submit", "prov.failed", "prov.await", "prov.submitted",
   "prov.confirm"}

Settle == {"off.rail", "leg.patch"} \cup BeforeReceipt \cup AfterReceipt

WebhookLabels == {"paid.prov", "paid.patch", "unpaid.patch", "unpaid.prov"}

OffLabels ==
  {"idle", "insert", "lock.failed", "off.mark"} \cup Locking \cup Finalizing \cup Releasing
    \cup SendingCrypto \cup Settle \cup WebhookLabels

OffCreation == {[ok |-> "idle", err |-> "lock.failed"], [ok |-> "off.mark", err |-> "lock.failed"]}
OffSettled == {Idle, [ok |-> "paid.prov", err |-> "idle"]}

SettlementStatuses == {"none", "pending", "submitted", "confirmed", "failed"}

SettlementRow == [status : SettlementStatuses, ref : Nat]

\* The ledger, the rows, the orders, the payments ...
OffShared ==
  /\ LedgerSound
  /\ tx \in [Payouts -> TxRow]
  /\ order \in [Payouts -> [Procs -> {"none", "open", "paid", "failed"}]]
  /\ stl \in [Payouts -> SettlementRow]
  /\ chain = [t \in Payouts |-> chain[t]] /\ \A t \in Payouts : IsChain(chain[t])
  /\ meta \in [Payouts -> [offRamp : BOOLEAN, stellarConfirmed : BOOLEAN]]

\* ... and what the handlers hold.
OffLocal ==
  /\ pc \in [Procs -> OffLabels]
  /\ cur \in [Procs -> Payouts \cup {NoOne}]
  /\ row \in [Procs -> TxRow]
  /\ amt \in [Procs -> Amounts \cup {0}]
  /\ cont \in [Procs -> OffCreation \cup OffSettled]
  /\ st \in [Procs -> SettlementRow]
  /\ hash \in [Procs -> Nat]

LockedRow(r) == r.ledgerLockId \/ r.fundsLocked \/ r.usdc # 0

StateIs(t, i, s) == i \in 1..Len(chain[t]) /\ chain[t][i].state = s

\* The envelope of t is dead, or a submission of one threw for less.
GivenUp(t) == StateIs(t, stl[t].ref, "failed") \/ Doubted(t)

\* What a debit rests on.
Delivered(t) == Received(t) /\ (t \in Live \cap Banked => Orders(t, {"paid"}) # {})

\* What the rows say of the chain, the orders and the ledger.
Honest(t) ==
  /\ stl[t].ref = 0 \/ stl[t].ref \in 1..Len(chain[t])
  /\ stl[t].status = "confirmed" => StateIs(t, stl[t].ref, "landed")
  /\ LockedRow(tx[t]) => HasPosted(t, "lock")
  /\ HasPosted(t, "finalize") => Delivered(t)
  /\ \A q \in Procs : order[t][q] # "none" => t \in Banked /\ meta[t].stellarConfirmed

\* And of a withdrawal: only the envelope of its row was ever handed to the network.
Guarded(t) ==
  /\ \A i \in 1..Len(chain[t]) : chain[t][i].state # "signed" => i = stl[t].ref
  /\ HasPosted(t, "release") => GivenUp(t)
  /\ meta[t].stellarConfirmed =>
       stl[t].status = "confirmed" /\ meta[t].offRamp /\ HasPosted(t, "lock")
  /\ stl[t].status = "confirmed" =>
       meta[t].stellarConfirmed \/ \E q \in Procs : pc[q] = "leg.patch" /\ cur[q] = t

\* What a settler may count on ...
Settles(p, t) ==
  /\ p \in Settlers /\ t \in Banked /\ HasPosted(t, "lock")
  /\ pc[p] \in BeforeReceipt => stl[t].status # "confirmed"
  /\ pc[p] = "leg.insert" => st[p] = stl[t]
  /\ pc[p] \in {"leg.mark", "leg.prepare"} => st[p].ref = stl[t].ref
  /\ pc[p] = "leg.save" => stl[t].ref = 0 /\ hash[p] \in 1..Len(chain[t])
  /\ pc[p] \in {"leg.submit", "leg.submitted", "leg.landed", "leg.failed", "leg.verify", "leg.confirm"} =>
       hash[p] = stl[t].ref /\ hash[p] \in 1..Len(chain[t])
  /\ pc[p] = "leg.failed" => StateIs(t, hash[p], "failed") \/ Doubted(t)
  /\ pc[p] \in {"leg.landed", "leg.confirm"} => StateIs(t, hash[p], "landed")
  /\ pc[p] = "leg.patch" => stl[t].status = "confirmed"
  /\ pc[p] \in (BeforeReceipt \ {"leg.insert", "leg.mark"}) \cup {"leg.patch"} => meta[t].offRamp
  /\ pc[p] \in AfterReceipt => meta[t].stellarConfirmed
  /\ pc[p] = "prov.confirm" => t \notin Live

\* ... one who sends a crypto payout ...
Sends(p, t) ==
  /\ t \in Payouts \ Banked
  /\ pc[p] = "stl.recheck" => st[p].ref \in 1..Len(chain[t])
  /\ pc[p] \in {"stl.submitted", "stl.landed", "stl.verify", "stl.confirm"} =>
       hash[p] \in 1..Len(chain[t])
  /\ pc[p] \in {"stl.landed", "stl.confirm"} => StateIs(t, hash[p], "landed")

\* ... and any handler.
Acting(p) ==
  LET t == cur[p]
  IN /\ pc[p] # "idle" => t \in Payouts
     /\ pc[p] \in {"insert"} \cup Locking => cont[p] \in OffCreation
     /\ pc[p] \in {"lock.post", "lock.patch", "fin.post", "rel.post"} => amt[p] # 0
     /\ pc[p] = "lock.patch" => HasPosted(t, "lock")
     /\ pc[p] \in Finalizing => cont[p] \in OffSettled
     /\ pc[p] \in {"fin.load", "fin.post"} => Delivered(t)
     /\ pc[p] \in Releasing => cont[p] = Idle
     /\ pc[p] \in {"rel.load", "rel.post"} /\ t \in Banked => GivenUp(t)
     /\ pc[p] \in SendingCrypto => Sends(p, t)
     /\ pc[p] \in Settle => Settles(p, t)

OfframpInv ==
  /\ OffShared /\ OffLocal
  /\ \A t \in Payouts : Honest(t)
  /\ \A t \in Banked : Guarded(t)
  /\ \A p \in Procs : Acting(p)

-----------------------------------------------------------------------------
(* What a step of p may do, so that the others keep what they count on. *)

Apart(p) ==
  \A q \in Procs \ {p} :
    /\ pc'[q] = pc[q] /\ cur'[q] = cur[q] /\ amt'[q] = amt[q] /\ cont'[q] = cont[q]
    /\ st'[q] = st[q] /\ hash'[q] = hash[q]

\* What is posted, paid, marked, decided by the network and confirmed is so for good, and
\* the row of a withdrawal keeps its envelope.
Lasts ==
  \A t \in Payouts :
    /\ \A op \in LifeOps : HasPosted(t, op) => HasPosted(t, op)'
    /\ \A q \in Procs : order[t][q] = "paid" => order'[t][q] = "paid"
    /\ meta[t].offRamp => meta'[t].offRamp
    /\ meta[t].stellarConfirmed => meta'[t].stellarConfirmed
    /\ \A i \in 1..Len(chain[t]) :
         /\ i \in 1..Len(chain'[t])
         /\ chain[t][i].state \in {"landed", "failed"} => chain'[t][i].state = chain[t][i].state
         /\ chain[t][i].doubt => chain'[t][i].doubt
    /\ t \in Banked /\ stl[t].ref # 0 => stl'[t].ref = stl[t].ref
    /\ t \in Banked /\ stl[t].status = "confirmed" => stl'[t].status = "confirmed"

\* Who does not settle withdrawals does not touch their settlement rows.
Aside(p) == p \notin Settlers => \A t \in Banked : stl'[t] = stl[t]

LEMMA WithdrawalsArePayouts == \A t \in Banked : t \in Payouts
BY PayoutAssumption

LEMMA StateLasts ==
  ASSUME Lasts, NEW t \in Payouts, NEW i, NEW s \in {"landed", "failed"}, StateIs(t, i, s)
  PROVE  StateIs(t, i, s)'
BY DEF Lasts, StateIs

\* So what a debit and a release rest on lasts.
LEMMA GroundsLast ==
  ASSUME Lasts, NEW t \in Payouts
  PROVE  /\ Received(t) => Received(t)'
         /\ Delivered(t) => Delivered(t)'
         /\ Doubted(t) => Doubted(t)'
         /\ t \in Banked /\ OfframpInv /\ GivenUp(t) => GivenUp(t)'
<1>1. Received(t) => Received(t)'
  <2>1. SUFFICES ASSUME NEW i, StateIs(t, i, "landed") PROVE Received(t)'
    BY DEF Received, Landed, StateIs
  <2>2. StateIs(t, i, "landed")'
    BY <2>1, StateLasts
  <2>3. QED
    BY <2>2 DEF Received, Landed, StateIs
<1>2. Delivered(t) => Delivered(t)'
  <2>1. Orders(t, {"paid"}) # {} => Orders(t, {"paid"})' # {}
    BY DEF Lasts, Orders
  <2>2. QED
    BY <1>1, <2>1 DEF Delivered
<1>3. ASSUME t \in Banked, OfframpInv, GivenUp(t), ~Doubted(t) PROVE GivenUp(t)'
  <2>1. PICK i : i = stl[t].ref
    OBVIOUS
  <2>2. StateIs(t, i, "failed")'
    BY <1>3, <2>1, StateLasts DEF GivenUp
  <2>3. i # 0
    BY <1>3, <2>1 DEF GivenUp, StateIs
  <2>4. stl'[t].ref = i
    BY <1>3, <2>1, <2>3 DEF Lasts
  <2>5. QED
    BY <2>2, <2>4 DEF GivenUp
<1>4. Doubted(t) => Doubted(t)' /\ GivenUp(t)'
  BY DEF Lasts, GivenUp, Doubted, Doubtful
<1>5. QED
  BY <1>1, <1>2, <1>3, <1>4

\* A handler that does nothing keeps what it counts on.
LEMMA HandlerStays ==
  ASSUME OfframpInv, Lasts, NEW q \in Procs,
         pc'[q] = pc[q], cur'[q] = cur[q], amt'[q] = amt[q], cont'[q] = cont[q],
         st'[q] = st[q], hash'[q] = hash[q],
         q \in Settlers => \A t \in Banked : stl'[t] = stl[t]
  PROVE  Acting(q)'
<1>1. Acting(q)
  BY DEF OfframpInv
<1>2. CASE pc[q] = "idle"
  BY <1>2 DEF Acting, Locking, Finalizing, Releasing, SendingCrypto, Settle, BeforeReceipt, AfterReceipt
<1>3. CASE pc[q] # "idle"
  <2>1. PICK t \in Payouts : t = cur[q]
    BY <1>1, <1>3 DEF Acting
  <2>2. HasPosted(t, "lock") => HasPosted(t, "lock")'
    BY DEF Lasts, LifeOps
  <2>3. (Delivered(t) => Delivered(t)') /\ (t \in Banked /\ GivenUp(t) => GivenUp(t)')
    BY GroundsLast
  <2>4. \A i : i \in 1..Len(chain[t]) => i \in 1..Len(chain'[t])
    BY DEF Lasts
  <2>5. /\ StateIs(t, hash[q], "landed") => StateIs(t, hash[q], "landed")'
        /\ StateIs(t, hash[q], "failed") => StateIs(t, hash[q], "failed")'
    <3>1. PICK h : h = hash[q]
      OBVIOUS
    <3>2. /\ StateIs(t, h, "landed") => StateIs(t, h, "landed")'
          /\ StateIs(t, h, "failed") => StateIs(t, h, "failed")'
      BY StateLasts
    <3>3. QED
      BY <3>1, <3>2 DEF StateIs
  <2>6. Sends(q, t) => Sends(q, t)'
    BY <2>4, <2>5 DEF Sends
  <2>7. Doubted(t) => Doubted(t)'
    BY GroundsLast
  <2>8. Settles(q, t) => Settles(q, t)'
    <3>1. SUFFICES ASSUME Settles(q, t) PROVE Settles(q, t)'
      OBVIOUS
    <3>2. q \in Settlers /\ t \in Banked /\ stl'[t] = stl[t]
      BY <3>1 DEF Settles
    <3>3. /\ meta[t].offRamp => meta'[t].offRamp
          /\ meta[t].stellarConfirmed => meta'[t].stellarConfirmed
      BY DEF Lasts
    <3>4. QED
      BY <2>2, <2>4, <2>5, <2>7, <3>1, <3>2, <3>3 DEF Settles
  <2>9. QED
    BY <1>1, <2>1, <2>2, <2>3, <2>6, <2>8 DEF Acting
<1>4. QED
  BY <1>2, <1>3

-----------------------------------------------------------------------------
(* The local part of a step. *)

\* The step is that of p, which is at label l then.
Steps(p, l) == Apart(p) /\ OffLocal' /\ pc'[p] = l

\* ... and goes on with what it holds, the copy s of the settlement row and the hash h.
GoesOn(p, l, s, h) ==
  /\ Steps(p, l)
  /\ cur'[p] = cur[p] /\ amt'[p] = amt[p] /\ cont'[p] = cont[p] /\ st'[p] = s /\ hash'[p] = h

LEMMA ContinueGoesOn ==
  ASSUME OffLocal, NEW p \in Procs, NEW l \in OffLabels, Continue(p, l),
         NEW s \in SettlementRow, NEW h \in Nat,
         st' = [st EXCEPT ![p] = s] \/ (st' = st /\ s = st[p]),
         hash' = [hash EXCEPT ![p] = h] \/ (hash' = hash /\ h = hash[p])
  PROVE  GoesOn(p, l, s, h)
<1>1. /\ pc' = [pc EXCEPT ![p] = l] /\ pc \in [Procs -> OffLabels]
      /\ cur' = cur /\ row' = row /\ amt' = amt /\ cont' = cont
      /\ st \in [Procs -> SettlementRow] /\ hash \in [Procs -> Nat]
  BY DEF Continue, Goto, OffLocal
<1>2. pc' \in [Procs -> OffLabels] /\ pc'[p] = l /\ \A q \in Procs \ {p} : pc'[q] = pc[q]
  BY <1>1
<1>3. st' \in [Procs -> SettlementRow] /\ st'[p] = s /\ \A q \in Procs \ {p} : st'[q] = st[q]
  BY <1>1
<1>4. hash' \in [Procs -> Nat] /\ hash'[p] = h /\ \A q \in Procs \ {p} : hash'[q] = hash[q]
  BY <1>1
<1>5. QED
  BY <1>1, <1>2, <1>3, <1>4 DEF GoesOn, Steps, Apart, OffLocal

LEMMA GotoGoesOn ==
  ASSUME OffLocal, NEW p \in Procs, NEW l \in OffLabels, Goto(p, l),
         UNCHANGED <<cur, row, amt, cont, st, hash>>
  PROVE  GoesOn(p, l, st[p], hash[p])
<1>1. st[p] \in SettlementRow /\ hash[p] \in Nat
  BY DEF OffLocal
<1>2. QED
  BY <1>1, ContinueGoesOn DEF Continue

LEMMA OnwardGoesOn ==
  ASSUME OffLocal, NEW p \in Procs, NEW l \in OffLabels, Onward(p, l)
  PROVE  GoesOn(p, l, st[p], hash[p])
<1>1. st[p] \in SettlementRow /\ hash[p] \in Nat
  BY DEF OffLocal
<1>2. QED
  BY <1>1, ContinueGoesOn DEF Onward

\* A handler that ends.
LEMMA FinishSteps ==
  ASSUME OffLocal, NEW p \in Procs, Finish(p),
         UNCHANGED <<st, hash>> \/ (/\ st' = [st EXCEPT ![p] = NoSettlement]
                                    /\ hash' = [hash EXCEPT ![p] = 0])
  PROVE  Steps(p, "idle")
<1>1. "idle" \in OffLabels /\ Idle \in OffSettled /\ NoSettlement \in SettlementRow
  BY DEF OffLabels, OffSettled, Idle, NoSettlement, SettlementRow, SettlementStatuses
<1>2. NoTx \in TxRow
  BY DEF NoTx, TxRow
<1>3. /\ pc' = [pc EXCEPT ![p] = "idle"] /\ cur' = [cur EXCEPT ![p] = NoOne]
      /\ row' = [row EXCEPT ![p] = NoTx] /\ amt' = [amt EXCEPT ![p] = 0]
      /\ cont' = [cont EXCEPT ![p] = Idle]
  BY DEF Finish, Goto
<1>4. st' \in [Procs -> SettlementRow] /\ \A q \in Procs \ {p} : st'[q] = st[q]
  BY <1>1 DEF OffLocal
<1>5. hash' \in [Procs -> Nat] /\ \A q \in Procs \ {p} : hash'[q] = hash[q]
  BY DEF OffLocal
<1>6. QED
  BY <1>1, <1>2, <1>3, <1>4, <1>5 DEF Steps, Apart, OffLocal

LEMMA EndSteps ==
  ASSUME OffLocal, NEW p \in Procs, End(p) \/ Quit(p)
  PROVE  Steps(p, "idle")
BY FinishSteps DEF End, Quit

\* A handler that calls another function, or begins.
CallsOff(p, fn, t, c) == Steps(p, fn) /\ cur'[p] = t /\ cont'[p] = c

LEMMA CallSteps ==
  ASSUME OffLocal, NEW p \in Procs, NEW t \in Payouts, NEW fn \in OffLabels,
         NEW c \in OffCreation \cup OffSettled, Call(p, t, fn, c), UNCHANGED row,
         amt' = amt \/ \E a \in Amounts \cup {0} : amt' = [amt EXCEPT ![p] = a],
         st' = st \/ st' = [st EXCEPT ![p] = NoSettlement],
         hash' = hash \/ \E h \in Nat : hash' = [hash EXCEPT ![p] = h]
  PROVE  CallsOff(p, fn, t, c) /\ (hash' = hash \/ \E h \in Nat : hash' = [hash EXCEPT ![p] = h] /\ hash'[p] = h)
<1>1. NoSettlement \in SettlementRow
  BY DEF NoSettlement, SettlementRow, SettlementStatuses
<1>2. /\ pc' = [pc EXCEPT ![p] = fn] /\ cur' = [cur EXCEPT ![p] = t]
      /\ cont' = [cont EXCEPT ![p] = c] /\ row' = row
  BY DEF Call, Goto
<1>3. amt' \in [Procs -> Amounts \cup {0}] /\ \A q \in Procs \ {p} : amt'[q] = amt[q]
  BY DEF OffLocal
<1>4. st' \in [Procs -> SettlementRow] /\ \A q \in Procs \ {p} : st'[q] = st[q]
  BY <1>1 DEF OffLocal
<1>5. hash' \in [Procs -> Nat] /\ \A q \in Procs \ {p} : hash'[q] = hash[q]
  BY DEF OffLocal
<1>6. hash' = hash \/ \E h \in Nat : hash' = [hash EXCEPT ![p] = h] /\ hash'[p] = h
  BY DEF OffLocal
<1>7. QED
  BY <1>2, <1>3, <1>4, <1>5, <1>6 DEF CallsOff, Steps, Apart, OffLocal

-----------------------------------------------------------------------------
(* What a handler counts on, by where it is. *)

LEMMA ActsIdle ==
  ASSUME NEW p \in Procs, pc'[p] = "idle"
  PROVE  Acting(p)'
BY DEF Acting, Locking, Finalizing, Releasing, SendingCrypto, Settle, BeforeReceipt, AfterReceipt

LEMMA ActsFree ==
  ASSUME NEW p \in Procs, cur'[p] \in Payouts,
         pc'[p] \in {"off.mark", "lock.failed"} \cup WebhookLabels
  PROVE  Acting(p)'
BY DEF Acting, Locking, Finalizing, Releasing, SendingCrypto, Settle, BeforeReceipt, AfterReceipt,
       WebhookLabels

LEMMA ActsLocking ==
  ASSUME NEW p \in Procs, NEW t \in Payouts, cur'[p] = t, pc'[p] \in {"insert"} \cup Locking,
         cont'[p] \in OffCreation, pc'[p] \in {"lock.post", "lock.patch"} => amt'[p] # 0,
         pc'[p] = "lock.patch" => HasPosted(t, "lock")'
  PROVE  Acting(p)'
BY DEF Acting, Locking, Finalizing, Releasing, SendingCrypto, Settle, BeforeReceipt, AfterReceipt

LEMMA ActsFinalizing ==
  ASSUME NEW p \in Procs, NEW t \in Payouts, cur'[p] = t, pc'[p] \in Finalizing,
         cont'[p] \in OffSettled, pc'[p] = "fin.post" => amt'[p] # 0,
         pc'[p] # "fin.patch" => Delivered(t)'
  PROVE  Acting(p)'
BY DEF Acting, Locking, Finalizing, Releasing, SendingCrypto, Settle, BeforeReceipt, AfterReceipt

LEMMA ActsReleasing ==
  ASSUME NEW p \in Procs, NEW t \in Payouts, cur'[p] = t, pc'[p] \in Releasing,
         cont'[p] = Idle, pc'[p] = "rel.post" => amt'[p] # 0,
         pc'[p] # "rel.patch" /\ t \in Banked => GivenUp(t)'
  PROVE  Acting(p)'
BY DEF Acting, Locking, Finalizing, Releasing, SendingCrypto, Settle, BeforeReceipt, AfterReceipt

LEMMA ActsSending ==
  ASSUME NEW p \in Procs, NEW t \in Payouts, cur'[p] = t, pc'[p] \in SendingCrypto, Sends(p, t)'
  PROVE  Acting(p)'
BY DEF Acting, Locking, Finalizing, Releasing, SendingCrypto, Settle, BeforeReceipt, AfterReceipt

LEMMA ActsSettling ==
  ASSUME NEW p \in Procs, NEW t \in Payouts, cur'[p] = t, pc'[p] \in Settle, Settles(p, t)'
  PROVE  Acting(p)'
BY DEF Acting, Locking, Finalizing, Releasing, SendingCrypto, Settle, BeforeReceipt, AfterReceipt

\* What the handler of a withdrawal, or of a crypto payout, counts on.
LEMMA SettlerActs ==
  ASSUME OfframpInv, NEW p \in Procs, pc[p] \in Settle
  PROVE  cur[p] \in Payouts /\ cur[p] \in Banked /\ Settles(p, cur[p])
BY DEF OfframpInv, Acting, Settle, BeforeReceipt, AfterReceipt, Settles

LEMMA SenderActs ==
  ASSUME OfframpInv, NEW p \in Procs, pc[p] \in SendingCrypto
  PROVE  cur[p] \in Payouts /\ cur[p] \notin Banked /\ Sends(p, cur[p])
BY DEF OfframpInv, Acting, SendingCrypto, Sends

-----------------------------------------------------------------------------
(* Steps that touch neither ledger, orders, settlement rows nor network. *)

\* A copy of a row says that it was locked only where it was.
RowsCalm ==
  \A t \in Payouts :
    LockedRow(tx'[t]) => LockedRow(tx[t]) \/ HasPosted(t, "lock")

MetaCalm ==
  \A t \in Payouts :
    /\ meta'[t].stellarConfirmed = meta[t].stellarConfirmed
    /\ meta[t].offRamp => meta'[t].offRamp

\* Nothing is posted, ordered, settled or sent.
Calmly == UNCHANGED <<ledger, order, stl, chain>>

LEMMA CalmFacts ==
  ASSUME Calmly, NEW t \in Payouts
  PROVE  /\ \A op \in LifeOps : HasPosted(t, op)' = HasPosted(t, op)
         /\ Received(t)' = Received(t) /\ Delivered(t)' = Delivered(t) /\ GivenUp(t)' = GivenUp(t)
         /\ \A i, s : StateIs(t, i, s)' = StateIs(t, i, s)
<1>1. Received(t)' = Received(t)
  BY DEF Calmly, Received, Landed
<1>2. Delivered(t)' = Delivered(t)
  BY <1>1 DEF Calmly, Delivered, Orders
<1>3. \A i, s : StateIs(t, i, s)' = StateIs(t, i, s)
  BY DEF Calmly, StateIs
<1>4. GivenUp(t)' = GivenUp(t)
  BY DEF Calmly, GivenUp, StateIs, Doubted, Doubtful
<1>5. \A op \in LifeOps : HasPosted(t, op)' = HasPosted(t, op)
  BY DEF Calmly, HasPosted
<1>6. QED
  BY <1>1, <1>2, <1>3, <1>4, <1>5

LEMMA CalmKeeps ==
  ASSUME OfframpInv, NEW p \in Procs, pc[p] # "leg.patch", Calmly, MetaCalm, RowsCalm,
         tx' \in [Payouts -> TxRow],
         meta' \in [Payouts -> [offRamp : BOOLEAN, stellarConfirmed : BOOLEAN]],
         Apart(p), OffLocal', Acting(p)'
  PROVE  OfframpInv'
<1>1. Lasts
  BY DEF Lasts, Calmly, MetaCalm, HasPosted
<1>2. ASSUME NEW q \in Procs PROVE Acting(q)'
  <2>1. CASE q = p
    BY <2>1
  <2>2. CASE q # p
    BY <1>1, <2>2, HandlerStays DEF Apart, Calmly
  <2>3. QED
    BY <2>1, <2>2
<1>3. OffShared'
  <2>1. OffShared
    BY DEF OfframpInv
  <2>2. LedgerSound'
    BY <2>1 DEF OffShared, Calmly, LedgerSound, SlotsAreKeys
  <2>3. QED
    BY <2>1, <2>2 DEF OffShared, Calmly
<1>4. ASSUME NEW t \in Payouts PROVE Honest(t)'
  <2>1. Honest(t)
    BY DEF OfframpInv
  <2>2. LockedRow(tx'[t]) => HasPosted(t, "lock")'
    BY <2>1, CalmFacts DEF RowsCalm, Honest, LifeOps
  <2>3. \A q \in Procs : order'[t][q] # "none" => t \in Banked /\ meta'[t].stellarConfirmed
    BY <2>1 DEF Honest, Calmly, MetaCalm
  <2>4. HasPosted(t, "finalize")' => Delivered(t)'
    BY <2>1, CalmFacts DEF Honest, LifeOps
  <2>5. /\ stl'[t].ref = 0 \/ stl'[t].ref \in 1..Len(chain'[t])
        /\ stl'[t].status = "confirmed" => StateIs(t, stl[t].ref, "landed")'
    <3>1. PICK i : i = stl[t].ref
      OBVIOUS
    <3>2. i = 0 \/ i \in 1..Len(chain[t])
      BY <2>1, <3>1 DEF Honest
    <3>3. stl[t].status = "confirmed" => StateIs(t, i, "landed")
      BY <2>1, <3>1 DEF Honest
    <3>4. StateIs(t, i, "landed")' = StateIs(t, i, "landed")
      BY CalmFacts
    <3>5. QED
      BY <3>1, <3>2, <3>3, <3>4 DEF Calmly
  <2>6. QED
    BY <2>2, <2>3, <2>4, <2>5 DEF Honest
<1>5. ASSUME NEW t \in Banked PROVE Guarded(t)'
  <2>1. Guarded(t) /\ t \in Payouts
    BY WithdrawalsArePayouts DEF OfframpInv
  <2>2. HasPosted(t, "release")' => GivenUp(t)'
    BY <2>1, CalmFacts DEF Guarded, LifeOps
  <2>3. meta'[t].stellarConfirmed =>
          stl'[t].status = "confirmed" /\ meta'[t].offRamp /\ HasPosted(t, "lock")'
    <3>1. HasPosted(t, "lock")' = HasPosted(t, "lock")
      BY <2>1, CalmFacts DEF LifeOps
    <3>2. QED
      BY <2>1, <3>1 DEF Guarded, Calmly, MetaCalm
  <2>4. stl'[t].status = "confirmed" =>
          meta'[t].stellarConfirmed \/ \E q \in Procs : pc'[q] = "leg.patch" /\ cur'[q] = t
    BY <2>1 DEF Guarded, Calmly, MetaCalm, Apart
  <2>5. \A i \in 1..Len(chain'[t]) : chain'[t][i].state # "signed" => i = stl'[t].ref
    BY <2>1 DEF Guarded, Calmly
  <2>6. QED
    BY <2>2, <2>3, <2>4, <2>5 DEF Guarded
<1>6. QED
  BY <1>2, <1>3, <1>4, <1>5 DEF OfframpInv

\* ... and rows and metadata neither.
LEMMA QuietKeepsOff ==
  ASSUME OfframpInv, NEW p \in Procs, pc[p] # "leg.patch", Calmly, UNCHANGED <<tx, meta>>,
         Apart(p), OffLocal', Acting(p)'
  PROVE  OfframpInv'
<1>1. MetaCalm /\ RowsCalm
  BY DEF MetaCalm, RowsCalm
<1>2. tx' \in [Payouts -> TxRow] /\ meta' \in [Payouts -> [offRamp : BOOLEAN, stellarConfirmed : BOOLEAN]]
  BY DEF OfframpInv, OffShared
<1>3. QED
  BY <1>1, <1>2, CalmKeeps

\* A handler that ends.
LEMMA EndKeepsOff ==
  ASSUME OfframpInv, NEW p \in Procs, pc[p] # "leg.patch", Calmly, UNCHANGED <<tx, meta>>,
         Steps(p, "idle")
  PROVE  OfframpInv'
BY ActsIdle, QuietKeepsOff DEF Steps

-----------------------------------------------------------------------------
(* The lifecycle functions: what they read, check and write. *)

\* Back to the caller, wherever it goes on.
LEMMA ReturnSteps ==
  ASSUME OfframpInv, NEW p \in Procs, pc[p] # "idle",
         Return(p, cont[p].ok) \/ Return(p, cont[p].err), UNCHANGED <<st, hash>>
  PROVE  Apart(p) /\ OffLocal' /\ Acting(p)'
<1>1. OffLocal /\ cur[p] \in Payouts /\ cont[p] \in OffCreation \cup OffSettled
  BY DEF OfframpInv, OffLocal, Acting
<1>2. PICK l \in {"idle", "off.mark", "lock.failed", "paid.prov"} : Return(p, l)
  BY <1>1 DEF OffCreation, OffSettled, Idle
<1>3. CASE l = "idle"
  <2>1. Steps(p, "idle")
    BY <1>1, <1>2, <1>3, FinishSteps DEF Return
  <2>2. QED
    BY <2>1, ActsIdle DEF Steps
<1>4. CASE l # "idle"
  <2>1. l \in OffLabels
    BY <1>2 DEF OffLabels, WebhookLabels
  <2>2. GoesOn(p, l, st[p], hash[p])
    BY <1>1, <1>2, <1>4, <2>1, GotoGoesOn DEF Return
  <2>3. Acting(p)'
    BY <1>1, <1>2, <1>4, <2>2, ActsFree DEF GoesOn, Steps, WebhookLabels
  <2>4. QED
    BY <2>2, <2>3 DEF GoesOn, Steps
<1>5. QED
  BY <1>3, <1>4

\* The first step of each: the handler takes a copy of the row and an amount.
LEMMA LoadSteps ==
  ASSUME OffLocal, NEW p \in Procs, NEW l \in OffLabels, NEW r \in TxRow, NEW a \in Amounts,
         Goto(p, l), row' = [row EXCEPT ![p] = r], amt' = [amt EXCEPT ![p] = a],
         UNCHANGED <<cur, cont, st, hash>>
  PROVE  Steps(p, l) /\ cur'[p] = cur[p] /\ cont'[p] = cont[p] /\ amt'[p] # 0
<1>1. a # 0
  BY AmountsAssumption
<1>2. pc' = [pc EXCEPT ![p] = l]
  BY DEF Goto
<1>3. Apart(p)
  BY <1>2 DEF Apart, OffLocal
<1>4. OffLocal'
  BY <1>2 DEF OffLocal
<1>5. QED
  BY <1>1, <1>2, <1>3, <1>4 DEF Steps, OffLocal

LEMMA LockLoadKeepsOff ==
  ASSUME OfframpInv, NEW p \in Procs, LockLoad(p), UNCHANGED <<order, stellarVars, offVars>>
  PROVE  OfframpInv'
<1>1. PICK t \in Payouts : t = cur[p]
  BY DEF OfframpInv, Acting, LockLoad
<1>2. OffLocal /\ Acting(p) /\ tx[t] \in TxRow /\ pc[p] = "lock.load"
  BY DEF OfframpInv, OffShared, LockLoad
<1>3. PICK a \in Amounts : amt' = [amt EXCEPT ![p] = a]
  BY <1>1, <1>2, QuotesAssumption DEF LockLoad, TxRow
<1>4. Steps(p, "lock.post") /\ cur'[p] = cur[p] /\ cont'[p] = cont[p] /\ amt'[p] # 0
  <2>1. "lock.post" \in OffLabels
    BY DEF OffLabels, Locking
  <2>2. /\ row' = [row EXCEPT ![p] = tx[t]] /\ UNCHANGED <<cur, cont, st, hash>>
        /\ Goto(p, "lock.post")
    BY <1>1 DEF LockLoad, stellarVars
  <2>3. QED
    BY <1>2, <1>3, <2>1, <2>2, LoadSteps
<1>5. Acting(p)'
  <2>1. cont[p] \in OffCreation
    BY <1>2 DEF Acting, Locking
  <2>2. QED
    BY <1>1, <1>4, <2>1, ActsLocking DEF Steps, Locking
<1>6. Calmly /\ UNCHANGED <<tx, meta>>
  BY DEF LockLoad, Calmly, stellarVars, offVars
<1>7. QED
  BY <1>2, <1>4, <1>5, <1>6, QuietKeepsOff DEF Steps

LEMMA FinalizeLoadKeepsOff ==
  ASSUME OfframpInv, NEW p \in Procs, FinalizeLoad(p), UNCHANGED <<order, stellarVars, offVars>>
  PROVE  OfframpInv'
<1>1. PICK t \in Payouts : t = cur[p]
  BY DEF OfframpInv, Acting, FinalizeLoad
<1>2. OffLocal /\ Acting(p) /\ tx[t] \in TxRow /\ pc[p] = "fin.load"
  BY DEF OfframpInv, OffShared, FinalizeLoad
<1>3. Calmly /\ UNCHANGED <<tx, meta, st, hash>>
  BY DEF FinalizeLoad, Calmly, stellarVars, offVars
<1>4. CASE Return(p, cont[p].err)
  BY <1>2, <1>3, <1>4, ReturnSteps, QuietKeepsOff
<1>5. CASE /\ ~tx[t].fundsReleased /\ tx[t].usdc # 0
           /\ row' = [row EXCEPT ![p] = tx[t]] /\ amt' = [amt EXCEPT ![p] = tx[t].usdc]
           /\ Goto(p, "fin.post") /\ UNCHANGED <<cur, cont>>
  <2>1. "fin.post" \in OffLabels /\ tx[t].usdc \in Amounts
    BY <1>2, <1>5 DEF OffLabels, Finalizing, TxRow
  <2>2. Steps(p, "fin.post") /\ cur'[p] = cur[p] /\ cont'[p] = cont[p] /\ amt'[p] # 0
    BY <1>2, <1>3, <1>5, <2>1, LoadSteps
  <2>3. cont[p] \in OffSettled /\ Delivered(t)
    BY <1>1, <1>2 DEF Acting, Finalizing
  <2>4. Delivered(t)'
    BY <1>3, <2>3, CalmFacts
  <2>5. Acting(p)'
    BY <1>1, <2>2, <2>3, <2>4, ActsFinalizing DEF Steps, Finalizing
  <2>6. QED
    BY <1>2, <1>3, <2>2, <2>5, QuietKeepsOff DEF Steps
<1>6. QED
  BY <1>1, <1>4, <1>5 DEF FinalizeLoad

LEMMA ReleaseLoadKeepsOff ==
  ASSUME OfframpInv, NEW p \in Procs, ReleaseLoad(p), UNCHANGED <<order, stellarVars, offVars>>
  PROVE  OfframpInv'
<1>1. PICK t \in Payouts : t = cur[p]
  BY DEF OfframpInv, Acting, ReleaseLoad
<1>2. OffLocal /\ Acting(p) /\ tx[t] \in TxRow /\ pc[p] = "rel.load"
  BY DEF OfframpInv, OffShared, ReleaseLoad
<1>3. Calmly /\ UNCHANGED <<tx, meta, st, hash>>
  BY DEF ReleaseLoad, Calmly, stellarVars, offVars
<1>4. CASE Return(p, cont[p].err)
  BY <1>2, <1>3, <1>4, ReturnSteps, QuietKeepsOff
<1>5. CASE /\ ~tx[t].fundsFinalized /\ tx[t].usdc # 0
           /\ row' = [row EXCEPT ![p] = tx[t]] /\ amt' = [amt EXCEPT ![p] = tx[t].usdc]
           /\ Goto(p, "rel.post") /\ UNCHANGED <<cur, cont>>
  <2>1. "rel.post" \in OffLabels /\ tx[t].usdc \in Amounts
    BY <1>2, <1>5 DEF OffLabels, Releasing, TxRow
  <2>2. Steps(p, "rel.post") /\ cur'[p] = cur[p] /\ cont'[p] = cont[p] /\ amt'[p] # 0
    BY <1>2, <1>3, <1>5, <2>1, LoadSteps
  <2>3. cont[p] = Idle /\ (t \in Banked => GivenUp(t))
    BY <1>1, <1>2 DEF Acting, Releasing
  <2>4. t \in Banked => GivenUp(t)'
    BY <1>3, <2>3, CalmFacts
  <2>5. Acting(p)'
    BY <1>1, <2>2, <2>3, <2>4, ActsReleasing DEF Steps, Releasing
  <2>6. QED
    BY <1>2, <1>3, <2>2, <2>5, QuietKeepsOff DEF Steps
<1>6. QED
  BY <1>1, <1>4, <1>5 DEF ReleaseLoad

\* What the UPDATEs write never says "locked" of a payout that has no lock.
LEMMA PatchRowsCalm ==
  ASSUME OfframpInv, NEW t \in Payouts, NEW r \in TxRow, tx' = [tx EXCEPT ![t] = r],
         LockedRow(r) => LockedRow(tx[t]) \/ HasPosted(t, "lock")
  PROVE  tx' \in [Payouts -> TxRow] /\ RowsCalm
BY DEF OfframpInv, OffShared, RowsCalm

LEMMA PatchesKeepOff ==
  ASSUME OfframpInv, NEW p \in Procs, LockPatch(p) \/ FinalizePatch(p) \/ ReleasePatch(p),
         UNCHANGED <<order, stellarVars, offVars>>
  PROVE  OfframpInv'
<1>1. /\ pc[p] \in {"lock.patch", "fin.patch", "rel.patch"}
      /\ Return(p, cont[p].ok) \/ Return(p, cont[p].err)
  BY DEF LockPatch, FinalizePatch, ReleasePatch, Returned
<1>2. PICK t \in Payouts : t = cur[p]
  BY <1>1 DEF OfframpInv, Acting
<1>3. /\ tx[t] \in TxRow /\ row[p] \in TxRow /\ amt[p] \in Amounts \cup {0} /\ Acting(p)
      /\ tx \in [Payouts -> TxRow]
  BY DEF OfframpInv, OffShared, OffLocal
<1>4. PICK r \in TxRow : /\ LockedRow(r) => LockedRow(tx[t]) \/ HasPosted(t, "lock")
                         /\ tx' = [tx EXCEPT ![t] = r]
  <2>1. CASE LockPatch(p)
    <3>1. PICK r : r = [tx[t] EXCEPT !.status = row[p].status, !.usdc = amt[p],
                                     !.fundsLocked = TRUE, !.ledgerLockId = TRUE]
      OBVIOUS
    <3>2. r \in TxRow
      BY <1>3, <3>1 DEF TxRow
    <3>3. HasPosted(t, "lock")
      BY <1>2, <1>3, <2>1 DEF LockPatch, Acting
    <3>4. QED
      BY <1>2, <2>1, <3>1, <3>2, <3>3 DEF LockPatch
  <2>2. CASE FinalizePatch(p)
    <3>1. PICK r : r = [tx[t] EXCEPT !.status = "settled", !.fundsLocked = FALSE,
                                     !.fundsFinalized = TRUE]
      OBVIOUS
    <3>2. r \in TxRow /\ (LockedRow(r) => LockedRow(tx[t]))
      BY <1>3, <3>1 DEF TxRow, LockedRow
    <3>3. QED
      BY <1>2, <2>2, <3>1, <3>2 DEF FinalizePatch
  <2>3. CASE ReleasePatch(p)
    <3>1. PICK r : r = [tx[t] EXCEPT !.status = "failed", !.fundsLocked = FALSE,
                                     !.fundsReleased = TRUE]
      OBVIOUS
    <3>2. r \in TxRow /\ (LockedRow(r) => LockedRow(tx[t]))
      BY <1>3, <3>1 DEF TxRow, LockedRow
    <3>3. QED
      BY <1>2, <2>3, <3>1, <3>2 DEF ReleasePatch
  <2>4. QED
    BY <2>1, <2>2, <2>3
<1>5. tx' \in [Payouts -> TxRow] /\ RowsCalm
  BY <1>4, PatchRowsCalm
<1>6. Calmly /\ UNCHANGED <<meta, st, hash>>
  BY DEF LockPatch, FinalizePatch, ReleasePatch, Calmly, stellarVars, offVars
<1>7. MetaCalm /\ meta' \in [Payouts -> [offRamp : BOOLEAN, stellarConfirmed : BOOLEAN]]
  BY <1>6 DEF MetaCalm, OfframpInv, OffShared
<1>8. Apart(p) /\ OffLocal' /\ Acting(p)'
  BY <1>1, <1>6, ReturnSteps
<1>9. QED
  BY <1>1, <1>5, <1>6, <1>7, <1>8, CalmKeeps

-----------------------------------------------------------------------------
(* The ledger calls. *)

\* What is posted has its ground.
LEMMA PostingKeepsOff ==
  ASSUME OfframpInv, NEW p \in Procs, pc[p] # "leg.patch",
         NEW t \in Payouts, NEW op \in LifeOps, NEW a \in Amounts,
         ~HasPosted(t, op), Covers(op, ledger.rows[Org].bal, a),
         ledger' = Post(ledger, PayoutLeg(t, op, a)),
         UNCHANGED <<tx, order, stl, chain, meta>>,
         op = "finalize" => Delivered(t), op = "release" /\ t \in Banked => GivenUp(t),
         Apart(p), OffLocal', HasPosted(t, op)' => Acting(p)'
  PROVE  OfframpInv'
<1>1. OffShared /\ LedgerSound
  BY DEF OfframpInv, OffShared
<1>2. /\ LedgerSound'
      /\ \A u \in Payouts, o \in LifeOps : HasPosted(u, o)' <=> HasPosted(u, o) \/ (u = t /\ o = op)
  BY <1>1, LegPosts
<1>3. Lasts
  BY <1>2 DEF Lasts
<1>4. ASSUME NEW q \in Procs PROVE Acting(q)'
  <2>1. CASE q = p
    BY <1>2, <2>1
  <2>2. CASE q # p
    BY <1>3, <2>2, HandlerStays DEF Apart
  <2>3. QED
    BY <2>1, <2>2
<1>5. OffShared'
  BY <1>1, <1>2 DEF OffShared
<1>6. ASSUME NEW u \in Payouts PROVE Honest(u)'
  <2>1. Honest(u)
    BY DEF OfframpInv
  <2>2. HasPosted(u, "finalize")' => Delivered(u)'
    <3>1. HasPosted(u, "finalize")' => Delivered(u)
      BY <1>2, <2>1 DEF Honest, LifeOps
    <3>2. QED
      BY <1>3, <3>1, GroundsLast
  <2>3. HasPosted(u, "lock") => HasPosted(u, "lock")'
    BY <1>2 DEF LifeOps
  <2>4. stl[u].status = "confirmed" => StateIs(u, stl[u].ref, "landed")'
    BY <2>1 DEF Honest, StateIs
  <2>5. QED
    BY <2>1, <2>2, <2>3, <2>4 DEF Honest
<1>7. ASSUME NEW u \in Banked PROVE Guarded(u)'
  <2>1. Guarded(u) /\ u \in Payouts
    BY WithdrawalsArePayouts DEF OfframpInv
  <2>2. HasPosted(u, "release")' => GivenUp(u)'
    <3>1. HasPosted(u, "release")' => GivenUp(u)
      BY <1>2, <2>1 DEF Guarded, LifeOps
    <3>2. QED
      BY <1>3, <2>1, <3>1, GroundsLast
  <2>3. HasPosted(u, "lock") => HasPosted(u, "lock")'
    BY <1>2, <2>1 DEF LifeOps
  <2>4. stl[u].status = "confirmed" =>
          meta[u].stellarConfirmed \/ \E q \in Procs : pc'[q] = "leg.patch" /\ cur'[q] = u
    BY <2>1 DEF Guarded, Apart
  <2>5. QED
    BY <2>1, <2>2, <2>3, <2>4 DEF Guarded
<1>8. QED
  BY <1>4, <1>5, <1>6, <1>7 DEF OfframpInv

\* A call posts, finds its posting, or throws.
LEMMA LedgerCallKeepsOff ==
  ASSUME OfframpInv, NEW p \in Procs, NEW t \in Payouts, t = cur[p], amt[p] # 0,
         pc[p] \notin {"idle", "leg.patch"}, NEW op \in LifeOps,
         NEW l \in {"lock.patch", "fin.patch", "rel.patch"},
         LedgerCall(p, op, l, cont[p].err), UNCHANGED <<tx, order, stellarVars, offVars>>,
         op = "finalize" => Delivered(t), op = "release" /\ t \in Banked => GivenUp(t),
         GoesOn(p, l, st[p], hash[p]) /\ HasPosted(t, op)' => Acting(p)'
  PROVE  OfframpInv'
<1>1. OffLocal /\ l \in OffLabels /\ amt[p] \in Amounts
  BY DEF OfframpInv, OffLocal, OffLabels, Locking, Finalizing, Releasing
<1>2. UNCHANGED <<tx, order, stl, chain, st, hash, meta>>
  BY DEF stellarVars, offVars
<1>3. CASE Goto(p, l) /\ UNCHANGED <<cur, row, amt, cont>> /\ HasPosted(t, op) /\ ledger' = ledger
  <2>1. GoesOn(p, l, st[p], hash[p])
    BY <1>1, <1>2, <1>3, GotoGoesOn
  <2>2. Calmly
    BY <1>2, <1>3 DEF Calmly
  <2>3. HasPosted(t, op)'
    BY <1>3, <2>2, CalmFacts
  <2>4. QED
    BY <1>2, <2>1, <2>2, <2>3, QuietKeepsOff DEF GoesOn, Steps
<1>4. CASE /\ ~HasPosted(t, op) /\ Covers(op, ledger.rows[Org].bal, amt[p])
           /\ ledger' = Post(ledger, PayoutLeg(t, op, amt[p]))
           /\ Goto(p, l) /\ UNCHANGED <<cur, row, amt, cont>>
  <2>1. GoesOn(p, l, st[p], hash[p])
    BY <1>1, <1>2, <1>4, GotoGoesOn
  <2>2. Apart(p) /\ OffLocal'
    BY <2>1 DEF GoesOn, Steps
  <2>3. PICK a \in Amounts : a = amt[p]
    BY <1>1
  <2>4. QED
    BY <1>2, <1>4, <2>1, <2>2, <2>3, PostingKeepsOff
<1>5. CASE Return(p, cont[p].err) /\ ledger' = ledger
  BY <1>2, <1>5, ReturnSteps, QuietKeepsOff DEF Calmly
<1>6. QED
  BY <1>3, <1>4, <1>5 DEF LedgerCall

LEMMA LockPostKeepsOff ==
  ASSUME OfframpInv, NEW p \in Procs, LockPost(p), UNCHANGED <<order, stellarVars, offVars>>
  PROVE  OfframpInv'
<1>1. PICK t \in Payouts : t = cur[p]
  BY DEF OfframpInv, Acting, LockPost
<1>2. Acting(p) /\ pc[p] = "lock.post"
  BY DEF OfframpInv, LockPost
<1>3. amt[p] # 0 /\ cont[p] \in OffCreation
  BY <1>2 DEF Acting, Locking
<1>4. ASSUME GoesOn(p, "lock.patch", st[p], hash[p]), HasPosted(t, "lock")' PROVE Acting(p)'
  BY <1>1, <1>3, <1>4, ActsLocking DEF GoesOn, Steps, Locking
<1>5. LedgerCall(p, "lock", "lock.patch", cont[p].err) /\ tx' = tx
  BY DEF LockPost
<1>6. QED
  BY <1>1, <1>2, <1>3, <1>4, <1>5, LedgerCallKeepsOff DEF LifeOps

LEMMA FinalizePostKeepsOff ==
  ASSUME OfframpInv, NEW p \in Procs, FinalizePost(p), UNCHANGED <<order, stellarVars, offVars>>
  PROVE  OfframpInv'
<1>1. PICK t \in Payouts : t = cur[p]
  BY DEF OfframpInv, Acting, FinalizePost
<1>2. Acting(p) /\ pc[p] = "fin.post"
  BY DEF OfframpInv, FinalizePost
<1>3. amt[p] # 0 /\ cont[p] \in OffSettled /\ Delivered(t)
  BY <1>1, <1>2 DEF Acting, Finalizing
<1>4. ASSUME GoesOn(p, "fin.patch", st[p], hash[p]) PROVE Acting(p)'
  BY <1>1, <1>3, <1>4, ActsFinalizing DEF GoesOn, Steps, Finalizing
<1>5. LedgerCall(p, "finalize", "fin.patch", cont[p].err) /\ tx' = tx
  BY DEF FinalizePost
<1>6. QED
  BY <1>1, <1>2, <1>3, <1>4, <1>5, LedgerCallKeepsOff DEF LifeOps

LEMMA ReleasePostKeepsOff ==
  ASSUME OfframpInv, NEW p \in Procs, ReleasePost(p), UNCHANGED <<order, stellarVars, offVars>>
  PROVE  OfframpInv'
<1>1. PICK t \in Payouts : t = cur[p]
  BY DEF OfframpInv, Acting, ReleasePost
<1>2. Acting(p) /\ pc[p] = "rel.post"
  BY DEF OfframpInv, ReleasePost
<1>3. amt[p] # 0 /\ cont[p] = Idle /\ (t \in Banked => GivenUp(t))
  BY <1>1, <1>2 DEF Acting, Releasing
<1>4. ASSUME GoesOn(p, "rel.patch", st[p], hash[p]) PROVE Acting(p)'
  BY <1>1, <1>3, <1>4, ActsReleasing DEF GoesOn, Steps, Releasing
<1>5. LedgerCall(p, "release", "rel.patch", cont[p].err) /\ tx' = tx
  BY DEF ReleasePost
<1>6. QED
  BY <1>1, <1>2, <1>3, <1>4, <1>5, LedgerCallKeepsOff DEF LifeOps

LEMMA LifeStepKeepsOff ==
  ASSUME OfframpInv, NEW p \in Procs, LifeStep(p), UNCHANGED <<order, stellarVars, offVars>>
  PROVE  OfframpInv'
BY LockLoadKeepsOff, LockPostKeepsOff, PatchesKeepOff, FinalizeLoadKeepsOff, FinalizePostKeepsOff,
   ReleaseLoadKeepsOff, ReleasePostKeepsOff DEF LifeStep

-----------------------------------------------------------------------------
(* Handlers that begin, and rows that are inserted or marked. *)

LEMMA InsertTxKeepsOff ==
  ASSUME OfframpInv, NEW p \in Procs, InsertTx(p), UNCHANGED <<stellarVars, offVars>>
  PROVE  OfframpInv'
<1>1. PICK t \in Payouts : t = cur[p]
  BY DEF OfframpInv, Acting, InsertTx
<1>2. OffLocal /\ Acting(p) /\ pc[p] = "insert" /\ tx \in [Payouts -> TxRow]
  BY DEF OfframpInv, OffShared, InsertTx
<1>3. tx' \in [Payouts -> TxRow] /\ RowsCalm
  <2>1. PICK r : r = [NoTx EXCEPT !.status = InitialStatus(t), !.ext = p]
    OBVIOUS
  <2>2. r \in TxRow /\ ~LockedRow(r)
    BY <2>1 DEF NoTx, TxRow, LockedRow, InitialStatus
  <2>3. tx' = IF tx[t] = NoTx THEN [tx EXCEPT ![t] = r] ELSE tx
    BY <1>1, <2>1 DEF InsertTx
  <2>4. CASE tx' = tx
    BY <1>2, <2>4 DEF RowsCalm
  <2>5. CASE tx' = [tx EXCEPT ![t] = r]
    BY <2>2, <2>5, PatchRowsCalm
  <2>6. QED
    BY <2>3, <2>4, <2>5
<1>4. Calmly /\ UNCHANGED <<meta, st, hash>>
  BY DEF InsertTx, Calmly, stellarVars, offVars
<1>5. MetaCalm /\ meta' \in [Payouts -> [offRamp : BOOLEAN, stellarConfirmed : BOOLEAN]]
  BY <1>4 DEF MetaCalm, OfframpInv, OffShared
<1>6. CASE Finish(p)
  BY <1>2, <1>3, <1>4, <1>5, <1>6, FinishSteps, ActsIdle, CalmKeeps DEF Steps
<1>7. CASE Goto(p, "lock.load") /\ UNCHANGED <<cur, row, amt, cont>>
  <2>1. GoesOn(p, "lock.load", st[p], hash[p])
    BY <1>2, <1>4, <1>7, GotoGoesOn DEF OffLabels, Locking
  <2>2. cont[p] \in OffCreation
    BY <1>2 DEF Acting
  <2>3. Acting(p)'
    BY <1>1, <2>1, <2>2, ActsLocking DEF GoesOn, Steps, Locking
  <2>4. QED
    BY <1>2, <1>3, <1>4, <1>5, <2>1, <2>3, CalmKeeps DEF GoesOn, Steps
<1>8. QED
  BY <1>6, <1>7 DEF InsertTx

\* A row gets another status and nothing else.
LEMMA StatusRow ==
  ASSUME OfframpInv, NEW t \in Payouts, NEW s \in {"failed", "processing", "settled"},
         tx' = [tx EXCEPT ![t].status = s]
  PROVE  tx' \in [Payouts -> TxRow] /\ RowsCalm
<1>1. tx[t] \in TxRow
  BY DEF OfframpInv, OffShared
<1>2. PICK r : r = [tx[t] EXCEPT !.status = s]
  OBVIOUS
<1>3. r \in TxRow /\ (LockedRow(r) => LockedRow(tx[t]))
  BY <1>1, <1>2 DEF TxRow, LockedRow
<1>4. tx' = [tx EXCEPT ![t] = r]
  BY <1>2
<1>5. QED
  BY <1>3, <1>4, PatchRowsCalm

\* The steps that write such a row and end, or go on to the next row.
LEMMA StatusKeepsOff ==
  ASSUME OfframpInv, NEW p \in Procs, pc[p] # "idle",
         \/ LockFailed(p) /\ UNCHANGED <<stellarVars, offVars>>
         \/ ProvAwaitRetry(p) \/ PaidPatch(p) \/ UnpaidPatch(p)
  PROVE  OfframpInv'
<1>1. PICK t \in Payouts : t = cur[p]
  BY DEF OfframpInv, Acting
<1>2. PICK s \in {"failed", "processing", "settled"} : tx' = [tx EXCEPT ![t].status = s]
  BY <1>1 DEF LockFailed, ProvAwaitRetry, PaidPatch, UnpaidPatch
<1>3. tx' \in [Payouts -> TxRow] /\ RowsCalm
  BY <1>2, StatusRow
<1>4. Calmly /\ meta' = meta /\ pc[p] # "leg.patch"
  BY DEF LockFailed, ProvAwaitRetry, PaidPatch, UnpaidPatch, Calmly, stellarVars, offVars
<1>5. MetaCalm /\ meta' \in [Payouts -> [offRamp : BOOLEAN, stellarConfirmed : BOOLEAN]]
  BY <1>4 DEF MetaCalm, OfframpInv, OffShared
<1>6. OffLocal
  BY DEF OfframpInv
<1>7. CASE Steps(p, "idle")
  BY <1>3, <1>4, <1>5, <1>7, ActsIdle, CalmKeeps DEF Steps
<1>8. CASE LockFailed(p) /\ UNCHANGED <<stellarVars, offVars>>
  BY <1>6, <1>7, <1>8, FinishSteps DEF LockFailed, stellarVars
<1>9. CASE ProvAwaitRetry(p) \/ PaidPatch(p)
  BY <1>6, <1>7, <1>9, EndSteps DEF ProvAwaitRetry, PaidPatch
<1>10. CASE UnpaidPatch(p)
  <2>1. GoesOn(p, "unpaid.prov", st[p], hash[p])
    BY <1>6, <1>10, OnwardGoesOn DEF UnpaidPatch, OffLabels, WebhookLabels
  <2>2. Acting(p)'
    BY <1>1, <2>1, ActsFree DEF GoesOn, Steps, WebhookLabels
  <2>3. QED
    BY <1>3, <1>4, <1>5, <2>1, <2>2, CalmKeeps DEF GoesOn, Steps
<1>11. QED
  BY <1>8, <1>9, <1>10

\* The off-ramp does not order through createPayout.
LEMMA StepKeepsOff ==
  ASSUME OfframpInv, NEW p \in Procs, Step(p), UNCHANGED <<stellarVars, offVars>>
  PROVE  OfframpInv'
<1>1. pc[p] \in OffLabels
  BY DEF OfframpInv, OffLocal
<1>2. ~Submit(p) /\ ~Submitted(p)
  BY <1>1 DEF Submit, Submitted, OffLabels, Locking, Finalizing, Releasing, SendingCrypto, Settle,
              BeforeReceipt, AfterReceipt, WebhookLabels
<1>3. CASE LockFailed(p)
  BY <1>3, StatusKeepsOff DEF LockFailed
<1>4. QED
  BY <1>2, <1>3, LifeStepKeepsOff, InsertTxKeepsOff DEF Step

\* createPayout.
LEMMA CreateKeepsOff ==
  ASSUME OfframpInv, NEW p \in Procs, NEW t \in Payouts, UNCHANGED <<stellarVars, offVars>>,
         OfframpCreate(p, t) \/ (CreateFind(p, t) /\ t \notin Banked)
  PROVE  OfframpInv'
<1>1. PICK c \in OffCreation :
        Call(p, t, "insert", c) /\ UNCHANGED <<ledger, tx, row, amt, order>> /\ pc[p] = "idle"
  BY DEF OfframpCreate, CreateFind, OffCreation, ViaProvider
<1>2. CallsOff(p, "insert", t, c)
  <2>1. "insert" \in OffLabels /\ OffLocal
    BY DEF OffLabels, OfframpInv
  <2>2. UNCHANGED <<st, hash>>
    BY DEF stellarVars
  <2>3. QED
    BY <1>1, <2>1, <2>2, CallSteps
<1>3. Acting(p)'
  BY <1>2, ActsLocking DEF CallsOff, Steps, Locking
<1>4. QED
  BY <1>1, <1>2, <1>3, QuietKeepsOff DEF CallsOff, Steps, Calmly, stellarVars, offVars

\* A withdrawal that settleFiatOfframp or the retry takes up has a lock.
LEMMA SettleStartKeepsOff ==
  ASSUME OfframpInv, NEW p \in Procs, NEW t \in Payouts,
         settleFiatOfframp(p, t) \/ retryFiatOfframpProvider(p, t)
  PROVE  OfframpInv'
<1>1. /\ pc[p] = "idle" /\ p \in Settlers /\ t \in Banked
      /\ Call(p, t, "off.rail", Idle) /\ amt' = [amt EXCEPT ![p] = tx[t].usdc]
      /\ UNCHANGED <<ledger, tx, row, order, stellarVars, meta>>
  BY DEF settleFiatOfframp, retryFiatOfframpProvider, offVars
<1>2. OffLocal /\ tx[t] \in TxRow /\ Honest(t) /\ Guarded(t)
  BY <1>1 DEF OfframpInv, OffShared
<1>3. HasPosted(t, "lock")
  <2>1. CASE settleFiatOfframp(p, t)
    <3>1. LockedRow(tx[t])
      BY <1>2, <2>1, AmountsAssumption DEF settleFiatOfframp, OfframpLocked, LockedRow, TxRow
    <3>2. QED
      BY <1>2, <3>1 DEF Honest
  <2>2. CASE retryFiatOfframpProvider(p, t)
    BY <1>2, <2>2 DEF retryFiatOfframpProvider, Guarded
  <2>3. QED
    BY <2>1, <2>2
<1>4. CallsOff(p, "off.rail", t, Idle)
  <2>1. "off.rail" \in OffLabels /\ Idle \in OffSettled /\ tx[t].usdc \in Amounts \cup {0}
    BY <1>2 DEF OffLabels, Settle, OffSettled, TxRow
  <2>2. UNCHANGED <<st, hash>>
    BY <1>1 DEF stellarVars
  <2>3. QED
    BY <1>1, <1>2, <2>1, <2>2, CallSteps
<1>5. Calmly /\ UNCHANGED <<tx, meta>>
  BY <1>1 DEF Calmly, stellarVars
<1>6. HasPosted(t, "lock")'
  BY <1>3, <1>5, CalmFacts DEF LifeOps
<1>7. Acting(p)'
  <2>1. Settles(p, t)'
    BY <1>1, <1>4, <1>6 DEF CallsOff, Steps, Settles, BeforeReceipt, AfterReceipt
  <2>2. QED
    BY <1>4, <2>1, ActsSettling DEF CallsOff, Steps, Settle
<1>8. QED
  BY <1>1, <1>4, <1>5, <1>7, QuietKeepsOff DEF CallsOff, Steps

\* Whoever has an order has received the money, and knows it.
LEMMA OrderedIsReceived ==
  ASSUME OfframpInv, NEW t \in Payouts, NEW q \in Procs, order[t][q] # "none"
  PROVE  /\ t \in Banked /\ Received(t) /\ HasPosted(t, "lock")
         /\ meta[t].stellarConfirmed /\ meta[t].offRamp /\ stl[t].status = "confirmed"
<1>1. t \in Banked /\ meta[t].stellarConfirmed
  BY DEF OfframpInv, Honest
<1>2. stl[t].status = "confirmed" /\ meta[t].offRamp /\ HasPosted(t, "lock")
  BY <1>1 DEF OfframpInv, Guarded
<1>3. StateIs(t, stl[t].ref, "landed")
  BY <1>2 DEF OfframpInv, Honest
<1>4. QED
  BY <1>1, <1>2, <1>3 DEF Received, Landed, StateIs

\* The webhooks: a success finds the payout delivered, a failure does not release it.
LEMMA WebhooksKeepOff ==
  ASSUME OfframpInv, NEW p \in Procs, NEW t \in Payouts, OfframpSuccess(p, t) \/ OfframpFailure(p, t)
  PROVE  OfframpInv'
<1>1. /\ pc[p] = "idle" /\ UNCHANGED <<ledger, tx, row, amt, order, stellarVars, offVars>>
      /\ Notified(t)
  BY DEF OfframpSuccess, OfframpFailure
<1>2. PICK q \in Procs : q = tx[t].ext
  BY <1>1 DEF Notified, OfframpInv, OffShared, TxRow
<1>3. order[t][q] \in {"paid", "failed"}
  BY <1>1, <1>2 DEF Notified
<1>4. t \in Banked /\ Received(t) /\ meta[t].stellarConfirmed /\ meta[t].offRamp
  BY <1>3, OrderedIsReceived
<1>5. OffLocal /\ Calmly /\ UNCHANGED <<tx, meta, st, hash, row, amt>>
  BY <1>1 DEF OfframpInv, Calmly, stellarVars, offVars
<1>6. CASE OfframpSuccess(p, t)
  <2>1. PICK c \in OffSettled : Call(p, t, "fin.load", c)
    BY <1>6 DEF OfframpSuccess, OffSettled, Idle
  <2>2. CallsOff(p, "fin.load", t, c)
    BY <1>5, <2>1, CallSteps DEF OffLabels, Finalizing
  <2>3. Delivered(t)
    BY <1>2, <1>4, <1>6 DEF OfframpSuccess, Delivered, Orders
  <2>4. Acting(p)'
    BY <1>5, <2>2, <2>3, CalmFacts, ActsFinalizing DEF CallsOff, Steps, Finalizing
  <2>5. QED
    BY <1>1, <1>5, <2>2, <2>4, QuietKeepsOff DEF CallsOff, Steps
<1>7. CASE OfframpFailure(p, t)
  <2>1. Call(p, t, "unpaid.patch", Idle)
    BY <1>4, <1>7 DEF OfframpFailure
  <2>2. CallsOff(p, "unpaid.patch", t, Idle)
    BY <1>5, <2>1, CallSteps DEF OffLabels, WebhookLabels, OffSettled
  <2>3. Acting(p)'
    BY <2>2, ActsFree DEF CallsOff, Steps, WebhookLabels
  <2>4. QED
    BY <1>1, <1>5, <2>2, <2>3, QuietKeepsOff DEF CallsOff, Steps
<1>8. QED
  BY <1>6, <1>7

LEMMA StopKeepsOff ==
  ASSUME OneSettler, OfframpInv, NEW p \in Procs, OfframpStop(p)
  PROVE  OfframpInv'
<1>1. pc[p] # "leg.patch" /\ Steps(p, "idle")
  BY EndSteps DEF OneSettler, OfframpStop, OfframpInv
<1>2. QED
  BY <1>1, EndKeepsOff DEF OfframpStop, Calmly

-----------------------------------------------------------------------------
(* Settlement rows, payments and orders that change. *)

\* Who is about to patch the metadata of a receipt stays so.
PatchersStay == \A q \in Procs : pc[q] = "leg.patch" => pc'[q] = pc[q] /\ cur'[q] = cur[q]

\* The row of a crypto payout, or of a withdrawal that was not received yet.
LEMMA RowKeeps ==
  ASSUME OneSettler, OfframpInv, NEW p \in Procs, pc[p] # "leg.patch",
         NEW t \in Payouts, NEW s \in SettlementRow, stl' = [stl EXCEPT ![t] = s],
         UNCHANGED <<ledger, tx, order, chain, meta>>,
         s.ref = 0 \/ s.ref \in 1..Len(chain[t]),
         s.status = "confirmed" => StateIs(t, s.ref, "landed"),
         t \in Banked =>
           /\ p \in Settlers /\ stl[t].status # "confirmed"
           /\ stl[t].ref # 0 => s.ref = stl[t].ref
           /\ s.status = "confirmed" => pc'[p] = "leg.patch" /\ cur'[p] = t,
         Apart(p), OffLocal', Acting(p)'
  PROVE  OfframpInv'
<1>1. OffShared
  BY DEF OfframpInv
<1>2. /\ stl \in [Payouts -> SettlementRow] /\ stl' \in [Payouts -> SettlementRow]
      /\ stl'[t] = s /\ \A u \in Payouts : u # t => stl'[u] = stl[u]
  BY <1>1 DEF OffShared
<1>3. \A u \in Payouts, op \in LifeOps : HasPosted(u, op)' = HasPosted(u, op)
  BY DEF HasPosted
<1>4. Lasts
  BY <1>2, <1>3 DEF Lasts
<1>5. ASSUME NEW q \in Procs PROVE Acting(q)'
  <2>1. CASE q = p
    BY <2>1
  <2>2. CASE q # p
    <3>1. ASSUME q \in Settlers, NEW u \in Banked PROVE stl'[u] = stl[u]
      BY <1>2, <2>2, <3>1, WithdrawalsArePayouts DEF OneSettler
    <3>2. QED
      BY <1>4, <2>2, <3>1, HandlerStays DEF Apart
  <2>3. QED
    BY <2>1, <2>2
<1>6. OffShared'
  <2>1. LedgerSound'
    BY <1>1 DEF OffShared, LedgerSound, SlotsAreKeys
  <2>2. QED
    BY <1>1, <1>2, <2>1 DEF OffShared
<1>7. ASSUME NEW u \in Payouts PROVE Honest(u)'
  <2>1. Honest(u)
    BY DEF OfframpInv
  <2>2. HasPosted(u, "finalize")' => Delivered(u)'
    BY <1>3, <1>4, <2>1, GroundsLast DEF Honest, LifeOps
  <2>3. HasPosted(u, "lock")' = HasPosted(u, "lock")
    BY <1>3 DEF LifeOps
  <2>4. /\ stl'[u].ref = 0 \/ stl'[u].ref \in 1..Len(chain[u])
        /\ stl'[u].status = "confirmed" => StateIs(u, stl'[u].ref, "landed")
    BY <1>2, <2>1 DEF Honest
  <2>5. stl'[u].status = "confirmed" => StateIs(u, stl[u].ref, "landed")'
    BY <2>4 DEF StateIs
  <2>6. QED
    BY <2>1, <2>2, <2>3, <2>4, <2>5 DEF Honest
<1>8. ASSUME NEW u \in Banked PROVE Guarded(u)'
  <2>1. Guarded(u) /\ Honest(u) /\ u \in Payouts
    BY WithdrawalsArePayouts DEF OfframpInv
  <2>2. HasPosted(u, "release")' => GivenUp(u)'
    BY <1>3, <1>4, <2>1, GroundsLast DEF Guarded, LifeOps
  <2>3. HasPosted(u, "lock")' = HasPosted(u, "lock")
    BY <1>3, <2>1 DEF LifeOps
  <2>4. \A i \in 1..Len(chain[u]) : chain[u][i].state # "signed" => i = stl'[u].ref
    <3>1. SUFFICES ASSUME NEW i \in 1..Len(chain[u]), chain[u][i].state # "signed"
                   PROVE  i = stl'[u].ref
      OBVIOUS
    <3>2. i = stl[u].ref /\ i # 0
      BY <2>1, <3>1 DEF Guarded
    <3>3. QED
      BY <1>2, <2>1, <3>2
  <2>5. meta[u].stellarConfirmed => stl'[u].status = "confirmed"
    <3>1. meta[u].stellarConfirmed => stl[u].status = "confirmed"
      BY <2>1 DEF Guarded
    <3>2. QED
      BY <1>2, <2>1, <3>1
  <2>6. stl'[u].status = "confirmed" =>
          meta[u].stellarConfirmed \/ \E q \in Procs : pc'[q] = "leg.patch" /\ cur'[q] = u
    <3>1. CASE u = t
      BY <1>2, <3>1
    <3>2. CASE u # t
      BY <1>2, <2>1, <3>2 DEF Guarded, Apart
    <3>3. QED
      BY <3>1, <3>2
  <2>7. QED
    BY <2>1, <2>2, <2>3, <2>4, <2>5, <2>6 DEF Guarded
<1>9. QED
  BY <1>5, <1>6, <1>7, <1>8 DEF OfframpInv

\* The payments of t grow, and those that were decided stay so.
Grows(ch, new) ==
  \A i \in 1..Len(ch) :
    /\ i \in 1..Len(new)
    /\ ch[i].state \in {"landed", "failed"} => new[i].state = ch[i].state
    /\ ch[i].doubt => new[i].doubt

LEMMA ChainLasts ==
  ASSUME OfframpInv, NEW t \in Payouts, NEW new, Grows(chain[t], new),
         chain' = [chain EXCEPT ![t] = new], UNCHANGED <<ledger, order, stl, meta>>
  PROVE  Lasts /\ chain'[t] = new /\ \A u \in Payouts : u # t => chain'[u] = chain[u]
<1>1. chain = [u \in Payouts |-> chain[u]]
  BY DEF OfframpInv, OffShared
<1>2. chain'[t] = new /\ \A u \in Payouts : u # t => chain'[u] = chain[u]
  BY <1>1
<1>3. \A u \in Payouts, op \in LifeOps : HasPosted(u, op)' = HasPosted(u, op)
  BY DEF HasPosted
<1>4. QED
  BY <1>2, <1>3 DEF Lasts, Grows

LEMMA ChainKeeps ==
  ASSUME OfframpInv, NEW t \in Payouts, NEW new, IsChain(new), Grows(chain[t], new),
         t \in Banked => \A i \in 1..Len(new) : new[i].state # "signed" => i = stl[t].ref,
         chain' = [chain EXCEPT ![t] = new], UNCHANGED <<ledger, tx, order, stl, meta>>,
         PatchersStay, OffLocal', \A q \in Procs : Acting(q)'
  PROVE  OfframpInv'
<1>1. OffShared
  BY DEF OfframpInv
<1>2. Lasts /\ chain'[t] = new /\ \A u \in Payouts : u # t => chain'[u] = chain[u]
  BY ChainLasts
<1>3. \A u \in Payouts, op \in LifeOps : HasPosted(u, op)' = HasPosted(u, op)
  BY DEF HasPosted
<1>4. OffShared'
  <2>1. LedgerSound'
    BY <1>1 DEF OffShared, LedgerSound, SlotsAreKeys
  <2>2. chain' = [u \in Payouts |-> chain'[u]]
    <3>1. chain = [u \in Payouts |-> chain[u]]
      BY <1>1 DEF OffShared
    <3>2. QED
      BY <3>1
  <2>3. \A u \in Payouts : IsChain(chain'[u])
    BY <1>1, <1>2 DEF OffShared
  <2>4. QED
    BY <1>1, <2>1, <2>2, <2>3 DEF OffShared
<1>5. ASSUME NEW u \in Payouts PROVE Honest(u)'
  <2>1. Honest(u)
    BY DEF OfframpInv
  <2>2. HasPosted(u, "finalize")' => Delivered(u)'
    BY <1>2, <1>3, <2>1, GroundsLast DEF Honest, LifeOps
  <2>3. HasPosted(u, "lock")' = HasPosted(u, "lock")
    BY <1>3 DEF LifeOps
  <2>4. PICK i : i = stl[u].ref
    OBVIOUS
  <2>5. stl[u].status = "confirmed" => StateIs(u, i, "landed")'
    BY <1>2, <2>1, <2>4, StateLasts DEF Honest
  <2>6. i = 0 \/ i \in 1..Len(chain'[u])
    BY <1>2, <2>1, <2>4 DEF Honest, Lasts
  <2>7. QED
    BY <2>1, <2>2, <2>3, <2>4, <2>5, <2>6 DEF Honest
<1>6. ASSUME NEW u \in Banked PROVE Guarded(u)'
  <2>1. Guarded(u) /\ u \in Payouts
    BY WithdrawalsArePayouts DEF OfframpInv
  <2>2. HasPosted(u, "release")' => GivenUp(u)'
    BY <1>2, <1>3, <2>1, GroundsLast DEF Guarded, LifeOps
  <2>3. HasPosted(u, "lock")' = HasPosted(u, "lock")
    BY <1>3, <2>1 DEF LifeOps
  <2>4. \A i \in 1..Len(chain'[u]) : chain'[u][i].state # "signed" => i = stl[u].ref
    BY <1>2, <2>1 DEF Guarded
  <2>5. stl[u].status = "confirmed" =>
          meta[u].stellarConfirmed \/ \E q \in Procs : pc'[q] = "leg.patch" /\ cur'[q] = u
    BY <2>1 DEF Guarded, PatchersStay
  <2>6. QED
    BY <2>1, <2>2, <2>3, <2>4, <2>5 DEF Guarded
<1>7. QED
  BY <1>4, <1>5, <1>6 DEF OfframpInv

\* A step of one handler that sends, or signs.
LEMMA SendKeeps ==
  ASSUME OfframpInv, NEW p \in Procs, pc[p] # "leg.patch",
         NEW t \in Payouts, NEW new, IsChain(new), Grows(chain[t], new),
         t \in Banked => \A i \in 1..Len(new) : new[i].state # "signed" => i = stl[t].ref,
         chain' = [chain EXCEPT ![t] = new], UNCHANGED <<ledger, tx, order, stl, meta>>,
         Apart(p), OffLocal', Acting(p)'
  PROVE  OfframpInv'
<1>1. Lasts
  BY ChainLasts
<1>2. ASSUME NEW q \in Procs PROVE Acting(q)'
  <2>1. CASE q = p
    BY <2>1
  <2>2. CASE q # p
    BY <1>1, <2>2, HandlerStays DEF Apart
  <2>3. QED
    BY <2>1, <2>2
<1>3. PatchersStay
  BY DEF PatchersStay, Apart
<1>4. QED
  BY <1>2, <1>3, ChainKeeps

\* Orders are placed for what was received, and what is paid stays so.
LEMMA OrderKeeps ==
  ASSUME OfframpInv, NEW t \in Payouts, NEW q \in Procs,
         NEW s \in {"none", "open", "paid", "failed"}, order' = [order EXCEPT ![t][q] = s],
         s # "none" => t \in Banked /\ meta[t].stellarConfirmed, order[t][q] = "paid" => s = "paid",
         UNCHANGED <<ledger, tx, stl, chain, meta>>,
         PatchersStay, OffLocal', Lasts => \A p \in Procs : Acting(p)'
  PROVE  OfframpInv'
<1>1. OffShared
  BY DEF OfframpInv
<1>2. order \in [Payouts -> [Procs -> {"none", "open", "paid", "failed"}]]
  BY <1>1 DEF OffShared
<1>3. order' \in [Payouts -> [Procs -> {"none", "open", "paid", "failed"}]]
  BY <1>2
<1>4. \A u \in Payouts, r \in Procs : order'[u][r] = IF u = t /\ r = q THEN s ELSE order[u][r]
  BY <1>2
<1>5. \A u \in Payouts, op \in LifeOps : HasPosted(u, op)' = HasPosted(u, op)
  BY DEF HasPosted
<1>6. Lasts
  BY <1>4, <1>5 DEF Lasts
<1>7. OffShared'
  <2>1. LedgerSound'
    BY <1>1 DEF OffShared, LedgerSound, SlotsAreKeys
  <2>2. QED
    BY <1>1, <1>3, <2>1 DEF OffShared
<1>8. ASSUME NEW u \in Payouts PROVE Honest(u)'
  <2>1. Honest(u)
    BY DEF OfframpInv
  <2>2. HasPosted(u, "finalize")' => Delivered(u)'
    BY <1>5, <1>6, <2>1, GroundsLast DEF Honest, LifeOps
  <2>3. HasPosted(u, "lock")' = HasPosted(u, "lock")
    BY <1>5 DEF LifeOps
  <2>4. stl[u].status = "confirmed" => StateIs(u, stl[u].ref, "landed")'
    BY <2>1 DEF Honest, StateIs
  <2>5. \A r \in Procs : order'[u][r] # "none" => u \in Banked /\ meta[u].stellarConfirmed
    BY <1>4, <2>1 DEF Honest
  <2>6. QED
    BY <2>1, <2>2, <2>3, <2>4, <2>5 DEF Honest
<1>9. ASSUME NEW u \in Banked PROVE Guarded(u)'
  <2>1. Guarded(u) /\ u \in Payouts
    BY WithdrawalsArePayouts DEF OfframpInv
  <2>2. HasPosted(u, "release")' => GivenUp(u)'
    BY <1>5, <1>6, <2>1, GroundsLast DEF Guarded, LifeOps
  <2>3. HasPosted(u, "lock")' = HasPosted(u, "lock")
    BY <1>5, <2>1 DEF LifeOps
  <2>4. stl[u].status = "confirmed" =>
          meta[u].stellarConfirmed \/ \E r \in Procs : pc'[r] = "leg.patch" /\ cur'[r] = u
    BY <2>1 DEF Guarded, PatchersStay
  <2>5. QED
    BY <2>1, <2>2, <2>3, <2>4 DEF Guarded
<1>10. QED
  BY <1>6, <1>7, <1>8, <1>9 DEF OfframpInv

-----------------------------------------------------------------------------
(* The network and the provider. *)

LEMMA NetworkKeeps ==
  ASSUME OfframpInv, NEW t \in Payouts, NEW i \in 1..Len(chain[t]), NetworkResolves(t, i),
         UNCHANGED offVars
  PROVE  OfframpInv'
<1>1. IsChain(chain[t]) /\ chain[t][i].state = "sent"
  BY DEF OfframpInv, OffShared, NetworkResolves
<1>2. PICK new \in Resolutions(chain[t], i, Used) : chain' = [chain EXCEPT ![t] = new]
  BY DEF NetworkResolves
<1>3. /\ IsChain(new) /\ Len(new) = Len(chain[t]) /\ new[i].state \in {"landed", "failed"}
      /\ \A j \in 1..Len(chain[t]) : j # i => new[j] = chain[t][j]
  BY <1>1, ChainResolve
<1>4. Grows(chain[t], new)
  <2>1. new[i].doubt = chain[t][i].doubt
    BY <1>1, ChainResolve
  <2>2. QED
    BY <1>1, <1>3, <2>1 DEF Grows
<1>5. t \in Banked => \A j \in 1..Len(new) : new[j].state # "signed" => j = stl[t].ref
  BY <1>1, <1>3 DEF OfframpInv, Guarded
<1>6. /\ UNCHANGED <<ledger, tx, order, stl, meta>>
      /\ UNCHANGED <<pc, cur, row, amt, cont, st, hash>>
  BY DEF NetworkResolves, vars, offVars
<1>7. Lasts
  BY <1>2, <1>4, <1>6, ChainLasts
<1>8. \A q \in Procs : Acting(q)'
  BY <1>6, <1>7, HandlerStays
<1>9. OffLocal'
  BY <1>6 DEF OfframpInv, OffLocal
<1>10. QED
  BY <1>2, <1>3, <1>4, <1>5, <1>6, <1>8, <1>9, ChainKeeps DEF PatchersStay

LEMMA ProviderKeepsOff ==
  ASSUME OfframpInv, NEW t \in Payouts, NEW q \in Procs, NEW o \in {"paid", "failed"},
         ProviderEnds(t, q, o), UNCHANGED <<stellarVars, offVars>>
  PROVE  OfframpInv'
<1>1. order[t][q] = "open" /\ order' = [order EXCEPT ![t][q] = o]
  BY DEF ProviderEnds
<1>2. t \in Banked /\ meta[t].stellarConfirmed
  BY <1>1, OrderedIsReceived
<1>3. UNCHANGED <<ledger, tx, stl, chain, meta>> /\ UNCHANGED <<pc, cur, row, amt, cont, st, hash>>
  BY DEF ProviderEnds, lifeVars, stellarVars, offVars
<1>4. Lasts => \A p \in Procs : Acting(p)'
  BY <1>3, HandlerStays
<1>5. OffLocal'
  BY <1>3 DEF OfframpInv, OffLocal
<1>6. QED
  BY <1>1, <1>2, <1>3, <1>4, <1>5, OrderKeeps DEF PatchersStay

-----------------------------------------------------------------------------
(* Crypto payouts. *)

\* The next step of one that is being sent.
LEMMA SendsOn ==
  ASSUME NEW p \in Procs, NEW t \in Payouts \ Banked, NEW l \in SendingCrypto, NEW s, NEW h,
         GoesOn(p, l, s, h), cur[p] = t,
         l = "stl.recheck" => s.ref \in 1..Len(chain'[t]),
         l \in {"stl.submitted", "stl.landed", "stl.verify", "stl.confirm"} => h \in 1..Len(chain'[t]),
         l \in {"stl.landed", "stl.confirm"} => StateIs(t, h, "landed")'
  PROVE  Acting(p)'
<1>1. pc'[p] = l /\ st'[p] = s /\ hash'[p] = h /\ cur'[p] = t
  BY DEF GoesOn, Steps
<1>2. l \in {"stl.landed", "stl.confirm"} => StateIs(t, hash[p], "landed")'
  BY <1>1 DEF StateIs
<1>3. Sends(p, t)'
  BY <1>1, <1>2 DEF Sends
<1>4. QED
  BY <1>1, <1>3, ActsSending

LEMMA SendingLabels == SendingCrypto \subseteq OffLabels /\ "idle" \notin SendingCrypto
BY DEF SendingCrypto, OffLabels

LEMMA SendStartKeepsOff ==
  ASSUME OneSettler, OfframpInv, NEW p \in Procs, NEW t \in Payouts, UNCHANGED offVars,
         settlePayoutOnStellar(p, t) \/ (t \in ConfirmCalls /\ confirmStellarSettlement(p, t))
  PROVE  OfframpInv'
<1>1. /\ pc[p] = "idle" /\ t \notin Banked /\ UNCHANGED <<ledger, tx, row, order, stl, chain, meta>>
      /\ OffLocal /\ tx[t] \in TxRow /\ Honest(t) /\ Calmly
  BY DEF OneSettler, settlePayoutOnStellar, confirmStellarSettlement, OfframpInv, OffShared,
         stellarVars, offVars, Calmly
<1>2. PICK l \in {"stl.find", "stl.verify"} :
        /\ CallsOff(p, l, t, Idle)
        /\ l = "stl.verify" => hash'[p] \in 1..Len(chain[t])
  <2>1. Idle \in OffSettled /\ "stl.find" \in OffLabels /\ "stl.verify" \in OffLabels
    BY DEF OffSettled, OffLabels, SendingCrypto
  <2>2. CASE settlePayoutOnStellar(p, t)
    <3>1. /\ Call(p, t, "stl.find", Idle) /\ UNCHANGED <<row, st, hash>>
          /\ amt' = [amt EXCEPT ![p] = tx[t].usdc]
      BY <2>2 DEF settlePayoutOnStellar, stellarVars
    <3>2. tx[t].usdc \in Amounts \cup {0}
      BY <1>1 DEF TxRow
    <3>3. CallsOff(p, "stl.find", t, Idle)
      BY <1>1, <2>1, <3>1, <3>2, CallSteps
    <3>4. QED
      BY <3>3
  <2>3. CASE t \in ConfirmCalls /\ confirmStellarSettlement(p, t)
    <3>1. PICK h : h = stl[t].ref
      OBVIOUS
    <3>2. /\ Call(p, t, "stl.verify", Idle) /\ UNCHANGED <<row, amt, st>>
          /\ hash' = [hash EXCEPT ![p] = h] /\ h # 0
      BY <2>3, <3>1 DEF confirmStellarSettlement
    <3>3. h \in 1..Len(chain[t]) /\ h \in Nat
      BY <1>1, <3>1, <3>2 DEF Honest
    <3>4. CallsOff(p, "stl.verify", t, Idle)
      BY <1>1, <2>1, <3>2, <3>3, CallSteps
    <3>5. hash'[p] = h
      BY <1>1, <3>2 DEF OffLocal
    <3>6. QED
      BY <3>3, <3>4, <3>5
  <2>4. QED
    BY <2>2, <2>3
<1>3. Sends(p, t)'
  BY <1>1, <1>2 DEF CallsOff, Steps, Sends
<1>4. Acting(p)'
  BY <1>2, <1>3, ActsSending DEF CallsOff, Steps, SendingCrypto
<1>5. QED
  BY <1>1, <1>2, <1>4, QuietKeepsOff DEF CallsOff, Steps

\* The steps that look and write nothing.
LEMMA StlLooksKeepOff ==
  ASSUME OfframpInv, NEW p \in Procs, StlFind(p) \/ StlRecheck(p) \/ StlVerify(p), UNCHANGED offVars
  PROVE  OfframpInv'
<1>1. pc[p] \in SendingCrypto /\ pc[p] # "leg.patch"
  BY DEF StlFind, StlRecheck, StlVerify, SendingCrypto
<1>2. PICK t \in Payouts \ Banked : t = cur[p] /\ Sends(p, t)
  BY <1>1, SenderActs
<1>3. /\ OffLocal /\ Calmly /\ UNCHANGED <<ledger, tx, order, stl, chain, meta>>
      /\ stl[t] \in SettlementRow /\ Honest(t) /\ IsChain(chain[t])
      /\ st[p] \in SettlementRow /\ hash[p] \in Nat
  BY DEF StlFind, StlRecheck, StlVerify, OfframpInv, OffShared, OffLocal, Calmly, offVars
<1>4. CASE End(p)
  BY <1>1, <1>3, <1>4, EndSteps, EndKeepsOff
<1>5. ASSUME NEW l \in SendingCrypto, NEW s, NEW h, GoesOn(p, l, s, h),
             l = "stl.recheck" => s.ref \in 1..Len(chain[t]),
             l \in {"stl.submitted", "stl.landed", "stl.verify", "stl.confirm"} =>
               h \in 1..Len(chain[t]),
             l \in {"stl.landed", "stl.confirm"} => StateIs(t, h, "landed")
      PROVE  OfframpInv'
  <2>1. l \in {"stl.landed", "stl.confirm"} => StateIs(t, h, "landed")'
    BY <1>3, <1>5 DEF StateIs
  <2>2. Acting(p)'
    BY <1>2, <1>3, <1>5, <2>1, SendsOn
  <2>3. QED
    BY <1>1, <1>3, <1>5, <2>2, QuietKeepsOff DEF GoesOn, Steps
<1>6. CASE StlFind(p) /\ ~End(p)
  <2>1. PICK l \in {"stl.recheck", "stl.insert"} :
          /\ st' = [st EXCEPT ![p] = stl[t]] /\ hash' = hash
          /\ Continue(p, l) /\ (l = "stl.recheck" => stl[t].ref # 0)
    BY <1>2, <1>6 DEF StlFind
  <2>2. l \in SendingCrypto /\ l \in OffLabels
    BY <2>1 DEF SendingCrypto, OffLabels
  <2>3. GoesOn(p, l, stl[t], hash[p])
    BY <1>3, <2>1, <2>2, ContinueGoesOn
  <2>4. l = "stl.recheck" => stl[t].ref \in 1..Len(chain[t])
    BY <1>3, <2>1 DEF Honest
  <2>5. QED
    BY <1>5, <2>1, <2>2, <2>3, <2>4
<1>7. CASE StlRecheck(p)
  <2>1. PICK h : h = st[p].ref
    OBVIOUS
  <2>2. h \in 1..Len(chain[t]) /\ h \in Nat
    BY <1>2, <1>7, <2>1 DEF Sends, StlRecheck
  <2>3. PICK answer \in verifyUsdcPayment(chain[t], h) :
          IF answer = "SUCCESS" THEN Continue(p, "stl.confirm") /\ hash' = [hash EXCEPT ![p] = h]
          ELSE Continue(p, "stl.insert") /\ hash' = hash
    BY <1>2, <1>7, <2>1 DEF StlRecheck
  <2>4. st' = st /\ {"stl.confirm", "stl.insert"} \subseteq OffLabels
    BY <1>7 DEF StlRecheck, OffLabels, SendingCrypto
  <2>5. CASE answer = "SUCCESS"
    <3>1. StateIs(t, h, "landed")
      BY <1>3, <2>2, <2>5, VerifyTells DEF StateIs
    <3>2. GoesOn(p, "stl.confirm", st[p], h)
      BY <1>3, <2>2, <2>3, <2>4, <2>5, ContinueGoesOn
    <3>3. QED
      BY <1>5, <2>2, <3>1, <3>2 DEF SendingCrypto
  <2>6. CASE answer # "SUCCESS"
    <3>1. GoesOn(p, "stl.insert", st[p], hash[p])
      BY <1>3, <2>3, <2>4, <2>6, ContinueGoesOn
    <3>2. QED
      BY <1>5, <3>1 DEF SendingCrypto
  <2>7. QED
    BY <2>5, <2>6
<1>8. CASE StlVerify(p) /\ ~End(p)
  <2>1. PICK h : h = hash[p]
    OBVIOUS
  <2>2. h \in 1..Len(chain[t])
    BY <1>2, <1>8, <2>1 DEF Sends, StlVerify
  <2>3. PICK answer \in verifyUsdcPayment(chain[t], h) :
          /\ UNCHANGED <<st, hash>>
          /\ \/ answer = "SUCCESS" /\ Continue(p, "stl.confirm")
             \/ answer = "FAILED" /\ Continue(p, "stl.failed")
    BY <1>2, <1>8, <2>1 DEF StlVerify
  <2>4. {"stl.confirm", "stl.failed"} \subseteq OffLabels
    BY DEF OffLabels, SendingCrypto
  <2>5. CASE answer = "SUCCESS" /\ Continue(p, "stl.confirm")
    <3>1. StateIs(t, h, "landed")
      BY <1>3, <2>2, <2>5, VerifyTells DEF StateIs
    <3>2. GoesOn(p, "stl.confirm", st[p], h)
      BY <1>3, <2>1, <2>3, <2>4, <2>5, ContinueGoesOn
    <3>3. QED
      BY <1>5, <2>2, <3>1, <3>2 DEF SendingCrypto
  <2>6. CASE Continue(p, "stl.failed")
    <3>1. GoesOn(p, "stl.failed", st[p], h)
      BY <1>3, <2>1, <2>3, <2>4, <2>6, ContinueGoesOn
    <3>2. QED
      BY <1>5, <3>1 DEF SendingCrypto
  <2>7. QED
    BY <2>3, <2>5, <2>6
<1>9. QED
  BY <1>4, <1>6, <1>7, <1>8

\* INSERT of the settlement row.
LEMMA StlInsertKeepsOff ==
  ASSUME OneSettler, OfframpInv, NEW p \in Procs, StlInsert(p), UNCHANGED offVars
  PROVE  OfframpInv'
<1>1. pc[p] = "stl.insert" /\ pc[p] \in SendingCrypto
  BY DEF StlInsert, SendingCrypto
<1>2. PICK t \in Payouts \ Banked : t = cur[p] /\ Sends(p, t)
  BY <1>1, SenderActs
<1>3. /\ OffLocal /\ UNCHANGED <<ledger, tx, order, chain, meta>>
      /\ stl[t] \in SettlementRow /\ Honest(t)
  BY DEF StlInsert, OfframpInv, OffShared, offVars
<1>4. CASE Continue(p, "stl.submit") /\ UNCHANGED <<st, hash>>
  <2>1. GoesOn(p, "stl.submit", st[p], hash[p])
    BY <1>3, <1>4, GotoGoesOn DEF OffLabels, SendingCrypto, Continue
  <2>2. Acting(p)'
    BY <1>2, <2>1, SendsOn DEF SendingCrypto
  <2>3. CASE stl' = stl
    BY <1>1, <1>3, <2>1, <2>2, <2>3, QuietKeepsOff DEF GoesOn, Steps, Calmly
  <2>4. CASE stl[t] = NoSettlement /\ stl' = [stl EXCEPT ![t].status = "pending"]
    <3>1. PICK s : s = [stl[t] EXCEPT !.status = "pending"]
      OBVIOUS
    <3>2. s \in SettlementRow /\ s.ref = 0 /\ s.status # "confirmed"
      BY <1>3, <2>4, <3>1 DEF SettlementRow, SettlementStatuses, NoSettlement
    <3>3. stl' = [stl EXCEPT ![t] = s]
      BY <2>4, <3>1
    <3>4. Apart(p) /\ OffLocal'
      BY <2>1 DEF GoesOn, Steps
    <3>5. QED
      BY <1>1, <1>2, <1>3, <2>2, <3>2, <3>3, <3>4, RowKeeps
  <2>5. QED
    BY <1>2, <1>4, <2>3, <2>4 DEF StlInsert
<1>5. CASE End(p) /\ stl' = stl
  BY <1>1, <1>3, <1>5, EndSteps, EndKeepsOff DEF Calmly
<1>6. QED
  BY <1>4, <1>5 DEF StlInsert

\* A new payment.
LEMMA StlSubmitKeepsOff ==
  ASSUME OneSettler, OfframpInv, NEW p \in Procs, StlSubmit(p), UNCHANGED offVars
  PROVE  OfframpInv'
<1>1. pc[p] = "stl.submit" /\ pc[p] \in SendingCrypto
  BY DEF StlSubmit, SendingCrypto
<1>2. PICK t \in Payouts \ Banked : t = cur[p] /\ Sends(p, t)
  BY <1>1, SenderActs
<1>3. /\ OffLocal /\ UNCHANGED <<ledger, tx, order, stl, st, meta>>
      /\ IsChain(chain[t]) /\ chain = [u \in Payouts |-> chain[u]] /\ st[p] \in SettlementRow
  BY DEF StlSubmit, OfframpInv, OffShared, OffLocal, offVars
<1>4. PICK o \in SubmitOutcomes :
        /\ chain' = [chain EXCEPT ![t] = submitUsdcPayment(@, amt[p], o.state, Used)]
        /\ Continue(p, CASE o.reply = "error"     -> "stl.failed"
                         [] o.reply = "submitted" -> "stl.submitted"
                         [] o.reply = "confirmed" -> "stl.landed")
        /\ hash' = [hash EXCEPT ![p] = Len(chain[t]) + 1]
  BY <1>2 DEF StlSubmit
<1>5. PICK s \in {"signed", "sent", "landed", "failed"} : s = o.state
  BY <1>4 DEF SubmitOutcomes
<1>6. PICK l \in {"stl.failed", "stl.submitted", "stl.landed"} :
        Continue(p, l) /\ (l = "stl.landed" => s = "landed")
  BY <1>4, <1>5 DEF SubmitOutcomes
<1>7. PICK new : new = submitUsdcPayment(chain[t], amt[p], s, Used)
  OBVIOUS
<1>8. PICK h : h = Len(chain[t]) + 1
  OBVIOUS
<1>9. /\ IsChain(new) /\ h \in Nat /\ h \in 1..Len(new) /\ new[h].state = s
      /\ Grows(chain[t], new)
  <2>1. /\ IsChain(new) /\ Len(chain[t]) \in Nat /\ Len(new) = Len(chain[t]) + 1
        /\ new[Len(chain[t]) + 1].state = s
        /\ \A i \in 1..Len(chain[t]) : new[i] = chain[t][i]
    BY <1>3, <1>7, ChainAppend
  <2>2. QED
    BY <1>8, <2>1 DEF Grows
<1>10. chain' = [chain EXCEPT ![t] = new]
  BY <1>4, <1>5, <1>7
<1>11. chain'[t] = new
  BY <1>3, <1>10
<1>12. l \in SendingCrypto /\ l \in OffLabels
  BY <1>6 DEF SendingCrypto, OffLabels
<1>13. GoesOn(p, l, st[p], h)
  BY <1>3, <1>4, <1>6, <1>8, <1>9, <1>12, ContinueGoesOn
<1>14. l = "stl.landed" => StateIs(t, h, "landed")'
  BY <1>6, <1>9, <1>11 DEF StateIs
<1>15. Acting(p)'
  BY <1>2, <1>6, <1>9, <1>11, <1>12, <1>13, <1>14, SendsOn
<1>16. QED
  BY <1>1, <1>2, <1>3, <1>9, <1>10, <1>13, <1>15, SendKeeps DEF GoesOn, Steps

\* The row follows the answer.
LEMMA StlSubmittedKeepsOff ==
  ASSUME OneSettler, OfframpInv, NEW p \in Procs, StlSubmitted(p), UNCHANGED offVars
  PROVE  OfframpInv'
<1>1. pc[p] \in {"stl.submitted", "stl.landed"} /\ pc[p] \in SendingCrypto
  BY DEF StlSubmitted, SendingCrypto
<1>2. PICK t \in Payouts \ Banked : t = cur[p] /\ Sends(p, t)
  BY <1>1, SenderActs
<1>3. /\ OffLocal /\ UNCHANGED <<ledger, tx, order, chain, st, hash, meta>>
  BY DEF StlSubmitted, OfframpInv, offVars
<1>4. PICK h : h = hash[p]
  OBVIOUS
<1>5. h \in 1..Len(chain[t]) /\ (pc[p] = "stl.landed" => StateIs(t, h, "landed"))
  BY <1>1, <1>2, <1>4 DEF Sends
<1>6. PICK l \in {"stl.confirm", "stl.verify"} :
        Continue(p, l) /\ (l = "stl.confirm" => pc[p] = "stl.landed")
  BY DEF StlSubmitted
<1>7. l \in SendingCrypto /\ l \in OffLabels
  BY <1>6 DEF SendingCrypto, OffLabels
<1>8. GoesOn(p, l, st[p], h)
  BY <1>3, <1>4, <1>6, <1>7, GotoGoesOn DEF Continue
<1>9. l = "stl.confirm" => StateIs(t, h, "landed")'
  BY <1>3, <1>5, <1>6 DEF StateIs
<1>10. Acting(p)'
  BY <1>2, <1>3, <1>5, <1>6, <1>7, <1>8, <1>9, SendsOn
<1>11. PICK s \in SettlementRow : s = [status |-> "submitted", ref |-> h]
  BY <1>3, <1>4 DEF SettlementRow, SettlementStatuses, OffLocal
<1>12. s.ref = h /\ s.status # "confirmed" /\ stl' = [stl EXCEPT ![t] = s]
  BY <1>2, <1>4, <1>11 DEF StlSubmitted
<1>13. Apart(p) /\ OffLocal'
  BY <1>8 DEF GoesOn, Steps
<1>14. QED
  BY <1>1, <1>2, <1>3, <1>5, <1>10, <1>12, <1>13, RowKeeps

\* The settlement first, the ledger after it.
LEMMA StlEndKeepsOff ==
  ASSUME OneSettler, OfframpInv, NEW p \in Procs, StlFailed(p) \/ confirmAndFinalize(p), UNCHANGED offVars
  PROVE  OfframpInv'
<1>1. pc[p] \in SendingCrypto /\ pc[p] # "leg.patch"
  BY DEF StlFailed, confirmAndFinalize, SendingCrypto
<1>2. PICK t \in Payouts \ Banked : t = cur[p] /\ Sends(p, t)
  BY <1>1, SenderActs
<1>3. /\ OffLocal /\ UNCHANGED <<ledger, tx, order, chain, meta>>
      /\ stl[t] \in SettlementRow /\ Honest(t) /\ hash[p] \in Nat
  BY DEF StlFailed, confirmAndFinalize, OfframpInv, OffShared, OffLocal, offVars
<1>4. ASSUME NEW fn \in OffLabels, Hand(p, fn) PROVE CallsOff(p, fn, t, Idle)
  <2>1. Idle \in OffSettled
    BY DEF OffSettled
  <2>2. /\ Call(p, t, fn, Idle) /\ st' = [st EXCEPT ![p] = NoSettlement]
        /\ hash' = [hash EXCEPT ![p] = 0] /\ UNCHANGED <<row, amt>>
    BY <1>2, <1>4 DEF Hand
  <2>3. QED
    BY <1>3, <2>1, <2>2, CallSteps
<1>5. CASE StlFailed(p)
  <2>1. CallsOff(p, "rel.load", t, Idle)
    BY <1>4, <1>5 DEF StlFailed, OffLabels, Releasing
  <2>2. Acting(p)'
    BY <1>2, <2>1, ActsReleasing DEF CallsOff, Steps, Releasing
  <2>3. PICK s : s = [stl[t] EXCEPT !.status = "failed"]
    OBVIOUS
  <2>4. s \in SettlementRow /\ s.ref = stl[t].ref /\ s.status # "confirmed"
    BY <1>3, <2>3 DEF SettlementRow, SettlementStatuses
  <2>5. stl' = [stl EXCEPT ![t] = s]
    BY <1>2, <1>5, <2>3 DEF StlFailed
  <2>6. Apart(p) /\ OffLocal'
    BY <2>1 DEF CallsOff, Steps
  <2>7. s.ref = 0 \/ s.ref \in 1..Len(chain[t])
    BY <1>3, <2>4 DEF Honest
  <2>8. QED
    BY <1>1, <1>2, <1>3, <2>2, <2>4, <2>5, <2>6, <2>7, RowKeeps
<1>6. CASE confirmAndFinalize(p)
  <2>1. CallsOff(p, "fin.load", t, Idle)
    BY <1>4, <1>6 DEF confirmAndFinalize, OffLabels, Finalizing
  <2>2. PICK h : h = hash[p]
    OBVIOUS
  <2>3. h \in 1..Len(chain[t]) /\ StateIs(t, h, "landed")
    BY <1>2, <1>6, <2>2 DEF Sends, confirmAndFinalize
  <2>4. Delivered(t)'
    BY <1>2, <1>3, <2>3 DEF Delivered, Received, Landed, StateIs
  <2>5. Acting(p)'
    BY <1>2, <2>1, <2>4, ActsFinalizing DEF CallsOff, Steps, Finalizing, OffSettled
  <2>6. PICK s \in SettlementRow : s = [status |-> "confirmed", ref |-> h]
    BY <1>3, <2>2 DEF SettlementRow, SettlementStatuses
  <2>7. s.ref = h /\ stl' = [stl EXCEPT ![t] = s]
    BY <1>2, <1>6, <2>2, <2>6 DEF confirmAndFinalize
  <2>8. Apart(p) /\ OffLocal'
    BY <2>1 DEF CallsOff, Steps
  <2>9. QED
    BY <1>1, <1>2, <1>3, <2>3, <2>5, <2>7, <2>8, RowKeeps
<1>7. QED
  BY <1>5, <1>6

LEMMA SettlementKeepsOff ==
  ASSUME OneSettler, OfframpInv, SettlementStep, UNCHANGED offVars
  PROVE  OfframpInv'
<1>1. ASSUME NEW p \in Procs, StellarStep(p) PROVE OfframpInv'
  BY <1>1, StlLooksKeepOff, StlInsertKeepsOff, StlSubmitKeepsOff, StlSubmittedKeepsOff,
     StlEndKeepsOff DEF StellarStep
<1>2. ASSUME NEW p \in Procs, NEW t \in Payouts \ Banked, CreateFind(p, t), UNCHANGED stellarVars
      PROVE  OfframpInv'
  BY <1>2, CreateKeepsOff
<1>3. ASSUME NEW p \in Procs, NEW t \in Payouts, settlePayoutOnStellar(p, t) PROVE OfframpInv'
  BY <1>3, SendStartKeepsOff
<1>4. ASSUME NEW p \in Procs, NEW t \in ConfirmCalls, confirmStellarSettlement(p, t) PROVE OfframpInv'
  <2>1. t \in Payouts
    BY DEF OneSettler
  <2>2. QED
    BY <1>4, <2>1, SendStartKeepsOff
<1>5. QED
  BY <1>1, <1>2, <1>3, <1>4, NetworkKeeps DEF SettlementStep

-----------------------------------------------------------------------------
(* Settling a withdrawal: the Stellar leg. *)

LEMMA SettleLabels == Settle \subseteq OffLabels /\ BeforeReceipt \subseteq Settle /\ AfterReceipt \subseteq Settle
BY DEF Settle, OffLabels

\* What a settler knows of its withdrawal.
LEMMA SettlerHas ==
  ASSUME OfframpInv, NEW p \in Procs, pc[p] \in Settle
  PROVE  /\ cur[p] \in Payouts /\ cur[p] \in Banked /\ p \in Settlers
         /\ Settles(p, cur[p]) /\ Honest(cur[p]) /\ Guarded(cur[p]) /\ HasPosted(cur[p], "lock")
         /\ OffLocal /\ st[p] \in SettlementRow /\ hash[p] \in Nat
         /\ stl[cur[p]] \in SettlementRow /\ IsChain(chain[cur[p]])
<1>1. cur[p] \in Payouts /\ cur[p] \in Banked /\ Settles(p, cur[p])
  BY SettlerActs
<1>2. p \in Settlers /\ HasPosted(cur[p], "lock")
  BY <1>1 DEF Settles
<1>3. OffLocal /\ OffShared /\ Honest(cur[p]) /\ Guarded(cur[p])
  BY <1>1 DEF OfframpInv
<1>4. QED
  BY <1>1, <1>2, <1>3 DEF OffLocal, OffShared

\* Whoever has read "confirmed" may go on to the provider.
LEMMA OffRailKeeps ==
  ASSUME OneSettler, OfframpInv, NEW p \in Procs, OffRail(p)
  PROVE  OfframpInv'
<1>1. pc[p] = "off.rail" /\ pc[p] \in Settle
  BY DEF OffRail, Settle
<1>2. PICK t \in Payouts :
        /\ t = cur[p] /\ t \in Banked /\ p \in Settlers /\ Settles(p, t) /\ Guarded(t)
        /\ HasPosted(t, "lock") /\ stl[t] \in SettlementRow
  BY <1>1, SettlerHas
<1>3. /\ OffLocal /\ st[p] \in SettlementRow /\ hash[p] \in Nat
      /\ Calmly /\ UNCHANGED <<tx, meta, hash>>
  BY <1>1, SettlerHas DEF OffRail, Calmly, offVars
<1>4. HasPosted(t, "lock")'
  BY <1>2, <1>3, CalmFacts DEF LifeOps
<1>5. CASE stl[t].status = "confirmed"
  <2>1. meta[t].stellarConfirmed
    <3>1. SUFFICES ASSUME NEW q \in Procs, pc[q] = "leg.patch", cur[q] = t PROVE FALSE
      BY <1>2, <1>5 DEF Guarded
    <3>2. q \in Settlers
      BY <3>1, SettlerHas DEF Settle
    <3>3. QED
      BY <1>1, <1>2, <3>1, <3>2 DEF OneSettler
  <2>2. GoesOn(p, "prov.find", st[p], hash[p])
    BY <1>2, <1>3, <1>5, ContinueGoesOn, SettleLabels DEF OffRail, AfterReceipt
  <2>3. Settles(p, t)'
    BY <1>2, <1>3, <1>4, <2>1, <2>2 DEF GoesOn, Steps, Settles, BeforeReceipt, AfterReceipt
  <2>4. Acting(p)'
    BY <1>2, <2>2, <2>3, ActsSettling DEF GoesOn, Steps, Settle, AfterReceipt
  <2>5. QED
    BY <1>1, <1>3, <2>2, <2>4, QuietKeepsOff DEF GoesOn, Steps
<1>6. CASE stl[t].status # "confirmed"
  <2>1. GoesOn(p, "leg.insert", stl[t], hash[p])
    BY <1>2, <1>3, <1>6, ContinueGoesOn, SettleLabels DEF OffRail, BeforeReceipt
  <2>2. stl'[t] = stl[t]
    BY <1>3 DEF Calmly
  <2>3. Settles(p, t)'
    BY <1>2, <1>3, <1>4, <1>6, <2>1, <2>2 DEF GoesOn, Steps, Settles, BeforeReceipt, AfterReceipt
  <2>4. Acting(p)'
    BY <1>2, <2>1, <2>3, ActsSettling DEF GoesOn, Steps, Settle, BeforeReceipt
  <2>5. QED
    BY <1>1, <1>3, <2>1, <2>4, QuietKeepsOff DEF GoesOn, Steps
<1>7. QED
  BY <1>5, <1>6

LEMMA LegInsertKeeps ==
  ASSUME OneSettler, OfframpInv, NEW p \in Procs, LegInsert(p)
  PROVE  OfframpInv'
<1>1. pc[p] = "leg.insert" /\ pc[p] \in Settle
  BY DEF LegInsert, Settle, BeforeReceipt
<1>2. PICK t \in Payouts :
        /\ t = cur[p] /\ t \in Banked /\ p \in Settlers /\ Settles(p, t) /\ Honest(t)
        /\ HasPosted(t, "lock") /\ stl[t] \in SettlementRow
  BY <1>1, SettlerHas
<1>3. OffLocal /\ UNCHANGED <<ledger, tx, order, chain, meta>>
  BY DEF OfframpInv, LegInsert
<1>4. CASE Quit(p) /\ stl' = stl
  BY <1>1, <1>3, <1>4, EndSteps, EndKeepsOff DEF Calmly
<1>5. CASE Onward(p, "leg.mark") /\ stl' = IF st[p] = NoSettlement THEN [stl EXCEPT ![t].status = "pending"]
                                           ELSE stl
  <2>1. GoesOn(p, "leg.mark", st[p], hash[p])
    BY <1>3, <1>5, OnwardGoesOn, SettleLabels DEF BeforeReceipt
  <2>2. st[p] = stl[t] /\ stl[t].status # "confirmed"
    BY <1>1, <1>2 DEF Settles, BeforeReceipt
  <2>3. PICK s \in SettlementRow :
          stl' = [stl EXCEPT ![t] = s] /\ s.ref = stl[t].ref /\ s.status # "confirmed"
    <3>1. CASE stl' = stl
      <4>1. stl' = [stl EXCEPT ![t] = stl[t]]
        BY <3>1 DEF OfframpInv, OffShared
      <4>2. QED
        BY <1>2, <2>2, <4>1
    <3>2. CASE stl' = [stl EXCEPT ![t].status = "pending"]
      <4>1. PICK s : s = [stl[t] EXCEPT !.status = "pending"]
        OBVIOUS
      <4>2. s \in SettlementRow /\ s.ref = stl[t].ref /\ s.status # "confirmed"
        BY <1>2, <4>1 DEF SettlementRow, SettlementStatuses
      <4>3. stl' = [stl EXCEPT ![t] = s]
        BY <3>2, <4>1
      <4>4. QED
        BY <4>2, <4>3
    <3>3. QED
      BY <1>5, <3>1, <3>2
  <2>4. stl'[t] = s
    BY <2>3 DEF OfframpInv, OffShared
  <2>5. HasPosted(t, "lock")'
    BY <1>2, <1>3 DEF HasPosted
  <2>6. Settles(p, t)'
    BY <1>2, <2>1, <2>2, <2>3, <2>4, <2>5 DEF GoesOn, Steps, Settles, BeforeReceipt, AfterReceipt
  <2>7. Acting(p)'
    BY <1>2, <2>1, <2>6, ActsSettling DEF GoesOn, Steps, Settle, BeforeReceipt
  <2>8. Apart(p) /\ OffLocal'
    BY <2>1 DEF GoesOn, Steps
  <2>9. s.ref = 0 \/ s.ref \in 1..Len(chain[t])
    BY <1>2, <2>3 DEF Honest
  <2>10. QED
    BY <1>1, <1>2, <1>3, <2>2, <2>3, <2>7, <2>8, <2>9, RowKeeps
<1>6. QED
  BY <1>2, <1>4, <1>5 DEF LegInsert

\* The metadata says that the payout is an off-ramp.
LEMMA MarkMeta ==
  ASSUME OfframpInv, NEW t \in Payouts, meta' = [meta EXCEPT ![t].offRamp = TRUE]
  PROVE  /\ MetaCalm /\ meta' \in [Payouts -> [offRamp : BOOLEAN, stellarConfirmed : BOOLEAN]]
         /\ meta'[t].offRamp
<1>1. meta \in [Payouts -> [offRamp : BOOLEAN, stellarConfirmed : BOOLEAN]]
  BY DEF OfframpInv, OffShared
<1>2. PICK m : m = [meta[t] EXCEPT !.offRamp = TRUE]
  OBVIOUS
<1>3. /\ m \in [offRamp : BOOLEAN, stellarConfirmed : BOOLEAN] /\ m.offRamp
      /\ m.stellarConfirmed = meta[t].stellarConfirmed
  BY <1>1, <1>2
<1>4. meta' = [meta EXCEPT ![t] = m]
  BY <1>2
<1>5. QED
  BY <1>1, <1>3, <1>4 DEF MetaCalm

LEMMA MarkKeeps ==
  ASSUME OfframpInv, NEW p \in Procs, OfframpMark(p) \/ LegMark(p)
  PROVE  OfframpInv'
<1>1. pc[p] \in {"off.mark", "leg.mark"}
  BY DEF OfframpMark, LegMark
<1>2. PICK t \in Payouts : t = cur[p]
  BY <1>1 DEF OfframpInv, Acting
<1>3. /\ OffLocal /\ Calmly /\ tx' = tx /\ RowsCalm /\ tx' \in [Payouts -> TxRow]
  BY DEF OfframpMark, LegMark, OfframpInv, OffShared, Calmly, stellarVars, RowsCalm
<1>4. /\ MetaCalm /\ meta' \in [Payouts -> [offRamp : BOOLEAN, stellarConfirmed : BOOLEAN]]
      /\ meta'[t].offRamp
  BY <1>2, MarkMeta DEF OfframpMark, LegMark
<1>5. CASE OfframpMark(p)
  <2>1. Steps(p, "idle")
    BY <1>3, <1>5, FinishSteps DEF OfframpMark, stellarVars
  <2>2. QED
    BY <1>1, <1>3, <1>4, <2>1, ActsIdle, CalmKeeps DEF Steps
<1>6. CASE LegMark(p)
  <2>1. pc[p] = "leg.mark" /\ pc[p] \in Settle
    BY <1>6 DEF LegMark, Settle, BeforeReceipt
  <2>2. t \in Banked /\ p \in Settlers /\ Settles(p, t) /\ HasPosted(t, "lock")
    BY <1>2, <2>1, SettlerHas
  <2>3. st[p].ref = stl[t].ref /\ stl[t].status # "confirmed" /\ stl'[t] = stl[t]
    BY <1>3, <2>1, <2>2 DEF Settles, BeforeReceipt, Calmly
  <2>4. GoesOn(p, "leg.prepare", st[p], hash[p])
    BY <1>3, <1>6, OnwardGoesOn, SettleLabels DEF LegMark, BeforeReceipt
  <2>5. HasPosted(t, "lock")'
    BY <1>3, <2>2, CalmFacts DEF LifeOps
  <2>6. Settles(p, t)'
    BY <1>4, <2>2, <2>3, <2>4, <2>5 DEF GoesOn, Steps, Settles, BeforeReceipt, AfterReceipt
  <2>7. Acting(p)'
    BY <1>2, <2>4, <2>6, ActsSettling DEF GoesOn, Steps, Settle, BeforeReceipt
  <2>8. QED
    BY <1>1, <1>3, <1>4, <2>4, <2>7, CalmKeeps DEF GoesOn, Steps
<1>7. QED
  BY <1>5, <1>6

\* The saved envelope, or a new one that nobody has handed to the network.
LEMMA LegPrepareKeeps ==
  ASSUME OneSettler, OfframpInv, NEW p \in Procs, LegPrepare(p)
  PROVE  OfframpInv'
<1>1. pc[p] = "leg.prepare" /\ pc[p] \in Settle
  BY DEF LegPrepare, Settle, BeforeReceipt
<1>2. PICK t \in Payouts :
        /\ t = cur[p] /\ t \in Banked /\ p \in Settlers /\ Settles(p, t) /\ Honest(t) /\ Guarded(t)
        /\ HasPosted(t, "lock") /\ stl[t] \in SettlementRow /\ IsChain(chain[t])
  BY <1>1, SettlerHas
<1>3. /\ OffLocal /\ st[p] \in SettlementRow /\ hash[p] \in Nat
      /\ UNCHANGED <<ledger, tx, order, stl, st, meta>> /\ chain = [u \in Payouts |-> chain[u]]
  BY <1>1, SettlerHas DEF LegPrepare, offVars, OfframpInv, OffShared
<1>4. st[p].ref = stl[t].ref /\ stl[t].status # "confirmed" /\ meta[t].offRamp
  BY <1>1, <1>2 DEF Settles, BeforeReceipt
<1>5. HasPosted(t, "lock")'
  BY <1>2, <1>3 DEF HasPosted
<1>6. CASE st[p].ref # 0
  <2>1. PICK h \in Nat : h = stl[t].ref
    BY <1>2 DEF SettlementRow
  <2>2. h \in 1..Len(chain[t]) /\ hash' = [hash EXCEPT ![p] = h] /\ Continue(p, "leg.submit") /\ chain' = chain
    BY <1>2, <1>4, <1>6, <2>1 DEF Honest, LegPrepare
  <2>3. GoesOn(p, "leg.submit", st[p], h)
    BY <1>3, <2>2, ContinueGoesOn, SettleLabels DEF BeforeReceipt
  <2>4. Settles(p, t)'
    BY <1>2, <1>3, <1>4, <1>5, <2>1, <2>2, <2>3 DEF GoesOn, Steps, Settles, BeforeReceipt, AfterReceipt
  <2>5. Acting(p)'
    BY <1>2, <2>3, <2>4, ActsSettling DEF GoesOn, Steps, Settle, BeforeReceipt
  <2>6. QED
    BY <1>1, <1>3, <2>2, <2>3, <2>5, QuietKeepsOff DEF GoesOn, Steps, Calmly
<1>7. CASE st[p].ref = 0
  <2>1. PICK new : new = prepareSponsoredUsdcPayment(chain[t], amt[p], Used)
    OBVIOUS
  <2>2. PICK h : h = Len(chain[t]) + 1
    OBVIOUS
  <2>3. /\ chain' = [chain EXCEPT ![t] = new] /\ hash' = [hash EXCEPT ![p] = h]
        /\ Continue(p, "leg.save")
    BY <1>2, <1>7, <2>1, <2>2 DEF LegPrepare
  <2>4. /\ IsChain(new) /\ Len(chain[t]) \in Nat /\ Len(new) = h /\ new[h].state = "signed"
        /\ \A i \in 1..Len(chain[t]) : new[i] = chain[t][i]
    BY <1>2, <2>1, <2>2, SignChain
  <2>5. h \in Nat /\ h \in 1..Len(new) /\ Grows(chain[t], new)
    BY <2>2, <2>4 DEF Grows
  <2>6. \A i \in 1..Len(new) : new[i].state # "signed" => i = stl[t].ref
    BY <1>2, <2>2, <2>4 DEF Guarded
  <2>7. chain'[t] = new
    BY <1>3, <2>3
  <2>8. GoesOn(p, "leg.save", st[p], h)
    BY <1>3, <2>3, <2>5, ContinueGoesOn, SettleLabels DEF BeforeReceipt
  <2>9. Settles(p, t)'
    BY <1>2, <1>3, <1>4, <1>5, <1>7, <2>5, <2>7, <2>8
       DEF GoesOn, Steps, Settles, BeforeReceipt, AfterReceipt
  <2>10. Acting(p)'
    BY <1>2, <2>8, <2>9, ActsSettling DEF GoesOn, Steps, Settle, BeforeReceipt
  <2>11. QED
    BY <1>1, <1>3, <2>3, <2>4, <2>5, <2>6, <2>8, <2>10, SendKeeps DEF GoesOn, Steps
<1>8. QED
  BY <1>6, <1>7

\* The reference is saved before the envelope is handed over.
LEMMA LegSaveKeeps ==
  ASSUME OneSettler, OfframpInv, NEW p \in Procs, LegSave(p)
  PROVE  OfframpInv'
<1>1. pc[p] = "leg.save" /\ pc[p] \in Settle
  BY DEF LegSave, Settle, BeforeReceipt
<1>2. PICK t \in Payouts :
        /\ t = cur[p] /\ t \in Banked /\ p \in Settlers /\ Settles(p, t)
        /\ HasPosted(t, "lock") /\ stl[t] \in SettlementRow
  BY <1>1, SettlerHas
<1>3. /\ OffLocal /\ UNCHANGED <<ledger, tx, order, chain, meta>> /\ stl \in [Payouts -> SettlementRow]
  BY DEF LegSave, OfframpInv, OffShared
<1>4. PICK h \in Nat : h = hash[p]
  BY <1>1, SettlerHas
<1>5. h \in 1..Len(chain[t]) /\ stl[t].ref = 0 /\ stl[t].status # "confirmed" /\ meta[t].offRamp
  BY <1>1, <1>2, <1>4 DEF Settles, BeforeReceipt
<1>6. PICK s : s = [stl[t] EXCEPT !.ref = h]
  OBVIOUS
<1>7. s \in SettlementRow /\ s.ref = h /\ s.status = stl[t].status
  BY <1>2, <1>6 DEF SettlementRow
<1>8. stl' = [stl EXCEPT ![t] = s]
  BY <1>2, <1>4, <1>6 DEF LegSave
<1>9. stl'[t] = s
  BY <1>3, <1>8
<1>10. GoesOn(p, "leg.submit", st[p], h)
  BY <1>3, <1>4, OnwardGoesOn, SettleLabels DEF LegSave, BeforeReceipt
<1>11. HasPosted(t, "lock")'
  BY <1>2, <1>3 DEF HasPosted
<1>12. Settles(p, t)'
  BY <1>2, <1>3, <1>5, <1>7, <1>9, <1>10, <1>11
     DEF GoesOn, Steps, Settles, BeforeReceipt, AfterReceipt
<1>13. Acting(p)'
  BY <1>2, <1>10, <1>12, ActsSettling DEF GoesOn, Steps, Settle, BeforeReceipt
<1>14. QED
  BY <1>1, <1>2, <1>3, <1>5, <1>7, <1>8, <1>10, <1>13, RowKeeps DEF GoesOn, Steps

\* What is handed over is the saved envelope; an error means that it is dead or in doubt.
LEMMA LegSubmitKeeps ==
  ASSUME OneSettler, OfframpInv, NEW p \in Procs, LegSubmit(p)
  PROVE  OfframpInv'
<1>1. pc[p] = "leg.submit" /\ pc[p] \in Settle
  BY DEF LegSubmit, Settle, BeforeReceipt
<1>2. PICK t \in Payouts :
        /\ t = cur[p] /\ t \in Banked /\ p \in Settlers /\ Settles(p, t) /\ Guarded(t)
        /\ HasPosted(t, "lock") /\ IsChain(chain[t])
  BY <1>1, SettlerHas
<1>3. /\ OffLocal /\ UNCHANGED <<ledger, tx, order, stl, meta>> /\ chain = [u \in Payouts |-> chain[u]]
  BY DEF LegSubmit, OfframpInv, OffShared
<1>4. PICK h \in Nat : h = hash[p]
  BY <1>1, SettlerHas
<1>5. h \in 1..Len(chain[t]) /\ h = stl[t].ref /\ stl[t].status # "confirmed" /\ meta[t].offRamp
  BY <1>1, <1>2, <1>4 DEF Settles, BeforeReceipt
<1>6. PICK r \in submitPreparedSponsoredPayment(chain[t], h, Used, LegOutcomes) :
        /\ chain' = [chain EXCEPT ![t] = r.chain]
        /\ Onward(p, CASE r.reply = "error"     -> "leg.failed"
                       [] r.reply = "submitted" -> "leg.submitted"
                       [] r.reply = "confirmed" -> "leg.landed")
  BY <1>2, <1>4 DEF LegSubmit
<1>7. PICK new : new = r.chain
  OBVIOUS
<1>8. /\ IsChain(new) /\ Len(new) = Len(chain[t])
      /\ \A j \in 1..Len(chain[t]) : j # h => new[j] = chain[t][j]
      /\ chain[t][h].state = "landed" => new[h].state = "landed"
      /\ chain[t][h].state = "failed" => new[h].state = "failed"
      /\ r.reply \in {"error", "submitted", "confirmed"}
      /\ chain[t][h].doubt => new[h].doubt
      /\ r.reply = "error" => new[h].state = "failed" \/ new[h].doubt
      /\ r.reply = "confirmed" => new[h].state = "landed"
  BY <1>2, <1>5, <1>7, SendChain
<1>9. PICK l \in {"leg.failed", "leg.submitted", "leg.landed"} :
        /\ Onward(p, l)
        /\ l = "leg.failed" => new[h].state = "failed" \/ new[h].doubt
        /\ l = "leg.landed" => new[h].state = "landed"
  BY <1>6, <1>8
<1>10. Grows(chain[t], new)
  BY <1>8 DEF Grows
<1>11. \A i \in 1..Len(new) : new[i].state # "signed" => i = stl[t].ref
  BY <1>2, <1>5, <1>8 DEF Guarded
<1>12. chain'[t] = new /\ chain' = [chain EXCEPT ![t] = new]
  BY <1>3, <1>6, <1>7
<1>18. h \in 1..Len(new) /\ (new[h].doubt => Doubted(t)')
  BY <1>5, <1>8, <1>12 DEF Doubted, Doubtful
<1>13. GoesOn(p, l, st[p], h)
  BY <1>3, <1>4, <1>9, OnwardGoesOn, SettleLabels DEF BeforeReceipt
<1>14. HasPosted(t, "lock")'
  BY <1>2, <1>3 DEF HasPosted
<1>15. Settles(p, t)'
  BY <1>2, <1>3, <1>5, <1>8, <1>9, <1>12, <1>13, <1>14, <1>18
     DEF GoesOn, Steps, Settles, BeforeReceipt, AfterReceipt, StateIs
<1>16. Acting(p)'
  BY <1>2, <1>13, <1>15, ActsSettling DEF GoesOn, Steps, Settle, BeforeReceipt
<1>17. QED
  BY <1>1, <1>2, <1>3, <1>8, <1>10, <1>11, <1>12, <1>13, <1>16, SendKeeps DEF GoesOn, Steps

\* The lock goes back after a submission that threw.
LEMMA LegFailedKeeps ==
  ASSUME OneSettler, OfframpInv, NEW p \in Procs, LegFailed(p)
  PROVE  OfframpInv'
<1>1. pc[p] = "leg.failed" /\ pc[p] \in Settle
  BY DEF LegFailed, Settle, BeforeReceipt
<1>2. PICK t \in Payouts :
        /\ t = cur[p] /\ t \in Banked /\ p \in Settlers /\ Settles(p, t)
        /\ HasPosted(t, "lock") /\ stl[t] \in SettlementRow
  BY <1>1, SettlerHas
<1>3. /\ OffLocal /\ UNCHANGED <<ledger, tx, order, chain, meta>> /\ stl \in [Payouts -> SettlementRow]
  BY DEF LegFailed, OfframpInv, OffShared
<1>4. PICK h : h = stl[t].ref
  OBVIOUS
<1>5. /\ h \in 1..Len(chain[t]) /\ stl[t].status # "confirmed"
      /\ StateIs(t, h, "failed") \/ Doubted(t)
  BY <1>1, <1>2, <1>4 DEF Settles, BeforeReceipt
<1>6. PICK s : s = [stl[t] EXCEPT !.status = "failed"]
  OBVIOUS
<1>7. s \in SettlementRow /\ s.ref = h /\ s.status = "failed"
  BY <1>2, <1>4, <1>6 DEF SettlementRow, SettlementStatuses
<1>8. stl' = [stl EXCEPT ![t] = s]
  BY <1>2, <1>6 DEF LegFailed
<1>9. stl'[t] = s
  BY <1>3, <1>8
<1>10. GivenUp(t)'
  BY <1>3, <1>5, <1>7, <1>9 DEF GivenUp, StateIs, Doubted
<1>11. CallsOff(p, "rel.load", t, Idle)
  <2>1. /\ Call(p, t, "rel.load", Idle) /\ st' = [st EXCEPT ![p] = NoSettlement]
        /\ hash' = [hash EXCEPT ![p] = 0] /\ UNCHANGED <<row, amt>>
    BY <1>2 DEF LegFailed, HandOver, Idle
  <2>2. Idle \in OffSettled /\ "rel.load" \in OffLabels
    BY DEF OffSettled, OffLabels, Releasing
  <2>3. QED
    BY <1>3, <2>1, <2>2, CallSteps
<1>12. Acting(p)'
  BY <1>10, <1>11, ActsReleasing DEF CallsOff, Steps, Releasing
<1>13. QED
  BY <1>1, <1>2, <1>3, <1>4, <1>5, <1>7, <1>8, <1>11, <1>12, RowKeeps DEF CallsOff, Steps

LEMMA LegSubmittedKeeps ==
  ASSUME OneSettler, OfframpInv, NEW p \in Procs, LegSubmitted(p)
  PROVE  OfframpInv'
<1>1. pc[p] \in {"leg.submitted", "leg.landed"} /\ pc[p] \in Settle
  BY DEF LegSubmitted, Settle, BeforeReceipt
<1>2. PICK t \in Payouts :
        /\ t = cur[p] /\ t \in Banked /\ p \in Settlers /\ Settles(p, t)
        /\ HasPosted(t, "lock")
  BY <1>1, SettlerHas
<1>3. /\ OffLocal /\ UNCHANGED <<ledger, tx, order, chain, meta>> /\ stl \in [Payouts -> SettlementRow]
  BY DEF LegSubmitted, OfframpInv, OffShared
<1>4. PICK h \in Nat : h = hash[p]
  BY <1>1, SettlerHas
<1>5. /\ h \in 1..Len(chain[t]) /\ stl[t].ref = h /\ stl[t].status # "confirmed" /\ meta[t].offRamp
      /\ pc[p] = "leg.landed" => StateIs(t, h, "landed")
  BY <1>1, <1>2, <1>4 DEF Settles, BeforeReceipt
<1>6. PICK l \in {"leg.confirm", "leg.verify"} :
        Onward(p, l) /\ (l = "leg.confirm" => pc[p] = "leg.landed")
  BY DEF LegSubmitted
<1>7. PICK s \in SettlementRow : s = [status |-> "submitted", ref |-> h]
  BY DEF SettlementRow, SettlementStatuses
<1>8. s.ref = h /\ s.status # "confirmed" /\ stl' = [stl EXCEPT ![t] = s]
  BY <1>2, <1>4, <1>7 DEF LegSubmitted
<1>9. stl'[t] = s
  BY <1>3, <1>8
<1>10. GoesOn(p, l, st[p], h)
  BY <1>3, <1>4, <1>6, OnwardGoesOn, SettleLabels DEF BeforeReceipt
<1>11. HasPosted(t, "lock")'
  BY <1>2, <1>3 DEF HasPosted
<1>12. l = "leg.confirm" => chain'[t][h].state = "landed"
  BY <1>3, <1>5, <1>6 DEF StateIs
<1>13. Settles(p, t)'
  BY <1>2, <1>3, <1>5, <1>6, <1>8, <1>9, <1>10, <1>11, <1>12
     DEF GoesOn, Steps, Settles, BeforeReceipt, AfterReceipt, StateIs
<1>14. Acting(p)'
  BY <1>2, <1>6, <1>10, <1>13, ActsSettling DEF GoesOn, Steps, Settle, BeforeReceipt
<1>15. QED
  BY <1>1, <1>2, <1>3, <1>5, <1>8, <1>10, <1>14, RowKeeps DEF GoesOn, Steps

LEMMA LegVerifyKeeps ==
  ASSUME OneSettler, OfframpInv, NEW p \in Procs, LegVerify(p)
  PROVE  OfframpInv'
<1>1. pc[p] = "leg.verify" /\ pc[p] \in Settle
  BY DEF LegVerify, Settle, BeforeReceipt
<1>2. PICK t \in Payouts :
        /\ t = cur[p] /\ t \in Banked /\ p \in Settlers /\ Settles(p, t)
        /\ HasPosted(t, "lock") /\ IsChain(chain[t])
  BY <1>1, SettlerHas
<1>3. OffLocal /\ UNCHANGED <<ledger, tx, order, stl, chain, meta>> /\ Calmly
  BY DEF LegVerify, OfframpInv, Calmly
<1>4. PICK h \in Nat : h = hash[p]
  BY <1>1, SettlerHas
<1>5. h \in 1..Len(chain[t]) /\ stl[t].ref = h /\ stl[t].status # "confirmed" /\ meta[t].offRamp
  BY <1>1, <1>2, <1>4 DEF Settles, BeforeReceipt
<1>6. PICK answer \in verifyUsdcPayment(chain[t], h) :
        \/ answer = "SUCCESS" /\ Onward(p, "leg.confirm")
        \/ answer = "FAILED" /\ Onward(p, "leg.failed")
        \/ answer = "NOT_FOUND" /\ Quit(p)
  BY <1>2, <1>4 DEF LegVerify
<1>7. CASE Quit(p)
  BY <1>1, <1>3, <1>7, EndSteps, EndKeepsOff
<1>8. CASE ~Quit(p)
  <2>1. PICK l \in {"leg.confirm", "leg.failed"} :
          /\ Onward(p, l)
          /\ l = "leg.confirm" => chain[t][h].state = "landed"
          /\ l = "leg.failed" => chain[t][h].state = "failed"
    BY <1>2, <1>5, <1>6, <1>8, VerifyTells
  <2>2. GoesOn(p, l, st[p], h)
    BY <1>3, <1>4, <2>1, OnwardGoesOn, SettleLabels DEF BeforeReceipt
  <2>3. HasPosted(t, "lock")'
    BY <1>2, <1>3, CalmFacts DEF LifeOps
  <2>4. Settles(p, t)'
    BY <1>2, <1>3, <1>5, <2>1, <2>2, <2>3
       DEF GoesOn, Steps, Settles, BeforeReceipt, AfterReceipt, StateIs
  <2>5. Acting(p)'
    BY <1>2, <2>1, <2>2, <2>4, ActsSettling DEF GoesOn, Steps, Settle, BeforeReceipt
  <2>6. QED
    BY <1>1, <1>3, <2>2, <2>5, QuietKeepsOff DEF GoesOn, Steps
<1>9. QED
  BY <1>7, <1>8

LEMMA LegConfirmKeeps ==
  ASSUME OneSettler, OfframpInv, NEW p \in Procs, LegConfirm(p)
  PROVE  OfframpInv'
<1>1. pc[p] = "leg.confirm" /\ pc[p] \in Settle
  BY DEF LegConfirm, Settle, BeforeReceipt
<1>2. PICK t \in Payouts :
        /\ t = cur[p] /\ t \in Banked /\ p \in Settlers /\ Settles(p, t)
        /\ HasPosted(t, "lock") /\ stl[t] \in SettlementRow
  BY <1>1, SettlerHas
<1>3. /\ OffLocal /\ UNCHANGED <<ledger, tx, order, chain, meta>> /\ stl \in [Payouts -> SettlementRow]
  BY DEF LegConfirm, OfframpInv, OffShared
<1>4. PICK h \in Nat : h = hash[p]
  BY <1>1, SettlerHas
<1>5. /\ h \in 1..Len(chain[t]) /\ stl[t].ref = h /\ stl[t].status # "confirmed" /\ meta[t].offRamp
      /\ StateIs(t, h, "landed")
  BY <1>1, <1>2, <1>4 DEF Settles, BeforeReceipt
<1>6. PICK s : s = [stl[t] EXCEPT !.status = "confirmed"]
  OBVIOUS
<1>7. s \in SettlementRow /\ s.ref = h /\ s.status = "confirmed"
  BY <1>2, <1>5, <1>6 DEF SettlementRow, SettlementStatuses
<1>8. stl' = [stl EXCEPT ![t] = s]
  BY <1>2, <1>6 DEF LegConfirm
<1>9. stl'[t] = s
  BY <1>3, <1>8
<1>10. GoesOn(p, "leg.patch", st[p], h)
  BY <1>3, <1>4, OnwardGoesOn, SettleLabels DEF LegConfirm, Settle
<1>11. HasPosted(t, "lock")'
  BY <1>2, <1>3 DEF HasPosted
<1>12. Settles(p, t)'
  BY <1>2, <1>3, <1>5, <1>7, <1>9, <1>10, <1>11
     DEF GoesOn, Steps, Settles, BeforeReceipt, AfterReceipt
<1>13. Acting(p)'
  BY <1>2, <1>10, <1>12, ActsSettling DEF GoesOn, Steps, Settle
<1>14. pc'[p] = "leg.patch" /\ cur'[p] = t /\ Apart(p) /\ OffLocal'
  BY <1>2, <1>10 DEF GoesOn, Steps
<1>15. QED
  BY <1>1, <1>2, <1>3, <1>5, <1>7, <1>8, <1>13, <1>14, RowKeeps

\* The metadata learns of a receipt that is true.
LEMMA LegPatchKeeps ==
  ASSUME OneSettler, OfframpInv, NEW p \in Procs, LegPatch(p)
  PROVE  OfframpInv'
<1>1. pc[p] = "leg.patch" /\ pc[p] \in Settle
  BY DEF LegPatch, Settle
<1>2. PICK t \in Payouts :
        /\ t = cur[p] /\ t \in Banked /\ p \in Settlers /\ Settles(p, t)
        /\ HasPosted(t, "lock")
  BY <1>1, SettlerHas
<1>3. /\ OffLocal /\ OffShared /\ UNCHANGED <<ledger, tx, order, stl, chain>> /\ Calmly
  BY DEF LegPatch, OfframpInv, Calmly
<1>4. stl[t].status = "confirmed" /\ meta[t].offRamp
  BY <1>1, <1>2 DEF Settles
<1>5. /\ meta' \in [Payouts -> [offRamp : BOOLEAN, stellarConfirmed : BOOLEAN]]
      /\ \A u \in Payouts : u # t => meta'[u] = meta[u]
      /\ meta'[t].stellarConfirmed /\ meta'[t].offRamp = meta[t].offRamp
  <2>1. meta \in [Payouts -> [offRamp : BOOLEAN, stellarConfirmed : BOOLEAN]]
    BY <1>3 DEF OffShared
  <2>2. PICK m : m = [meta[t] EXCEPT !.stellarConfirmed = TRUE]
    OBVIOUS
  <2>3. /\ m \in [offRamp : BOOLEAN, stellarConfirmed : BOOLEAN] /\ m.stellarConfirmed
        /\ m.offRamp = meta[t].offRamp
    BY <2>1, <2>2
  <2>4. meta' = [meta EXCEPT ![t] = m]
    BY <1>2, <2>2 DEF LegPatch
  <2>5. QED
    BY <2>1, <2>3, <2>4
<1>6. \A u \in Payouts : /\ meta[u].offRamp => meta'[u].offRamp
                         /\ meta[u].stellarConfirmed => meta'[u].stellarConfirmed
  BY <1>5
<1>7. \A u \in Payouts, op \in LifeOps : HasPosted(u, op)' = HasPosted(u, op)
  BY <1>3, CalmFacts
<1>8. Lasts
  BY <1>3, <1>6, <1>7 DEF Lasts
<1>9. GoesOn(p, "prov.find", st[p], hash[p])
  BY <1>3, OnwardGoesOn, SettleLabels DEF LegPatch, AfterReceipt
<1>10. Settles(p, t)'
  BY <1>2, <1>5, <1>7, <1>9 DEF GoesOn, Steps, Settles, BeforeReceipt, AfterReceipt, LifeOps
<1>11. Acting(p)'
  BY <1>2, <1>9, <1>10, ActsSettling DEF GoesOn, Steps, Settle, AfterReceipt
<1>12. Apart(p) /\ OffLocal'
  BY <1>9 DEF GoesOn, Steps
<1>13. ASSUME NEW q \in Procs PROVE Acting(q)'
  <2>1. CASE q = p
    BY <1>11, <2>1
  <2>2. CASE q # p
    BY <1>3, <1>8, <1>12, <2>2, HandlerStays DEF Apart
  <2>3. QED
    BY <2>1, <2>2
<1>14. OffShared'
  <2>1. LedgerSound'
    BY <1>3 DEF OffShared, LedgerSound, SlotsAreKeys
  <2>2. QED
    BY <1>3, <1>5, <2>1 DEF OffShared
<1>15. ASSUME NEW u \in Payouts PROVE Honest(u)'
  <2>1. Honest(u)
    BY DEF OfframpInv
  <2>2. HasPosted(u, "finalize")' => Delivered(u)'
    BY <1>3, <2>1, CalmFacts DEF Honest, LifeOps
  <2>3. HasPosted(u, "lock")' = HasPosted(u, "lock")
    BY <1>7 DEF LifeOps
  <2>4. stl[u].status = "confirmed" => StateIs(u, stl[u].ref, "landed")'
    BY <1>3, <2>1 DEF Honest, StateIs
  <2>5. \A q \in Procs : order[u][q] # "none" => u \in Banked /\ meta'[u].stellarConfirmed
    BY <1>6, <2>1 DEF Honest
  <2>6. QED
    BY <1>3, <2>1, <2>2, <2>3, <2>4, <2>5 DEF Honest
<1>16. ASSUME NEW u \in Banked PROVE Guarded(u)'
  <2>1. Guarded(u) /\ u \in Payouts
    BY WithdrawalsArePayouts DEF OfframpInv
  <2>2. HasPosted(u, "release")' => GivenUp(u)'
    BY <1>3, <2>1, CalmFacts DEF Guarded, LifeOps
  <2>3. HasPosted(u, "lock")' = HasPosted(u, "lock")
    BY <1>7, <2>1 DEF LifeOps
  <2>4. meta'[u].stellarConfirmed =>
          stl[u].status = "confirmed" /\ meta'[u].offRamp /\ HasPosted(u, "lock")
    BY <1>2, <1>4, <1>5, <2>1 DEF Guarded
  <2>5. stl[u].status = "confirmed" =>
          meta'[u].stellarConfirmed \/ \E q \in Procs : pc'[q] = "leg.patch" /\ cur'[q] = u
    <3>1. CASE u = t
      BY <1>5, <3>1
    <3>2. CASE u # t
      BY <1>2, <1>5, <1>12, <2>1, <3>2 DEF Guarded, Apart
    <3>3. QED
      BY <3>1, <3>2
  <2>6. \A i \in 1..Len(chain'[u]) : chain'[u][i].state # "signed" => i = stl'[u].ref
    BY <1>3, <2>1 DEF Guarded
  <2>7. QED
    BY <1>3, <2>2, <2>3, <2>4, <2>5, <2>6 DEF Guarded
<1>17. QED
  BY <1>12, <1>13, <1>14, <1>15, <1>16 DEF OfframpInv

-----------------------------------------------------------------------------
(* Settling a withdrawal: the provider's leg, and the rest of the webhooks. *)

\* After the receipt a settler counts on no more than that.
LEMMA ReceivedActs ==
  ASSUME NEW p \in Procs, NEW t \in Payouts, NEW l \in AfterReceipt, NEW s, NEW h, GoesOn(p, l, s, h),
         cur[p] = t, p \in Settlers, t \in Banked, HasPosted(t, "lock")', meta'[t].stellarConfirmed,
         l = "prov.confirm" => t \notin Live
  PROVE  Acting(p)'
<1>1. Settles(p, t)'
  BY DEF GoesOn, Steps, Settles, BeforeReceipt, AfterReceipt
<1>2. QED
  BY <1>1, ActsSettling DEF GoesOn, Steps, Settle

\* The steps that write to the provider's row only.
LEMMA ProvKeeps ==
  ASSUME OneSettler, OfframpInv, NEW p \in Procs,
         ProvFind(p) \/ ProvInsert(p) \/ ProvFailed(p) \/ ProvSubmitted(p)
  PROVE  OfframpInv'
<1>1. pc[p] \in AfterReceipt /\ pc[p] \in Settle /\ pc[p] # "leg.patch"
  BY DEF ProvFind, ProvInsert, ProvFailed, ProvSubmitted, Settle, AfterReceipt
<1>2. PICK t \in Payouts :
        /\ t = cur[p] /\ t \in Banked /\ p \in Settlers /\ Settles(p, t) /\ HasPosted(t, "lock")
  BY <1>1, SettlerHas
<1>3. /\ OffLocal /\ Calmly /\ UNCHANGED <<tx, meta>>
  BY DEF ProvFind, ProvInsert, ProvFailed, ProvSubmitted, OfframpInv, Calmly
<1>4. meta'[t].stellarConfirmed /\ HasPosted(t, "lock")'
  BY <1>1, <1>2, <1>3, CalmFacts DEF Settles, LifeOps
<1>5. CASE Quit(p)
  BY <1>1, <1>3, <1>5, EndSteps, EndKeepsOff
<1>6. CASE ~Quit(p)
  <2>1. PICK l \in AfterReceipt :
          Continue(p, l) /\ UNCHANGED <<st, hash>> /\ (l = "prov.confirm" => t \notin Live)
    <3>1. CASE ProvFind(p)
      BY <1>6, <3>1 DEF ProvFind, AfterReceipt
    <3>2. CASE ProvInsert(p)
      BY <1>6, <3>2 DEF ProvInsert, Onward, AfterReceipt
    <3>3. CASE ProvFailed(p)
      BY <3>3 DEF ProvFailed, Onward, AfterReceipt
    <3>4. CASE ProvSubmitted(p)
      BY <1>2, <1>6, <3>4 DEF ProvSubmitted, Onward, AfterReceipt
    <3>5. QED
      BY <3>1, <3>2, <3>3, <3>4
  <2>2. GoesOn(p, l, st[p], hash[p])
    BY <1>3, <2>1, GotoGoesOn, SettleLabels DEF Continue
  <2>3. Acting(p)'
    BY <1>2, <1>4, <2>1, <2>2, ReceivedActs
  <2>4. QED
    BY <1>1, <1>3, <2>2, <2>3, QuietKeepsOff DEF GoesOn, Steps
<1>7. QED
  BY <1>5, <1>6

\* One order for each sequenceId; a look-up that finds it paid leaves it paid.
LEMMA ProvSubmitKeeps ==
  ASSUME OneSettler, OfframpInv, NEW p \in Procs, ProvSubmit(p)
  PROVE  OfframpInv'
<1>1. pc[p] = "prov.submit" /\ pc[p] \in AfterReceipt /\ pc[p] \in Settle
  BY DEF ProvSubmit, Settle, AfterReceipt
<1>2. PICK t \in Payouts :
        /\ t = cur[p] /\ t \in Banked /\ p \in Settlers /\ Settles(p, t) /\ HasPosted(t, "lock")
  BY <1>1, SettlerHas
<1>3. /\ OffLocal /\ UNCHANGED <<ledger, tx, stl, chain, meta>>
      /\ order \in [Payouts -> [Procs -> {"none", "open", "paid", "failed"}]]
  BY DEF ProvSubmit, OfframpInv, OffShared
<1>4. meta[t].stellarConfirmed
  BY <1>1, <1>2 DEF Settles
<1>5. PICK q : q = SequenceId(t)
  OBVIOUS
<1>6. PICK r \in ProviderReplies(order[t][q]) :
        order' = [order EXCEPT ![t][q] = r.order] /\ Onward(p, r.label)
  BY <1>2, <1>5 DEF ProvSubmit
<1>7. r.label \in {"prov.failed", "prov.submitted"}
  BY <1>6 DEF ProviderReplies
<1>8. PICK l \in {"prov.failed", "prov.submitted"} : l = r.label
  BY <1>7
<1>9. l \in AfterReceipt /\ l # "prov.confirm"
  BY <1>8 DEF AfterReceipt
<1>10. GoesOn(p, l, st[p], hash[p])
  BY <1>3, <1>6, <1>8, <1>9, OnwardGoesOn, SettleLabels
<1>11. HasPosted(t, "lock")'
  BY <1>2, <1>3 DEF HasPosted
<1>12. Acting(p)'
  BY <1>2, <1>3, <1>4, <1>9, <1>10, <1>11, ReceivedActs
<1>13. CASE q \in Procs
  <2>1. PICK s \in {"none", "open", "paid", "failed"} :
          s = r.order /\ (order[t][q] = "paid" => s = "paid")
    <3>1. order[t][q] \in {"none", "open", "paid", "failed"}
      BY <1>3, <1>13
    <3>2. QED
      BY <1>6, <3>1 DEF ProviderReplies
  <2>2. order' = [order EXCEPT ![t][q] = s]
    BY <1>6, <2>1
  <2>3. PatchersStay /\ OffLocal' /\ Apart(p)
    BY <1>1, <1>10 DEF PatchersStay, GoesOn, Steps, Apart
  <2>4. ASSUME Lasts, NEW o \in Procs PROVE Acting(o)'
    <3>1. CASE o = p
      BY <1>12, <3>1
    <3>2. CASE o # p
      BY <1>3, <2>3, <2>4, <3>2, HandlerStays DEF Apart
    <3>3. QED
      BY <3>1, <3>2
  <2>5. QED
    BY <1>2, <1>3, <1>4, <1>13, <2>1, <2>2, <2>3, <2>4, OrderKeeps
<1>14. CASE q \notin Procs
  <2>1. order' = order
    BY <1>2, <1>3, <1>6, <1>14
  <2>2. QED
    BY <1>1, <1>3, <1>10, <1>12, <2>1, QuietKeepsOff DEF GoesOn, Steps, Calmly
<1>15. QED
  BY <1>13, <1>14

\* In TEST there is no bank to pay.
LEMMA ProvConfirmKeeps ==
  ASSUME OneSettler, OfframpInv, NEW p \in Procs, ProvConfirm(p)
  PROVE  OfframpInv'
<1>1. pc[p] = "prov.confirm" /\ pc[p] \in AfterReceipt /\ pc[p] \in Settle
  BY DEF ProvConfirm, Settle, AfterReceipt
<1>2. PICK t \in Payouts :
        /\ t = cur[p] /\ t \in Banked /\ p \in Settlers /\ Settles(p, t) /\ Honest(t) /\ Guarded(t)
  BY <1>1, SettlerHas
<1>3. OffLocal /\ Calmly /\ UNCHANGED <<tx, meta>>
  BY DEF ProvConfirm, OfframpInv, Calmly
<1>4. t \notin Live /\ meta[t].stellarConfirmed
  BY <1>1, <1>2 DEF Settles
<1>5. Delivered(t)
  <2>1. StateIs(t, stl[t].ref, "landed")
    BY <1>2, <1>4 DEF Guarded, Honest
  <2>2. QED
    BY <1>4, <2>1 DEF Delivered, Received, Landed, StateIs
<1>6. CallsOff(p, "fin.load", t, Idle)
  <2>1. /\ Call(p, t, "fin.load", Idle) /\ st' = [st EXCEPT ![p] = NoSettlement]
        /\ hash' = [hash EXCEPT ![p] = 0] /\ UNCHANGED <<row, amt>>
    BY <1>2 DEF ProvConfirm, HandOver, Idle
  <2>2. Idle \in OffSettled /\ "fin.load" \in OffLabels
    BY DEF OffSettled, OffLabels, Finalizing
  <2>3. QED
    BY <1>3, <2>1, <2>2, CallSteps
<1>7. Delivered(t)'
  BY <1>3, <1>5, CalmFacts
<1>8. Acting(p)'
  BY <1>6, <1>7, ActsFinalizing DEF CallsOff, Steps, Finalizing, OffSettled
<1>9. QED
  BY <1>1, <1>3, <1>6, <1>8, QuietKeepsOff DEF CallsOff, Steps

LEMMA WebhookRestKeeps ==
  ASSUME OfframpInv, NEW p \in Procs, PaidProv(p) \/ UnpaidProv(p)
  PROVE  OfframpInv'
<1>1. pc[p] \in {"paid.prov", "unpaid.prov"}
  BY DEF PaidProv, UnpaidProv
<1>2. /\ OffLocal /\ Calmly /\ UNCHANGED <<tx, meta>> /\ cur[p] \in Payouts
  BY <1>1 DEF PaidProv, UnpaidProv, OfframpInv, Calmly, Acting
<1>3. CASE PaidProv(p)
  <2>1. GoesOn(p, "paid.patch", st[p], hash[p])
    BY <1>2, <1>3, OnwardGoesOn DEF PaidProv, OffLabels, WebhookLabels
  <2>2. Acting(p)'
    BY <1>2, <2>1, ActsFree DEF GoesOn, Steps, WebhookLabels
  <2>3. QED
    BY <1>1, <1>2, <2>1, <2>2, QuietKeepsOff DEF GoesOn, Steps
<1>4. CASE UnpaidProv(p)
  BY <1>1, <1>2, <1>4, EndSteps, EndKeepsOff DEF UnpaidProv
<1>5. QED
  BY <1>3, <1>4

-----------------------------------------------------------------------------
(* Every step, and the start. *)

LEMMA OfframpNextKeeps ==
  ASSUME OneSettler, OfframpInv, OfframpNext
  PROVE  OfframpInv'
<1>1. ASSUME NEW p \in Procs, OfframpStep(p) PROVE OfframpInv'
  <2>1. CASE OfframpMark(p) \/ OffRail(p) \/ LegInsert(p) \/ LegMark(p) \/ LegPrepare(p)
    BY <2>1, MarkKeeps, OffRailKeeps, LegInsertKeeps, LegPrepareKeeps
  <2>2. CASE LegSave(p) \/ LegSubmit(p) \/ LegFailed(p) \/ LegSubmitted(p) \/ LegVerify(p)
               \/ LegConfirm(p) \/ LegPatch(p)
    BY <2>2, LegSaveKeeps, LegSubmitKeeps, LegFailedKeeps, LegSubmittedKeeps, LegVerifyKeeps,
       LegConfirmKeeps, LegPatchKeeps
  <2>3. CASE ProvFind(p) \/ ProvInsert(p) \/ ProvSubmit(p) \/ ProvFailed(p) \/ ProvSubmitted(p)
               \/ ProvConfirm(p)
    BY <2>3, ProvKeeps, ProvSubmitKeeps, ProvConfirmKeeps
  <2>4. CASE ProvAwaitRetry(p) \/ PaidPatch(p) \/ UnpaidPatch(p)
    BY <2>4, StatusKeepsOff DEF ProvAwaitRetry, PaidPatch, UnpaidPatch
  <2>5. CASE PaidProv(p) \/ UnpaidProv(p)
    BY <2>5, WebhookRestKeeps
  <2>6. QED
    BY <1>1, <2>1, <2>2, <2>3, <2>4, <2>5 DEF OfframpStep
<1>2. ASSUME NEW p \in Settlers, NEW t \in Payouts,
             settleFiatOfframp(p, t) \/ retryFiatOfframpProvider(p, t)
      PROVE  OfframpInv'
  <2>1. p \in Procs
    BY DEF OneSettler
  <2>2. QED
    BY <1>2, <2>1, SettleStartKeepsOff
<1>3. ASSUME NEW p \in Procs, NEW t \in Payouts, OfframpCreate(p, t) PROVE OfframpInv'
  <2>1. UNCHANGED <<stellarVars, offVars>>
    BY <1>3 DEF OfframpCreate
  <2>2. QED
    BY <1>3, <2>1, CreateKeepsOff
<1>4. ASSUME NEW p \in Procs, NEW t \in Payouts, OfframpSuccess(p, t) \/ OfframpFailure(p, t)
      PROVE  OfframpInv'
  BY <1>4, WebhooksKeepOff
<1>5. ASSUME NEW p \in Procs, Step(p) /\ UNCHANGED <<stellarVars, offVars>> PROVE OfframpInv'
  BY <1>5, StepKeepsOff
<1>6. ASSUME NEW t \in Payouts, NEW p \in Procs, NEW o \in {"paid", "failed"},
             ProviderEnds(t, p, o) /\ UNCHANGED <<stellarVars, offVars>>
      PROVE  OfframpInv'
  BY <1>6, ProviderKeepsOff
<1>7. ASSUME NEW p \in Procs, OfframpStop(p) PROVE OfframpInv'
  BY <1>7, StopKeepsOff
<1>8. CASE SettlementStep /\ UNCHANGED offVars
  BY <1>8, SettlementKeepsOff
<1>9. QED
  BY <1>1, <1>2, <1>3, <1>4, <1>5, <1>6, <1>7, <1>8 DEF OfframpNext

LEMMA OfframpStutters ==
  ASSUME OfframpInv, UNCHANGED everyVar
  PROVE  OfframpInv'
<1>1. UNCHANGED <<ledger, tx, pc, cur, row, amt, cont, order, stl, chain, st, hash, meta>>
  BY DEF everyVar, allVars, offVars
<1>2. Lasts
  BY <1>1 DEF Lasts, HasPosted
<1>3. \A q \in Procs : Acting(q)'
  BY <1>1, <1>2, HandlerStays
<1>4. OffShared' /\ OffLocal'
  BY <1>1 DEF OfframpInv, OffShared, OffLocal, LedgerSound, SlotsAreKeys
<1>5. \A t \in Payouts : Honest(t)'
  BY <1>1 DEF OfframpInv, Honest, StateIs, HasPosted, Delivered, Received, Landed, Orders
<1>6. ASSUME NEW t \in Banked PROVE Guarded(t)'
  <2>1. Guarded(t) /\ Calmly /\ t \in Payouts
    BY <1>1, WithdrawalsArePayouts DEF OfframpInv, Calmly
  <2>2. HasPosted(t, "release")' = HasPosted(t, "release") /\ HasPosted(t, "lock")' = HasPosted(t, "lock")
    BY <2>1, CalmFacts DEF LifeOps
  <2>3. GivenUp(t)' = GivenUp(t)
    BY <2>1, CalmFacts
  <2>4. stl'[t].status = "confirmed" =>
          meta'[t].stellarConfirmed \/ \E q \in Procs : pc'[q] = "leg.patch" /\ cur'[q] = t
    BY <1>1, <2>1 DEF Guarded
  <2>5. QED
    BY <1>1, <2>1, <2>2, <2>3, <2>4 DEF Guarded
<1>7. QED
  BY <1>3, <1>4, <1>5, <1>6 DEF OfframpInv

LEMMA OfframpStarts ==
  ASSUME OfframpInit
  PROVE  OfframpInv
<1>1. LedgerSound /\ \A t \in Payouts, op \in LifeOps : ~HasPosted(t, op)
  BY LedgerStart DEF OfframpInit, StellarInit, Init
<1>2. /\ tx = [t \in Payouts |-> NoTx] /\ pc = [p \in Procs |-> "idle"]
      /\ cur = [p \in Procs |-> NoOne] /\ row = [p \in Procs |-> NoTx]
      /\ amt = [p \in Procs |-> 0] /\ cont = [p \in Procs |-> Idle]
      /\ order = [t \in Payouts |-> [p \in Procs |-> "none"]]
      /\ stl = [t \in Payouts |-> NoSettlement] /\ chain = [t \in Payouts |-> <<>>]
      /\ st = [p \in Procs |-> NoSettlement] /\ hash = [p \in Procs |-> 0]
      /\ meta = [t \in Payouts |-> NoMeta]
  BY DEF OfframpInit, StellarInit, Init, LifeInit
<1>3. /\ NoTx \in TxRow /\ ~LockedRow(NoTx) /\ NoSettlement \in SettlementRow
      /\ NoSettlement.ref = 0 /\ NoSettlement.status = "none"
      /\ NoMeta \in [offRamp : BOOLEAN, stellarConfirmed : BOOLEAN] /\ ~NoMeta.stellarConfirmed
  BY DEF NoTx, TxRow, LockedRow, NoSettlement, SettlementRow, SettlementStatuses, NoMeta
<1>4. IsChain(<<>>) /\ Len(<<>>) = 0
  BY DEF IsChain
<1>5. OffShared
  BY <1>1, <1>2, <1>3, <1>4 DEF OffShared
<1>6. OffLocal
  <2>1. "idle" \in OffLabels /\ Idle \in OffSettled
    BY DEF OffLabels, OffSettled
  <2>2. QED
    BY <1>2, <1>3, <2>1 DEF OffLocal
<1>7. \A t \in Payouts : Honest(t)
  BY <1>1, <1>2, <1>3 DEF Honest, LifeOps
<1>8. \A t \in Banked : Guarded(t)
  BY <1>1, <1>2, <1>3, <1>4, WithdrawalsArePayouts DEF Guarded, LifeOps
<1>9. \A p \in Procs : Acting(p)
  BY <1>2 DEF Acting, Locking, Finalizing, Releasing, SendingCrypto, Settle, BeforeReceipt, AfterReceipt
<1>10. QED
  BY <1>5, <1>6, <1>7, <1>8, <1>9 DEF OfframpInv

LEMMA OfframpInvariant == OneSettler => (ReconSpec => []OfframpInv)
<1>. SUFFICES ASSUME OneSettler PROVE ReconSpec => []OfframpInv
  OBVIOUS
<1>1. ReconInit => OfframpInv
  BY OfframpStarts DEF ReconInit
<1>2. OfframpInv /\ [ReconNext]_reconciledVars => OfframpInv'
  <2>. SUFFICES ASSUME OfframpInv, [ReconNext]_reconciledVars PROVE OfframpInv'
    OBVIOUS
  <2>1. CASE OfframpNext
    BY <2>1, OfframpNextKeeps
  <2>2. CASE UNCHANGED everyVar
    BY <2>2, OfframpStutters
  <2>3. QED
    BY <2>1, <2>2 DEF ReconNext, LoadTransaction, ObserveLedger, ObserveSettlement, reconciledVars
<1>3. QED
  BY <1>1, <1>2, PTL DEF ReconSpec

-----------------------------------------------------------------------------
(* What follows. *)

\* An envelope of a withdrawal that landed is that of its settlement row.
LEMMA LandedIsRow ==
  ASSUME OfframpInv, NEW t \in Banked, NEW i \in Landed(chain[t])
  PROVE  i = stl[t].ref /\ StateIs(t, stl[t].ref, "landed")
<1>1. i \in 1..Len(chain[t]) /\ chain[t][i].state = "landed"
  BY DEF Landed
<1>2. i = stl[t].ref
  BY <1>1 DEF OfframpInv, Guarded
<1>3. QED
  BY <1>1, <1>2 DEF StateIs

\* "Provider failure after Stellar success does NOT unlock Alice" (infraFiatWithdrawalService
\* .ts): once the treasury has the organisation's USDC, no webhook, retry, refusal or crash
\* returns the lock, unless a submission threw for less than a dead envelope.
THEOREM ReceiptsKeepLocks == OneSettler => (ReconSpec => []ReceiptKeepsLock)
<1>. SUFFICES ASSUME OneSettler PROVE ReconSpec => []ReceiptKeepsLock
  OBVIOUS
<1>1. OfframpInv => ReceiptKeepsLock
  <2>. SUFFICES ASSUME OfframpInv, NEW t \in Banked, Received(t), HasPosted(t, "release")
                PROVE  Doubted(t)
    BY DEF ReceiptKeepsLock
  <2>1. PICK i : i \in Landed(chain[t])
    BY DEF Received
  <2>2. StateIs(t, stl[t].ref, "landed")
    BY <2>1, LandedIsRow
  <2>3. StateIs(t, stl[t].ref, "failed") \/ Doubted(t)
    BY DEF OfframpInv, Guarded, GivenUp
  <2>4. QED
    BY <2>2, <2>3 DEF StateIs
<1>2. QED
  BY <1>1, OfframpInvariant, PTL

\* "... and does NOT pretend the bank was paid": the lock of a LIVE payout is consumed only
\* when its USDC has landed, and that of a withdrawal only when the provider has paid the
\* bank as well, whichever of the settler, the webhook and the confirmation consumes it.
THEOREM DebitsAreDelivered == OneSettler => (ReconSpec => []DebitedIsDelivered)
<1>. SUFFICES ASSUME OneSettler PROVE ReconSpec => []DebitedIsDelivered
  OBVIOUS
<1>1. OfframpInv => DebitedIsDelivered
  <2>. SUFFICES ASSUME OfframpInv, NEW t \in Live, HasPosted(t, "finalize")
                PROVE  Received(t) /\ (t \in Banked => Orders(t, {"paid"}) # {})
    BY DEF DebitedIsDelivered
  <2>1. t \in Payouts
    BY PayoutAssumption
  <2>2. Delivered(t)
    BY <2>1 DEF OfframpInv, Honest
  <2>3. QED
    BY <2>2 DEF Delivered
<1>2. QED
  BY <1>1, OfframpInvariant, PTL

\* "lock, Alice's USDC to the treasury, confirm, Provider payout" (settleFiatOfframp): the
\* provider holds an order, open or paid, only for a payout that was received and whose lock
\* was not returned, unless a submission threw for less than a dead envelope.
THEOREM OrdersFollowReceipts == OneSettler => (ReconSpec => []OrderAfterReceipt)
<1>. SUFFICES ASSUME OneSettler PROVE ReconSpec => []OrderAfterReceipt
  OBVIOUS
<1>1. OfframpInv /\ ReceiptKeepsLock => OrderAfterReceipt
  <2>. SUFFICES ASSUME OfframpInv, ReceiptKeepsLock, NEW t \in Banked, Orders(t, {"open", "paid"}) # {}
                PROVE  /\ Received(t) /\ meta[t].stellarConfirmed
                       /\ HasPosted(t, "lock") /\ (HasPosted(t, "release") => Doubted(t))
    BY DEF OrderAfterReceipt
  <2>1. t \in Payouts
    BY WithdrawalsArePayouts
  <2>2. meta[t].stellarConfirmed
    BY <2>1 DEF OfframpInv, Honest, Orders
  <2>3. stl[t].status = "confirmed" /\ HasPosted(t, "lock")
    BY <2>2 DEF OfframpInv, Guarded
  <2>4. Received(t)
    BY <2>1, <2>3 DEF OfframpInv, Honest, StateIs, Received, Landed
  <2>5. QED
    BY <2>2, <2>3, <2>4 DEF ReceiptKeepsLock
<1>2. QED
  BY <1>1, OfframpInvariant, ReceiptsKeepLocks, PTL

\* "Persist the XDR, then submit the same envelope on retry" (settleStellarToTreasury): the
\* USDC of a withdrawal leaves the organisation's wallet once, however often it is settled
\* again after a crash, a timeout or a late answer.
THEOREM ReceivedAtMostOnce == OneSettler => (ReconSpec => []ReceivedOnce)
<1>. SUFFICES ASSUME OneSettler PROVE ReconSpec => []ReceivedOnce
  OBVIOUS
<1>1. OfframpInv => ReceivedOnce
  <2>. SUFFICES ASSUME OfframpInv, NEW t \in Banked PROVE Cardinality(Landed(chain[t])) <= 1
    BY DEF ReceivedOnce
  <2>1. CASE Landed(chain[t]) = {}
    BY <2>1, FS_EmptySet
  <2>2. CASE Landed(chain[t]) # {}
    <3>1. Landed(chain[t]) = {stl[t].ref}
      BY <2>2, LandedIsRow
    <3>2. Cardinality(Landed(chain[t])) = 1
      BY <3>1, FS_Singleton, Zenon
    <3>3. QED
      BY <3>2
  <2>3. QED
    BY <2>1, <2>2
<1>2. QED
  BY <1>1, OfframpInvariant, PTL

\* confirmStellarSettlement, the settler of a crypto payout and that of a withdrawal write
\* "confirmed" on a row only when the network has taken the envelope it refers to.
THEOREM ConfirmedHaveLanded == OneSettler => (ReconSpec => []ConfirmedIsLanded)
<1>. SUFFICES ASSUME OneSettler PROVE ReconSpec => []ConfirmedIsLanded
  OBVIOUS
<1>1. OfframpInv => ConfirmedIsLanded
  BY DEF OfframpInv, Honest, StateIs, Landed, ConfirmedIsLanded
<1>2. QED
  BY <1>1, OfframpInvariant, PTL

-----------------------------------------------------------------------------
(* Reconciliation beside it. *)

\* The ledger calls are the only steps that change the ledger ...
LEMMA OnlyCallsPost ==
  ASSUME OfframpNext
  PROVE  \/ ledger' = ledger
         \/ \E p \in Procs : LockPost(p) \/ FinalizePost(p) \/ ReleasePost(p)
<1>1. ASSUME NEW p \in Procs, OfframpStep(p) PROVE ledger' = ledger
  <2>1. CASE OfframpMark(p) \/ OffRail(p) \/ LegInsert(p) \/ LegMark(p) \/ LegPrepare(p) \/ LegSave(p)
               \/ LegSubmit(p) \/ LegFailed(p) \/ LegSubmitted(p) \/ LegVerify(p)
    BY <2>1 DEF OfframpMark, OffRail, LegInsert, LegMark, LegPrepare, LegSave, LegSubmit, LegFailed,
                LegSubmitted, LegVerify
  <2>2. CASE LegConfirm(p) \/ LegPatch(p) \/ ProvFind(p) \/ ProvInsert(p) \/ ProvSubmit(p)
               \/ ProvFailed(p) \/ ProvAwaitRetry(p)
    BY <2>2 DEF LegConfirm, LegPatch, ProvFind, ProvInsert, ProvSubmit, ProvFailed, ProvAwaitRetry
  <2>3. CASE ProvSubmitted(p) \/ ProvConfirm(p) \/ PaidProv(p) \/ PaidPatch(p) \/ UnpaidPatch(p)
               \/ UnpaidProv(p)
    BY <2>3 DEF ProvSubmitted, ProvConfirm, PaidProv, PaidPatch, UnpaidPatch, UnpaidProv
  <2>4. QED
    BY <1>1, <2>1, <2>2, <2>3 DEF OfframpStep
<1>2. ASSUME NEW p \in Procs, Step(p)
      PROVE  ledger' = ledger \/ LockPost(p) \/ FinalizePost(p) \/ ReleasePost(p)
  <2>1. CASE LifeStep(p)
    BY <2>1 DEF LifeStep, LockLoad, LockPatch, FinalizeLoad, FinalizePatch, ReleaseLoad, ReleasePatch
  <2>2. CASE InsertTx(p) \/ LockFailed(p) \/ Submit(p) \/ Submitted(p)
    BY <2>2 DEF InsertTx, LockFailed, Submit, Submitted
  <2>3. QED
    BY <1>2, <2>1, <2>2 DEF Step
<1>3. ASSUME NEW p \in Procs, StellarStep(p) PROVE ledger' = ledger
  BY <1>3 DEF StellarStep, StlFind, StlRecheck, StlInsert, StlSubmit, StlFailed, StlSubmitted,
              StlVerify, confirmAndFinalize
<1>4. CASE SettlementStep
  BY <1>3, <1>4 DEF SettlementStep, CreateFind, settlePayoutOnStellar, confirmStellarSettlement,
                    NetworkResolves, vars
<1>5. ASSUME NEW p \in Procs, NEW t \in Payouts,
             \/ OfframpCreate(p, t) \/ settleFiatOfframp(p, t) \/ retryFiatOfframpProvider(p, t)
             \/ OfframpSuccess(p, t) \/ OfframpFailure(p, t) \/ OfframpStop(p)
      PROVE  ledger' = ledger
  BY <1>5 DEF OfframpCreate, settleFiatOfframp, retryFiatOfframpProvider, OfframpSuccess,
              OfframpFailure, OfframpStop
<1>6. ASSUME NEW t \in Payouts, NEW p \in Procs, NEW o, ProviderEnds(t, p, o)
      PROVE  ledger' = ledger
  BY <1>6 DEF ProviderEnds, lifeVars
<1>7. CASE \E p \in Settlers, t \in Payouts : settleFiatOfframp(p, t) \/ retryFiatOfframpProvider(p, t)
  BY <1>7 DEF settleFiatOfframp, retryFiatOfframpProvider
<1>8. CASE \E p \in Procs : OfframpStop(p)
  BY <1>8 DEF OfframpStop
<1>9. QED
  BY <1>1, <1>2, <1>4, <1>5, <1>6, <1>7, <1>8 DEF OfframpNext

\* ... and a debit stays posted.
LEMMA DebitsLast ==
  ASSUME OfframpInv, OfframpNext, NEW t \in Payouts, HasPosted(t, "finalize")
  PROVE  HasPosted(t, "finalize")'
<1>1. CASE ledger' = ledger
  BY <1>1 DEF HasPosted
<1>2. CASE \E p \in Procs : LockPost(p) \/ FinalizePost(p) \/ ReleasePost(p)
  <2>1. PICK p \in Procs : LockPost(p) \/ FinalizePost(p) \/ ReleasePost(p)
    BY <1>2
  <2>2. PICK op \in LifeOps : \E l : LedgerCall(p, op, l, cont[p].err)
    BY <2>1 DEF LockPost, FinalizePost, ReleasePost, LifeOps
  <2>3. pc[p] \in {"lock.post", "fin.post", "rel.post"}
    BY <2>1 DEF LockPost, FinalizePost, ReleasePost
  <2>4. PICK u \in Payouts : u = cur[p]
    BY <2>3 DEF OfframpInv, Acting
  <2>5. amt[p] # 0 /\ amt[p] \in Amounts \cup {0}
    BY <2>3 DEF OfframpInv, Acting, OffLocal
  <2>6. PICK a \in Amounts : a = amt[p]
    BY <2>5
  <2>7. CASE ~HasPosted(u, op) /\ Covers(op, ledger.rows[Org].bal, a)
             /\ ledger' = Post(ledger, PayoutLeg(u, op, a))
    <3>1. LedgerSound
      BY DEF OfframpInv, OffShared
    <3>2. \A v \in Payouts, o \in LifeOps : HasPosted(v, o)' <=> HasPosted(v, o) \/ (v = u /\ o = op)
      BY <2>7, <3>1, LegPosts
    <3>3. QED
      BY <3>2 DEF LifeOps
  <2>8. CASE ledger' = ledger
    BY <2>8 DEF HasPosted
  <2>9. QED
    BY <2>2, <2>4, <2>6, <2>7, <2>8 DEF LedgerCall
<1>3. QED
  BY <1>1, <1>2, OnlyCallsPost

\* The gravest of some mismatches is one of them.
LEMMA GravestIsOne ==
  ASSUME NEW S, S \subseteq 1..9, S # {}
  PROVE  Min(S) \in S
<1>1. \E k \in 1..9 : k \in S /\ \A j \in 1..9 : j < k => j \notin S
  <2>1. CASE S \cap 1..4 # {}
    <3>1. 1 \in S \/ 2 \in S \/ 3 \in S \/ 4 \in S
      BY <2>1
    <3>2. QED
      BY <3>1
  <2>2. CASE S \cap 1..4 = {}
    <3>1. 1 \notin S /\ 2 \notin S /\ 3 \notin S /\ 4 \notin S
      BY <2>2
    <3>2. PICK k \in S : k \in 1..9
      OBVIOUS
    <3>3. 5 \in S \/ 6 \in S \/ 7 \in S \/ 8 \in S \/ 9 \in S
      BY <3>1, <3>2
    <3>4. QED
      BY <3>1, <3>3
  <2>3. QED
    BY <2>1, <2>2
<1>2. \E k \in S : \A j \in S : k <= j
  BY <1>1
<1>3. QED
  BY <1>2 DEF Min

\* What is judged RECONCILED has a ledger leg, which is a debit.
LEMMA ReconciledIsPresent ==
  ASSUME NEW provider, NEW l, NEW settlement, NEW amounts,
         classify(provider, l, settlement, amounts) = "RECONCILED"
  PROVE  l.present
<1>. SUFFICES ASSUME ~l.present PROVE FALSE
  OBVIOUS
<1>. DEFINE found == Mismatches(provider, l, settlement, amounts)
            S == {i \in DOMAIN Priority : Priority[i] \in found}
<1>1. LedgerMismatch(l) = {"LEDGER_PENDING"} \/ LedgerMismatch(l) = {"MISSING_LEDGER"}
  BY DEF LedgerMismatch
<1>2. "LEDGER_PENDING" \in found \/ "MISSING_LEDGER" \in found
  BY <1>1 DEF Mismatches
<1>3. DOMAIN Priority = 1..9 /\ Priority[5] = "MISSING_LEDGER" /\ Priority[8] = "LEDGER_PENDING"
  BY DEF Priority
<1>4. S \subseteq 1..9 /\ S # {}
  BY <1>2, <1>3
<1>5. Min(S) \in S
  BY <1>4, GravestIsOne
<1>6. \A i \in 1..9 : Priority[i] # "RECONCILED"
  BY DEF Priority
<1>7. classify(provider, l, settlement, amounts) = Priority[Min(S)]
  BY <1>2 DEF classify
<1>8. QED
  BY <1>4, <1>5, <1>6, <1>7

\* What the run in progress is: a record of what it has read.
AuditTyped ==
  /\ audit = [at |-> audit.at, tx |-> audit.tx, provider |-> audit.provider,
              ledger |-> audit.ledger, offRamp |-> audit.offRamp, locked |-> audit.locked,
              amounts |-> audit.amounts]
  /\ item = [t \in Payouts |-> item[t]]

\* What reconciliation has read of a payout still holds of it.
AuditInv ==
  /\ audit.at # "idle" => audit.tx \in Reviewed
  /\ audit.at = "settlement" /\ audit.ledger.present => HasPosted(audit.tx, "finalize")
  /\ \A t \in Reviewed : item[t] = "RECONCILED" => HasPosted(t, "finalize")

LEMMA AuditStarts ==
  ASSUME Reviewed \subseteq Payouts, ReconInit
  PROVE  AuditTyped /\ AuditInv
<1>1. audit = NoAudit /\ item = [t \in Payouts |-> "none"]
  BY DEF ReconInit
<1>2. AuditTyped
  BY <1>1 DEF AuditTyped, NoAudit
<1>3. audit.at = "idle"
  BY <1>1 DEF NoAudit
<1>4. \A t \in Payouts : item[t] # "RECONCILED"
  BY <1>1
<1>5. QED
  BY <1>2, <1>3, <1>4 DEF AuditInv

\* A step that keeps the verdicts, and what is read or has been read of a payout.
LEMMA AuditKeeps ==
  ASSUME Reviewed \subseteq Payouts, OfframpInv, AuditTyped, AuditInv, [ReconNext]_reconciledVars
  PROVE  AuditTyped' /\ AuditInv'
<1>1. \A t \in Payouts : HasPosted(t, "finalize") => HasPosted(t, "finalize")'
  <2>1. CASE OfframpNext
    BY <2>1, DebitsLast
  <2>2. CASE UNCHANGED everyVar
    <3>1. ledger' = ledger
      BY <2>2 DEF everyVar, allVars
    <3>2. QED
      BY <3>1 DEF HasPosted
  <2>3. QED
    BY <2>1, <2>2 DEF ReconNext, LoadTransaction, ObserveLedger, ObserveSettlement, reconciledVars
<1>2. \A t \in Reviewed : t \in Payouts
  OBVIOUS
<1>3. ASSUME NEW t \in Reviewed, item[t] = "RECONCILED" PROVE HasPosted(t, "finalize")'
  BY <1>1, <1>2, <1>3 DEF AuditInv
<1>4. CASE UNCHANGED reconVars
  <2>1. audit' = audit /\ item' = item
    BY <1>4 DEF reconVars
  <2>2. PICK a : a = audit
    OBVIOUS
  <2>3. a.at = "settlement" /\ a.ledger.present => HasPosted(a.tx, "finalize")'
    <3>1. a.at = "settlement" /\ a.ledger.present => a.tx \in Reviewed /\ HasPosted(a.tx, "finalize")
      BY <2>2 DEF AuditInv
    <3>2. QED
      BY <1>1, <1>2, <3>1
  <2>4. a.at = "settlement" /\ a.ledger.present => HasPosted(audit.tx, "finalize")'
    BY <2>1, <2>2, <2>3
  <2>5. QED
    BY <1>3, <2>1, <2>2, <2>4 DEF AuditTyped, AuditInv
<1>5. ASSUME NEW t \in Payouts, LoadTransaction(t) PROVE AuditTyped' /\ AuditInv'
  <2>1. /\ audit'.at = "ledger" /\ audit'.tx = t /\ t \in Reviewed /\ item' = item
        /\ audit' = [at |-> audit'.at, tx |-> audit'.tx, provider |-> audit'.provider,
                     ledger |-> audit'.ledger, offRamp |-> audit'.offRamp, locked |-> audit'.locked,
                     amounts |-> audit'.amounts]
    BY <1>5 DEF LoadTransaction
  <2>2. QED
    BY <1>3, <2>1 DEF AuditTyped, AuditInv
<1>6. CASE ObserveLedger
  <2>. DEFINE t == audit.tx
              ms == ledger.movements[Org]
              debits == {ms[i] : i \in {j \in DOMAIN ms : ms[j].ref = t /\ ms[j].type = "payout_settle"}}
  <2>1. t \in Reviewed /\ t \in Payouts
    BY <1>2, <1>6 DEF ObserveLedger, AuditInv
  <2>2. PICK b : b = audit
    OBVIOUS
  <2>3. b = [at |-> b.at, tx |-> b.tx, provider |-> b.provider, ledger |-> b.ledger,
             offRamp |-> b.offRamp, locked |-> b.locked, amounts |-> b.amounts]
    BY <2>2 DEF AuditTyped
  <2>4. PICK led, am :
          /\ audit' = [b EXCEPT !.at = "settlement", !.ledger = led, !.amounts = am]
          /\ led = IF debits # {} THEN [present |-> TRUE, status |-> "DEBITED"]
                   ELSE IF audit.locked THEN [NoLedger EXCEPT !.status = "LOCKED"] ELSE NoLedger
    BY <1>6, <2>2 DEF ObserveLedger
  <2>5. led.present => debits # {}
    BY <2>4 DEF NoLedger
  <2>6. audit' = [at |-> "settlement", tx |-> b.tx, provider |-> b.provider, ledger |-> led,
                  offRamp |-> b.offRamp, locked |-> b.locked, amounts |-> am]
    BY <2>3, <2>4
  <2>7. debits # {} => HasPosted(t, "finalize")
    <3>. SUFFICES ASSUME debits # {} PROVE HasPosted(t, "finalize")
      OBVIOUS
    <3>1. LedgerSound
      BY DEF OfframpInv, OffShared
    <3>2. Org \in Wallets /\ t # NoRef
      BY <2>1, QuotesAssumption, PayoutKeysAssumption
    <3>3. PICK i \in DOMAIN ms : ms[i].ref = t /\ ms[i].type = "payout_settle"
      OBVIOUS
    <3>4. DOMAIN ms = 1..Len(ms)
      BY <3>1, <3>2, SeqDef DEF LedgerSound, Well, Ledger
    <3>5. ms[i].key = <<t, KeyOfType["payout_settle"]>>
      BY <3>1, <3>2, <3>3, <3>4 DEF LedgerSound, SlotsAreKeys
    <3>6. ms[i].key = <<t, "finalize">>
      BY <3>5 DEF KeyOfType
    <3>7. QED
      BY <3>2, <3>3, <3>4, <3>6 DEF HasPosted, Posted
  <2>8. PICK u : u = t
    OBVIOUS
  <2>9. led.present => HasPosted(u, "finalize")'
    BY <1>1, <2>1, <2>5, <2>7, <2>8
  <2>10. audit'.tx = u
    BY <2>2, <2>6, <2>8
  <2>11. led.present => HasPosted(audit.tx, "finalize")'
    BY <2>9, <2>10
  <2>12. item' = item
    BY <1>6 DEF ObserveLedger
  <2>13. AuditTyped'
    BY <2>6, <2>12 DEF AuditTyped
  <2>14. audit'.tx \in Reviewed
    BY <2>1, <2>8, <2>10
  <2>15. audit'.ledger = led
    BY <2>6
  <2>16. QED
    BY <1>3, <2>11, <2>12, <2>13, <2>14, <2>15 DEF AuditInv
<1>7. CASE ObserveSettlement
  <2>1. PICK v : item' = [item EXCEPT ![audit.tx] = v] /\
                 v = classify(audit.provider, audit.ledger,
                              observeSettlement(audit.tx, audit.offRamp), audit.amounts)
    BY <1>7 DEF ObserveSettlement
  <2>2. audit.at = "settlement" /\ audit' = NoAudit
    BY <1>7 DEF ObserveSettlement
  <2>3. v = "RECONCILED" => audit.ledger.present
    BY <2>1, ReconciledIsPresent
  <2>4. PICK u \in Reviewed : u = audit.tx
    BY <2>2 DEF AuditInv
  <2>5. v = "RECONCILED" => HasPosted(u, "finalize")'
    BY <1>1, <1>2, <2>2, <2>3, <2>4 DEF AuditInv
  <2>6. AuditTyped'
    BY <2>1, <2>2 DEF AuditTyped, NoAudit
  <2>7. ASSUME NEW t \in Reviewed, item'[t] = "RECONCILED" PROVE HasPosted(t, "finalize")'
    <3>1. item'[t] = IF t = u THEN v ELSE item[t]
      BY <1>2, <2>1, <2>4 DEF AuditTyped
    <3>2. QED
      BY <1>3, <2>5, <2>7, <3>1
  <2>8. audit'.at = "idle"
    BY <2>2 DEF NoAudit
  <2>9. QED
    BY <2>6, <2>7, <2>8 DEF AuditInv
<1>8. QED
  BY <1>4, <1>5, <1>6, <1>7 DEF ReconNext, reconciledVars

\* A lock of a crypto payout that is looked at was not both consumed and returned.
CryptoLocksEndOnce ==
  \A t \in Reviewed \ Banked : ~(HasPosted(t, "finalize") /\ HasPosted(t, "release"))

\* What a verdict rests on: the three rows it was read from, and what they say for good.
LEMMA VerdictIsRight ==
  ASSUME Reviewed \subseteq Payouts, OfframpInv, ReceiptKeepsLock, AuditInv, CryptoLocksEndOnce
  PROVE  ReconciledIsDelivered
<1>. SUFFICES ASSUME NEW t \in Reviewed, item[t] = "RECONCILED"
              PROVE  /\ HasPosted(t, "finalize") /\ (HasPosted(t, "release") => Doubted(t))
                     /\ Landed(chain[t]) # {}
                     /\ t \in Live \cap Banked => Orders(t, {"paid"}) # {}
  BY DEF ReconciledIsDelivered
<1>1. t \in Payouts /\ HasPosted(t, "finalize")
  BY DEF AuditInv
<1>2. Received(t) /\ (t \in Live \cap Banked => Orders(t, {"paid"}) # {})
  BY <1>1 DEF OfframpInv, Honest, Delivered
<1>3. HasPosted(t, "release") => Doubted(t)
  <2>1. CASE t \in Banked
    BY <1>2, <2>1 DEF ReceiptKeepsLock
  <2>2. CASE t \notin Banked
    BY <1>1, <2>2 DEF CryptoLocksEndOnce
  <2>3. QED
    BY <2>1, <2>2
<1>4. QED
  BY <1>1, <1>2, <1>3 DEF Received

\* "joins Provider + Dayfi Ledger + Settlement" (infraReconciliationService.ts): although it
\* reads the three at different moments of a payout that goes on, RECONCILED means that the
\* lock was consumed and not returned, the USDC has moved and the bank was paid.  Crypto
\* payouts are looked at too, those whose lock no handler both consumes and returns.
THEOREM ReconciledPayouts ==
  OneSettler /\ Reviewed \subseteq Payouts =>
    (ReconSpec /\ []CryptoLocksEndOnce => []ReconciledIsDelivered)
<1>. SUFFICES ASSUME OneSettler, Reviewed \subseteq Payouts
              PROVE  ReconSpec /\ []CryptoLocksEndOnce => []ReconciledIsDelivered
  OBVIOUS
<1>1. ReconInit => AuditTyped /\ AuditInv
  BY AuditStarts
<1>2. OfframpInv /\ AuditTyped /\ AuditInv /\ [ReconNext]_reconciledVars => (AuditTyped /\ AuditInv)'
  BY AuditKeeps
<1>3. OfframpInv /\ ReceiptKeepsLock /\ AuditInv /\ CryptoLocksEndOnce => ReconciledIsDelivered
  BY VerdictIsRight
<1>4. QED
  BY <1>1, <1>2, <1>3, OfframpInvariant, ReceiptsKeepLocks, PTL DEF ReconSpec

\* The same of withdrawals, with nothing assumed of what the handlers do to a lock.
THEOREM ReconciledWithdrawals ==
  OneSettler /\ Reviewed \subseteq Banked => (ReconSpec => []ReconciledIsDelivered)
<1>. SUFFICES ASSUME OneSettler, Reviewed \subseteq Banked PROVE ReconSpec => []ReconciledIsDelivered
  OBVIOUS
<1>1. Reviewed \subseteq Payouts
  BY WithdrawalsArePayouts
<1>2. CryptoLocksEndOnce
  BY DEF CryptoLocksEndOnce
<1>3. ReconSpec /\ []CryptoLocksEndOnce => []ReconciledIsDelivered
  BY <1>1, ReconciledPayouts
<1>4. QED
  BY <1>2, <1>3, PTL
================================================================================
