------------------------------ MODULE InfraBulk ------------------------------
(***************************************************************************)
(* Bulk payouts: createBulkBatch, runPreflight, confirmBulkBatch,          *)
(* cancelBulkBatch, getBulkBatch and refreshBatchAggregates (src/modules/  *)
(* infra/infraBulkService.ts).  A batch moves no money itself: confirming  *)
(* it calls createPayout of InfraPayout for each line, under a key made    *)
(* from batch and line, and a refresh reads what became of those payouts.  *)
(*                                                                         *)
(* One batch; its lines are the payouts of that batch.  A step is what a   *)
(* call does between two awaits, or a child's whole createPayout.          *)
(***************************************************************************)
EXTENDS InfraPayout

CONSTANTS
  Batches,     \* sequences of payouts a batch may consist of
  Operators,   \* processes that may change the batch
  Readers      \* processes that may look at it

ASSUME BatchesAssumption == \A b \in Batches : b \in Seq(Payouts)

VARIABLES
  lines,   \* the batch's lines, fixed
  batch,   \* its infra_bulk_batches row
  item,    \* payout -> its infra_bulk_items row
  bpc,     \* process -> where its call on the batch is
  at,      \* process -> the line it is at
  read,    \* process -> the copy of the items it read
  sums     \* process -> the amounts it has added up

bulkVars == <<lines, batch, item, bpc, at, read, sums>>
everyVar == <<vars, bulkVars>>

Nothing == [completed |-> 0, released |-> 0, locked |-> 0]
NoBatch == [status |-> "none", usdc |-> Nothing]
NoItem == [status |-> "none", payout |-> FALSE]
NoItems == [t \in Payouts |-> NoItem]

BulkInit ==
  /\ Init
  /\ lines \in Batches
  /\ batch = NoBatch
  /\ item = NoItems
  /\ bpc = [p \in Procs |-> "idle"]
  /\ at = [p \in Procs |-> 1]
  /\ read = [p \in Procs |-> NoItems]
  /\ sums = [p \in Procs |-> Nothing]

-----------------------------------------------------------------------------
Line(p) == lines[at[p]]

InBatch(t) == \E i \in 1..Len(lines) : lines[i] = t

\* A process runs one call at a time.
Begin(p, label) ==
  /\ bpc[p] = "idle" /\ pc[p] = "idle"
  /\ bpc' = [bpc EXCEPT ![p] = label]
  /\ UNCHANGED <<at, read, sums>>

GoOn(p, label) == bpc' = [bpc EXCEPT ![p] = label]

Done(p) ==
  /\ GoOn(p, "idle")
  /\ at' = [at EXCEPT ![p] = 1]
  /\ read' = [read EXCEPT ![p] = NoItems]
  /\ sums' = [sums EXCEPT ![p] = Nothing]

\* On to the next line, or after the last one to label.
NextLine(p, again, label) ==
  /\ at' = [at EXCEPT ![p] = IF at[p] < Len(lines) THEN at[p] + 1 ELSE 1]
  /\ GoOn(p, IF at[p] < Len(lines) THEN again ELSE label)
  /\ UNCHANGED <<read, sums>>

\* The USDC amount FX resolves for a line.
LineAmount(t) == CHOOSE a \in Quotes[t] : TRUE

Total(which) == MapThenSumSet(LineAmount, which)

-----------------------------------------------------------------------------
(* createBulkBatch and runPreflight *)

createBulkBatch(p) ==
  /\ batch = NoBatch
  /\ batch' = [batch EXCEPT !.status = "draft"]
  /\ item' = [t \in Payouts |-> IF InBatch(t) THEN [NoItem EXCEPT !.status = "pending"]
                                ELSE NoItem]
  /\ Begin(p, "pre.start") \/ Begin(p, "idle")
  /\ UNCHANGED <<vars, lines>>

runPreflight(p) ==
  /\ batch.status \in {"draft", "validating", "ready"}
  /\ Begin(p, "pre.start")
  /\ UNCHANGED <<vars, lines, batch, item>>

PreflightStart(p) ==
  /\ bpc[p] = "pre.start"
  /\ batch' = [batch EXCEPT !.status = "validating"]
  /\ GoOn(p, "pre.item")
  /\ UNCHANGED <<vars, lines, item, at, read, sums>>

\* The recipient or the FX quote of a line may not resolve.
PreflightItem(p) ==
  /\ bpc[p] = "pre.item"
  /\ \E verdict \in {"ready", "invalid"} : item' = [item EXCEPT ![Line(p)].status = verdict]
  /\ NextLine(p, "pre.item", "pre.end")
  /\ UNCHANGED <<vars, lines, batch>>

\* Ready if every line is valid and the available balance covers the batch.
PreflightEnd(p) ==
  /\ bpc[p] = "pre.end"
  /\ LET ok == /\ \A i \in 1..Len(lines) : item[lines[i]].status = "ready"
               /\ ledger.rows[Org].bal.available >= Total({t \in Payouts : InBatch(t)})
     IN batch' = [batch EXCEPT !.status = IF ok THEN "ready" ELSE "draft"]
  /\ Done(p)
  /\ UNCHANGED <<vars, lines, item>>

-----------------------------------------------------------------------------
(* cancelBulkBatch *)

cancelBulkBatch(p) ==
  /\ batch.status \in {"draft", "ready", "validating"}
  /\ Begin(p, "cancel.batch")
  /\ UNCHANGED <<vars, lines, batch, item>>

CancelBatch(p) ==
  /\ bpc[p] = "cancel.batch"
  /\ batch' = [batch EXCEPT !.status = "cancelled"]
  /\ GoOn(p, "cancel.items")
  /\ UNCHANGED <<vars, lines, item, at, read, sums>>

CancelItems(p) ==
  /\ bpc[p] = "cancel.items"
  /\ item' = [t \in Payouts |-> IF item[t].status \in {"pending", "ready", "invalid"}
                                THEN [item[t] EXCEPT !.status = "cancelled"] ELSE item[t]]
  /\ Done(p)
  /\ UNCHANGED <<vars, lines, batch>>

-----------------------------------------------------------------------------
(* confirmBulkBatch *)

\* The ready items, and a balance that covers them.
confirmBulkBatch(p) ==
  /\ bpc[p] = "idle" /\ pc[p] = "idle"
  /\ batch.status = "ready"
  /\ LET ready == {t \in Payouts : item[t].status = "ready"}
     IN ready # {} /\ ledger.rows[Org].bal.available >= Total(ready)
  /\ GoOn(p, "confirm")
  /\ read' = [read EXCEPT ![p] = item]
  /\ UNCHANGED <<vars, lines, batch, item, at, sums>>

ConfirmBatch(p) ==
  /\ bpc[p] = "confirm"
  /\ batch' = [batch EXCEPT !.status = "processing"]
  /\ GoOn(p, "confirm.item")
  /\ UNCHANGED <<vars, lines, item, at, read, sums>>

\* createPayout under the key of batch and line; a row of an earlier confirm is returned.
ConfirmItem(p) ==
  /\ bpc[p] = "confirm.item"
  /\ IF read[p][Line(p)].status = "ready"
       THEN /\ IF tx[Line(p)] = NoTx THEN CreateFind(p, Line(p)) ELSE UNCHANGED vars
            /\ GoOn(p, "confirm.created") /\ UNCHANGED <<at, read, sums>>
       ELSE NextLine(p, "confirm.item", "refresh.load") /\ UNCHANGED vars
  /\ UNCHANGED <<lines, batch, item>>

\* createPayout threw: its lock or its order was refused.
Threw(t) == IF t \in ViaProvider THEN \A p \in Procs : order[t][p] = "none"
            ELSE tx[t].status = "failed"

\* A payout created in the test environment is settled at once.
ConfirmCreated(p) ==
  /\ bpc[p] = "confirm.created" /\ pc[p] = "idle"
  /\ LET t == Line(p)
     IN IF Threw(t)
          THEN /\ item' = [item EXCEPT ![t].status = "failed"]
               /\ NextLine(p, "confirm.item", "refresh.load")
          ELSE /\ item' = [item EXCEPT ![t] = [status |-> "processing", payout |-> TRUE]]
               /\ IF t \in Live THEN NextLine(p, "confirm.item", "refresh.load")
                  ELSE GoOn(p, "confirm.simulate") /\ UNCHANGED <<at, read, sums>>
  /\ UNCHANGED <<vars, lines, batch>>

ConfirmSimulate(p) ==
  /\ bpc[p] = "confirm.simulate"
  /\ simulateSettlement(p, Line(p))
  /\ GoOn(p, "confirm.simulated")
  /\ UNCHANGED <<lines, batch, item, at, read, sums>>

\* A simulation that threw, which it may after it settled the payout, fails the item.
ConfirmSimulated(p) ==
  /\ bpc[p] = "confirm.simulated" /\ pc[p] = "idle"
  /\ \E verdict \in {"completed", "failed"} :
       /\ verdict = "completed" => tx[Line(p)].status = "settled"
       /\ item' = [item EXCEPT ![Line(p)].status = verdict]
  /\ NextLine(p, "confirm.item", "refresh.load")
  /\ UNCHANGED <<vars, lines, batch>>

-----------------------------------------------------------------------------
(* refreshBatchAggregates, called by confirmBulkBatch, by getBulkBatch and by itself. *)

refreshBulkBatch(p) ==
  /\ batch # NoBatch
  /\ Begin(p, "refresh.load")
  /\ UNCHANGED <<vars, lines, batch, item>>

getBulkBatch(p) ==
  /\ batch.status \in {"processing", "partially_completed"}
  /\ Begin(p, "refresh.load")
  /\ UNCHANGED <<vars, lines, batch, item>>

RefreshLoad(p) ==
  /\ bpc[p] = "refresh.load"
  /\ IF batch.status = "cancelled" THEN Done(p)
     ELSE /\ GoOn(p, "refresh.item")
          /\ read' = [read EXCEPT ![p] = item]
          /\ UNCHANGED <<at, sums>>
  /\ UNCHANGED <<vars, lines, batch, item>>

\* What the status of a child says of its line.
ItemStatus(status) ==
  CASE status = "settled" -> "completed" [] status = "failed" -> "failed"
    [] OTHER -> "processing"

Bucket(status) ==
  CASE status = "completed" -> "completed" [] status = "failed" -> "released"
    [] OTHER -> "locked"

\* Mutant: a refresh believes the items it read instead of their payouts.
RefreshItemTrusting(p) ==
  /\ bpc[p] = "refresh.item"
  /\ LET t == Line(p) i == read[p][Line(p)]
     IN IF i.payout
          THEN sums' = [sums EXCEPT ![p][Bucket(i.status)] = @ + tx[t].usdc]
          ELSE UNCHANGED sums
  /\ UNCHANGED <<item, read>>
  /\ at' = [at EXCEPT ![p] = IF at[p] < Len(lines) THEN at[p] + 1 ELSE 1]
  /\ GoOn(p, IF at[p] < Len(lines) THEN "refresh.item" ELSE "refresh.end")
  /\ UNCHANGED <<vars, lines, batch>>

\* One line: its payout is read, its item updated, its amount added.  The copy of the
\* items keeps the outcome, which is counted at the end.
RefreshItem(p) ==
  /\ bpc[p] = "refresh.item"
  /\ LET t == Line(p) i == read[p][Line(p)] s == ItemStatus(tx[t].status)
     IN IF i.payout
          THEN /\ item' = IF s = i.status THEN item ELSE [item EXCEPT ![t].status = s]
               /\ read' = [read EXCEPT ![p][t].status = s]
               /\ sums' = [sums EXCEPT ![p][Bucket(s)] = @ + tx[t].usdc]
          ELSE UNCHANGED <<item, read, sums>>
  /\ at' = [at EXCEPT ![p] = IF at[p] < Len(lines) THEN at[p] + 1 ELSE 1]
  /\ GoOn(p, IF at[p] < Len(lines) THEN "refresh.item" ELSE "refresh.end")
  /\ UNCHANGED <<vars, lines, batch>>

\* The lines that count as completed, failed and processing.  Without a payout only
\* failures count.
Counted(items) ==
  LET of(statuses) == {t \in Payouts : InBatch(t) /\ items[t].status \in statuses}
      paid == {t \in Payouts : items[t].payout}
  IN [completed |-> paid \cap of({"completed"}), processing |-> paid \cap of({"processing"}),
      failed |-> of({"failed", "invalid"})]

ParentStatus(count) ==
  CASE count.processing # {} -> "processing"
    [] count.processing = {} /\ count.completed # {} /\ count.failed = {} -> "completed"
    [] count.processing = {} /\ count.completed # {} /\ count.failed # {} ->
         "partially_completed"
    [] count.processing = {} /\ count.completed = {} /\ count.failed # {} -> "failed"
    [] OTHER -> "processing"

\* The status is written whatever it is by now.
RefreshEnd(p) ==
  /\ bpc[p] = "refresh.end"
  /\ batch' = [status |-> ParentStatus(Counted(read[p])), usdc |-> sums[p]]
  /\ Done(p)
  /\ UNCHANGED <<vars, lines, item>>

-----------------------------------------------------------------------------
BulkStep(p) ==
  \/ PreflightStart(p) \/ PreflightItem(p) \/ PreflightEnd(p)
  \/ CancelBatch(p) \/ CancelItems(p)
  \/ ConfirmBatch(p) \/ ConfirmItem(p) \/ ConfirmCreated(p)
  \/ ConfirmSimulate(p) \/ ConfirmSimulated(p)
  \/ RefreshLoad(p) \/ RefreshItem(p) \/ RefreshEnd(p)

\* Bound: calls that change the batch, a confirm above all, do not overlap; refreshes
\* overlap with each other and with the children's webhooks.
Refreshing(p) == bpc[p] \in {"refresh.load", "refresh.item", "refresh.end"}
Quiet == \A p \in Procs : bpc[p] = "idle"
OnlyRefreshes == \A p \in Procs : bpc[p] = "idle" \/ Refreshing(p)

BulkCall(p) ==
  \/ /\ Quiet /\ p \in Operators
     /\ createBulkBatch(p) \/ runPreflight(p) \/ cancelBulkBatch(p) \/ confirmBulkBatch(p)
  \/ OnlyRefreshes /\ p \in Readers /\ refreshBulkBatch(p)

BulkNext ==
  \/ \E p \in Procs, t \in Payouts : bpc[p] = "idle" /\ Webhook(p, t) /\ UNCHANGED bulkVars
  \/ Progress /\ UNCHANGED bulkVars
  \/ \E p \in Procs : BulkCall(p)
  \/ \E p \in Readers : OnlyRefreshes /\ getBulkBatch(p)
  \/ \E p \in Procs : BulkStep(p)

\* Calls run on, and the customer looks at the batch again and again.
BulkSpec ==
  /\ BulkInit /\ [][BulkNext]_everyVar
  /\ Fairness
  /\ \A p \in Operators \cup Readers : WF_everyVar(BulkStep(p))
  /\ SF_everyVar(\E p \in Readers : OnlyRefreshes /\ getBulkBatch(p))

-----------------------------------------------------------------------------
Confirmed == \E t \in Payouts : InBatch(t) /\ tx[t] # NoTx

\* The batch as the ledger tells it: paid lines, lines that were given back or never
\* locked, and what left the wallet for it.
Told ==
  LET paid == {t \in Payouts : InBatch(t) /\ HasPosted(t, "finalize")}
      unpaid == {t \in Payouts : InBatch(t)} \ paid
  IN /\ batch.status = IF unpaid = {} THEN "completed"
                       ELSE IF paid = {} THEN "failed" ELSE "partially_completed"
     /\ batch.usdc.completed = Total(paid)
     /\ batch.usdc.locked = 0

\* "completed / released / locked come from Phase 2 outcomes only": a confirmed batch
\* ends, and from then on it says of its lines what the ledger says.
BatchTellsOutcomes == Confirmed ~> []Told
=============================================================================
