--------------------------- MODULE CollectionProofs ---------------------------
(***************************************************************************)
(* That collections are credited, funded on chain and settled in step, for *)
(* any number of collections, rebalances and handlers, crashes included.   *)
(*                                                                         *)
(* The argument: what a handler has read may be old when it acts on it,    *)
(* but everything it acts on is for good.  A pay-in that was paid stays    *)
(* paid and stays the row's, a key that was posted stays posted with its   *)
(* amount, a settlement row stays, and a payment that landed stays landed  *)
(* (Grows).  So what a handler may count on where it is (Working) outlasts *)
(* the steps of all others.                                                *)
(***************************************************************************)
EXTENDS InfraTreasury, LedgerLemmas, SequenceTheorems

CollectionLabels ==
  {"open", "insert", "insertFailed", "fail.patch", "warn.patch",
   "settle.load", "settle.credit", "settle.patch",
   "fund.find", "fund.treasury", "fund.insert", "fund.submit", "fund.failed",
   "fund.submitted", "fund.confirmed", "fund.verify",
   "confirm", "confirm.release", "confirm.patch"}

RebalanceLabels ==
  {"request.position", "request.insert", "approve.update", "exec.position", "exec.insert",
   "exec.approve", "exec.update", "rebalance.load", "rebalance.observe", "rebalance.submit",
   "rebalance.verify", "rebalance.confirmed", "rebalance.unseen", "rebalance.failed"}

Labels == {"idle"} \cup CollectionLabels \cup RebalanceLabels

TxRow ==
  [status : {"none", "pending", "processing", "settled", "failed"},
   ext : Procs \cup {NoOne}, usdc : Amounts \cup {0}]

SettlementRow ==
  [status : {"none", "pending", "pending_treasury", "submitted", "confirmed", "failed"},
   amount : Amounts \cup {0}, ref : Nat]

RebalanceRow == [status : {"none", "requested", "approved", "confirmed", "failed"}, ref : Nat]

Locals ==
  [coll : Collections \cup Rebalances \cup {NoOne}, row : TxRow, st : SettlementRow,
   amt : Amounts \cup {0}, hash : Nat]

\* The ledger, the rows, the network and the providers ...
SharedTyped ==
  /\ Well(ledger) /\ OnlyIn(ledger, Org)
  /\ tx \in [Collections -> TxRow]
  /\ stl \in [Collections -> SettlementRow]
  /\ chain = [x \in Collections \cup Rebalances |-> chain[x]]
  /\ \A x \in Collections \cup Rebalances : IsChain(chain[x])
  /\ payin \in [Collections -> [Procs -> {"none", "open", "paid", "mismatch", "failed"}]]
  /\ reb \in [Rebalances -> RebalanceRow]

\* ... and what the handlers hold.
LocalTyped == pc \in [Procs -> Labels] /\ loc \in [Procs -> Locals]

-----------------------------------------------------------------------------
CreditOp(c) == IF c \in FundingOff THEN "credit" ELSE "creditPending"

Available(c) == HasPosted(c, "credit") \/ HasPosted(c, "releasePending")

\* What was credited was paid for, what was released has landed, in amounts the FX
\* service has quoted.
Sound(c) ==
  /\ tx[c].usdc \in Quotes[c] \cup {0}
  /\ stl[c] # NoSettlement => stl[c].amount \in Quotes[c]
  /\ HasPosted(c, "creditPending") =>
       c \notin FundingOff /\ PostedAmount(c, "creditPending") \in Quotes[c]
  /\ c \in Live /\ (HasPosted(c, "credit") \/ HasPosted(c, "creditPending")) => Event(c) = "paid"
  /\ HasPosted(c, "releasePending") => Landed(chain[c]) # {} /\ HasPosted(c, "creditPending")
  /\ tx[c].status = "settled" => Available(c)

Moved(r) == reb[r].status = "confirmed" => reb[r].ref \in Landed(chain[r])

Sending == {"fund.submit", "fund.failed", "fund.submitted", "fund.confirmed", "fund.verify"}
Confirming == {"confirm", "confirm.release"}

\* What a handler may count on where it is.
Working(p) ==
  LET c == Mine(p)
  IN /\ pc[p] \in CollectionLabels => c \in Collections
     /\ pc[p] \in RebalanceLabels => c \in Rebalances
     /\ pc[p] \in {"open", "insert", "insertFailed"} => tx[c].ext # p \/ p = NoOne
     /\ pc[p] \in {"settle.load", "settle.credit"} /\ c \in Live => Event(c) = "paid"
     /\ pc[p] \in {"settle.credit", "settle.patch", "warn.patch"} /\ loc[p].row.status = "settled" =>
          Available(c)
     /\ pc[p] \in {"settle.credit", "settle.patch", "fund.find", "fund.treasury", "fund.insert"} =>
          loc[p].amt \in Quotes[c]
     /\ pc[p] = "settle.patch" => HasPosted(c, CreditOp(c))
     /\ pc[p] \in {"fund.find", "fund.treasury", "fund.insert"} \cup Sending \cup Confirming =>
          HasPosted(c, "creditPending")
     /\ pc[p] \in {"fund.treasury", "fund.insert"} /\ loc[p].st # NoSettlement => stl[c] # NoSettlement
     /\ pc[p] \in Sending \cup Confirming => stl[c] # NoSettlement
     /\ pc[p] \in {"fund.submitted", "fund.verify", "rebalance.verify"} =>
          loc[p].hash \in 1..Len(chain[c])
     /\ pc[p] \in {"fund.confirmed", "rebalance.confirmed"} \cup Confirming =>
          loc[p].hash \in Landed(chain[c])
     /\ pc[p] = "confirm.patch" => HasPosted(c, "releasePending")

CollectionInv ==
  /\ SharedTyped /\ LocalTyped
  /\ \A c \in Collections : Sound(c)
  /\ \A r \in Rebalances : Moved(r)
  /\ \A p \in Procs : Working(p)

\* The FX service quotes a collection that is funded on chain once.
SteadyQuotes == \A c \in Collections \ FundingOff : \A a, b \in Quotes[c] : a = b
-----------------------------------------------------------------------------
(* What lasts.  A step may add to what has been posted, paid, inserted and landed, and *)
(* a row that is new belongs to the handler p that takes it.                            *)

Grows(p) ==
  /\ \A c \in Collections :
       /\ \A op \in {"credit", "creditPending", "releasePending"} :
            HasPosted(c, op) => HasPosted(c, op)' /\ PostedAmount(c, op)' = PostedAmount(c, op)
       /\ Event(c) = "paid" => Event(c)' = "paid"
       /\ stl[c] # NoSettlement => stl'[c] # NoSettlement
       /\ tx'[c].ext \in {tx[c].ext, p}
  /\ \A x \in Collections \cup Rebalances :
       Landed(chain[x]) \subseteq Landed(chain'[x]) /\ 1..Len(chain[x]) \subseteq 1..Len(chain'[x])

\* What another handler counts on outlasts the step.
LEMMA GrowsWorks ==
  ASSUME NEW p, NEW q \in Procs, p # q \/ tx' = tx, Grows(p), Working(q),
         pc'[q] = pc[q], loc'[q] = loc[q]
  PROVE  Working(q)'
<1>1. PICK c : c = Mine(q)
  OBVIOUS
<1>2. Mine(q)' = c
  BY <1>1 DEF Mine
<1>3. ASSUME c \in Collections
      PROVE  /\ HasPosted(c, "creditPending") => HasPosted(c, "creditPending")'
             /\ HasPosted(c, "credit") => HasPosted(c, "credit")'
             /\ HasPosted(c, "releasePending") => HasPosted(c, "releasePending")'
             /\ HasPosted(c, CreditOp(c)) => HasPosted(c, CreditOp(c))'
             /\ Available(c) => Available(c)'
             /\ Event(c) = "paid" => Event(c)' = "paid"
             /\ stl[c] # NoSettlement => stl'[c] # NoSettlement
             /\ tx[c].ext # q => tx'[c].ext # q
             /\ Landed(chain[c]) \subseteq Landed(chain'[c])
             /\ 1..Len(chain[c]) \subseteq 1..Len(chain'[c])
  BY <1>3 DEF Grows, Available, CreditOp
<1>4. ASSUME c \in Rebalances
      PROVE  /\ Landed(chain[c]) \subseteq Landed(chain'[c])
             /\ 1..Len(chain[c]) \subseteq 1..Len(chain'[c])
  BY <1>4 DEF Grows
<1>5. CASE pc[q] \in CollectionLabels
  <2>1. c \in Collections
    BY <1>1, <1>5 DEF Working
  <2>2. QED
    BY <1>1, <1>2, <1>3, <1>5, <2>1 DEF Working, CollectionLabels, RebalanceLabels, Sending, Confirming
<1>6. CASE pc[q] \in RebalanceLabels
  <2>1. c \in Rebalances
    BY <1>1, <1>6 DEF Working
  <2>2. QED
    BY <1>1, <1>2, <1>4, <1>6, <2>1 DEF Working, CollectionLabels, RebalanceLabels, Sending, Confirming
<1>7. CASE pc[q] \notin CollectionLabels \cup RebalanceLabels
  BY <1>7 DEF Working, CollectionLabels, RebalanceLabels, Sending, Confirming
<1>8. QED
  BY <1>5, <1>6, <1>7
Goes(p, label, l) == pc' = [pc EXCEPT ![p] = label] /\ loc' = [loc EXCEPT ![p] = l]

\* A step of p keeps the invariant if what it writes is typed and sound, if it takes
\* nothing back, and if p may count on what it needs where it goes on.
LEMMA StepKeeps ==
  ASSUME CollectionInv, NEW p \in Procs, NEW label \in Labels, NEW l \in Locals,
         Goes(p, label, l), SharedTyped', \A c \in Collections : Sound(c)',
         \A r \in Rebalances : Moved(r)', Grows(p), Working(p)'
  PROVE  CollectionInv'
<1>1. LocalTyped'
  BY DEF CollectionInv, LocalTyped, Goes
<1>2. ASSUME NEW q \in Procs, q # p
      PROVE  Working(q)'
  <2>1. pc'[q] = pc[q] /\ loc'[q] = loc[q] /\ Working(q)
    BY <1>2 DEF CollectionInv, LocalTyped, Goes
  <2>2. QED
    BY <1>2, <2>1, GrowsWorks
<1>3. \A q \in Procs : Working(q)'
  BY <1>2
<1>4. QED
  BY <1>1, <1>3 DEF CollectionInv

\* Where p is after it, and with which local variables.
LEMMA GoesThere ==
  ASSUME LocalTyped, NEW p \in Procs, NEW label, NEW l, Goes(p, label, l)
  PROVE  pc'[p] = label /\ loc'[p] = l /\ Mine(p)' = l.coll
BY DEF LocalTyped, Goes, Mine

\* The three ways in which actions move a handler.
LEMMA GotoGoes ==
  ASSUME LocalTyped, NEW p \in Procs, NEW label, Goto(p, label), loc' = loc
  PROVE  Goes(p, label, loc[p]) /\ loc[p] \in Locals
BY DEF LocalTyped, Goto, Goes

LEMMA FinishGoes ==
  ASSUME LocalTyped, NEW p \in Procs, Finish(p)
  PROVE  Goes(p, "idle", NoLocals) /\ NoLocals \in Locals /\ "idle" \in Labels /\ Working(p)'
<1>1. Goes(p, "idle", NoLocals)
  BY DEF Finish, Goto, Goes
<1>2. NoLocals \in Locals
  BY DEF NoLocals, Locals, NoTx, NoSettlement, TxRow, SettlementRow
<1>3. pc'[p] = "idle"
  BY <1>1, GoesThere
<1>4. Working(p)'
  BY <1>3 DEF Working, CollectionLabels, RebalanceLabels, Sending, Confirming
<1>5. QED
  BY <1>1, <1>2, <1>4 DEF Labels

LEMMA StartGoes ==
  ASSUME LocalTyped, NEW p \in Procs, NEW c \in Collections \cup Rebalances, NEW label, Start(p, c, label)
  PROVE  LET l == [loc[p] EXCEPT !.coll = c]
         IN Goes(p, label, l) /\ l \in Locals /\ l.coll = c
<1>1. loc[p] \in Locals
  BY DEF LocalTyped
<1>2. QED
  BY <1>1 DEF Start, Goto, Goes, Locals

Shared == <<ledger, tx, stl, chain, payin, reb>>

\* What a step that writes nothing shared leaves as it was.
LEMMA NothingWritten ==
  ASSUME UNCHANGED Shared
  PROVE  /\ \A c : /\ \A op : HasPosted(c, op)' = HasPosted(c, op) /\ PostedAmount(c, op)' = PostedAmount(c, op)
                   /\ Event(c)' = Event(c) /\ Sound(c)' = Sound(c) /\ Available(c)' = Available(c)
         /\ \A r : Moved(r)' = Moved(r)
         /\ SharedTyped' = SharedTyped
<1>1. ledger' = ledger /\ tx' = tx /\ stl' = stl /\ chain' = chain /\ payin' = payin /\ reb' = reb
  BY DEF Shared
<1>2. QED
  BY <1>1 DEF HasPosted, PostedAmount, Event, Sound, Available, Moved, SharedTyped

LEMMA QuietKeeps ==
  ASSUME CollectionInv, NEW p \in Procs, NEW label \in Labels, NEW l \in Locals,
         Goes(p, label, l), UNCHANGED Shared, Working(p)'
  PROVE  CollectionInv'
<1>1. SharedTyped' /\ (\A c \in Collections : Sound(c)') /\ (\A r \in Rebalances : Moved(r)')
  BY NothingWritten DEF CollectionInv
<1>2. Grows(p)
  BY NothingWritten DEF Grows, Shared
<1>3. QED
  BY <1>1, <1>2, StepKeeps
-----------------------------------------------------------------------------
(* One write at a time: what a handler must know of what it writes. *)

Written(p) ==
  /\ SharedTyped' /\ (\A c \in Collections : Sound(c)') /\ (\A r \in Rebalances : Moved(r)')
  /\ Grows(p)

\* The ledger as it was: what was posted stays posted.
LEMMA LedgerStays ==
  ASSUME ledger' = ledger
  PROVE  \A c : /\ \A op : HasPosted(c, op)' = HasPosted(c, op) /\ PostedAmount(c, op)' = PostedAmount(c, op)
               /\ Available(c)' = Available(c)
BY DEF HasPosted, PostedAmount, Available

\* A write of a collection's row: an amount that was quoted, 'settled' only where the
\* USDC is available, and another external_id only where the row is new.
LEMMA RowWritten ==
  ASSUME CollectionInv, NEW p, NEW c \in Collections, NEW r \in TxRow,
         tx' = [tx EXCEPT ![c] = r], UNCHANGED <<ledger, stl, chain, payin, reb>>,
         r.ext = tx[c].ext \/ (tx[c] = NoTx /\ r.ext = p),
         r.usdc \in Quotes[c] \cup {0}, r.status = "settled" => Available(c)
  PROVE  Written(p) /\ tx'[c] = r /\ \A d \in Collections : Event(d) = "paid" => Event(d)' = "paid"
<1>1. tx \in [Collections -> TxRow] /\ tx' \in [Collections -> TxRow]
  BY DEF CollectionInv, SharedTyped
<1>2. SharedTyped'
  BY <1>1 DEF CollectionInv, SharedTyped
<1>3. ASSUME NEW d \in Collections, Event(d) = "paid"
      PROVE  Event(d)' = "paid" /\ tx'[d].ext = tx[d].ext
  <2>1. tx[d].ext # NoOne
    BY <1>3 DEF Event
  <2>2. tx'[d].ext = tx[d].ext
    BY <1>1, <2>1 DEF NoTx
  <2>3. QED
    BY <1>3, <2>2 DEF Event
<1>4. Grows(p)
  <2>1. \A d \in Collections : tx'[d].ext \in {tx[d].ext, p}
    BY <1>1
  <2>2. QED
    BY <1>3, <2>1, LedgerStays DEF Grows
<1>5. ASSUME NEW d \in Collections
      PROVE  Sound(d)'
  <2>1. Sound(d)
    BY DEF CollectionInv
  <2>2. tx'[d].usdc \in Quotes[d] \cup {0} /\ (tx'[d].status = "settled" => Available(d))
    BY <1>1, <2>1 DEF Sound
  <2>3. QED
    BY <1>3, <2>1, <2>2, LedgerStays DEF Sound
<1>6. \A x \in Rebalances : Moved(x)'
  BY DEF CollectionInv, Moved
<1>7. tx'[c] = r
  BY <1>1
<1>8. QED
  BY <1>2, <1>3, <1>4, <1>5, <1>6, <1>7 DEF Written

\* A write of a settlement row, with an amount that was quoted.
LEMMA SettlementWritten ==
  ASSUME CollectionInv, NEW p, NEW c \in Collections, NEW s \in SettlementRow,
         stl' = [stl EXCEPT ![c] = s], UNCHANGED <<ledger, tx, chain, payin, reb>>,
         s # NoSettlement, s.amount \in Quotes[c]
  PROVE  Written(p) /\ stl'[c] = s
<1>1. stl \in [Collections -> SettlementRow] /\ stl' \in [Collections -> SettlementRow]
  BY DEF CollectionInv, SharedTyped
<1>2. SharedTyped'
  BY <1>1 DEF CollectionInv, SharedTyped
<1>3. \A d \in Collections : Event(d)' = Event(d)
  BY DEF Event
<1>4. Grows(p)
  <2>1. \A d \in Collections : stl[d] # NoSettlement => stl'[d] # NoSettlement
    BY <1>1
  <2>2. QED
    BY <1>3, <2>1, LedgerStays DEF Grows
<1>5. ASSUME NEW d \in Collections
      PROVE  Sound(d)'
  <2>1. Sound(d)
    BY DEF CollectionInv
  <2>2. stl'[d] # NoSettlement => stl'[d].amount \in Quotes[d]
    BY <1>1, <2>1 DEF Sound
  <2>3. QED
    BY <1>3, <2>1, <2>2, LedgerStays DEF Sound
<1>6. \A x \in Rebalances : Moved(x)'
  BY DEF CollectionInv, Moved
<1>7. stl'[c] = s
  BY <1>1
<1>8. QED
  BY <1>2, <1>4, <1>5, <1>6, <1>7 DEF Written

\* A chain that takes nothing back.
LEMMA ChainWritten ==
  ASSUME CollectionInv, NEW p, NEW x \in Collections \cup Rebalances, NEW ch, IsChain(ch),
         chain' = [chain EXCEPT ![x] = ch], UNCHANGED <<ledger, tx, stl, payin, reb>>,
         Landed(chain[x]) \subseteq Landed(ch), 1..Len(chain[x]) \subseteq 1..Len(ch)
  PROVE  Written(p) /\ chain'[x] = ch
<1>1. chain = [y \in Collections \cup Rebalances |-> chain[y]]
  BY DEF CollectionInv, SharedTyped
<1>2. /\ chain'[x] = ch
      /\ \A y \in Collections \cup Rebalances : y # x => chain'[y] = chain[y]
      /\ chain' = [y \in Collections \cup Rebalances |-> chain'[y]]
  BY <1>1
<1>3. \A y \in Collections \cup Rebalances :
        /\ IsChain(chain'[y])
        /\ Landed(chain[y]) \subseteq Landed(chain'[y]) /\ 1..Len(chain[y]) \subseteq 1..Len(chain'[y])
  BY <1>2 DEF CollectionInv, SharedTyped
<1>4. SharedTyped'
  BY <1>2, <1>3 DEF CollectionInv, SharedTyped
<1>5. \A d \in Collections : Event(d)' = Event(d)
  BY DEF Event
<1>6. Grows(p)
  BY <1>3, <1>5, LedgerStays DEF Grows
<1>7. ASSUME NEW d \in Collections
      PROVE  Sound(d)'
  <2>1. Sound(d)
    BY DEF CollectionInv
  <2>2. QED
    BY <1>3, <1>5, <2>1, LedgerStays DEF Sound
<1>8. \A y \in Rebalances : Moved(y)'
  BY <1>3 DEF CollectionInv, Moved
<1>9. QED
  BY <1>2, <1>4, <1>6, <1>7, <1>8 DEF Written

\* A write of a rebalance's row: 'confirmed' only with a payment that landed.
LEMMA RebalanceWritten ==
  ASSUME CollectionInv, NEW p, NEW r \in Rebalances, NEW s \in RebalanceRow,
         reb' = [reb EXCEPT ![r] = s], UNCHANGED <<ledger, tx, stl, chain, payin>>,
         s.status = "confirmed" => s.ref \in Landed(chain[r])
  PROVE  Written(p) /\ reb'[r] = s
<1>1. reb \in [Rebalances -> RebalanceRow] /\ reb' \in [Rebalances -> RebalanceRow]
  BY DEF CollectionInv, SharedTyped
<1>2. SharedTyped'
  BY <1>1 DEF CollectionInv, SharedTyped
<1>3. \A d \in Collections : Event(d)' = Event(d)
  BY DEF Event
<1>4. Grows(p)
  BY <1>3, LedgerStays DEF Grows
<1>5. ASSUME NEW d \in Collections
      PROVE  Sound(d)'
  BY <1>3, LedgerStays DEF CollectionInv, Sound
<1>6. \A x \in Rebalances : Moved(x)'
  BY <1>1 DEF CollectionInv, Moved
<1>7. reb'[r] = s
  BY <1>1
<1>8. QED
  BY <1>2, <1>4, <1>5, <1>6, <1>7 DEF Written

\* A provider's pay-in account, if it was not paid for a row yet.
LEMMA PayinWritten ==
  ASSUME CollectionInv, NEW p, NEW c \in Collections, NEW q \in Procs,
         NEW s \in {"none", "open", "paid", "mismatch", "failed"},
         payin' = [payin EXCEPT ![c][q] = s], UNCHANGED <<ledger, tx, stl, chain, reb>>,
         payin[c][q] # "paid" \/ tx[c].ext # q \/ q = NoOne
  PROVE  Written(p)
<1>1. /\ payin \in [Collections -> [Procs -> {"none", "open", "paid", "mismatch", "failed"}]]
      /\ payin' \in [Collections -> [Procs -> {"none", "open", "paid", "mismatch", "failed"}]]
  BY DEF CollectionInv, SharedTyped
<1>2. SharedTyped'
  BY <1>1 DEF CollectionInv, SharedTyped
<1>3. ASSUME NEW d \in Collections, Event(d) = "paid"
      PROVE  Event(d)' = "paid"
  <2>1. tx[d].ext \in Procs /\ payin[d][tx[d].ext] = "paid" /\ tx[d].ext # NoOne
    BY <1>3 DEF Event, CollectionInv, SharedTyped, TxRow
  <2>2. payin'[d][tx[d].ext] = payin[d][tx[d].ext]
    BY <1>1, <2>1
  <2>3. QED
    BY <2>1, <2>2 DEF Event
<1>4. Grows(p)
  BY <1>3, LedgerStays DEF Grows
<1>5. ASSUME NEW d \in Collections
      PROVE  Sound(d)'
  BY <1>3, LedgerStays DEF CollectionInv, Sound
<1>6. \A x \in Rebalances : Moved(x)'
  BY DEF CollectionInv, Moved
<1>7. QED
  BY <1>2, <1>4, <1>5, <1>6 DEF Written
-----------------------------------------------------------------------------
(* Postings. *)

CollectionOps == {"credit", "creditPending", "releasePending"}

\* What one admissible posting for a collection adds, and that it changes nothing else.
LEMMA LegPosts ==
  ASSUME Well(ledger), OnlyIn(ledger, Org), NEW c \in Collections, NEW op \in CollectionOps,
         NEW a \in Amounts, Admissible(ensureWalletAccount(ledger, Org), CollectionLeg(c, op, a)),
         ledger' = Post(ensureWalletAccount(ledger, Org), CollectionLeg(c, op, a))
  PROVE  /\ Well(ledger)' /\ OnlyIn(ledger, Org)'
         /\ ~HasPosted(c, op) /\ HasPosted(c, op)' /\ PostedAmount(c, op)' = a
         /\ \A d, o : <<d, o>> # <<c, op>> => (HasPosted(d, o)' <=> HasPosted(d, o))
         /\ \A d, o : HasPosted(d, o) => PostedAmount(d, o)' = PostedAmount(d, o)
         /\ Covers(op, ledger.rows[Org].bal, a)
         /\ ledger'.rows[Org].bal = After(op, ledger.rows[Org].bal, a)
<1>1. PICK L : L = ensureWalletAccount(ledger, Org)
  OBVIOUS
<1>2. PICK l : l = CollectionLeg(c, op, a)
  OBVIOUS
<1>3. Org \in Wallets
  BY CollectionAssumption
<1>4. /\ l \in Leg
      /\ l.wallet = Org /\ l.op = op /\ l.key = <<c, op>> /\ l.amount = a
  <2>1. c \in Refs /\ <<c, op>> \in Keys
    BY CollectionKeysAssumption DEF CollectionOps
  <2>2. QED
    BY <1>2, <1>3, <2>1 DEF CollectionLeg, CollectionOps, Leg, OpNames, MovementTypes
<1>5. Well(L) /\ L \in Ledger /\ KeysOnce(L)
  BY <1>1, <1>3, EnsureWell DEF Well
<1>6. L.movements = ledger.movements /\ L.rows[Org].bal = ledger.rows[Org].bal
  <2>1. ledger \in Ledger
    BY DEF Well
  <2>2. QED
    BY <1>1, <1>3, <2>1 DEF ensureWalletAccount, Ledger, Row
<1>7. Admissible(L, l) /\ ledger' = Post(L, l) /\ Covers(l.op, L.rows[l.wallet].bal, l.amount)
  BY <1>1, <1>2 DEF Admissible
<1>8. OnlyIn(L, Org)
  BY <1>6 DEF OnlyIn
<1>9. Well(ledger)'
  BY <1>4, <1>5, <1>7, PostWell
<1>10. OnlyIn(ledger, Org)'
  BY <1>4, <1>5, <1>7, <1>8, OnlyInStays
<1>11. \A k : Posted(L, k) <=> Posted(ledger, k)
  BY <1>6 DEF Posted
<1>12. ASSUME NEW k
       PROVE  Posted(ledger', k) <=> Posted(ledger, k) \/ k = l.key
  <2>1. Posted(Post(L, l), k) <=> Posted(L, k) \/ k = l.key
    BY <1>4, <1>5, <1>7, PostPosted
  <2>2. QED
    BY <1>7, <1>11, <2>1
<1>13. ~HasPosted(c, op) /\ HasPosted(c, op)'
  BY <1>4, <1>7, <1>11, <1>12 DEF Admissible, HasPosted
<1>14. \A d, o : <<d, o>> # <<c, op>> => (HasPosted(d, o)' <=> HasPosted(d, o))
  BY <1>4, <1>12 DEF HasPosted
<1>15. \A d, o : /\ PostedAmount(d, o) = AmountOf(L, Org, <<d, o>>)
                 /\ PostedAmount(d, o)' = AmountOf(Post(L, l), Org, <<d, o>>)
  BY <1>6, <1>7 DEF PostedAmount, AmountOf
<1>16. PostedAmount(c, op)' = a
  BY <1>4, <1>5, <1>7, <1>15, PostAmounts
<1>17. ASSUME NEW d, NEW o, HasPosted(d, o)
       PROVE  PostedAmount(d, o)' = PostedAmount(d, o)
  <2>1. PostedIn(L, Org, <<d, o>>)
    BY <1>3, <1>8, <1>11, <1>17, OnlyInPosted DEF HasPosted
  <2>2. QED
    BY <1>3, <1>4, <1>5, <1>7, <1>15, <2>1, PostAmounts
<1>18. Covers(op, ledger.rows[Org].bal, a)
  BY <1>4, <1>6, <1>7
<1>19. ledger'.rows[Org].bal = After(op, ledger.rows[Org].bal, a)
  BY <1>3, <1>4, <1>5, <1>6, <1>7, PostMovements DEF NewBalance
<1>20. QED
  BY <1>9, <1>10, <1>13, <1>14, <1>16, <1>17, <1>18, <1>19

\* A posting for a collection: a credit of one that was paid for, in an amount that was
\* quoted, or a release of what was credited, once a payment has landed.
LEMMA PostWritten ==
  ASSUME CollectionInv, NEW p, NEW c \in Collections, NEW op \in CollectionOps,
         NEW a \in Quotes[c], Admissible(ensureWalletAccount(ledger, Org), CollectionLeg(c, op, a)),
         ledger' = Post(ensureWalletAccount(ledger, Org), CollectionLeg(c, op, a)),
         UNCHANGED <<tx, stl, chain, payin, reb>>,
         op # "releasePending" /\ c \in Live => Event(c) = "paid",
         op = "creditPending" => c \notin FundingOff,
         op = "releasePending" => Landed(chain[c]) # {} /\ HasPosted(c, "creditPending")
  PROVE  Written(p) /\ HasPosted(c, op)'
<1>1. a \in Amounts /\ Well(ledger) /\ OnlyIn(ledger, Org)
  BY CollectionAssumption DEF CollectionInv, SharedTyped
<1>2. /\ Well(ledger)' /\ OnlyIn(ledger, Org)'
      /\ ~HasPosted(c, op) /\ HasPosted(c, op)' /\ PostedAmount(c, op)' = a
      /\ \A d, o : <<d, o>> # <<c, op>> => (HasPosted(d, o)' <=> HasPosted(d, o))
      /\ \A d, o : HasPosted(d, o) => PostedAmount(d, o)' = PostedAmount(d, o)
  BY <1>1, LegPosts
<1>3. SharedTyped'
  BY <1>2 DEF CollectionInv, SharedTyped
<1>4. \A d : Event(d)' = Event(d)
  BY DEF Event
<1>5. \A d, o : HasPosted(d, o) => HasPosted(d, o)'
  BY <1>2
<1>6. Grows(p)
  BY <1>2, <1>4, <1>5 DEF Grows
<1>7. ASSUME NEW d \in Collections
      PROVE  Sound(d)'
  <2>1. Sound(d)
    BY DEF CollectionInv
  <2>2. HasPosted(d, "creditPending")' =>
          d \notin FundingOff /\ PostedAmount(d, "creditPending")' \in Quotes[d]
    BY <1>2, <2>1 DEF Sound
  <2>3. d \in Live /\ (HasPosted(d, "credit")' \/ HasPosted(d, "creditPending")') => Event(d) = "paid"
    BY <1>2, <2>1 DEF Sound
  <2>4. HasPosted(d, "releasePending")' => Landed(chain[d]) # {} /\ HasPosted(d, "creditPending")'
    BY <1>2, <1>5, <2>1 DEF Sound
  <2>5. Available(d) => Available(d)'
    BY <1>5 DEF Available
  <2>6. QED
    BY <1>4, <2>1, <2>2, <2>3, <2>4, <2>5 DEF Sound
<1>8. \A r \in Rebalances : Moved(r)'
  BY DEF CollectionInv, Moved
<1>9. QED
  BY <1>2, <1>3, <1>6, <1>7, <1>8 DEF Written
-----------------------------------------------------------------------------
(* Steps, as they are proved below: p writes and goes on, or nobody goes on. *)

LEMMA WriteKeeps ==
  ASSUME CollectionInv, NEW p \in Procs, NEW label \in Labels, NEW l \in Locals,
         Goes(p, label, l), Written(p), Working(p)'
  PROVE  CollectionInv'
BY StepKeeps DEF Written

LEMMA EndKeeps ==
  ASSUME CollectionInv, NEW p \in Procs, Finish(p), Written(p) \/ UNCHANGED Shared
  PROVE  CollectionInv'
<1>1. LocalTyped
  BY DEF CollectionInv
<1>2. Goes(p, "idle", NoLocals) /\ NoLocals \in Locals /\ "idle" \in Labels /\ Working(p)'
  BY <1>1, FinishGoes
<1>3. QED
  BY <1>2, WriteKeeps, QuietKeeps

LEMMA OutsideKeeps ==
  ASSUME CollectionInv, NEW p, Written(p), UNCHANGED <<tx, pc, loc>>
  PROVE  CollectionInv'
<1>1. ASSUME NEW q \in Procs PROVE Working(q)'
  BY GrowsWorks DEF CollectionInv, Written
<1>2. LocalTyped'
  BY DEF CollectionInv, LocalTyped
<1>3. QED
  BY <1>1, <1>2 DEF CollectionInv, Written

\* What a handler in the middle of a collection knows.
LEMMA InCollection ==
  ASSUME CollectionInv, NEW p \in Procs, pc[p] \in CollectionLabels
  PROVE  /\ LocalTyped /\ Working(p) /\ loc[p] \in Locals /\ loc[p].coll = Mine(p)
         /\ Mine(p) \in Collections /\ Mine(p) \in Collections \cup Rebalances
         /\ Sound(Mine(p)) /\ tx[Mine(p)] \in TxRow /\ stl[Mine(p)] \in SettlementRow
         /\ IsChain(chain[Mine(p)])
<1>1. LocalTyped /\ Working(p) /\ SharedTyped
  BY DEF CollectionInv
<1>2. Mine(p) \in Collections
  BY <1>1 DEF Working
<1>3. QED
  BY <1>1, <1>2 DEF CollectionInv, LocalTyped, SharedTyped, Mine

-----------------------------------------------------------------------------
(* createCollection *)

LEMMA CollectFindKeeps ==
  ASSUME CollectionInv, NEW p \in Procs, NEW c \in Collections, CollectFind(p, c), UNCHANGED reb
  PROVE  CollectionInv'
<1>1. PICK label \in {"open", "insert"} : Start(p, c, label)
  BY DEF CollectFind
<1>2. PICK l \in Locals : Goes(p, label, l) /\ l.coll = c
  BY <1>1, StartGoes DEF CollectionInv
<1>3. pc'[p] = label /\ loc'[p] = l /\ Mine(p)' = c
  BY <1>2, GoesThere DEF CollectionInv
<1>4. UNCHANGED Shared /\ tx[c].ext = NoOne
  BY DEF CollectFind, Shared, NoTx
<1>5. Working(p)'
  BY <1>3, <1>4 DEF Working, Shared, CollectionLabels, RebalanceLabels, Sending, Confirming
<1>6. label \in Labels
  BY DEF Labels, CollectionLabels
<1>7. QED
  BY <1>2, <1>4, <1>5, <1>6, QuietKeeps

LEMMA OpenAccountKeeps ==
  ASSUME CollectionInv, NEW p \in Procs, OpenAccount(p), UNCHANGED reb
  PROVE  CollectionInv'
<1>1. PICK c \in Collections : c = Mine(p) /\ (tx[c].ext # p \/ p = NoOne)
  BY InCollection DEF OpenAccount, CollectionLabels, Working
<1>2. PICK label \in {"insert", "insertFailed"}, opened \in BOOLEAN :
        /\ Goto(p, label)
        /\ payin' = IF opened THEN [payin EXCEPT ![Mine(p)][p] = "open"] ELSE payin
  BY DEF OpenAccount
<1>3. Goes(p, label, loc[p]) /\ loc[p] \in Locals
  BY <1>2, GotoGoes DEF CollectionInv, OpenAccount
<1>4. pc'[p] = label /\ Mine(p)' = c
  BY <1>1, <1>3, GoesThere DEF CollectionInv, Mine
<1>5. Working(p)'
  BY <1>1, <1>4 DEF OpenAccount, Working, CollectionLabels, RebalanceLabels, Sending, Confirming
<1>6. label \in Labels
  BY DEF Labels, CollectionLabels
<1>7. CASE opened
  <2>1. Written(p)
    BY <1>1, <1>2, <1>7, PayinWritten DEF OpenAccount
  <2>2. QED
    BY <1>3, <1>5, <1>6, <2>1, WriteKeeps
<1>8. CASE ~opened
  <2>1. UNCHANGED Shared
    BY <1>2, <1>8 DEF OpenAccount, Shared
  <2>2. QED
    BY <1>3, <1>5, <1>6, <2>1, QuietKeeps
<1>9. QED
  BY <1>7, <1>8

LEMMA InsertCollectionKeeps ==
  ASSUME CollectionInv, NEW p \in Procs, InsertCollection(p), UNCHANGED reb
  PROVE  CollectionInv'
<1>1. PICK c \in Collections : c = Mine(p)
  BY InCollection DEF InsertCollection, CollectionLabels
<1>2. CASE tx[c] # NoTx
  <2>1. UNCHANGED Shared /\ Finish(p)
    BY <1>1, <1>2 DEF InsertCollection, Shared
  <2>2. QED
    BY <2>1, EndKeeps
<1>3. CASE tx[c] = NoTx
  <2>1. PICK r : r = [status |-> IF pc[p] = "insert" THEN "pending" ELSE "failed", ext |-> p, usdc |-> 0]
    OBVIOUS
  <2>2. r \in TxRow /\ r.ext = p /\ r.usdc = 0 /\ r.status # "settled"
    BY <2>1 DEF TxRow
  <2>3. tx' = [tx EXCEPT ![c] = r] /\ Finish(p) /\ UNCHANGED <<ledger, stl, chain, payin, reb>>
    BY <1>1, <1>3, <2>1 DEF InsertCollection
  <2>4. Written(p)
    BY <1>3, <2>2, <2>3, RowWritten
  <2>5. QED
    BY <2>3, <2>4, EndKeeps
<1>4. QED
  BY <1>2, <1>3

-----------------------------------------------------------------------------
(* The providers and their webhooks *)

LEMMA PayInKeeps ==
  ASSUME CollectionInv, NEW c \in Collections, NEW q \in Procs, NEW o \in PayInOutcomes(c),
         PayIn(c, q, o), UNCHANGED reb
  PROVE  CollectionInv'
<1>1. o \in {"none", "open", "paid", "mismatch", "failed"}
  BY DEF PayInOutcomes
<1>2. Written(q)
  BY <1>1, PayinWritten DEF PayIn
<1>3. QED
  BY <1>2, OutsideKeeps DEF PayIn

LEMMA SettlementStarts ==
  ASSUME CollectionInv, NEW p \in Procs, NEW c \in Collections, Start(p, c, "settle.load"),
         c \in Live => Event(c) = "paid", UNCHANGED Shared
  PROVE  CollectionInv'
<1>1. PICK l \in Locals : Goes(p, "settle.load", l) /\ l.coll = c
  BY StartGoes DEF CollectionInv
<1>2. pc'[p] = "settle.load" /\ loc'[p] = l /\ Mine(p)' = c
  BY <1>1, GoesThere DEF CollectionInv
<1>3. c \in Live => Event(c)' = "paid"
  BY NothingWritten
<1>4. Working(p)'
  BY <1>2, <1>3 DEF Working, CollectionLabels, RebalanceLabels, Sending, Confirming
<1>5. "settle.load" \in Labels
  BY DEF Labels, CollectionLabels
<1>6. QED
  BY <1>1, <1>4, <1>5, QuietKeeps

LEMMA WebhookKeeps ==
  ASSUME CollectionInv, NEW p \in Procs, NEW c \in Collections, Webhook(p, c), UNCHANGED reb
  PROVE  CollectionInv'
<1>1. CASE YellowCardSuccess(p, c)
  BY <1>1, SettlementStarts DEF YellowCardSuccess, Shared
<1>2. CASE YellowCardFailure(p, c)
  <2>1. PICK l \in Locals : Goes(p, "fail.patch", l) /\ l.coll = c
    BY <1>2, StartGoes DEF CollectionInv, YellowCardFailure
  <2>2. pc'[p] = "fail.patch" /\ Mine(p)' = c
    BY <2>1, GoesThere DEF CollectionInv
  <2>3. Working(p)'
    BY <2>2 DEF Working, CollectionLabels, RebalanceLabels, Sending, Confirming
  <2>4. "fail.patch" \in Labels /\ UNCHANGED Shared
    BY <1>2 DEF Labels, CollectionLabels, YellowCardFailure, Shared
  <2>5. QED
    BY <2>1, <2>3, <2>4, QuietKeeps
<1>3. CASE FlutterwaveSuccess(p, c)
  BY <1>3, SettlementStarts DEF FlutterwaveSuccess, Shared
<1>4. CASE FlutterwaveMismatch(p, c)
  <2>1. PICK l : l = [NoLocals EXCEPT !.coll = c, !.row = tx[c]]
    OBVIOUS
  <2>2. tx[c] \in TxRow /\ Sound(c)
    BY DEF CollectionInv, SharedTyped
  <2>3. l \in Locals /\ l.coll = c /\ l.row = tx[c]
    BY <2>1, <2>2, FinishGoes DEF NoLocals, Locals, NoSettlement, SettlementRow
  <2>4. Goes(p, "warn.patch", l)
    BY <1>4, <2>1 DEF FlutterwaveMismatch, Goto, Goes
  <2>5. pc'[p] = "warn.patch" /\ loc'[p] = l /\ Mine(p)' = c
    BY <2>3, <2>4, GoesThere DEF CollectionInv
  <2>6. "warn.patch" \in Labels /\ UNCHANGED Shared
    BY <1>4 DEF Labels, CollectionLabels, FlutterwaveMismatch, Shared
  <2>7. l.row.status = "settled" => Available(c)'
    BY <2>2, <2>3, <2>6, NothingWritten DEF Sound
  <2>8. Working(p)'
    BY <2>5, <2>7 DEF Working, CollectionLabels, RebalanceLabels, Sending, Confirming
  <2>9. QED
    BY <2>3, <2>4, <2>6, <2>8, QuietKeeps
<1>5. QED
  BY <1>1, <1>2, <1>3, <1>4 DEF Webhook

LEMMA SimulateKeeps ==
  ASSUME CollectionInv, NEW p \in Procs, NEW c \in Collections, simulateSettlement(p, c), UNCHANGED reb
  PROVE  CollectionInv'
BY SettlementStarts DEF simulateSettlement, Shared

\* Patches of a row's status alone.
LEMMA StatusWritten ==
  ASSUME CollectionInv, NEW p \in Procs, NEW c \in Collections,
         NEW status \in {"none", "pending", "processing", "settled", "failed"},
         NEW r, r = [tx[c] EXCEPT !.status = status],
         tx' = [tx EXCEPT ![c] = r], UNCHANGED <<ledger, stl, chain, payin, reb>>,
         status = "settled" => Available(c)
  PROVE  Written(p)
<1>1. tx[c] \in TxRow /\ Sound(c)
  BY DEF CollectionInv, SharedTyped
<1>2. r \in TxRow /\ r.ext = tx[c].ext /\ r.usdc = tx[c].usdc /\ r.status = status
  BY <1>1 DEF TxRow
<1>3. r.usdc \in Quotes[c] \cup {0} /\ (r.status = "settled" => Available(c))
  BY <1>1, <1>2 DEF Sound
<1>4. QED
  BY <1>2, <1>3, RowWritten

LEMMA PatchKeeps ==
  ASSUME CollectionInv, NEW p \in Procs, FailPatch(p) \/ WarnPatch(p) \/ ConfirmPatch(p), UNCHANGED reb
  PROVE  CollectionInv'
<1>1. /\ Working(p) /\ loc[p] \in Locals /\ Mine(p) \in Collections
  BY InCollection DEF FailPatch, WarnPatch, ConfirmPatch, CollectionLabels
<1>2. PICK status \in {"none", "pending", "processing", "settled", "failed"} :
        /\ tx' = [tx EXCEPT ![Mine(p)].status = status]
        /\ status = "settled" => Available(Mine(p))
  <2>1. CASE FailPatch(p)
    BY <2>1 DEF FailPatch
  <2>2. CASE WarnPatch(p)
    BY <1>1, <2>2 DEF WarnPatch, Working, Locals, TxRow
  <2>3. CASE ConfirmPatch(p)
    BY <1>1, <2>3 DEF ConfirmPatch, Working, Available
  <2>4. QED
    BY <2>1, <2>2, <2>3
<1>3. PICK r : r = [tx[Mine(p)] EXCEPT !.status = status]
  OBVIOUS
<1>4. tx' = [tx EXCEPT ![Mine(p)] = r]
  BY <1>2, <1>3
<1>5. Written(p)
  BY <1>1, <1>2, <1>3, <1>4, StatusWritten DEF FailPatch, WarnPatch, ConfirmPatch
<1>6. QED
  BY <1>5, EndKeeps DEF FailPatch, WarnPatch, ConfirmPatch
-----------------------------------------------------------------------------
(* settleCollectionCredit *)

\* A ledger call either ends the handler or comes back with its key posted.
LEMMA CallReturns ==
  ASSUME CollectionInv, NEW p \in Procs, NEW op \in CollectionOps, NEW a, NEW okLabel,
         Mine(p) \in Collections, a \in Quotes[Mine(p)], LedgerCall(p, op, a, okLabel),
         UNCHANGED <<tx, stl, chain, payin, reb>>,
         op # "releasePending" /\ Mine(p) \in Live => Event(Mine(p)) = "paid",
         op = "creditPending" => Mine(p) \notin FundingOff,
         op = "releasePending" => Landed(chain[Mine(p)]) # {} /\ HasPosted(Mine(p), "creditPending")
  PROVE  \/ CollectionInv'
         \/ /\ Goto(p, okLabel) /\ loc' = loc /\ HasPosted(Mine(p), op)'
            /\ Written(p) \/ UNCHANGED Shared
<1>1. CASE HasPosted(Mine(p), op) /\ Goto(p, okLabel) /\ UNCHANGED <<ledger, loc>>
  <2>1. UNCHANGED Shared
    BY <1>1 DEF Shared
  <2>2. HasPosted(Mine(p), op)'
    BY <1>1 DEF HasPosted, Mine
  <2>3. QED
    BY <1>1, <2>1, <2>2
<1>2. CASE /\ Admissible(ensureWalletAccount(ledger, Org), CollectionLeg(Mine(p), op, a))
           /\ ledger' = Post(ensureWalletAccount(ledger, Org), CollectionLeg(Mine(p), op, a))
           /\ Goto(p, okLabel) /\ UNCHANGED loc
  <2>1. ASSUME NEW c \in Collections, c = Mine(p)
        PROVE  Written(p) /\ HasPosted(c, op)'
    BY <1>2, <2>1, PostWritten
  <2>2. PICK c \in Collections : c = Mine(p)
    OBVIOUS
  <2>3. Mine(p)' = Mine(p)
    BY <1>2 DEF Mine
  <2>4. QED
    BY <1>2, <2>1, <2>2, <2>3 DEF HasPosted
<1>3. CASE Finish(p) /\ UNCHANGED ledger
  <2>1. UNCHANGED Shared
    BY <1>3 DEF Shared
  <2>2. QED
    BY <1>3, <2>1, EndKeeps
<1>4. QED
  BY <1>1, <1>2, <1>3 DEF LedgerCall

LEMMA SettleLoadKeeps ==
  ASSUME CollectionInv, NEW p \in Procs, SettleLoad(p), UNCHANGED reb
  PROVE  CollectionInv'
<1>1. PICK c \in Collections : c = Mine(p)
  BY InCollection DEF SettleLoad, CollectionLabels
<1>2. /\ Working(p) /\ loc[p] \in Locals /\ loc[p].coll = c /\ Sound(c) /\ tx[c] \in TxRow
  BY <1>1, InCollection DEF SettleLoad, CollectionLabels
<1>3. PICK a : /\ a \in IF tx[c].usdc # 0 THEN {tx[c].usdc} ELSE Quotes[c]
               /\ loc' = [loc EXCEPT ![p].row = tx[c], ![p].amt = a]
  BY <1>1 DEF SettleLoad
<1>4. a \in Quotes[c] /\ a \in Amounts
  BY <1>2, <1>3, CollectionAssumption DEF Sound
<1>5. PICK l : l = [loc[p] EXCEPT !.row = tx[c], !.amt = a]
  OBVIOUS
<1>6. l \in Locals /\ l.coll = c /\ l.row = tx[c] /\ l.amt = a
  BY <1>2, <1>4, <1>5 DEF Locals
<1>7. loc' = [loc EXCEPT ![p] = l]
  BY <1>3, <1>5 DEF CollectionInv, LocalTyped
<1>8. Goes(p, "settle.credit", l) /\ UNCHANGED Shared
  BY <1>7 DEF SettleLoad, Goto, Goes, Shared
<1>9. pc'[p] = "settle.credit" /\ loc'[p] = l /\ Mine(p)' = c
  BY <1>6, <1>8, GoesThere DEF CollectionInv
<1>10. c \in Live => Event(c)' = "paid"
  BY <1>1, <1>2, <1>8, NothingWritten DEF SettleLoad, Working
<1>11. l.row.status = "settled" => Available(c)'
  BY <1>2, <1>6, <1>8, NothingWritten DEF Sound
<1>12. Working(p)'
  BY <1>4, <1>6, <1>9, <1>10, <1>11 DEF Working, CollectionLabels, RebalanceLabels, Sending, Confirming
<1>13. "settle.credit" \in Labels
  BY DEF Labels, CollectionLabels
<1>14. QED
  BY <1>6, <1>8, <1>12, <1>13, QuietKeeps

LEMMA SettleCreditKeeps ==
  ASSUME CollectionInv, NEW p \in Procs, SettleCredit(p), UNCHANGED reb
  PROVE  CollectionInv'
<1>1. PICK c \in Collections : c = Mine(p)
  BY InCollection DEF SettleCredit, CollectionLabels
<1>2. Working(p) /\ Sound(c)
  BY <1>1, InCollection DEF SettleCredit, CollectionLabels
<1>3. /\ c \in Live => Event(c) = "paid"
      /\ loc[p].row.status = "settled" => Available(c)
      /\ loc[p].amt \in Quotes[c]
  BY <1>1, <1>2 DEF SettleCredit, Working
<1>4. PICK op \in CollectionOps :
        op = CreditOp(c) /\ op # "releasePending" /\ (op = "creditPending" => c \notin FundingOff)
  BY DEF CreditOp, CollectionOps
<1>5. LedgerCall(p, op, loc[p].amt, "settle.patch") /\ UNCHANGED <<tx, stl, chain, payin, reb>>
  BY <1>1, <1>4 DEF SettleCredit, CreditOp
<1>6. SUFFICES ASSUME Goto(p, "settle.patch"), loc' = loc, HasPosted(Mine(p), op)',
                      Written(p) \/ UNCHANGED Shared
               PROVE  CollectionInv'
  BY <1>1, <1>3, <1>4, <1>5, CallReturns
<1>7. Goes(p, "settle.patch", loc[p]) /\ loc[p] \in Locals
  BY <1>6, GotoGoes DEF CollectionInv
<1>8. pc'[p] = "settle.patch" /\ loc'[p] = loc[p] /\ Mine(p)' = c
  BY <1>1, <1>7, GoesThere DEF CollectionInv, Mine
<1>9. HasPosted(c, CreditOp(c))'
  BY <1>1, <1>4, <1>6, <1>8 DEF HasPosted, CreditOp
<1>10. Available(c) => Available(c)'
  BY <1>6, NothingWritten DEF Written, Grows, Available
<1>11. Working(p)'
  BY <1>3, <1>8, <1>9, <1>10 DEF Working, CollectionLabels, RebalanceLabels, Sending, Confirming
<1>12. "settle.patch" \in Labels
  BY DEF Labels, CollectionLabels
<1>13. QED
  BY <1>6, <1>7, <1>11, <1>12, WriteKeeps, QuietKeeps

LEMMA SettlePatchKeeps ==
  ASSUME CollectionInv, NEW p \in Procs, SettlePatch(p), UNCHANGED reb
  PROVE  CollectionInv'
<1>1. PICK c \in Collections : c = Mine(p)
  BY InCollection DEF SettlePatch, CollectionLabels
<1>2. Working(p) /\ tx[c] \in TxRow
  BY <1>1, InCollection DEF SettlePatch, CollectionLabels
<1>3. /\ loc[p].row.status = "settled" => Available(c)
      /\ loc[p].amt \in Quotes[c] /\ HasPosted(c, CreditOp(c))
  BY <1>1, <1>2 DEF SettlePatch, Working
<1>4. PICK status : status = IF loc[p].row.status = "settled" THEN "settled" ELSE StatusAfterCredit(c)
  OBVIOUS
<1>5. status \in {"processing", "settled"} /\ (status = "settled" => Available(c))
  BY <1>3, <1>4 DEF StatusAfterCredit, Available, CreditOp
<1>6. PICK r : r = [tx[c] EXCEPT !.usdc = loc[p].amt, !.status = status]
  OBVIOUS
<1>7. r \in TxRow /\ r.ext = tx[c].ext /\ r.usdc = loc[p].amt /\ r.status = status
  BY <1>2, <1>3, <1>5, <1>6, CollectionAssumption DEF TxRow
<1>8. tx' = [tx EXCEPT ![c] = r] /\ UNCHANGED <<ledger, stl, chain, payin, reb>>
  BY <1>1, <1>4, <1>6 DEF SettlePatch, CollectionInv, SharedTyped
<1>9. Written(p)
  BY <1>3, <1>5, <1>7, <1>8, RowWritten
<1>10. CASE c \in FundingOff
  BY <1>1, <1>9, <1>10, EndKeeps DEF SettlePatch
<1>11. CASE c \notin FundingOff
  <2>1. Goto(p, "fund.find") /\ loc' = loc
    BY <1>1, <1>11 DEF SettlePatch
  <2>2. Goes(p, "fund.find", loc[p]) /\ loc[p] \in Locals
    BY <2>1, GotoGoes DEF CollectionInv
  <2>3. pc'[p] = "fund.find" /\ loc'[p] = loc[p] /\ Mine(p)' = c
    BY <1>1, <2>2, GoesThere DEF CollectionInv, Mine
  <2>4. HasPosted(c, "creditPending")'
    BY <1>3, <1>9, <1>11 DEF CreditOp, Written, Grows
  <2>5. Working(p)'
    BY <1>3, <2>3, <2>4 DEF Working, CollectionLabels, RebalanceLabels, Sending, Confirming
  <2>6. "fund.find" \in Labels
    BY DEF Labels, CollectionLabels
  <2>7. QED
    BY <1>9, <2>2, <2>5, <2>6, WriteKeeps
<1>12. QED
  BY <1>10, <1>11
-----------------------------------------------------------------------------
(* fundCollectionStellarWallet and confirmCollectionFunding *)

LEMMA FundFindKeeps ==
  ASSUME CollectionInv, NEW p \in Procs, FundFind(p), UNCHANGED reb
  PROVE  CollectionInv'
<1>1. PICK c \in Collections : c = Mine(p)
  BY InCollection DEF FundFind, CollectionLabels
<1>2. /\ Working(p) /\ loc[p] \in Locals /\ loc[p].coll = c /\ stl[c] \in SettlementRow
  BY <1>1, InCollection DEF FundFind, CollectionLabels
<1>3. UNCHANGED Shared
  BY DEF FundFind, Shared
<1>4. CASE Finish(p)
  BY <1>3, <1>4, EndKeeps
<1>5. CASE Goto(p, "fund.treasury") /\ loc' = [loc EXCEPT ![p].st = stl[c]]
  <2>1. PICK l : l = [loc[p] EXCEPT !.st = stl[c]]
    OBVIOUS
  <2>2. l \in Locals /\ l.coll = c /\ l.amt = loc[p].amt /\ l.st = stl[c]
    BY <1>2, <2>1 DEF Locals
  <2>3. Goes(p, "fund.treasury", l)
    BY <1>5, <2>1 DEF Goto, Goes
  <2>4. pc'[p] = "fund.treasury" /\ loc'[p] = l /\ Mine(p)' = c
    BY <2>2, <2>3, GoesThere DEF CollectionInv
  <2>5. l.amt \in Quotes[c] /\ HasPosted(c, "creditPending")' /\ stl' = stl
    BY <1>1, <1>2, <1>3, <2>2, NothingWritten DEF FundFind, Working, Shared
  <2>6. Working(p)'
    BY <2>2, <2>4, <2>5 DEF Working, CollectionLabels, RebalanceLabels, Sending, Confirming
  <2>7. "fund.treasury" \in Labels
    BY DEF Labels, CollectionLabels
  <2>8. QED
    BY <1>3, <2>2, <2>3, <2>6, <2>7, QuietKeeps
<1>6. QED
  BY <1>1, <1>4, <1>5 DEF FundFind

\* The INSERT of a settlement row, which leaves one that is there.
LEMMA InsertWritten ==
  ASSUME CollectionInv, NEW p \in Procs, NEW c \in Collections, NEW a \in Quotes[c],
         NEW status \in {"pending", "pending_treasury"}, InsertSettlement(c, status, a),
         UNCHANGED <<ledger, tx, chain, payin, reb>>
  PROVE  (Written(p) \/ UNCHANGED Shared) /\ stl'[c] # NoSettlement
<1>1. stl \in [Collections -> SettlementRow]
  BY DEF CollectionInv, SharedTyped
<1>2. CASE stl[c] = NoSettlement
  <2>1. PICK s : s = [status |-> status, amount |-> a, ref |-> 0]
    OBVIOUS
  <2>2. s \in SettlementRow /\ s # NoSettlement /\ s.amount \in Quotes[c]
    BY <2>1, CollectionAssumption DEF SettlementRow, NoSettlement
  <2>3. stl' = [stl EXCEPT ![c] = s]
    BY <1>2, <2>1 DEF InsertSettlement
  <2>4. QED
    BY <2>2, <2>3, SettlementWritten
<1>3. CASE stl[c] # NoSettlement
  BY <1>3 DEF InsertSettlement, Shared
<1>4. QED
  BY <1>2, <1>3

\* An UPDATE of it, which keeps its amount.
LEMMA UpdateWritten ==
  ASSUME CollectionInv, NEW p \in Procs, NEW c \in Collections, stl[c] # NoSettlement,
         NEW s \in SettlementRow, s.amount = stl[c].amount, s.status # "none",
         stl' = [stl EXCEPT ![c] = s], UNCHANGED <<ledger, tx, chain, payin, reb>>
  PROVE  Written(p) /\ stl'[c] # NoSettlement
<1>1. Sound(c)
  BY DEF CollectionInv
<1>2. s # NoSettlement /\ s.amount \in Quotes[c]
  BY <1>1 DEF NoSettlement, Sound
<1>3. QED
  BY <1>2, SettlementWritten

LEMMA FundTreasuryKeeps ==
  ASSUME CollectionInv, NEW p \in Procs, FundTreasury(p), UNCHANGED reb
  PROVE  CollectionInv'
<1>1. PICK c \in Collections : c = Mine(p)
  BY InCollection DEF FundTreasury, CollectionLabels
<1>2. /\ Working(p) /\ stl[c] \in SettlementRow
  BY <1>1, InCollection DEF FundTreasury, CollectionLabels
<1>3. /\ loc[p].amt \in Quotes[c] /\ HasPosted(c, "creditPending")
      /\ loc[p].st # NoSettlement => stl[c] # NoSettlement
  BY <1>1, <1>2 DEF FundTreasury, Working
<1>4. UNCHANGED <<ledger, tx, chain, payin, reb>>
  BY DEF FundTreasury
<1>5. CASE Finish(p) /\ loc[p].st = NoSettlement /\ InsertSettlement(c, "pending_treasury", loc[p].amt)
  <2>1. Written(p) \/ UNCHANGED Shared
    BY <1>3, <1>4, <1>5, InsertWritten
  <2>2. QED
    BY <1>5, <2>1, EndKeeps
<1>6. CASE /\ Finish(p) /\ loc[p].st # NoSettlement
           /\ stl' = [stl EXCEPT ![c].status = "pending_treasury"]
  <2>1. PICK s : s = [stl[c] EXCEPT !.status = "pending_treasury"]
    OBVIOUS
  <2>2. s \in SettlementRow /\ s.amount = stl[c].amount /\ s.status # "none"
    BY <1>2, <2>1 DEF SettlementRow
  <2>3. stl' = [stl EXCEPT ![c] = s] /\ stl[c] # NoSettlement
    BY <1>3, <1>6, <2>1
  <2>4. Written(p)
    BY <1>4, <2>2, <2>3, UpdateWritten
  <2>5. QED
    BY <1>6, <2>4, EndKeeps
<1>7. CASE Goto(p, "fund.insert") /\ UNCHANGED <<stl, loc>>
  <2>1. Goes(p, "fund.insert", loc[p]) /\ loc[p] \in Locals /\ UNCHANGED Shared
    BY <1>4, <1>7, GotoGoes DEF CollectionInv, Shared
  <2>2. pc'[p] = "fund.insert" /\ loc'[p] = loc[p] /\ Mine(p)' = c
    BY <1>1, <2>1, GoesThere DEF CollectionInv, Mine
  <2>3. HasPosted(c, "creditPending")' /\ stl' = stl
    BY <1>3, <2>1, NothingWritten DEF Shared
  <2>4. Working(p)'
    BY <1>3, <2>2, <2>3 DEF Working, CollectionLabels, RebalanceLabels, Sending, Confirming
  <2>5. "fund.insert" \in Labels
    BY DEF Labels, CollectionLabels
  <2>6. QED
    BY <2>1, <2>4, <2>5, QuietKeeps
<1>8. QED
  BY <1>1, <1>5, <1>6, <1>7 DEF FundTreasury

\* Where a handler goes on to send the payment.
LEMMA SendsNext ==
  ASSUME CollectionInv, NEW p \in Procs, NEW c \in Collections, c = Mine(p),
         HasPosted(c, "creditPending"), Goto(p, "fund.submit"), loc' = loc,
         Written(p) \/ UNCHANGED Shared, stl'[c] # NoSettlement
  PROVE  CollectionInv'
<1>1. Goes(p, "fund.submit", loc[p]) /\ loc[p] \in Locals
  BY GotoGoes DEF CollectionInv
<1>2. pc'[p] = "fund.submit" /\ loc'[p] = loc[p] /\ Mine(p)' = c
  BY <1>1, GoesThere DEF CollectionInv, Mine
<1>3. HasPosted(c, "creditPending")'
  BY NothingWritten DEF Written, Grows
<1>4. Working(p)'
  BY <1>2, <1>3 DEF Working, CollectionLabels, RebalanceLabels, Sending, Confirming
<1>5. "fund.submit" \in Labels
  BY DEF Labels, CollectionLabels
<1>6. QED
  BY <1>1, <1>4, <1>5, WriteKeeps, QuietKeeps

LEMMA FundInsertKeeps ==
  ASSUME CollectionInv, NEW p \in Procs, FundInsert(p), UNCHANGED reb
  PROVE  CollectionInv'
<1>1. PICK c \in Collections : c = Mine(p)
  BY InCollection DEF FundInsert, CollectionLabels
<1>2. Working(p)
  BY InCollection DEF FundInsert, CollectionLabels
<1>3. /\ loc[p].amt \in Quotes[c] /\ HasPosted(c, "creditPending")
      /\ loc[p].st # NoSettlement => stl[c] # NoSettlement
  BY <1>1, <1>2 DEF FundInsert, Working
<1>4. UNCHANGED <<ledger, tx, chain, payin, reb>>
  BY DEF FundInsert
<1>5. CASE loc[p].st # NoSettlement
  <2>1. Goto(p, "fund.submit") /\ loc' = loc /\ UNCHANGED Shared
    BY <1>4, <1>5 DEF FundInsert, Shared
  <2>2. QED
    BY <1>1, <1>3, <1>5, <2>1, SendsNext DEF Shared
<1>6. CASE loc[p].st = NoSettlement
  <2>1. InsertSettlement(c, "pending", loc[p].amt) /\ (Finish(p) \/ (Goto(p, "fund.submit") /\ loc' = loc))
    BY <1>1, <1>6 DEF FundInsert
  <2>2. (Written(p) \/ UNCHANGED Shared) /\ stl'[c] # NoSettlement
    BY <1>3, <1>4, <2>1, InsertWritten
  <2>3. QED
    BY <1>1, <1>3, <2>1, <2>2, SendsNext, EndKeeps
<1>7. QED
  BY <1>5, <1>6
LEMMA FundSubmitKeeps ==
  ASSUME CollectionInv, NEW p \in Procs, FundSubmit(p), UNCHANGED reb
  PROVE  CollectionInv'
<1>1. PICK c \in Collections : c = Mine(p) /\ c \in Collections \cup Rebalances
  BY InCollection DEF FundSubmit, CollectionLabels
<1>2. /\ Working(p) /\ loc[p] \in Locals /\ loc[p].coll = c /\ IsChain(chain[c])
  BY <1>1, InCollection DEF FundSubmit, CollectionLabels
<1>3. stl[c] # NoSettlement /\ HasPosted(c, "creditPending")
  BY <1>1, <1>2 DEF FundSubmit, Working, Sending
<1>4. PICK o \in SubmitOutcomes :
        /\ chain' = [chain EXCEPT ![c] = submitUsdcPayment(@, loc[p].amt, o.state, Used)]
        /\ Goto(p, CASE o.reply = "error"     -> "fund.failed"
                     [] o.reply = "submitted" -> "fund.submitted"
                     [] o.reply = "confirmed" -> "fund.confirmed")
        /\ loc' = [loc EXCEPT ![p].hash = Len(chain[c]) + 1]
  BY <1>1 DEF FundSubmit
<1>5. PICK label \in {"fund.failed", "fund.submitted", "fund.confirmed"} :
        Goto(p, label) /\ (label = "fund.confirmed" => o.state = "landed")
  BY <1>4 DEF SubmitOutcomes
<1>6. o.state \in {"sent", "landed", "failed"}
  BY DEF SubmitOutcomes
<1>7. PICK n \in Nat : n = Len(chain[c])
  BY <1>2 DEF IsChain
<1>8. PICK ch : ch = submitUsdcPayment(chain[c], loc[p].amt, o.state, Used)
  OBVIOUS
<1>9. /\ IsChain(ch) /\ Len(ch) = n + 1 /\ Landed(chain[c]) \subseteq Landed(ch)
      /\ o.state = "landed" => n + 1 \in Landed(ch)
  BY <1>2, <1>6, <1>7, <1>8, ChainAppend
<1>10. chain' = [chain EXCEPT ![c] = ch]
  BY <1>4, <1>8
<1>11. 1..Len(chain[c]) \subseteq 1..Len(ch) /\ n + 1 \in 1..Len(ch)
  BY <1>7, <1>9
<1>12. UNCHANGED <<ledger, tx, stl, payin, reb>>
  BY DEF FundSubmit
<1>13. Written(p) /\ chain'[c] = ch
  BY <1>1, <1>9, <1>10, <1>11, <1>12, ChainWritten
<1>14. PICK l : l = [loc[p] EXCEPT !.hash = n + 1]
  OBVIOUS
<1>15. l \in Locals /\ l.coll = c /\ l.hash = n + 1
  BY <1>2, <1>14 DEF Locals
<1>16. Goes(p, label, l)
  BY <1>4, <1>5, <1>7, <1>14 DEF Goto, Goes
<1>17. pc'[p] = label /\ loc'[p] = l /\ Mine(p)' = c
  BY <1>15, <1>16, GoesThere DEF CollectionInv
<1>18. HasPosted(c, "creditPending")' /\ stl'[c] # NoSettlement
  BY <1>3, <1>12 DEF HasPosted
<1>19. Working(p)'
  BY <1>5, <1>9, <1>11, <1>13, <1>15, <1>17, <1>18
     DEF Working, CollectionLabels, RebalanceLabels, Sending, Confirming
<1>20. label \in Labels
  BY DEF Labels, CollectionLabels
<1>21. QED
  BY <1>13, <1>15, <1>16, <1>19, <1>20, WriteKeeps

LEMMA FundFailedKeeps ==
  ASSUME CollectionInv, NEW p \in Procs, FundFailed(p), UNCHANGED reb
  PROVE  CollectionInv'
<1>1. PICK c \in Collections : c = Mine(p)
  BY InCollection DEF FundFailed, CollectionLabels
<1>2. stl[c] # NoSettlement /\ stl[c] \in SettlementRow
  BY <1>1, InCollection DEF FundFailed, CollectionLabels, Working, Sending
<1>3. PICK s : s = [stl[c] EXCEPT !.status = "failed"]
  OBVIOUS
<1>4. s \in SettlementRow /\ s.amount = stl[c].amount /\ s.status # "none"
  BY <1>2, <1>3 DEF SettlementRow
<1>5. stl' = [stl EXCEPT ![c] = s]
  BY <1>1, <1>3 DEF FundFailed
<1>6. UNCHANGED <<ledger, tx, chain, payin, reb>> /\ Finish(p)
  BY DEF FundFailed
<1>7. Written(p)
  BY <1>2, <1>4, <1>5, <1>6, UpdateWritten
<1>8. QED
  BY <1>6, <1>7, EndKeeps

\* The row names the transaction of this call; a handler that was told or has seen that
\* it landed goes on to the release, another to the look-up.
LEMMA FundSubmittedKeeps ==
  ASSUME CollectionInv, NEW p \in Procs, FundSubmitted(p) \/ ConfirmSettlement(p), UNCHANGED reb
  PROVE  CollectionInv'
<1>1. PICK c \in Collections : c = Mine(p)
  BY InCollection DEF FundSubmitted, ConfirmSettlement, CollectionLabels
<1>2. /\ Working(p) /\ loc[p] \in Locals /\ LocalTyped /\ stl[c] \in SettlementRow
      /\ pc[p] \in {"fund.submitted", "fund.confirmed", "confirm"}
  BY <1>1, InCollection DEF FundSubmitted, ConfirmSettlement, CollectionLabels
<1>3. /\ stl[c] # NoSettlement /\ HasPosted(c, "creditPending") /\ loc[p].hash \in Nat
      /\ pc[p] = "fund.submitted" => loc[p].hash \in 1..Len(chain[c])
      /\ pc[p] \in {"fund.confirmed", "confirm"} => loc[p].hash \in Landed(chain[c])
  BY <1>1, <1>2 DEF Working, Sending, Confirming, Locals
<1>4. PICK status \in {"submitted", "confirmed"} :
        stl' = [stl EXCEPT ![c].status = status, ![c].ref = loc[p].hash]
  BY <1>1 DEF FundSubmitted, ConfirmSettlement
<1>5. PICK label \in {"fund.verify", "confirm", "confirm.release"} :
        /\ Goto(p, label) /\ loc' = loc
        /\ label = "fund.verify" => pc[p] = "fund.submitted"
        /\ label # "fund.verify" => pc[p] \in {"fund.confirmed", "confirm"}
  BY DEF FundSubmitted, ConfirmSettlement
<1>6. PICK s : s = [stl[c] EXCEPT !.status = status, !.ref = loc[p].hash]
  OBVIOUS
<1>7. stl' = [stl EXCEPT ![c] = s]
  BY <1>4, <1>6 DEF CollectionInv, SharedTyped
<1>8. UNCHANGED <<ledger, tx, chain, payin, reb>>
  BY DEF FundSubmitted, ConfirmSettlement
<1>9. Written(p) /\ stl'[c] # NoSettlement
  <2>1. s \in SettlementRow /\ s.amount = stl[c].amount /\ s.status # "none"
    BY <1>2, <1>3, <1>6 DEF SettlementRow
  <2>2. QED
    BY <1>3, <1>7, <1>8, <2>1, UpdateWritten
<1>10. Goes(p, label, loc[p])
  BY <1>2, <1>5, GotoGoes
<1>11. pc'[p] = label /\ loc'[p] = loc[p] /\ Mine(p)' = c
  BY <1>1, <1>2, <1>10, GoesThere DEF Mine
<1>12. HasPosted(c, "creditPending")' /\ chain' = chain
  BY <1>3, <1>8 DEF HasPosted
<1>13. Working(p)'
  BY <1>3, <1>5, <1>9, <1>11, <1>12 DEF Working, CollectionLabels, RebalanceLabels, Sending, Confirming
<1>14. label \in Labels
  BY DEF Labels, CollectionLabels
<1>15. QED
  BY <1>2, <1>9, <1>10, <1>13, <1>14, WriteKeeps

LEMMA FundVerifyKeeps ==
  ASSUME CollectionInv, NEW p \in Procs, FundVerify(p), UNCHANGED reb
  PROVE  CollectionInv'
<1>1. PICK c \in Collections : c = Mine(p)
  BY InCollection DEF FundVerify, CollectionLabels
<1>2. /\ Working(p) /\ loc[p] \in Locals /\ LocalTyped /\ IsChain(chain[c])
  BY <1>1, InCollection DEF FundVerify, CollectionLabels
<1>3. /\ stl[c] # NoSettlement /\ HasPosted(c, "creditPending")
      /\ loc[p].hash \in 1..Len(chain[c])
  BY <1>1, <1>2 DEF FundVerify, Working, Sending
<1>4. UNCHANGED Shared
  BY DEF FundVerify, Shared
<1>5. PICK answer \in verifyUsdcPayment(chain[c], loc[p].hash) :
        IF answer = "SUCCESS" THEN Goto(p, "confirm") /\ UNCHANGED loc ELSE Finish(p)
  BY <1>1 DEF FundVerify
<1>6. CASE answer # "SUCCESS"
  BY <1>4, <1>5, <1>6, EndKeeps
<1>7. CASE answer = "SUCCESS"
  <2>1. loc[p].hash \in Landed(chain[c])
    BY <1>2, <1>3, <1>5, <1>7, VerifyTells DEF Landed
  <2>2. Goes(p, "confirm", loc[p])
    BY <1>2, <1>5, <1>7, GotoGoes
  <2>3. pc'[p] = "confirm" /\ loc'[p] = loc[p] /\ Mine(p)' = c
    BY <1>1, <1>2, <2>2, GoesThere DEF Mine
  <2>4. HasPosted(c, "creditPending")' /\ chain' = chain /\ stl' = stl
    BY <1>3, <1>4, NothingWritten DEF Shared
  <2>5. Working(p)'
    BY <1>3, <2>1, <2>3, <2>4 DEF Working, CollectionLabels, RebalanceLabels, Sending, Confirming
  <2>6. "confirm" \in Labels
    BY DEF Labels, CollectionLabels
  <2>7. QED
    BY <1>2, <1>4, <2>2, <2>5, <2>6, QuietKeeps
<1>8. QED
  BY <1>6, <1>7

LEMMA ConfirmReleaseKeeps ==
  ASSUME CollectionInv, NEW p \in Procs, ConfirmRelease(p), UNCHANGED reb
  PROVE  CollectionInv'
<1>1. PICK c \in Collections : c = Mine(p)
  BY InCollection DEF ConfirmRelease, CollectionLabels
<1>2. Working(p) /\ Sound(c) /\ LocalTyped /\ loc[p] \in Locals
  BY <1>1, InCollection DEF ConfirmRelease, CollectionLabels
<1>3. stl[c] # NoSettlement /\ HasPosted(c, "creditPending") /\ loc[p].hash \in Landed(chain[c])
  BY <1>1, <1>2 DEF ConfirmRelease, Working, Confirming
<1>4. stl[c].amount \in Quotes[c] /\ Landed(chain[c]) # {}
  BY <1>2, <1>3 DEF Sound
<1>5. /\ LedgerCall(p, "releasePending", stl[c].amount, "confirm.patch")
      /\ UNCHANGED <<tx, stl, chain, payin, reb>>
  BY <1>1 DEF ConfirmRelease
<1>6. SUFFICES ASSUME Goto(p, "confirm.patch"), loc' = loc, HasPosted(Mine(p), "releasePending")',
                      Written(p) \/ UNCHANGED Shared
               PROVE  CollectionInv'
  BY <1>1, <1>3, <1>4, <1>5, CallReturns DEF CollectionOps
<1>7. Goes(p, "confirm.patch", loc[p])
  BY <1>2, <1>6, GotoGoes
<1>8. pc'[p] = "confirm.patch" /\ loc'[p] = loc[p] /\ Mine(p)' = c
  BY <1>1, <1>2, <1>7, GoesThere DEF Mine
<1>9. HasPosted(c, "releasePending")'
  BY <1>6, <1>8 DEF HasPosted
<1>10. Working(p)'
  BY <1>8, <1>9 DEF Working, CollectionLabels, RebalanceLabels, Sending, Confirming
<1>11. "confirm.patch" \in Labels
  BY DEF Labels, CollectionLabels
<1>12. QED
  BY <1>2, <1>6, <1>7, <1>10, <1>11, WriteKeeps, QuietKeeps

-----------------------------------------------------------------------------
(* The network and crashes *)

LEMMA NetworkResolvesKeeps ==
  ASSUME CollectionInv, NEW x \in Collections \cup Rebalances, NEW i \in 1..Len(chain[x]),
         NetworkResolves(x, i), UNCHANGED reb
  PROVE  CollectionInv'
<1>1. IsChain(chain[x])
  BY DEF CollectionInv, SharedTyped
<1>2. PICK ch \in Resolutions(chain[x], i, Used) : chain' = [chain EXCEPT ![x] = ch]
  BY DEF NetworkResolves
<1>3. IsChain(ch) /\ Len(ch) = Len(chain[x]) /\ Landed(chain[x]) \subseteq Landed(ch)
  BY <1>1, ChainResolve DEF NetworkResolves
<1>4. UNCHANGED <<ledger, tx, stl, payin, reb>> /\ UNCHANGED <<pc, loc>>
  BY DEF NetworkResolves
<1>5. Written(NoOne)
  BY <1>2, <1>3, <1>4, ChainWritten
<1>6. QED
  BY <1>4, <1>5, OutsideKeeps

LEMMA CrashKeeps ==
  ASSUME CollectionInv, NEW p \in Procs, Crash(p), UNCHANGED reb
  PROVE  CollectionInv'
<1>1. Finish(p) /\ UNCHANGED Shared
  BY DEF Crash, Shared
<1>2. QED
  BY <1>1, EndKeeps
-----------------------------------------------------------------------------
(* Treasury rebalances *)

\* Where a handler of a rebalance may be without having sent a payment.
Plain == RebalanceLabels \ {"rebalance.verify", "rebalance.confirmed"}

LEMMA InRebalance ==
  ASSUME CollectionInv, NEW p \in Procs, pc[p] \in RebalanceLabels
  PROVE  /\ LocalTyped /\ Working(p) /\ loc[p] \in Locals /\ loc[p].coll = Mine(p)
         /\ Mine(p) \in Rebalances /\ Mine(p) \in Collections \cup Rebalances
         /\ reb[Mine(p)] \in RebalanceRow /\ IsChain(chain[Mine(p)]) /\ Moved(Mine(p))
<1>1. LocalTyped /\ Working(p) /\ SharedTyped
  BY DEF CollectionInv
<1>2. Mine(p) \in Rebalances
  BY <1>1 DEF Working
<1>3. QED
  BY <1>1, <1>2 DEF CollectionInv, LocalTyped, SharedTyped, Mine

LEMMA PlainGoes ==
  ASSUME CollectionInv, NEW p \in Procs, NEW label \in Plain, NEW l \in Locals, l.coll \in Rebalances,
         Goes(p, label, l), Written(p) \/ UNCHANGED Shared
  PROVE  CollectionInv'
<1>1. pc'[p] = label /\ Mine(p)' \in Rebalances
  BY GoesThere DEF CollectionInv
<1>2. Working(p)'
  BY <1>1 DEF Plain, Working, CollectionLabels, RebalanceLabels, Sending, Confirming
<1>3. label \in Labels
  BY DEF Plain, Labels
<1>4. QED
  BY <1>2, <1>3, WriteKeeps, QuietKeeps

LEMMA RebalanceCallKeeps ==
  ASSUME CollectionInv, NEW p \in Procs, NEW r \in Rebalances, RebalanceCall(p, r)
  PROVE  CollectionInv'
<1>1. PICK label \in {"request.position", "approve.update", "exec.position", "exec.approve", "rebalance.load"} :
        Start(p, r, label)
  BY DEF RebalanceCall, requestTreasuryRebalance, executeTreasuryRebalance, AfterRequest,
         approveTreasuryRebalance, submitTreasuryRebalance
<1>2. UNCHANGED Shared
  BY DEF RebalanceCall, requestTreasuryRebalance, executeTreasuryRebalance,
         approveTreasuryRebalance, submitTreasuryRebalance, CollectionsUnchanged, Shared
<1>3. PICK l \in Locals : Goes(p, label, l) /\ l.coll = r
  BY <1>1, StartGoes DEF CollectionInv
<1>4. label \in Plain
  BY DEF Plain, RebalanceLabels
<1>5. QED
  BY <1>2, <1>3, <1>4, PlainGoes

\* Steps that end the handler, or take it on with the local variables it has.
LEMMA PlainKeeps ==
  ASSUME CollectionInv, NEW p \in Procs, pc[p] \in RebalanceLabels, NEW label \in Plain,
         Finish(p) \/ (Goto(p, label) /\ loc' = loc), Written(p) \/ UNCHANGED Shared
  PROVE  CollectionInv'
<1>1. CASE Finish(p)
  BY <1>1, EndKeeps
<1>2. CASE Goto(p, label) /\ loc' = loc
  <2>1. Goes(p, label, loc[p]) /\ loc[p] \in Locals
    BY <1>2, GotoGoes DEF CollectionInv
  <2>2. loc[p].coll \in Rebalances
    BY InRebalance
  <2>3. QED
    BY <2>1, <2>2, PlainGoes
<1>3. QED
  BY <1>1, <1>2

LEMMA RebalanceReadsKeep ==
  ASSUME CollectionInv, NEW p \in Procs,
         \/ RebalancePosition(p) \/ ExecApprove(p) \/ RebalanceLoad(p) \/ RebalanceObserve(p)
         \/ RebalanceVerify(p) /\ ~Goto(p, "rebalance.confirmed")
  PROVE  CollectionInv'
<1>1. PICK label \in {"exec.insert", "request.insert", "exec.update", "rebalance.load",
                      "rebalance.observe", "rebalance.submit", "rebalance.unseen", "rebalance.failed"} :
        Finish(p) \/ (Goto(p, label) /\ loc' = loc)
  <2>1. CASE RebalancePosition(p)
    BY <2>1 DEF RebalancePosition
  <2>2. CASE ExecApprove(p)
    BY <2>2 DEF ExecApprove
  <2>3. CASE RebalanceLoad(p)
    BY <2>3 DEF RebalanceLoad
  <2>4. CASE RebalanceObserve(p)
    BY <2>4 DEF RebalanceObserve
  <2>5. CASE RebalanceVerify(p) /\ ~Goto(p, "rebalance.confirmed")
    BY <2>5 DEF RebalanceVerify
  <2>6. QED
    BY <2>1, <2>2, <2>3, <2>4, <2>5
<1>2. UNCHANGED Shared /\ pc[p] \in RebalanceLabels
  BY DEF RebalancePosition, ExecApprove, RebalanceLoad, RebalanceObserve, RebalanceVerify,
         CollectionsUnchanged, Shared, RebalanceLabels
<1>3. label \in Plain
  BY DEF Plain, RebalanceLabels
<1>4. QED
  BY <1>1, <1>2, <1>3, PlainKeeps

LEMMA RebalanceVerifyKeeps ==
  ASSUME CollectionInv, NEW p \in Procs, RebalanceVerify(p)
  PROVE  CollectionInv'
<1>1. CASE ~Goto(p, "rebalance.confirmed")
  BY <1>1, RebalanceReadsKeep
<1>2. CASE Goto(p, "rebalance.confirmed")
  <2>1. PICK r \in Rebalances : r = Mine(p)
    BY InRebalance DEF RebalanceVerify, RebalanceLabels
  <2>2. /\ Working(p) /\ loc[p] \in Locals /\ LocalTyped /\ IsChain(chain[r])
    BY <2>1, InRebalance DEF RebalanceVerify, RebalanceLabels
  <2>3. loc[p].hash \in 1..Len(chain[r])
    BY <2>1, <2>2 DEF RebalanceVerify, Working
  <2>4. Goes(p, "rebalance.confirmed", loc[p]) /\ UNCHANGED Shared
    BY <1>2, <2>2, GotoGoes DEF RebalanceVerify, CollectionsUnchanged, Shared
  <2>5. pc'[p] = "rebalance.confirmed" /\ loc'[p] = loc[p] /\ Mine(p)' = r
    BY <2>1, <2>2, <2>4, GoesThere DEF Mine
  <2>6. "SUCCESS" \in verifyUsdcPayment(chain[r], loc[p].hash)
    <3>1. pc' # [pc EXCEPT ![p] = "rebalance.unseen"] /\ pc' # [pc EXCEPT ![p] = "rebalance.failed"]
      BY <2>2, <2>5 DEF LocalTyped
    <3>2. QED
      BY <2>1, <3>1 DEF RebalanceVerify, Goto
  <2>7. loc[p].hash \in Landed(chain[r])
    BY <2>2, <2>3, <2>6, VerifyTells DEF Landed
  <2>8. Working(p)'
    BY <2>1, <2>4, <2>5, <2>7 DEF Working, CollectionLabels, RebalanceLabels, Sending, Confirming, Shared
  <2>9. "rebalance.confirmed" \in Labels
    BY DEF Labels, RebalanceLabels
  <2>10. QED
    BY <2>2, <2>4, <2>8, <2>9, QuietKeeps
<1>3. QED
  BY <1>1, <1>2

LEMMA RebalanceInsertKeeps ==
  ASSUME CollectionInv, NEW p \in Procs, RebalanceInsert(p)
  PROVE  CollectionInv'
<1>1. PICK r \in Rebalances : r = Mine(p)
  BY InRebalance DEF RebalanceInsert, RebalanceLabels
<1>2. reb[r] \in RebalanceRow /\ pc[p] \in RebalanceLabels
  BY <1>1, InRebalance DEF RebalanceInsert, RebalanceLabels
<1>3. UNCHANGED <<ledger, tx, stl, chain, payin>>
  BY DEF RebalanceInsert, CollectionsUnchanged
<1>4. Written(p) \/ UNCHANGED Shared
  <2>1. CASE reb[r] # NoRebalance
    BY <1>1, <1>3, <2>1 DEF RebalanceInsert, Shared
  <2>2. CASE reb[r] = NoRebalance
    <3>1. PICK status \in {"approved", "requested"} : reb' = [reb EXCEPT ![r].status = status]
      BY <1>1, <2>2 DEF RebalanceInsert
    <3>2. PICK s : s = [reb[r] EXCEPT !.status = status]
      OBVIOUS
    <3>3. s \in RebalanceRow /\ s.status # "confirmed" /\ reb' = [reb EXCEPT ![r] = s]
      BY <1>2, <3>1, <3>2 DEF RebalanceRow
    <3>4. QED
      BY <1>3, <3>3, RebalanceWritten
  <2>3. QED
    BY <2>1, <2>2
<1>5. PICK label \in {"exec.approve", "rebalance.load"} : Finish(p) \/ (Goto(p, label) /\ loc' = loc)
  BY DEF RebalanceInsert, AfterRequest
<1>6. label \in Plain
  BY DEF Plain, RebalanceLabels
<1>7. QED
  BY <1>2, <1>4, <1>5, <1>6, PlainKeeps

LEMMA ApproveUpdateKeeps ==
  ASSUME CollectionInv, NEW p \in Procs, ApproveUpdate(p)
  PROVE  CollectionInv'
<1>1. PICK r \in Rebalances : r = Mine(p)
  BY InRebalance DEF ApproveUpdate, RebalanceLabels
<1>2. reb[r] \in RebalanceRow /\ pc[p] \in RebalanceLabels
  BY <1>1, InRebalance DEF ApproveUpdate, RebalanceLabels
<1>3. PICK s : s = [reb[r] EXCEPT !.status = "approved"]
  OBVIOUS
<1>4. s \in RebalanceRow /\ s.status # "confirmed" /\ reb' = [reb EXCEPT ![r] = s]
  BY <1>1, <1>2, <1>3 DEF RebalanceRow, ApproveUpdate
<1>5. Written(p)
  BY <1>4, RebalanceWritten DEF ApproveUpdate, CollectionsUnchanged
<1>6. Finish(p) \/ (Goto(p, "rebalance.load") /\ loc' = loc)
  BY DEF ApproveUpdate
<1>7. "rebalance.load" \in Plain
  BY DEF Plain, RebalanceLabels
<1>8. QED
  BY <1>2, <1>5, <1>6, <1>7, PlainKeeps

LEMMA RebalanceSubmitKeeps ==
  ASSUME CollectionInv, NEW p \in Procs, RebalanceSubmit(p)
  PROVE  CollectionInv'
<1>1. PICK r \in Rebalances : r = Mine(p) /\ r \in Collections \cup Rebalances
  BY InRebalance DEF RebalanceSubmit, RebalanceLabels
<1>2. /\ loc[p] \in Locals /\ loc[p].coll = r /\ IsChain(chain[r]) /\ LocalTyped
  BY <1>1, InRebalance DEF RebalanceSubmit, RebalanceLabels
<1>3. PICK o \in SubmitOutcomes :
        /\ chain' = [chain EXCEPT ![r] = submitUsdcPayment(@, RebalanceAmount[r], o.state, Used)]
        /\ Goto(p, IF o.reply = "error" THEN "rebalance.failed" ELSE "rebalance.verify")
        /\ loc' = [loc EXCEPT ![p].hash = Len(chain[r]) + 1]
  BY <1>1 DEF RebalanceSubmit
<1>4. PICK label \in {"rebalance.failed", "rebalance.verify"} : Goto(p, label)
  BY <1>3
<1>5. o.state \in {"sent", "landed", "failed"}
  BY DEF SubmitOutcomes
<1>6. PICK n \in Nat : n = Len(chain[r])
  BY <1>2 DEF IsChain
<1>7. PICK ch : ch = submitUsdcPayment(chain[r], RebalanceAmount[r], o.state, Used)
  OBVIOUS
<1>8. IsChain(ch) /\ Len(ch) = n + 1 /\ Landed(chain[r]) \subseteq Landed(ch)
  BY <1>2, <1>5, <1>6, <1>7, ChainAppend
<1>9. chain' = [chain EXCEPT ![r] = ch]
  BY <1>3, <1>7
<1>10. 1..Len(chain[r]) \subseteq 1..Len(ch) /\ n + 1 \in 1..Len(ch)
  BY <1>6, <1>8
<1>11. UNCHANGED <<ledger, tx, stl, payin, reb>>
  BY DEF RebalanceSubmit, CollectionsUnchanged
<1>12. Written(p) /\ chain'[r] = ch
  BY <1>1, <1>8, <1>9, <1>10, <1>11, ChainWritten
<1>13. PICK l : l = [loc[p] EXCEPT !.hash = n + 1]
  OBVIOUS
<1>14. l \in Locals /\ l.coll = r /\ l.hash = n + 1
  BY <1>2, <1>13 DEF Locals
<1>15. Goes(p, label, l)
  BY <1>3, <1>4, <1>6, <1>13 DEF Goto, Goes
<1>16. pc'[p] = label /\ loc'[p] = l /\ Mine(p)' = r
  BY <1>2, <1>14, <1>15, GoesThere
<1>17. Working(p)'
  BY <1>10, <1>12, <1>14, <1>16 DEF Working, CollectionLabels, RebalanceLabels, Sending, Confirming
<1>18. label \in Labels
  BY DEF Labels, RebalanceLabels
<1>19. QED
  BY <1>12, <1>14, <1>15, <1>17, <1>18, WriteKeeps

LEMMA RebalanceEndKeeps ==
  ASSUME CollectionInv, NEW p \in Procs, RebalanceEnd(p) \/ RebalanceFailed(p)
  PROVE  CollectionInv'
<1>1. PICK r \in Rebalances : r = Mine(p)
  BY InRebalance DEF RebalanceEnd, RebalanceFailed, RebalanceLabels
<1>2. Working(p) /\ loc[p] \in Locals /\ reb[r] \in RebalanceRow /\ Moved(r)
  BY <1>1, InRebalance DEF RebalanceEnd, RebalanceFailed, RebalanceLabels
<1>3. UNCHANGED <<ledger, tx, stl, chain, payin>> /\ Finish(p)
  BY DEF RebalanceEnd, RebalanceFailed, CollectionsUnchanged
<1>4. PICK s \in RebalanceRow :
        reb' = [reb EXCEPT ![r] = s] /\ (s.status = "confirmed" => s.ref \in Landed(chain[r]))
  <2>1. CASE RebalanceEnd(p)
    <3>1. PICK s : s = [status |-> IF pc[p] = "rebalance.confirmed" THEN "confirmed" ELSE "failed",
                        ref |-> loc[p].hash]
      OBVIOUS
    <3>2. s \in RebalanceRow
      BY <1>2, <3>1 DEF RebalanceRow, Locals
    <3>3. reb' = [reb EXCEPT ![r] = s]
      BY <1>1, <2>1, <3>1 DEF RebalanceEnd
    <3>4. s.status = "confirmed" => s.ref \in Landed(chain[r])
      BY <1>1, <1>2, <3>1 DEF Working
    <3>5. QED
      BY <3>2, <3>3, <3>4
  <2>2. CASE RebalanceFailed(p)
    <3>1. PICK s : s = [reb[r] EXCEPT !.status = IF @ = "confirmed" THEN @ ELSE "failed"]
      OBVIOUS
    <3>2. s \in RebalanceRow /\ (s.status = "confirmed" => s = reb[r])
      BY <1>2, <3>1 DEF RebalanceRow
    <3>3. reb' = [reb EXCEPT ![r] = s]
      BY <1>1, <2>2, <3>1 DEF RebalanceFailed
    <3>4. s.status = "confirmed" => s.ref \in Landed(chain[r])
      BY <1>2, <3>2 DEF Moved
    <3>5. QED
      BY <3>2, <3>3, <3>4
  <2>3. QED
    BY <2>1, <2>2
<1>5. Written(p)
  BY <1>3, <1>4, RebalanceWritten
<1>6. QED
  BY <1>3, <1>5, EndKeeps
-----------------------------------------------------------------------------
(* The invariant *)

LEMMA EmptyMovements ==
  ASSUME NEW L, L = EmptyLedger, NEW w \in Wallets
  PROVE  L.movements[w] = <<>> /\ L.rows[w].bal = ZeroBalance
<1>1. L.movements = [v \in Wallets |-> <<>>]
  BY DEF EmptyLedger
<1>2. L.rows = [v \in Wallets |->
        [status |-> IF v \in Opened THEN "active" ELSE "absent", bal |-> ZeroBalance]]
  BY DEF EmptyLedger
<1>3. QED
  BY <1>1, <1>2

LEMMA CollectionStart ==
  ASSUME TreasuryInit
  PROVE  CollectionInv
<1>1. /\ ledger = EmptyLedger
      /\ tx = [c \in Collections |-> NoTx] /\ stl = [c \in Collections |-> NoSettlement]
      /\ chain = [x \in Collections \cup Rebalances |-> <<>>]
      /\ payin = [c \in Collections |-> [p \in Procs |-> "none"]]
      /\ pc = [p \in Procs |-> "idle"] /\ loc = [p \in Procs |-> NoLocals]
      /\ reb = [r \in Rebalances |-> NoRebalance]
  BY Zenon DEF TreasuryInit, Init
<1>2. \A w \in Wallets : ledger.movements[w] = <<>>
  BY <1>1, EmptyMovements
<1>3. \A c, op : ~HasPosted(c, op)
  BY <1>2 DEF HasPosted, Posted
<1>4. SharedTyped
  <2>1. Well(ledger) /\ OnlyIn(ledger, Org)
    BY <1>1, <1>2, EmptyWell DEF OnlyIn
  <2>2. NoTx \in TxRow /\ NoSettlement \in SettlementRow /\ NoRebalance \in RebalanceRow
    BY DEF NoTx, TxRow, NoSettlement, SettlementRow, NoRebalance, RebalanceRow
  <2>3. IsChain(<<>>)
    BY DEF IsChain
  <2>4. QED
    BY <1>1, <2>1, <2>2, <2>3 DEF SharedTyped
<1>5. LocalTyped
  <2>1. NoLocals \in Locals /\ "idle" \in Labels
    BY DEF NoLocals, Locals, NoTx, NoSettlement, TxRow, SettlementRow, Labels
  <2>2. QED
    BY <1>1, <2>1 DEF LocalTyped
<1>6. \A c \in Collections : Sound(c)
  BY <1>1, <1>3 DEF Sound, NoTx
<1>7. \A r \in Rebalances : Moved(r)
  BY <1>1 DEF Moved, NoRebalance
<1>8. \A p \in Procs : Working(p)
  BY <1>1 DEF Working, CollectionLabels, RebalanceLabels, Sending, Confirming
<1>9. QED
  BY <1>4, <1>5, <1>6, <1>7, <1>8 DEF CollectionInv

LEMMA CollectionKeeps ==
  ASSUME CollectionInv, TreasuryNext
  PROVE  CollectionInv'
<1>1. ASSUME NEW p \in Procs, Step(p), UNCHANGED reb
      PROVE  CollectionInv'
  BY <1>1, OpenAccountKeeps, InsertCollectionKeeps, PatchKeeps, SettleLoadKeeps, SettleCreditKeeps,
     SettlePatchKeeps, FundFindKeeps, FundTreasuryKeeps, FundInsertKeeps, FundSubmitKeeps,
     FundFailedKeeps, FundSubmittedKeeps, FundVerifyKeeps, ConfirmReleaseKeeps DEF Step
<1>2. ASSUME NEW x \in DOMAIN chain, NEW i \in 1..Len(chain[x]), NetworkResolves(x, i), UNCHANGED reb
      PROVE  CollectionInv'
  <2>1. chain = [y \in Collections \cup Rebalances |-> chain[y]]
    BY DEF CollectionInv, SharedTyped
  <2>2. x \in Collections \cup Rebalances
    BY <2>1
  <2>3. QED
    BY <1>2, <2>2, NetworkResolvesKeeps
<1>3. CASE SteadyNext /\ UNCHANGED reb
  BY <1>1, <1>2, <1>3, CollectFindKeeps, PayInKeeps, WebhookKeeps, SimulateKeeps DEF SteadyNext
<1>4. CASE Next /\ UNCHANGED reb
  BY <1>3, <1>4, CrashKeeps DEF Next
<1>5. ASSUME NEW p \in Procs, RebalanceStep(p)
      PROVE  CollectionInv'
  BY <1>5, RebalanceReadsKeep, RebalanceVerifyKeeps, RebalanceInsertKeeps, ApproveUpdateKeeps,
     RebalanceSubmitKeeps, RebalanceEndKeeps DEF RebalanceStep
<1>6. QED
  BY <1>4, <1>5, RebalanceCallKeeps DEF TreasuryNext

LEMMA CollectionStutters ==
  ASSUME CollectionInv, UNCHANGED treasuryVars
  PROVE  CollectionInv'
<1>1. UNCHANGED Shared /\ pc' = pc /\ loc' = loc
  BY DEF treasuryVars, vars, Shared
<1>2. SharedTyped' /\ (\A c \in Collections : Sound(c)') /\ (\A r \in Rebalances : Moved(r)')
  BY <1>1, NothingWritten DEF CollectionInv
<1>3. Written(NoOne)
  BY <1>1, <1>2, NothingWritten DEF Written, Grows, Shared
<1>4. QED
  BY <1>1, <1>3, OutsideKeeps DEF Shared

LEMMA CollectionsInvariant == TreasurySpec => []CollectionInv
<1>1. TreasuryInit => CollectionInv
  BY CollectionStart
<1>2. CollectionInv /\ [TreasuryNext]_treasuryVars => CollectionInv'
  BY CollectionKeeps, CollectionStutters
<1>3. QED
  BY <1>1, <1>2, PTL DEF TreasurySpec

\* A LIVE collection is credited only if the pay-in account of its row was paid, however
\* often, late and at once its webhooks come (infraLifecycleService.ts).
THEOREM CreditsArePaidFor == TreasurySpec => []CreditNeedsPayment
<1>1. CollectionInv => CreditNeedsPayment
  <2>1. Live \subseteq Collections
    BY CollectionAssumption
  <2>2. QED
    BY <2>1 DEF CollectionInv, Sound, CreditNeedsPayment
<1>2. QED
  BY <1>1, CollectionsInvariant, PTL

\* A row says 'settled' only when the ledger has made its USDC available: no patch with a
\* status read before an await (settleCollectionCredit, the amount warning) says it early.
THEOREM SettledAreAvailable == TreasurySpec => []SettledIsAvailable
<1>1. CollectionInv => SettledIsAvailable
  BY DEF CollectionInv, Sound, SettledIsAvailable, Available
<1>2. QED
  BY <1>1, CollectionsInvariant, PTL

\* A rebalance that says 'confirmed' names a payment that landed, however the calls that
\* approve, send and give it up overlap (infraTreasuryService.ts).
THEOREM RebalancesLanded == TreasurySpec => []ConfirmedRebalanceLanded
<1>1. CollectionInv => ConfirmedRebalanceLanded
  BY DEF CollectionInv, Moved, ConfirmedRebalanceLanded
<1>2. QED
  BY <1>1, CollectionsInvariant, PTL

\* Collected USDC is released from pending only after a payment for the collection has
\* landed, whichever handler sent it (confirmCollectionFunding).
THEOREM ReleasesAreFunded ==
  TreasurySpec => [](\A c \in Collections : HasPosted(c, "releasePending") => Landed(chain[c]) # {})
<1>1. CollectionInv => \A c \in Collections : HasPosted(c, "releasePending") => Landed(chain[c]) # {}
  BY DEF CollectionInv, Sound
<1>2. QED
  BY <1>1, CollectionsInvariant, PTL

-----------------------------------------------------------------------------
(* The pending bucket.  The release takes what the settlement row says, which is what was *)
(* credited if the FX service quotes a collection once.                                   *)

PendingFits ==
  ledger.rows[Org].bal.pending =
    SumFunction([c \in PendingCollections |-> PostedAmount(c, "creditPending")])

LEMMA PendingFinite ==
  ASSUME CollectionInv
  PROVE  /\ IsFiniteSet(PendingCollections)
         /\ \A c \in PendingCollections : PostedAmount(c, "creditPending") \in Nat
<1>1. ledger \in Ledger /\ OnlyIn(ledger, Org) /\ Org \in Wallets
  BY CollectionAssumption DEF CollectionInv, SharedTyped, Well
<1>2. IsFiniteSet({c \in Collections : Posted(ledger, <<c, "creditPending">>)})
  BY <1>1, PostedFinite
<1>3. PendingCollections \subseteq {c \in Collections : Posted(ledger, <<c, "creditPending">>)}
  BY DEF PendingCollections, HasPosted
<1>4. IsFiniteSet(PendingCollections)
  BY <1>2, <1>3, FS_Subset
<1>5. ASSUME NEW c \in PendingCollections
      PROVE  PostedAmount(c, "creditPending") \in Nat
  <2>1. c \in Collections /\ HasPosted(c, "creditPending")
    BY DEF PendingCollections
  <2>2. QED
    BY <2>1, CollectionAssumption, AmountsAssumption DEF CollectionInv, Sound
<1>6. QED
  BY <1>4, <1>5

\* A credit that waits for its funding adds to the bucket ...
LEMMA PendingAdds ==
  ASSUME CollectionInv, PendingFits, NEW c \in Collections, NEW a \in Amounts,
         Admissible(ensureWalletAccount(ledger, Org), CollectionLeg(c, "creditPending", a)),
         ledger' = Post(ensureWalletAccount(ledger, Org), CollectionLeg(c, "creditPending", a))
  PROVE  PendingFits'
<1>1. /\ ~HasPosted(c, "creditPending") /\ HasPosted(c, "creditPending")'
      /\ PostedAmount(c, "creditPending")' = a
      /\ \A d, o : <<d, o>> # <<c, "creditPending">> => (HasPosted(d, o)' <=> HasPosted(d, o))
      /\ \A d, o : HasPosted(d, o) => PostedAmount(d, o)' = PostedAmount(d, o)
      /\ ledger'.rows[Org].bal = After("creditPending", ledger.rows[Org].bal, a)
  BY LegPosts DEF CollectionInv, SharedTyped, CollectionOps
<1>2. PICK S : S = PendingCollections
  OBVIOUS
<1>3. PICK f : f = [d \in S |-> PostedAmount(d, "creditPending")]
  OBVIOUS
<1>4. PICK T : T = PendingCollections'
  OBVIOUS
<1>5. PICK g : g = [d \in T |-> PostedAmount(d, "creditPending")']
  OBVIOUS
<1>6. ~HasPosted(c, "releasePending")
  BY <1>1 DEF CollectionInv, Sound
<1>7. c \notin S /\ T = S \cup {c}
  BY <1>1, <1>2, <1>4, <1>6 DEF PendingCollections
<1>8. IsFiniteSet(S) /\ \A d \in S : f[d] \in Nat
  BY <1>2, <1>3, PendingFinite
<1>9. a \in Nat /\ g[c] = a
  BY <1>1, <1>5, <1>7, AmountsAssumption
<1>10. \A d \in S : g[d] = f[d]
  BY <1>1, <1>2, <1>3, <1>5, <1>7 DEF PendingCollections
<1>11. SumFunctionOnSet(g, S \cup {c}) = SumFunctionOnSet(f, S) + a
  BY <1>7, <1>8, <1>9, <1>10, SumAdd
<1>12. ledger.rows[Org].bal.pending = SumFunctionOnSet(f, S)
  BY <1>2, <1>3 DEF PendingFits, SumFunction
<1>13. ledger'.rows[Org].bal.pending = ledger.rows[Org].bal.pending + a
  <2>1. ledger.rows[Org].bal \in Balance
    BY CollectionAssumption DEF CollectionInv, SharedTyped, Well, Ledger, Row
  <2>2. QED
    BY <1>1, <2>1 DEF After, creditOrgWalletPending, Balance
<1>14. QED
  BY <1>4, <1>5, <1>7, <1>11, <1>12, <1>13 DEF PendingFits, SumFunction

\* ... and its release takes what was added.
LEMMA PendingTaken ==
  ASSUME CollectionInv, PendingFits, NEW c \in Collections, NEW a \in Amounts,
         HasPosted(c, "creditPending"), a = PostedAmount(c, "creditPending"),
         Admissible(ensureWalletAccount(ledger, Org), CollectionLeg(c, "releasePending", a)),
         ledger' = Post(ensureWalletAccount(ledger, Org), CollectionLeg(c, "releasePending", a))
  PROVE  PendingFits'
<1>1. /\ ~HasPosted(c, "releasePending") /\ HasPosted(c, "releasePending")'
      /\ \A d, o : <<d, o>> # <<c, "releasePending">> => (HasPosted(d, o)' <=> HasPosted(d, o))
      /\ \A d, o : HasPosted(d, o) => PostedAmount(d, o)' = PostedAmount(d, o)
      /\ ledger'.rows[Org].bal = After("releasePending", ledger.rows[Org].bal, a)
  BY LegPosts DEF CollectionInv, SharedTyped, CollectionOps
<1>2. PICK S : S = PendingCollections
  OBVIOUS
<1>3. PICK f : f = [d \in S |-> PostedAmount(d, "creditPending")]
  OBVIOUS
<1>4. PICK T : T = PendingCollections'
  OBVIOUS
<1>5. PICK g : g = [d \in T |-> PostedAmount(d, "creditPending")']
  OBVIOUS
<1>6. c \notin T /\ S = T \cup {c}
  BY <1>1, <1>2, <1>4 DEF PendingCollections
<1>7. IsFiniteSet(S) /\ \A d \in S : f[d] \in Nat
  BY <1>2, <1>3, PendingFinite
<1>8. IsFiniteSet(T) /\ T \subseteq S
  BY <1>6, <1>7, FS_Subset
<1>9. \A d \in T : g[d] = f[d] /\ g[d] \in Nat
  BY <1>1, <1>2, <1>3, <1>5, <1>6, <1>7 DEF PendingCollections
<1>10. f[c] = a /\ a \in Nat
  BY <1>3, <1>6, AmountsAssumption
<1>11. SumFunctionOnSet(f, T \cup {c}) = SumFunctionOnSet(g, T) + a
  BY <1>6, <1>8, <1>9, <1>10, SumAdd
<1>12. ledger.rows[Org].bal.pending = SumFunctionOnSet(f, S)
  BY <1>2, <1>3 DEF PendingFits, SumFunction
<1>13. ledger'.rows[Org].bal.pending = ledger.rows[Org].bal.pending - a
  BY <1>1 DEF After, releasePendingToAvailable
<1>14. SumFunctionOnSet(g, T) \in Nat
  BY <1>8, <1>9, SumType
<1>15. ledger'.rows[Org].bal.pending = SumFunctionOnSet(g, T)
  BY <1>6, <1>10, <1>11, <1>12, <1>13, <1>14
<1>16. QED
  BY <1>4, <1>5, <1>15 DEF PendingFits, SumFunction

\* A credit without funding leaves it alone.
LEMMA PendingStays ==
  ASSUME CollectionInv, PendingFits, NEW c \in Collections, NEW a \in Amounts,
         Admissible(ensureWalletAccount(ledger, Org), CollectionLeg(c, "credit", a)),
         ledger' = Post(ensureWalletAccount(ledger, Org), CollectionLeg(c, "credit", a))
  PROVE  PendingFits'
<1>1. /\ \A d, o : <<d, o>> # <<c, "credit">> => (HasPosted(d, o)' <=> HasPosted(d, o))
      /\ \A d, o : HasPosted(d, o) => PostedAmount(d, o)' = PostedAmount(d, o)
      /\ ledger'.rows[Org].bal = After("credit", ledger.rows[Org].bal, a)
  BY LegPosts DEF CollectionInv, SharedTyped, CollectionOps
<1>2. PICK S : S = PendingCollections
  OBVIOUS
<1>3. PendingCollections' = S
  BY <1>1, <1>2 DEF PendingCollections
<1>4. PICK f : f = [d \in S |-> PostedAmount(d, "creditPending")]
  OBVIOUS
<1>5. \A d \in S : PostedAmount(d, "creditPending")' = PostedAmount(d, "creditPending")
  BY <1>1, <1>2 DEF PendingCollections
<1>6. [d \in S |-> PostedAmount(d, "creditPending")'] = f
  BY <1>4, <1>5
<1>7. ledger.rows[Org].bal \in Balance
  BY CollectionAssumption DEF CollectionInv, SharedTyped, Well, Ledger, Row
<1>8. ledger'.rows[Org].bal.pending = ledger.rows[Org].bal.pending
  BY <1>1, <1>7 DEF After, creditOrgWallet, Balance
<1>9. QED
  BY <1>2, <1>3, <1>4, <1>6, <1>8 DEF PendingFits

LEMMA PendingSame ==
  ASSUME PendingFits, ledger' = ledger
  PROVE  PendingFits'
<1>1. PICK S : S = PendingCollections
  OBVIOUS
<1>2. PendingCollections' = S
  BY <1>1 DEF PendingCollections, HasPosted
<1>3. PICK f : f = [c \in S |-> PostedAmount(c, "creditPending")]
  OBVIOUS
<1>4. [c \in S |-> PostedAmount(c, "creditPending")'] = f
  BY <1>3 DEF PostedAmount
<1>5. QED
  BY <1>1, <1>2, <1>3, <1>4 DEF PendingFits

LEMMA PendingKeeps ==
  ASSUME CollectionInv, PendingFits, SteadyQuotes, TreasuryNext
  PROVE  PendingFits'
<1>1. ASSUME NEW p \in Procs, SettleCredit(p) PROVE PendingFits'
  <2>1. PICK c \in Collections : c = Mine(p)
    BY <1>1, InCollection DEF SettleCredit, CollectionLabels
  <2>2. loc[p].amt \in Amounts
    BY <1>1, <2>1, InCollection, CollectionAssumption DEF SettleCredit, CollectionLabels, Working
  <2>3. PICK op \in {"credit", "creditPending"} : LedgerCall(p, op, loc[p].amt, "settle.patch")
    BY <1>1 DEF SettleCredit
  <2>4. CASE ledger' = ledger
    BY <2>4, PendingSame
  <2>5. CASE /\ Admissible(ensureWalletAccount(ledger, Org), CollectionLeg(c, op, loc[p].amt))
             /\ ledger' = Post(ensureWalletAccount(ledger, Org), CollectionLeg(c, op, loc[p].amt))
    BY <2>2, <2>5, PendingAdds, PendingStays
  <2>6. QED
    BY <2>1, <2>3, <2>4, <2>5 DEF LedgerCall
<1>2. ASSUME NEW p \in Procs, ConfirmRelease(p) PROVE PendingFits'
  <2>1. PICK c \in Collections : c = Mine(p)
    BY <1>2, InCollection DEF ConfirmRelease, CollectionLabels
  <2>2. stl[c] # NoSettlement /\ HasPosted(c, "creditPending") /\ Sound(c)
    BY <1>2, <2>1, InCollection DEF ConfirmRelease, CollectionLabels, Working, Confirming
  <2>3. stl[c].amount \in Amounts /\ stl[c].amount = PostedAmount(c, "creditPending")
    BY <2>2, CollectionAssumption DEF Sound, SteadyQuotes
  <2>4. LedgerCall(p, "releasePending", stl[c].amount, "confirm.patch")
    BY <1>2, <2>1 DEF ConfirmRelease
  <2>5. CASE ledger' = ledger
    BY <2>5, PendingSame
  <2>6. CASE /\ Admissible(ensureWalletAccount(ledger, Org), CollectionLeg(c, "releasePending", stl[c].amount))
             /\ ledger' = Post(ensureWalletAccount(ledger, Org), CollectionLeg(c, "releasePending", stl[c].amount))
    BY <2>2, <2>3, <2>6, PendingTaken
  <2>7. QED
    BY <2>1, <2>4, <2>5, <2>6 DEF LedgerCall
<1>3. ASSUME NEW p \in Procs, Step(p) PROVE PendingFits'
  <2>1. CASE SettleCredit(p) \/ ConfirmRelease(p)
    BY <1>1, <1>2, <2>1
  <2>2. CASE ~SettleCredit(p) /\ ~ConfirmRelease(p)
    <3>1. ledger' = ledger
      BY <1>3, <2>2 DEF Step, OpenAccount, InsertCollection, FailPatch, WarnPatch, SettleLoad,
         SettlePatch, FundFind, FundTreasury, FundInsert, FundSubmit, FundFailed, FundSubmitted,
         FundVerify, ConfirmSettlement, ConfirmPatch
    <3>2. QED
      BY <3>1, PendingSame
  <2>3. QED
    BY <2>1, <2>2
<1>4. CASE Next
  <2>1. CASE \E p \in Procs : Step(p)
    BY <1>3, <2>1
  <2>2. CASE ~\E p \in Procs : Step(p)
    <3>1. ASSUME NEW p \in Procs, NEW c \in Collections, Webhook(p, c)
          PROVE  ledger' = ledger
      BY <3>1 DEF Webhook, YellowCardSuccess, YellowCardFailure, FlutterwaveSuccess, FlutterwaveMismatch
    <3>2. ASSUME NEW p \in Procs, NEW c \in Collections, CollectFind(p, c) \/ simulateSettlement(p, c)
          PROVE  ledger' = ledger
      BY <3>2 DEF CollectFind, simulateSettlement
    <3>3. ASSUME NEW c, NEW i, NetworkResolves(c, i) \/ (\E o : PayIn(c, i, o)) \/ Crash(c)
          PROVE  ledger' = ledger
      BY <3>3 DEF NetworkResolves, PayIn, Crash
    <3>4. ledger' = ledger
      BY <1>4, <2>2, <3>1, <3>2, <3>3 DEF Next, SteadyNext
    <3>5. QED
      BY <3>4, PendingSame
  <2>3. QED
    BY <2>1, <2>2
<1>5. ASSUME NEW p \in Procs, NEW r \in Rebalances, RebalanceCall(p, r) PROVE PendingFits'
  BY <1>5, PendingSame DEF RebalanceCall, requestTreasuryRebalance, executeTreasuryRebalance,
     approveTreasuryRebalance, submitTreasuryRebalance, CollectionsUnchanged
<1>6. ASSUME NEW p \in Procs, RebalanceStep(p) PROVE PendingFits'
  BY <1>6, PendingSame DEF RebalanceStep, RebalancePosition, RebalanceInsert, ExecApprove, ApproveUpdate,
     RebalanceLoad, RebalanceObserve, RebalanceSubmit, RebalanceVerify, RebalanceEnd, RebalanceFailed,
     CollectionsUnchanged
<1>7. QED
  BY <1>4, <1>5, <1>6 DEF TreasuryNext

LEMMA PendingStart ==
  ASSUME TreasuryInit
  PROVE  PendingFits
<1>1. ledger = EmptyLedger
  BY Zenon DEF TreasuryInit, Init
<1>2. \A w \in Wallets : ledger.movements[w] = <<>> /\ ledger.rows[w].bal = ZeroBalance
  BY <1>1, EmptyMovements
<1>3. PendingCollections = {}
  BY <1>2 DEF PendingCollections, HasPosted, Posted
<1>4. ledger.rows[Org].bal.pending = 0
  BY <1>2, CollectionAssumption DEF ZeroBalance
<1>5. PICK f : f = [c \in PendingCollections |-> PostedAmount(c, "creditPending")]
  OBVIOUS
<1>6. SumFunctionOnSet(f, {}) = 0
  BY SumEmpty
<1>7. QED
  BY <1>3, <1>4, <1>5, <1>6 DEF PendingFits, SumFunction

\* Collected USDC becomes available only after a payment for the collection has landed, and
\* the pending bucket is what collections were credited and not yet released
\* (settleCollectionCredit, confirmCollectionFunding).  Without the hypothesis a second
\* webhook may insert the settlement row with another quote than the credit.
THEOREM CollectedIsFunded == SteadyQuotes => (TreasurySpec => []AvailableNeedsFunding)
<1>. SUFFICES ASSUME SteadyQuotes PROVE TreasurySpec => []AvailableNeedsFunding
  OBVIOUS
<1>1. TreasuryInit => PendingFits
  BY PendingStart
<1>2. CollectionInv /\ PendingFits /\ [TreasuryNext]_treasuryVars => PendingFits'
  BY PendingKeeps, PendingSame DEF treasuryVars, vars
<1>3. CollectionInv /\ PendingFits => AvailableNeedsFunding
  BY DEF CollectionInv, Sound, PendingFits, AvailableNeedsFunding
<1>4. QED
  BY <1>1, <1>2, <1>3, CollectionsInvariant, PTL DEF TreasurySpec
-----------------------------------------------------------------------------
(* What arrives on chain.  A collection may be funded twice, or for another amount than   *)
(* its credit: if two handlers settle it at once; if one stops between the credit and the *)
(* patch, or between the submission and its UPDATE; if a submission that threw got        *)
(* through; or if a row that says 'submitted' is funded again while its payment is on its *)
(* way.  If none of this happens, it is funded as it was credited.                       *)

Settling ==
  {"settle.load", "settle.credit", "settle.patch", "fund.find", "fund.treasury", "fund.insert",
   "fund.submit", "fund.failed", "fund.submitted", "fund.confirmed", "fund.verify",
   "confirm", "confirm.release", "confirm.patch"}

BeforeSending == {"fund.treasury", "fund.insert", "fund.submit"}
Sent == {"fund.submitted", "fund.confirmed"}

\* One handler at a time settles a collection.
SettledApart ==
  \A p, q \in Procs : pc[p] \in Settling /\ pc[q] \in Settling /\ Mine(p) = Mine(q) => p = q

\* A row found 'submitted' is funded again only when no payment for it can land any more.
RetriedWhenFailed ==
  \A p \in Procs : pc[p] \in BeforeSending /\ loc[p].st.status = "submitted" =>
    \A i \in 1..Len(chain[Mine(p)]) : chain[Mine(p)][i].state = "failed"

\* No handler stops with a write of what it has done still to come.
NotCutShort ==
  \A p \in Procs : Crash(p) =>
    pc[p] \notin Sent /\ (pc[p] = "settle.patch" => Mine(p) \in FundingOff)

\* A submission that throws has sent nothing.
NothingLost == "lost" \notin SubmitResults

-----------------------------------------------------------------------------
IsCredited(c) == HasPosted(c, "creditPending")
Credited(c) == PostedAmount(c, "creditPending")

\* The payments that have landed or still may.
Open(c) == {i \in 1..Len(chain[c]) : chain[c][i].state # "failed"}

HandledAt(c, labels) == \E p \in Procs : pc[p] \in labels /\ Mine(p) = c

\* The row keeps the amount that was credited, payments are of it, and there is one at
\* most that may land, of which the settlement row tells.
Funded(c) ==
  /\ IsCredited(c) => tx[c].usdc = Credited(c) \/ HandledAt(c, {"settle.patch"})
  /\ \A i \in 1..Len(chain[c]) : IsCredited(c) /\ chain[c][i].amount = Credited(c)
  /\ \A i, j \in Open(c) : i = j
  /\ Open(c) # {} =>
       \/ stl[c].status \in {"submitted", "confirmed"} /\ stl[c].ref # 0
       \/ HandledAt(c, Sent)

\* A handler of a collection that is credited works with that amount, and on its way to
\* send a payment there is none that may land.
Funds(p) ==
  /\ pc[p] \in {"settle.credit", "settle.patch", "fund.find"} \cup BeforeSending /\ IsCredited(Mine(p)) =>
       loc[p].amt = Credited(Mine(p))
  /\ pc[p] \in BeforeSending \cup {"fund.failed"} => Open(Mine(p)) = {}

FundingInv == (\A c \in Collections : Funded(c)) /\ (\A p \in Procs : Funds(p))

\* What another handler may see change of a collection: payments fail.
Kept(c) ==
  /\ stl'[c] = stl[c] /\ tx'[c].usdc = tx[c].usdc
  /\ IsCredited(c)' <=> IsCredited(c)
  /\ IsCredited(c) => Credited(c)' = Credited(c)
  /\ 1..Len(chain'[c]) = 1..Len(chain[c])
  /\ \A i \in 1..Len(chain[c]) : chain'[c][i].amount = chain[c][i].amount
  /\ Open(c)' \subseteq Open(c)

LEMMA SameKept ==
  ASSUME NEW c, ledger' = ledger, stl'[c] = stl[c], chain'[c] = chain[c], tx'[c].usdc = tx[c].usdc
  PROVE  Kept(c)
BY DEF Kept, IsCredited, Credited, HasPosted, PostedAmount, Open

LEMMA FundedKept ==
  ASSUME NEW c \in Collections, NEW p, Funded(c), Kept(c),
         \A q \in Procs \ {p} : pc'[q] = pc[q] /\ loc'[q] = loc[q],
         Mine(p) = c /\ IsCredited(c) => pc[p] \notin Sent \cup {"settle.patch"}
  PROVE  Funded(c)'
<1>1. \A q \in Procs \ {p} : Mine(q)' = Mine(q)
  BY DEF Mine
<1>2. ASSUME NEW labels, labels \subseteq Sent \cup {"settle.patch"}, IsCredited(c), HandledAt(c, labels)
      PROVE  HandledAt(c, labels)'
  <2>1. PICK q \in Procs : pc[q] \in labels /\ Mine(q) = c
    BY <1>2 DEF HandledAt
  <2>2. q # p
    BY <1>2, <2>1
  <2>3. pc'[q] \in labels /\ Mine(q)' = c
    BY <1>1, <2>1, <2>2
  <2>4. QED
    BY <2>3 DEF HandledAt
<1>3. IsCredited(c)' => tx'[c].usdc = Credited(c)' \/ HandledAt(c, {"settle.patch"})'
  BY <1>2 DEF Funded, Kept
<1>4. \A i \in 1..Len(chain'[c]) : IsCredited(c)' /\ chain'[c][i].amount = Credited(c)'
  BY DEF Funded, Kept
<1>5. \A i, j \in Open(c)' : i = j
  BY DEF Funded, Kept
<1>6. Open(c)' # {} =>
        \/ stl'[c].status \in {"submitted", "confirmed"} /\ stl'[c].ref # 0
        \/ HandledAt(c, Sent)'
  <2>1. Open(c)' # {} => Open(c) # {} /\ IsCredited(c)
    BY DEF Kept, Open, Funded
  <2>2. QED
    BY <1>2, <2>1 DEF Funded, Kept
<1>7. QED
  BY <1>3, <1>4, <1>5, <1>6 DEF Funded

LEMMA FundsKept ==
  ASSUME NEW q \in Procs, Funds(q), Working(q), pc'[q] = pc[q], loc'[q] = loc[q],
         Mine(q) \in Collections /\ pc[q] \in Settling => Kept(Mine(q))
  PROVE  Funds(q)'
<1>1. PICK c : c = Mine(q)
  OBVIOUS
<1>2. Mine(q)' = c
  BY <1>1 DEF Mine
<1>3. CASE pc[q] \in Settling
  <2>1. c \in Collections
    BY <1>1, <1>3 DEF Working, Settling, CollectionLabels
  <2>2. Kept(c)
    BY <1>1, <1>3, <2>1
  <2>3. QED
    BY <1>1, <1>2, <2>2 DEF Funds, Kept
<1>4. CASE pc[q] \notin Settling
  BY <1>4 DEF Funds, Settling, BeforeSending
<1>5. QED
  BY <1>3, <1>4

\* A step of a handler that settles c concerns nobody else.
LEMMA SettlesAlone ==
  ASSUME CollectionInv, FundingInv, SettledApart, NEW p \in Procs, NEW c \in Collections,
         c = Mine(p), pc[p] \in Settling, NEW label, NEW l, Goes(p, label, l),
         \A d \in Collections \ {c} : Kept(d), Funded(c)', Funds(p)'
  PROVE  FundingInv'
<1>1. \A q \in Procs \ {p} : pc'[q] = pc[q] /\ loc'[q] = loc[q]
  BY DEF CollectionInv, LocalTyped, Goes
<1>2. ASSUME NEW d \in Collections, d # c
      PROVE  Funded(d)'
  BY <1>1, <1>2, FundedKept DEF FundingInv
<1>3. ASSUME NEW q \in Procs, q # p
      PROVE  Funds(q)'
  <2>1. pc[q] \in Settling => Mine(q) # c
    BY <1>3 DEF SettledApart
  <2>2. QED
    BY <1>1, <1>3, <2>1, FundsKept DEF FundingInv, CollectionInv
<1>4. QED
  BY <1>2, <1>3 DEF FundingInv

\* A step that neither writes amounts nor sends, and leads away from the funding.
LEMMA FundingStays ==
  ASSUME CollectionInv, FundingInv, NEW p, \A d \in Collections : Kept(d),
         \A q \in Procs \ {p} : pc'[q] = pc[q] /\ loc'[q] = loc[q],
         p \in Procs => pc'[p] \notin {"settle.credit", "settle.patch", "fund.find", "fund.failed"} \cup BeforeSending,
         Mine(p) \in Collections /\ IsCredited(Mine(p)) => pc[p] \notin Sent \cup {"settle.patch"}
  PROVE  FundingInv'
<1>1. ASSUME NEW d \in Collections
      PROVE  Funded(d)'
  BY FundedKept DEF FundingInv
<1>2. ASSUME NEW q \in Procs
      PROVE  Funds(q)'
  <2>1. CASE q = p
    BY <2>1 DEF Funds
  <2>2. CASE q # p
    BY <2>2, FundsKept DEF FundingInv, CollectionInv
  <2>3. QED
    BY <2>1, <2>2
<1>3. QED
  BY <1>1, <1>2 DEF FundingInv
-----------------------------------------------------------------------------
(* settleCollectionCredit *)

LEMMA SettleLoadFunds ==
  ASSUME CollectionInv, FundingInv, SettledApart, NEW p \in Procs, SettleLoad(p)
  PROVE  FundingInv'
<1>1. PICK c \in Collections : c = Mine(p)
  BY InCollection DEF SettleLoad, CollectionLabels
<1>2. loc[p] \in Locals /\ loc[p].coll = c /\ Sound(c) /\ pc[p] = "settle.load"
  BY <1>1, InCollection DEF SettleLoad, CollectionLabels
<1>3. PICK a : /\ a \in IF tx[c].usdc # 0 THEN {tx[c].usdc} ELSE Quotes[c]
               /\ loc' = [loc EXCEPT ![p].row = tx[c], ![p].amt = a]
  BY <1>1 DEF SettleLoad
<1>4. PICK l : l = [loc[p] EXCEPT !.row = tx[c], !.amt = a]
  OBVIOUS
<1>5. l.coll = c /\ l.amt = a
  BY <1>2, <1>4 DEF Locals
<1>6. Goes(p, "settle.credit", l)
  BY <1>3, <1>4 DEF SettleLoad, Goto, Goes, CollectionInv, LocalTyped
<1>7. pc'[p] = "settle.credit" /\ loc'[p] = l /\ Mine(p)' = c
  BY <1>5, <1>6, GoesThere DEF CollectionInv
<1>8. \A d \in Collections : Kept(d)
  BY SameKept DEF SettleLoad
<1>9. IsCredited(c) => a = Credited(c)
  <2>1. SUFFICES ASSUME IsCredited(c) PROVE a = Credited(c)
    OBVIOUS
  <2>2. ~HandledAt(c, {"settle.patch"})
    BY <1>1, <1>2 DEF HandledAt, SettledApart, Settling
  <2>3. tx[c].usdc = Credited(c)
    BY <2>1, <2>2 DEF FundingInv, Funded
  <2>4. Credited(c) # 0
    BY <1>2, <2>1, CollectionAssumption, AmountsAssumption DEF Sound, IsCredited, Credited
  <2>5. QED
    BY <1>3, <2>3, <2>4
<1>10. IsCredited(c)' => a = Credited(c)'
  BY <1>8, <1>9 DEF Kept
<1>11. Funds(p)'
  BY <1>5, <1>7, <1>10 DEF Funds, BeforeSending
<1>12. Funded(c)'
  <2>1. \A q \in Procs \ {p} : pc'[q] = pc[q] /\ loc'[q] = loc[q]
    BY <1>6 DEF CollectionInv, LocalTyped, Goes
  <2>2. QED
    BY <1>2, <1>8, <2>1, FundedKept DEF FundingInv, Sent
<1>13. QED
  BY <1>1, <1>2, <1>6, <1>8, <1>11, <1>12, SettlesAlone DEF Settling

\* A credit, of the amount that the handler holds, of a collection with none.
LEMMA CreditFunds ==
  ASSUME CollectionInv, FundingInv, SettledApart, NEW p \in Procs, NEW c \in Collections, c = Mine(p),
         pc[p] = "settle.credit", NEW op \in {"credit", "creditPending"},
         NEW a, a = loc[p].amt, a \in Amounts,
         Admissible(ensureWalletAccount(ledger, Org), CollectionLeg(c, op, a)),
         ledger' = Post(ensureWalletAccount(ledger, Org), CollectionLeg(c, op, a)),
         op = "credit" => c \in FundingOff,
         Goto(p, "settle.patch"), UNCHANGED <<loc, tx, stl, chain>>
  PROVE  FundingInv'
<1>1. /\ ~HasPosted(c, op) /\ HasPosted(c, op)' /\ PostedAmount(c, op)' = a
      /\ \A d, o : <<d, o>> # <<c, op>> => (HasPosted(d, o)' <=> HasPosted(d, o))
      /\ \A d, o : HasPosted(d, o) => PostedAmount(d, o)' = PostedAmount(d, o)
  BY LegPosts DEF CollectionInv, SharedTyped, CollectionOps
<1>2. Goes(p, "settle.patch", loc[p])
  BY GotoGoes DEF CollectionInv
<1>3. pc'[p] = "settle.patch" /\ loc'[p] = loc[p] /\ Mine(p)' = c
  BY <1>2, GoesThere DEF CollectionInv, Mine
<1>4. \A d : Open(d)' = Open(d)
  BY DEF Open
<1>5. \A d \in Collections \ {c} : Kept(d)
  BY <1>1, <1>4 DEF Kept, IsCredited, Credited
<1>6. IsCredited(c)' => Credited(c)' = a
  <2>1. CASE op = "creditPending"
    BY <1>1, <2>1 DEF Credited
  <2>2. CASE op = "credit"
    <3>1. ~IsCredited(c)
      BY <2>2 DEF CollectionInv, Sound, IsCredited
    <3>2. QED
      BY <1>1, <2>2, <3>1 DEF IsCredited
  <2>3. QED
    BY <2>1, <2>2
<1>7. Funds(p)'
  BY <1>3, <1>6 DEF Funds, BeforeSending
<1>8. ~IsCredited(c)
  <2>1. CASE op = "creditPending"
    BY <1>1, <2>1 DEF IsCredited
  <2>2. CASE op = "credit"
    BY <2>2 DEF CollectionInv, Sound, IsCredited
  <2>3. QED
    BY <2>1, <2>2
<1>9. 1..Len(chain[c]) = {}
  BY <1>8 DEF FundingInv, Funded
<1>10. HandledAt(c, {"settle.patch"})'
  BY <1>3 DEF HandledAt
<1>11. 1..Len(chain'[c]) = {} /\ Open(c)' = {}
  BY <1>9 DEF Open
<1>12. Funded(c)'
  BY <1>10, <1>11 DEF Funded
<1>13. QED
  BY <1>2, <1>5, <1>7, <1>12, SettlesAlone DEF Settling

\* A handler that goes on where it minds the credit, with nothing written.
LEMMA MovesOn ==
  ASSUME CollectionInv, FundingInv, SettledApart, NEW p \in Procs, NEW c \in Collections, c = Mine(p),
         pc[p] \in Settling \ (Sent \cup {"settle.patch"}), NEW label, NEW l, Goes(p, label, l),
         \A d \in Collections : Kept(d), Funds(p)'
  PROVE  FundingInv'
<1>1. \A q \in Procs \ {p} : pc'[q] = pc[q] /\ loc'[q] = loc[q]
  BY DEF CollectionInv, LocalTyped, Goes
<1>2. Funded(c)'
  BY <1>1, FundedKept DEF FundingInv
<1>3. QED
  BY <1>2, SettlesAlone

\* A handler that ends, with nothing written.
LEMMA EndsFunded ==
  ASSUME CollectionInv, FundingInv, NEW p \in Procs, Finish(p), \A d \in Collections : Kept(d),
         Mine(p) \in Collections /\ IsCredited(Mine(p)) => pc[p] \notin Sent \cup {"settle.patch"}
  PROVE  FundingInv'
<1>1. Goes(p, "idle", NoLocals)
  BY FinishGoes DEF CollectionInv
<1>2. /\ pc'[p] = "idle"
      /\ \A q \in Procs \ {p} : pc'[q] = pc[q] /\ loc'[q] = loc[q]
  BY <1>1 DEF CollectionInv, LocalTyped, Goes
<1>3. QED
  BY <1>2, FundingStays DEF BeforeSending

LEMMA SettleCreditFunds ==
  ASSUME CollectionInv, FundingInv, SettledApart, NEW p \in Procs, SettleCredit(p)
  PROVE  FundingInv'
<1>1. PICK c \in Collections : c = Mine(p)
  BY InCollection DEF SettleCredit, CollectionLabels
<1>2. PICK a : a = loc[p].amt
  OBVIOUS
<1>3. a \in Amounts /\ pc[p] = "settle.credit"
  BY <1>1, <1>2, InCollection, CollectionAssumption DEF SettleCredit, CollectionLabels, Working
<1>4. PICK op \in {"credit", "creditPending"} :
        /\ op = "credit" => c \in FundingOff
        /\ LedgerCall(p, op, a, "settle.patch") /\ UNCHANGED <<tx, stl, chain>>
  BY <1>1, <1>2 DEF SettleCredit
<1>5. CASE HasPosted(c, op) /\ Goto(p, "settle.patch") /\ UNCHANGED <<ledger, loc>>
  <2>1. \A d \in Collections : Kept(d)
    BY <1>4, <1>5, SameKept
  <2>2. Goes(p, "settle.patch", loc[p])
    BY <1>5, GotoGoes DEF CollectionInv
  <2>3. pc'[p] = "settle.patch" /\ loc'[p] = loc[p] /\ Mine(p)' = c
    BY <1>1, <2>2, GoesThere DEF CollectionInv, Mine
  <2>4. IsCredited(c) => a = Credited(c)
    BY <1>1, <1>2, <1>3 DEF FundingInv, Funds
  <2>5. IsCredited(c)' => a = Credited(c)'
    BY <2>1, <2>4 DEF Kept
  <2>6. Funds(p)'
    BY <1>2, <2>3, <2>5 DEF Funds, BeforeSending
  <2>7. QED
    BY <1>1, <1>3, <2>1, <2>2, <2>6, MovesOn DEF Settling, Sent
<1>6. CASE /\ Admissible(ensureWalletAccount(ledger, Org), CollectionLeg(c, op, a))
           /\ ledger' = Post(ensureWalletAccount(ledger, Org), CollectionLeg(c, op, a))
           /\ Goto(p, "settle.patch") /\ UNCHANGED loc
  BY <1>1, <1>2, <1>3, <1>4, <1>6, CreditFunds
<1>7. CASE Finish(p) /\ UNCHANGED ledger
  <2>1. \A d \in Collections : Kept(d)
    BY <1>4, <1>7, SameKept
  <2>2. QED
    BY <1>3, <1>7, <2>1, EndsFunded DEF Sent
<1>8. QED
  BY <1>1, <1>4, <1>5, <1>6, <1>7 DEF LedgerCall

LEMMA SettlePatchFunds ==
  ASSUME CollectionInv, FundingInv, SettledApart, NEW p \in Procs, SettlePatch(p)
  PROVE  FundingInv'
<1>1. PICK c \in Collections : c = Mine(p)
  BY InCollection DEF SettlePatch, CollectionLabels
<1>2. pc[p] = "settle.patch" /\ LocalTyped /\ tx[c] \in TxRow
  BY <1>1, InCollection DEF SettlePatch, CollectionLabels
<1>3. UNCHANGED <<ledger, stl, chain>>
  BY DEF SettlePatch
<1>4. /\ tx'[c].usdc = loc[p].amt
      /\ \A d \in Collections \ {c} : tx'[d] = tx[d]
  BY <1>1, <1>2 DEF SettlePatch, CollectionInv, SharedTyped, TxRow
<1>5. PICK label, l : /\ label \in {"idle", "fund.find"} /\ Goes(p, label, l)
                      /\ label = "fund.find" => l = loc[p]
  <2>1. CASE Finish(p)
    BY <1>2, <2>1, FinishGoes
  <2>2. CASE Goto(p, "fund.find") /\ UNCHANGED loc
    BY <1>2, <2>2, GotoGoes
  <2>3. QED
    BY <2>1, <2>2 DEF SettlePatch
<1>6. pc'[p] = label /\ loc'[p] = l /\ Mine(p)' = l.coll
  BY <1>2, <1>5, GoesThere
<1>7. IsCredited(c) => loc[p].amt = Credited(c)
  BY <1>1, <1>2 DEF FundingInv, Funds
<1>8. IsCredited(c)' = IsCredited(c) /\ Credited(c)' = Credited(c) /\ Open(c)' = Open(c)
  BY <1>3 DEF IsCredited, Credited, HasPosted, PostedAmount, Open
<1>9. \A d \in Collections \ {c} : Kept(d)
  BY <1>3, <1>4, SameKept
<1>10. Funds(p)'
  <2>1. label = "fund.find" => Mine(p)' = c
    BY <1>1, <1>5, <1>6 DEF Mine
  <2>2. QED
    BY <1>5, <1>6, <1>7, <1>8, <2>1 DEF Funds, BeforeSending
<1>11. Funded(c)'
  <2>1. \A q \in Procs : pc[q] \in Sent /\ Mine(q) = c => q # p
    BY <1>2 DEF Sent
  <2>2. \A q \in Procs \ {p} : pc'[q] = pc[q] /\ Mine(q)' = Mine(q)
    BY <1>5 DEF CollectionInv, LocalTyped, Goes, Mine
  <2>3. HandledAt(c, Sent) => HandledAt(c, Sent)'
    BY <2>1, <2>2 DEF HandledAt
  <2>4. IsCredited(c)' => tx'[c].usdc = Credited(c)'
    BY <1>4, <1>7, <1>8
  <2>5. QED
    BY <1>3, <1>8, <2>3, <2>4 DEF FundingInv, Funded
<1>12. QED
  BY <1>1, <1>2, <1>5, <1>9, <1>10, <1>11, SettlesAlone DEF Settling
-----------------------------------------------------------------------------
(* fundCollectionStellarWallet and confirmCollectionFunding *)

\* A settlement row that a handler takes up tells of no payment that may land.
LEMMA FundFindFunds ==
  ASSUME CollectionInv, FundingInv, SettledApart, RetriedWhenFailed', NEW p \in Procs, FundFind(p)
  PROVE  FundingInv'
<1>1. PICK c \in Collections : c = Mine(p)
  BY InCollection DEF FundFind, CollectionLabels
<1>2. loc[p] \in Locals /\ loc[p].coll = c /\ pc[p] = "fund.find" /\ stl[c] \in SettlementRow
  BY <1>1, InCollection DEF FundFind, CollectionLabels
<1>3. \A d \in Collections : Kept(d)
  BY SameKept DEF FundFind
<1>4. CASE Finish(p)
  BY <1>2, <1>3, <1>4, EndsFunded DEF Sent
<1>5. CASE /\ ~(stl[c].status = "confirmed" /\ stl[c].ref # 0)
           /\ Goto(p, "fund.treasury") /\ loc' = [loc EXCEPT ![p].st = stl[c]]
  <2>1. PICK l : l = [loc[p] EXCEPT !.st = stl[c]]
    OBVIOUS
  <2>2. l.coll = c /\ l.amt = loc[p].amt /\ l.st = stl[c]
    BY <1>2, <2>1 DEF Locals
  <2>3. Goes(p, "fund.treasury", l)
    BY <1>5, <2>1 DEF Goto, Goes
  <2>4. pc'[p] = "fund.treasury" /\ loc'[p] = l /\ Mine(p)' = c
    BY <2>2, <2>3, GoesThere DEF CollectionInv
  <2>5. Open(c) = {}
    <3>1. SUFFICES ASSUME Open(c) # {} PROVE FALSE
      OBVIOUS
    <3>2. ~HandledAt(c, Sent)
      BY <1>1, <1>2 DEF HandledAt, SettledApart, Settling, Sent
    <3>3. stl[c].status = "submitted"
      BY <1>5, <3>1, <3>2 DEF FundingInv, Funded
    <3>4. loc'[p].st.status = "submitted" /\ pc'[p] \in BeforeSending
      BY <2>2, <2>4, <3>3 DEF BeforeSending
    <3>5. chain' = chain
      BY DEF FundFind
    <3>6. \A i \in 1..Len(chain[c]) : chain[c][i].state = "failed"
      BY <2>4, <3>4, <3>5 DEF RetriedWhenFailed
    <3>7. QED
      BY <3>1, <3>6 DEF Open
  <2>6. IsCredited(c) => l.amt = Credited(c)
    BY <1>1, <1>2, <2>2 DEF FundingInv, Funds
  <2>7. Open(c)' = {} /\ (IsCredited(c)' => l.amt = Credited(c)')
    BY <1>3, <2>5, <2>6 DEF Kept
  <2>8. Funds(p)'
    BY <2>4, <2>7 DEF Funds, BeforeSending
  <2>9. QED
    BY <1>1, <1>2, <1>3, <2>3, <2>8, MovesOn DEF Settling, Sent
<1>6. QED
  BY <1>1, <1>4, <1>5 DEF FundFind

\* A write of the settlement row of a collection without a payment that may land.
LEMMA RowFunds ==
  ASSUME CollectionInv, FundingInv, SettledApart, NEW p \in Procs, NEW c \in Collections, c = Mine(p),
         pc[p] \in BeforeSending \cup {"fund.failed"}, UNCHANGED <<ledger, tx, chain>>,
         \A d \in Collections \ {c} : stl'[d] = stl[d],
         Finish(p) \/ (pc[p] \in BeforeSending /\ (\E label \in BeforeSending : Goto(p, label)) /\ loc' = loc)
  PROVE  FundingInv'
<1>1. PICK label, l :
        /\ label \in {"idle"} \cup BeforeSending /\ Goes(p, label, l)
        /\ label \in BeforeSending => l = loc[p] /\ pc[p] \in BeforeSending
  <2>1. CASE Finish(p)
    BY <2>1, FinishGoes DEF CollectionInv, BeforeSending
  <2>2. CASE ~Finish(p)
    BY <2>2, GotoGoes DEF CollectionInv
  <2>3. QED
    BY <2>1, <2>2
<1>2. pc'[p] = label /\ loc'[p] = l /\ Mine(p)' = l.coll
  BY <1>1, GoesThere DEF CollectionInv
<1>3. Open(c) = {} /\ (pc[p] \in BeforeSending /\ IsCredited(c) => loc[p].amt = Credited(c))
  BY DEF FundingInv, Funds
<1>4. /\ IsCredited(c)' = IsCredited(c) /\ Credited(c)' = Credited(c) /\ Open(c)' = Open(c)
  BY DEF IsCredited, Credited, HasPosted, PostedAmount, Open
<1>5. \A d \in Collections \ {c} : Kept(d)
  BY SameKept
<1>6. Funds(p)'
  <2>1. label \in BeforeSending => Mine(p)' = c
    BY <1>1, <1>2 DEF Mine
  <2>2. QED
    BY <1>1, <1>2, <1>3, <1>4, <2>1 DEF Funds, BeforeSending
<1>7. Funded(c)'
  <2>1. \A q \in Procs \ {p} : pc'[q] = pc[q] /\ Mine(q)' = Mine(q)
    BY <1>1 DEF CollectionInv, LocalTyped, Goes, Mine
  <2>2. pc[p] # "settle.patch"
    BY DEF BeforeSending
  <2>3. HandledAt(c, {"settle.patch"}) => HandledAt(c, {"settle.patch"})'
    BY <2>1, <2>2 DEF HandledAt
  <2>4. QED
    BY <1>3, <1>4, <2>3 DEF FundingInv, Funded
<1>8. QED
  BY <1>1, <1>5, <1>6, <1>7, SettlesAlone DEF Settling, BeforeSending

LEMMA FundTreasuryFunds ==
  ASSUME CollectionInv, FundingInv, SettledApart, NEW p \in Procs,
         FundTreasury(p) \/ FundInsert(p) \/ FundFailed(p)
  PROVE  FundingInv'
<1>1. PICK c \in Collections : c = Mine(p)
  BY InCollection DEF FundTreasury, FundInsert, FundFailed, CollectionLabels
<1>2. UNCHANGED <<ledger, tx, chain>>
  BY DEF FundTreasury, FundInsert, FundFailed
<1>3. \A d \in Collections \ {c} : stl'[d] = stl[d]
  BY <1>1 DEF FundTreasury, FundInsert, FundFailed, InsertSettlement, CollectionInv, SharedTyped
<1>4. pc[p] \in BeforeSending \cup {"fund.failed"}
  BY DEF FundTreasury, FundInsert, FundFailed, BeforeSending
<1>5. \/ Finish(p)
      \/ pc[p] \in BeforeSending /\ (\E label \in BeforeSending : Goto(p, label)) /\ loc' = loc
  BY DEF FundTreasury, FundInsert, FundFailed, BeforeSending
<1>6. QED
  BY <1>1, <1>2, <1>3, <1>4, <1>5, RowFunds

\* A payment is of the amount it was submitted with, whatever becomes of it.
LEMMA SentAmount ==
  ASSUME NEW ch, IsChain(ch), NEW a, NEW s, NEW u
  PROVE  submitUsdcPayment(ch, a, s, u)[Len(ch) + 1].amount = a
<1>1. PICK A, B : ch \in Seq(PaymentIn(A, B))
  BY DEF IsChain
<1>2. PICK e : e = [amount |-> a, state |-> s, seq |-> u + 1, doubt |-> FALSE]
  OBVIOUS
<1>3. Append(ch, e)[Len(ch) + 1] = e
  BY <1>1
<1>4. QED
  BY <1>2, <1>3 DEF submitUsdcPayment

LEMMA FundSubmitFunds ==
  ASSUME CollectionInv, FundingInv, SettledApart, NothingLost, NEW p \in Procs, FundSubmit(p)
  PROVE  FundingInv'
<1>1. PICK c \in Collections : c = Mine(p)
  BY InCollection DEF FundSubmit, CollectionLabels
<1>2. /\ Working(p) /\ loc[p] \in Locals /\ loc[p].coll = c /\ IsChain(chain[c])
      /\ LocalTyped /\ pc[p] = "fund.submit"
  BY <1>1, InCollection DEF FundSubmit, CollectionLabels
<1>3. IsCredited(c)
  BY <1>1, <1>2 DEF Working, Sending, IsCredited
<1>4. Open(c) = {} /\ loc[p].amt = Credited(c)
  BY <1>1, <1>2, <1>3 DEF FundingInv, Funds, BeforeSending
<1>5. PICK o \in SubmitOutcomes :
        /\ o.name \in SubmitResults
        /\ chain' = [chain EXCEPT ![c] = submitUsdcPayment(@, loc[p].amt, o.state, Used)]
        /\ Goto(p, CASE o.reply = "error"     -> "fund.failed"
                     [] o.reply = "submitted" -> "fund.submitted"
                     [] o.reply = "confirmed" -> "fund.confirmed")
        /\ loc' = [loc EXCEPT ![p].hash = Len(chain[c]) + 1]
  BY <1>1 DEF FundSubmit
<1>6. PICK label \in Sent \cup {"fund.failed"} :
        Goto(p, label) /\ (label = "fund.failed" => o.state = "failed")
  BY <1>5 DEF SubmitOutcomes, NothingLost, Sent
<1>7. o.state \in {"signed", "sent", "landed", "failed"}
  BY DEF SubmitOutcomes
<1>8. PICK n \in Nat : n = Len(chain[c])
  BY <1>2 DEF IsChain
<1>9. PICK ch : ch = submitUsdcPayment(chain[c], loc[p].amt, o.state, Used)
  OBVIOUS
<1>10. /\ Len(ch) = n + 1 /\ ch[n + 1].state = o.state
       /\ \A i \in 1..n : ch[i] = chain[c][i]
  BY <1>2, <1>7, <1>8, <1>9, ChainAppend
<1>11. ch[n + 1].amount = Credited(c)
  BY <1>2, <1>4, <1>8, <1>9, SentAmount
<1>12. chain'[c] = ch /\ \A d \in Collections \ {c} : chain'[d] = chain[d]
  BY <1>5, <1>9 DEF CollectionInv, SharedTyped
<1>13. UNCHANGED <<ledger, tx, stl>>
  BY DEF FundSubmit
<1>14. PICK l : l = [loc[p] EXCEPT !.hash = n + 1]
  OBVIOUS
<1>15. l.coll = c
  BY <1>2, <1>14 DEF Locals
<1>16. Goes(p, label, l)
  BY <1>5, <1>6, <1>8, <1>14 DEF Goto, Goes
<1>17. pc'[p] = label /\ loc'[p] = l /\ Mine(p)' = c
  BY <1>2, <1>15, <1>16, GoesThere
<1>18. IsCredited(c)' /\ Credited(c)' = Credited(c)
  BY <1>3, <1>13 DEF IsCredited, Credited, HasPosted, PostedAmount
<1>19. Open(c)' \subseteq {n + 1} /\ (o.state = "failed" => Open(c)' = {})
  <2>1. \A i \in 1..n : ch[i].state = "failed"
    BY <1>4, <1>8, <1>10 DEF Open
  <2>2. Open(c)' = {i \in 1..(n + 1) : ch[i].state # "failed"}
    BY <1>10, <1>12 DEF Open
  <2>3. \A i \in 1..(n + 1) : i \in 1..n \/ i = n + 1
    OBVIOUS
  <2>4. QED
    BY <1>10, <2>1, <2>2, <2>3
<1>20. Funds(p)'
  BY <1>6, <1>17, <1>19 DEF Funds, BeforeSending, Sent
<1>21. Funded(c)'
  <2>1. tx[c].usdc = Credited(c) \/ HandledAt(c, {"settle.patch"})
    BY <1>3 DEF FundingInv, Funded
  <2>2. ~HandledAt(c, {"settle.patch"})
    BY <1>1, <1>2 DEF HandledAt, SettledApart, Settling
  <2>3. tx'[c].usdc = Credited(c)'
    BY <1>13, <1>18, <2>1, <2>2
  <2>4. \A i \in 1..Len(chain'[c]) : chain'[c][i].amount = Credited(c)'
    BY <1>8, <1>10, <1>11, <1>12, <1>18 DEF FundingInv, Funded
  <2>5. \A i, j \in Open(c)' : i = j
    BY <1>19
  <2>6. Open(c)' # {} => HandledAt(c, Sent)'
    BY <1>6, <1>17, <1>19 DEF HandledAt
  <2>7. QED
    BY <1>18, <2>3, <2>4, <2>5, <2>6 DEF Funded
<1>22. \A d \in Collections \ {c} : Kept(d)
  BY <1>12, <1>13, SameKept
<1>23. QED
  BY <1>1, <1>2, <1>16, <1>20, <1>21, <1>22, SettlesAlone DEF Settling

\* The row tells of the payment as its handler leaves it.
LEMMA FundSubmittedFunds ==
  ASSUME CollectionInv, FundingInv, SettledApart, NEW p \in Procs, FundSubmitted(p) \/ ConfirmSettlement(p)
  PROVE  FundingInv'
<1>1. PICK c \in Collections : c = Mine(p)
  BY InCollection DEF FundSubmitted, ConfirmSettlement, CollectionLabels
<1>2. /\ Working(p) /\ LocalTyped /\ IsChain(chain[c])
      /\ pc[p] \in Sent \cup {"confirm"}
  BY <1>1, InCollection DEF FundSubmitted, ConfirmSettlement, CollectionLabels, Sent
<1>3. loc[p].hash # 0
  <2>1. loc[p].hash \in 1..Len(chain[c])
    BY <1>1, <1>2 DEF Working, Sent, Confirming, Landed
  <2>2. QED
    BY <2>1
<1>4. PICK status \in {"submitted", "confirmed"} :
        stl' = [stl EXCEPT ![c].status = status, ![c].ref = loc[p].hash]
  BY <1>1 DEF FundSubmitted, ConfirmSettlement
<1>5. /\ stl'[c].status \in {"submitted", "confirmed"} /\ stl'[c].ref # 0
      /\ \A d \in Collections \ {c} : stl'[d] = stl[d]
  <2>1. stl[c] \in SettlementRow
    BY DEF CollectionInv, SharedTyped
  <2>2. QED
    BY <1>3, <1>4, <2>1 DEF CollectionInv, SharedTyped, SettlementRow
<1>6. PICK label \in {"fund.verify", "confirm", "confirm.release"} : Goto(p, label) /\ loc' = loc
  BY DEF FundSubmitted, ConfirmSettlement
<1>7. Goes(p, label, loc[p])
  BY <1>2, <1>6, GotoGoes
<1>8. pc'[p] = label
  BY <1>2, <1>7, GoesThere
<1>9. UNCHANGED <<ledger, tx, chain>>
  BY DEF FundSubmitted, ConfirmSettlement
<1>10. \A d \in Collections \ {c} : Kept(d)
  BY <1>5, <1>9, SameKept
<1>11. Funds(p)'
  BY <1>8 DEF Funds, BeforeSending
<1>12. /\ IsCredited(c)' = IsCredited(c) /\ Credited(c)' = Credited(c) /\ Open(c)' = Open(c)
  BY <1>9 DEF IsCredited, Credited, HasPosted, PostedAmount, Open
<1>13. Funded(c)'
  <2>1. \A q \in Procs \ {p} : pc'[q] = pc[q] /\ Mine(q)' = Mine(q)
    BY <1>7 DEF CollectionInv, LocalTyped, Goes, Mine
  <2>2. pc[p] # "settle.patch"
    BY <1>2 DEF Sent
  <2>3. HandledAt(c, {"settle.patch"}) => HandledAt(c, {"settle.patch"})'
    BY <2>1, <2>2 DEF HandledAt
  <2>4. QED
    BY <1>5, <1>9, <1>12, <2>3 DEF FundingInv, Funded
<1>14. QED
  BY <1>1, <1>2, <1>7, <1>10, <1>11, <1>13, SettlesAlone DEF Settling, Sent

LEMMA ConfirmReleaseFunds ==
  ASSUME CollectionInv, FundingInv, NEW p \in Procs, ConfirmRelease(p)
  PROVE  FundingInv'
<1>1. PICK c \in Collections : c = Mine(p)
  BY InCollection DEF ConfirmRelease, CollectionLabels
<1>2. PICK a \in Amounts : a = stl[c].amount
  BY <1>1, InCollection, CollectionAssumption DEF ConfirmRelease, CollectionLabels, Working, Confirming, Sound
<1>3. LedgerCall(p, "releasePending", a, "confirm.patch") /\ UNCHANGED <<tx, stl, chain>>
  BY <1>1, <1>2 DEF ConfirmRelease
<1>4. \A d \in Collections : Kept(d)
  <2>1. CASE ledger' = ledger
    BY <1>3, <2>1, SameKept
  <2>2. CASE /\ Admissible(ensureWalletAccount(ledger, Org), CollectionLeg(c, "releasePending", a))
             /\ ledger' = Post(ensureWalletAccount(ledger, Org), CollectionLeg(c, "releasePending", a))
    <3>1. /\ \A d, o : <<d, o>> # <<c, "releasePending">> => (HasPosted(d, o)' <=> HasPosted(d, o))
          /\ \A d, o : HasPosted(d, o) => PostedAmount(d, o)' = PostedAmount(d, o)
      BY <2>2, LegPosts DEF CollectionInv, SharedTyped, CollectionOps
    <3>2. \A d : Open(d)' = Open(d)
      BY <1>3 DEF Open
    <3>3. QED
      BY <1>3, <3>1, <3>2 DEF Kept, IsCredited, Credited
  <2>3. QED
    BY <1>1, <1>3, <2>1, <2>2 DEF LedgerCall
<1>5. PICK label, l : label \in {"idle", "confirm.patch"} /\ Goes(p, label, l)
  <2>1. CASE Finish(p)
    BY <2>1, FinishGoes DEF CollectionInv
  <2>2. CASE Goto(p, "confirm.patch") /\ UNCHANGED loc
    BY <2>2, GotoGoes DEF CollectionInv
  <2>3. Finish(p) \/ (Goto(p, "confirm.patch") /\ UNCHANGED loc)
    BY <1>3 DEF LedgerCall
  <2>4. QED
    BY <2>1, <2>2, <2>3
<1>6. /\ pc'[p] = label
      /\ \A q \in Procs \ {p} : pc'[q] = pc[q] /\ loc'[q] = loc[q]
  BY <1>5 DEF CollectionInv, LocalTyped, Goes
<1>7. pc[p] = "confirm.release"
  BY DEF ConfirmRelease
<1>8. QED
  BY <1>4, <1>5, <1>6, <1>7, FundingStays DEF Sent, BeforeSending
-----------------------------------------------------------------------------
(* The other steps. *)

\* Steps of p that end its handler or take it where it sends nothing.
LEMMA QuietFunds ==
  ASSUME CollectionInv, FundingInv, NEW p \in Procs, UNCHANGED <<ledger, stl>>,
         \A c \in Collections : chain'[c] = chain[c] /\ tx'[c].usdc = tx[c].usdc,
         NEW label \in Labels \ ({"settle.credit", "settle.patch", "fund.find", "fund.failed"} \cup BeforeSending),
         pc' = [pc EXCEPT ![p] = label], NEW l, loc' = [loc EXCEPT ![p] = l],
         pc[p] \notin Sent, pc[p] = "settle.patch" => Mine(p) \in FundingOff
  PROVE  FundingInv'
<1>1. \A c \in Collections : Kept(c)
  BY SameKept
<1>2. /\ pc'[p] = label
      /\ \A q \in Procs \ {p} : pc'[q] = pc[q] /\ loc'[q] = loc[q]
  BY DEF CollectionInv, LocalTyped
<1>3. Mine(p) \in Collections /\ IsCredited(Mine(p)) => pc[p] \notin Sent \cup {"settle.patch"}
  <2>1. ASSUME NEW c \in Collections, IsCredited(c)
        PROVE  c \notin FundingOff
    BY <2>1 DEF CollectionInv, Sound, IsCredited
  <2>2. QED
    BY <2>1
<1>4. QED
  BY <1>1, <1>2, <1>3, FundingStays

\* Steps of nobody's handler.
LEMMA StaysFunded ==
  ASSUME CollectionInv, FundingInv, UNCHANGED <<pc, loc>>, \A c \in Collections : Kept(c)
  PROVE  FundingInv'
<1>1. ASSUME NEW c \in Collections, NEW labels
      PROVE  HandledAt(c, labels)' = HandledAt(c, labels)
  BY DEF HandledAt, Mine
<1>2. ASSUME NEW c \in Collections
      PROVE  Funded(c)'
  <2>1. Open(c)' # {} => Open(c) # {}
    BY DEF Kept
  <2>2. QED
    BY <1>1, <2>1 DEF FundingInv, Funded, Kept
<1>3. ASSUME NEW q \in Procs
      PROVE  Funds(q)'
  BY FundsKept DEF FundingInv, CollectionInv
<1>4. QED
  BY <1>2, <1>3 DEF FundingInv

LEMMA StartFunds ==
  ASSUME CollectionInv, FundingInv, UNCHANGED <<ledger, tx, stl, chain>>,
         NEW p \in Procs, NEW x, NEW label \in {"open", "insert", "fail.patch", "settle.load"} \cup RebalanceLabels,
         Start(p, x, label)
  PROVE  FundingInv'
<1>1. PICK l : l = [loc[p] EXCEPT !.coll = x]
  OBVIOUS
<1>2. pc[p] = "idle" /\ pc' = [pc EXCEPT ![p] = label] /\ loc' = [loc EXCEPT ![p] = l]
  BY <1>1 DEF Start, Goto
<1>3. label \in Labels \ ({"settle.credit", "settle.patch", "fund.find", "fund.failed"} \cup BeforeSending)
  BY DEF Labels, CollectionLabels, RebalanceLabels, BeforeSending
<1>4. QED
  BY <1>2, <1>3, QuietFunds DEF Sent

LEMMA CallsFund ==
  ASSUME CollectionInv, FundingInv, NEW p \in Procs,
         \/ \E c \in Collections : CollectFind(p, c) \/ Webhook(p, c) \/ simulateSettlement(p, c)
         \/ \E r \in Rebalances : RebalanceCall(p, r)
  PROVE  FundingInv'
<1>1. UNCHANGED <<ledger, tx, stl, chain>>
  BY DEF CollectFind, Webhook, YellowCardSuccess, YellowCardFailure, FlutterwaveSuccess,
     FlutterwaveMismatch, simulateSettlement, RebalanceCall, requestTreasuryRebalance,
     executeTreasuryRebalance, approveTreasuryRebalance, submitTreasuryRebalance, CollectionsUnchanged
<1>2. ASSUME NEW c \in Collections, FlutterwaveMismatch(p, c)
      PROVE  FundingInv'
  <2>1. PICK l : loc' = [loc EXCEPT ![p] = l]
    BY <1>2 DEF FlutterwaveMismatch
  <2>2. pc[p] = "idle" /\ pc' = [pc EXCEPT ![p] = "warn.patch"]
    BY <1>2 DEF FlutterwaveMismatch, Goto
  <2>3. "warn.patch" \in Labels \ ({"settle.credit", "settle.patch", "fund.find", "fund.failed"} \cup BeforeSending)
    BY DEF Labels, CollectionLabels, BeforeSending
  <2>4. QED
    BY <1>1, <2>1, <2>2, <2>3, QuietFunds DEF Sent
<1>3. ASSUME NEW c \in Collections, CollectFind(p, c) \/ Webhook(p, c) \/ simulateSettlement(p, c)
      PROVE  FundingInv'
  <2>1. CASE \E label \in {"open", "insert", "fail.patch", "settle.load"} : Start(p, c, label)
    BY <1>1, <2>1, StartFunds
  <2>2. QED
    BY <1>2, <1>3, <2>1 DEF CollectFind, Webhook, YellowCardSuccess, YellowCardFailure,
       FlutterwaveSuccess, simulateSettlement
<1>4. ASSUME NEW r \in Rebalances, RebalanceCall(p, r)
      PROVE  FundingInv'
  <2>1. PICK label \in RebalanceLabels : Start(p, r, label)
    BY <1>4 DEF RebalanceCall, requestTreasuryRebalance, executeTreasuryRebalance, AfterRequest,
       approveTreasuryRebalance, submitTreasuryRebalance, RebalanceLabels
  <2>2. QED
    BY <1>1, <2>1, StartFunds
<1>5. QED
  BY <1>3, <1>4

\* Steps that go on with the local variables the handler has, or end it.
LEMMA PlainFunds ==
  ASSUME CollectionInv, FundingInv, NEW p \in Procs, UNCHANGED <<ledger, stl>>,
         \A c \in Collections : chain'[c] = chain[c] /\ tx'[c].usdc = tx[c].usdc,
         pc[p] \notin Sent, pc[p] = "settle.patch" => Mine(p) \in FundingOff,
         \/ Finish(p)
         \/ /\ \E label \in {"insert", "insertFailed", "confirm"} \cup RebalanceLabels : Goto(p, label)
            /\ \E l : loc' = [loc EXCEPT ![p] = l]
  PROVE  FundingInv'
<1>1. CASE Finish(p)
  <2>1. "idle" \in Labels \ ({"settle.credit", "settle.patch", "fund.find", "fund.failed"} \cup BeforeSending)
    BY DEF Labels, BeforeSending
  <2>2. QED
    BY <1>1, <2>1, QuietFunds DEF Finish, Goto
<1>2. ASSUME NEW label \in {"insert", "insertFailed", "confirm"} \cup RebalanceLabels, NEW l,
             Goto(p, label), loc' = [loc EXCEPT ![p] = l]
      PROVE  FundingInv'
  <2>1. label \in Labels \ ({"settle.credit", "settle.patch", "fund.find", "fund.failed"} \cup BeforeSending)
    BY DEF Labels, CollectionLabels, RebalanceLabels, BeforeSending
  <2>2. QED
    BY <1>2, <2>1, QuietFunds DEF Goto
<1>3. QED
  BY <1>1, <1>2

LEMMA OtherStepsFund ==
  ASSUME CollectionInv, FundingInv, NEW p \in Procs,
         OpenAccount(p) \/ InsertCollection(p) \/ FailPatch(p) \/ WarnPatch(p) \/ FundVerify(p) \/ ConfirmPatch(p)
  PROVE  FundingInv'
<1>1. PICK c \in Collections : c = Mine(p)
  BY InCollection DEF OpenAccount, InsertCollection, FailPatch, WarnPatch, FundVerify, ConfirmPatch, CollectionLabels
<1>2. tx \in [Collections -> TxRow] /\ loc = [loc EXCEPT ![p] = loc[p]]
  BY DEF CollectionInv, SharedTyped, LocalTyped
<1>3. UNCHANGED <<ledger, stl, chain>>
  BY DEF OpenAccount, InsertCollection, FailPatch, WarnPatch, FundVerify, ConfirmPatch
<1>4. ASSUME NEW d \in Collections
      PROVE  tx'[d].usdc = tx[d].usdc
  <2>1. CASE InsertCollection(p)
    BY <1>1, <1>2, <2>1 DEF InsertCollection, NoTx
  <2>2. CASE FailPatch(p) \/ WarnPatch(p) \/ ConfirmPatch(p)
    BY <1>1, <1>2, <2>2 DEF FailPatch, WarnPatch, ConfirmPatch, TxRow
  <2>3. CASE OpenAccount(p) \/ FundVerify(p)
    BY <2>3 DEF OpenAccount, FundVerify
  <2>4. QED
    BY <2>1, <2>2, <2>3
<1>5. pc[p] \notin Sent \cup {"settle.patch"}
  BY DEF OpenAccount, InsertCollection, FailPatch, WarnPatch, FundVerify, ConfirmPatch, Sent
<1>6. \/ Finish(p)
      \/ \E label \in {"insert", "insertFailed", "confirm"} : Goto(p, label) /\ loc' = loc
  BY DEF OpenAccount, InsertCollection, FailPatch, WarnPatch, FundVerify, ConfirmPatch
<1>7. QED
  BY <1>2, <1>3, <1>4, <1>5, <1>6, PlainFunds

LEMMA RebalanceStepsFund ==
  ASSUME CollectionInv, FundingInv, NEW p \in Procs, RebalanceStep(p)
  PROVE  FundingInv'
<1>1. pc[p] \in RebalanceLabels
  BY DEF RebalanceStep, RebalancePosition, RebalanceInsert, ExecApprove, ApproveUpdate, RebalanceLoad,
     RebalanceObserve, RebalanceSubmit, RebalanceVerify, RebalanceEnd, RebalanceFailed, RebalanceLabels
<1>2. PICK r \in Rebalances : r = Mine(p)
  BY <1>1, InRebalance
<1>3. UNCHANGED <<ledger, tx, stl>> /\ loc = [loc EXCEPT ![p] = loc[p]]
  BY DEF RebalanceStep, RebalancePosition, RebalanceInsert, ExecApprove, ApproveUpdate, RebalanceLoad,
     RebalanceObserve, RebalanceSubmit, RebalanceVerify, RebalanceEnd, RebalanceFailed,
     CollectionsUnchanged, CollectionInv, LocalTyped
<1>4. \A c \in Collections : chain'[c] = chain[c]
  <2>1. CASE RebalanceSubmit(p)
    <3>1. \A c \in Collections : c # r
      BY RebalanceAssumption
    <3>2. PICK ch : chain' = [chain EXCEPT ![r] = ch]
      BY <1>2, <2>1 DEF RebalanceSubmit
    <3>3. QED
      BY <3>1, <3>2 DEF CollectionInv, SharedTyped
  <2>2. CASE ~RebalanceSubmit(p)
    BY <2>2 DEF RebalanceStep, RebalancePosition, RebalanceInsert, ExecApprove, ApproveUpdate,
       RebalanceLoad, RebalanceObserve, RebalanceVerify, RebalanceEnd, RebalanceFailed
  <2>3. QED
    BY <2>1, <2>2
<1>5. \/ Finish(p)
      \/ (\E label \in RebalanceLabels : Goto(p, label)) /\ (\E l : loc' = [loc EXCEPT ![p] = l])
  <2>1. CASE RebalanceSubmit(p)
    <3>1. \E l : loc' = [loc EXCEPT ![p] = l]
      BY <2>1 DEF RebalanceSubmit
    <3>2. \E label \in RebalanceLabels : Goto(p, label)
      BY <2>1 DEF RebalanceSubmit, RebalanceLabels
    <3>3. QED
      BY <3>1, <3>2
  <2>2. CASE ~RebalanceSubmit(p)
    <3>1. Finish(p) \/ (loc' = loc /\ \E label \in RebalanceLabels : Goto(p, label))
      BY <2>2 DEF RebalanceStep, RebalancePosition, RebalanceInsert, ExecApprove, ApproveUpdate,
         RebalanceLoad, RebalanceObserve, RebalanceVerify, RebalanceEnd, RebalanceFailed, AfterRequest,
         RebalanceLabels
    <3>2. QED
      BY <1>3, <3>1
  <2>3. QED
    BY <2>1, <2>2
<1>6. pc[p] \notin Sent \cup {"settle.patch"}
  BY <1>1 DEF RebalanceLabels, Sent
<1>7. QED
  BY <1>3, <1>4, <1>5, <1>6, PlainFunds

\* What the network decides leaves fewer payments that may land.
LEMMA NetworkFunds ==
  ASSUME CollectionInv, FundingInv, NEW x \in Collections \cup Rebalances, NEW i \in 1..Len(chain[x]),
         NetworkResolves(x, i)
  PROVE  FundingInv'
<1>1. IsChain(chain[x]) /\ chain[x][i].state = "sent"
  BY DEF CollectionInv, SharedTyped, NetworkResolves
<1>2. PICK ch \in Resolutions(chain[x], i, Used) : chain' = [chain EXCEPT ![x] = ch]
  BY DEF NetworkResolves
<1>3. /\ Len(ch) = Len(chain[x])
      /\ \A j \in 1..Len(chain[x]) : j # i => ch[j] = chain[x][j]
  BY <1>1, ChainResolve
<1>4. ch[i].amount = chain[x][i].amount
  BY <1>1, ChainResolve
<1>5. chain'[x] = ch /\ \A y \in Collections : y # x => chain'[y] = chain[y]
  BY <1>2 DEF CollectionInv, SharedTyped
<1>6. UNCHANGED <<ledger, tx, stl, pc, loc>>
  BY DEF NetworkResolves
<1>7. ASSUME NEW c \in Collections
      PROVE  Kept(c)
  <2>1. CASE c # x
    BY <1>5, <1>6, <2>1, SameKept
  <2>2. CASE c = x
    <3>1. Open(c)' \subseteq Open(c)
      BY <1>1, <1>3, <1>5, <2>2 DEF Open
    <3>2. 1..Len(chain'[c]) = 1..Len(chain[c])
      BY <1>3, <1>5, <2>2
    <3>3. \A j \in 1..Len(chain[c]) : chain'[c][j].amount = chain[c][j].amount
      BY <1>3, <1>4, <1>5, <2>2
    <3>4. QED
      BY <1>6, <3>1, <3>2, <3>3 DEF Kept, IsCredited, Credited, HasPosted, PostedAmount
  <2>3. QED
    BY <2>1, <2>2
<1>8. QED
  BY <1>6, <1>7, StaysFunded

LEMMA FundingKeeps ==
  ASSUME CollectionInv, FundingInv, SettledApart, RetriedWhenFailed', NotCutShort, NothingLost, TreasuryNext
  PROVE  FundingInv'
<1>1. ASSUME NEW p \in Procs, Step(p) PROVE FundingInv'
  <2>1. CASE SettleLoad(p) \/ SettleCredit(p) \/ SettlePatch(p)
    BY <2>1, SettleLoadFunds, SettleCreditFunds, SettlePatchFunds
  <2>2. CASE FundFind(p) \/ FundTreasury(p) \/ FundInsert(p) \/ FundSubmit(p) \/ FundFailed(p)
    BY <2>2, FundFindFunds, FundTreasuryFunds, FundSubmitFunds
  <2>3. CASE FundSubmitted(p) \/ ConfirmSettlement(p) \/ ConfirmRelease(p)
    BY <2>3, FundSubmittedFunds, ConfirmReleaseFunds
  <2>4. CASE OpenAccount(p) \/ InsertCollection(p) \/ FailPatch(p) \/ WarnPatch(p) \/ FundVerify(p) \/ ConfirmPatch(p)
    BY <2>4, OtherStepsFund
  <2>5. QED
    BY <1>1, <2>1, <2>2, <2>3, <2>4 DEF Step
<1>2. ASSUME NEW p \in Procs, Crash(p) PROVE FundingInv'
  <2>1. Finish(p) /\ UNCHANGED <<ledger, tx, stl, chain>>
    BY <1>2 DEF Crash
  <2>2. pc[p] \notin Sent /\ (pc[p] = "settle.patch" => Mine(p) \in FundingOff)
    BY <1>2 DEF NotCutShort
  <2>3. QED
    BY <2>1, <2>2, PlainFunds
<1>3. ASSUME NEW c \in Collections, NEW q \in Procs, NEW o, PayIn(c, q, o) PROVE FundingInv'
  BY <1>3, SameKept, StaysFunded DEF PayIn
<1>4. ASSUME NEW x \in DOMAIN chain, NEW i \in 1..Len(chain[x]), NetworkResolves(x, i) PROVE FundingInv'
  BY <1>4, NetworkFunds DEF CollectionInv, SharedTyped
<1>5. CASE Next
  BY <1>1, <1>2, <1>3, <1>4, <1>5, CallsFund DEF Next, SteadyNext
<1>6. QED
  BY <1>5, CallsFund, RebalanceStepsFund DEF TreasuryNext

LEMMA FundingStart ==
  ASSUME TreasuryInit
  PROVE  FundingInv
<1>1. ledger = EmptyLedger /\ chain = [x \in Collections \cup Rebalances |-> <<>>]
      /\ pc = [p \in Procs |-> "idle"]
  BY Zenon DEF TreasuryInit, Init
<1>2. \A w \in Wallets : ledger.movements[w] = <<>>
  BY <1>1, EmptyMovements
<1>3. \A c \in Collections : ~IsCredited(c)
  BY <1>2 DEF IsCredited, HasPosted, Posted
<1>4. \A c \in Collections : 1..Len(chain[c]) = {}
  BY <1>1
<1>5. \A c \in Collections : Funded(c)
  BY <1>3, <1>4 DEF Funded, Open
<1>6. \A p \in Procs : Funds(p)
  BY <1>1 DEF Funds, BeforeSending
<1>7. QED
  BY <1>5, <1>6 DEF FundingInv

\* A payment that alone has landed is the total.
LEMMA OneLanded ==
  ASSUME NEW ch, NEW i, Landed(ch) = {i}, ch[i].amount \in Nat
  PROVE  LandedTotal(ch) = ch[i].amount
<1>1. PICK f : f = [s \in SUBSET {i} |-> IF s = {} THEN 0 ELSE ch[i].amount]
  OBVIOUS
<1>2. \A s \in SUBSET {i} : s # {} => s = {i} /\ (CHOOSE x \in s : TRUE) = i
  OBVIOUS
<1>3. f = [s \in SUBSET {i} |->
             IF s = {} THEN 0
             ELSE ch[CHOOSE x \in s : TRUE].amount + f[s \ {CHOOSE x \in s : TRUE}]]
  BY <1>1, <1>2
<1>4. PICK g : g = CHOOSE h : h = [s \in SUBSET {i} |->
             IF s = {} THEN 0
             ELSE ch[CHOOSE x \in s : TRUE].amount + h[s \ {CHOOSE x \in s : TRUE}]]
  OBVIOUS
<1>5. g = [s \in SUBSET {i} |->
             IF s = {} THEN 0
             ELSE ch[CHOOSE x \in s : TRUE].amount + g[s \ {CHOOSE x \in s : TRUE}]]
  BY <1>3, <1>4
<1>6. g[{}] = 0
  BY <1>5
<1>7. g[{i}] = ch[i].amount + g[{}]
  BY <1>2, <1>5
<1>8. LandedTotal(ch) = g[{i}]
  BY <1>4 DEF LandedTotal, MapThenSumSet, MapThenFoldSet
<1>9. QED
  BY <1>6, <1>7, <1>8

\* What reaches the organisation on chain is what its ledger was credited, once, when
\* handlers do not overlap or stop half-way, and nothing is sent again that may have got
\* through (settleCollectionCredit, fundCollectionStellarWallet).
THEOREM CollectionsFundedAsCredited ==
  NothingLost =>
    (TreasurySpec /\ []SettledApart /\ []RetriedWhenFailed /\ [][NotCutShort]_treasuryVars
       => []FundedAsCredited)
<1>. SUFFICES ASSUME NothingLost
              PROVE  TreasurySpec /\ []SettledApart /\ []RetriedWhenFailed /\ [][NotCutShort]_treasuryVars
                       => []FundedAsCredited
  OBVIOUS
<1>1. TreasuryInit => FundingInv
  BY FundingStart
<1>2. /\ CollectionInv /\ FundingInv /\ SettledApart /\ RetriedWhenFailed'
      /\ [TreasuryNext]_treasuryVars /\ [NotCutShort]_treasuryVars
      => FundingInv'
  <2>1. SUFFICES ASSUME CollectionInv, FundingInv, SettledApart, RetriedWhenFailed',
                        [TreasuryNext]_treasuryVars, [NotCutShort]_treasuryVars
                 PROVE  FundingInv'
    OBVIOUS
  <2>2. CASE UNCHANGED treasuryVars
    BY <2>1, <2>2, SameKept, StaysFunded DEF treasuryVars, vars
  <2>3. CASE TreasuryNext /\ NotCutShort
    BY <2>1, <2>3, FundingKeeps
  <2>4. QED
    BY <2>1, <2>2, <2>3
<1>3. CollectionInv /\ FundingInv => FundedAsCredited
  <2>1. SUFFICES ASSUME CollectionInv, FundingInv, NEW c \in Collections, Landed(chain[c]) # {}
                 PROVE  LandedTotal(chain[c]) = PostedAmount(c, "creditPending")
    BY DEF FundedAsCredited
  <2>2. PICK i : i \in Landed(chain[c])
    BY <2>1
  <2>3. Landed(chain[c]) \subseteq Open(c)
    BY DEF Landed, Open
  <2>4. Landed(chain[c]) = {i}
    BY <2>1, <2>2, <2>3 DEF FundingInv, Funded
  <2>5. chain[c][i].amount = Credited(c) /\ IsCredited(c)
    BY <2>1, <2>2 DEF Landed, FundingInv, Funded
  <2>6. Credited(c) \in Nat
    BY <2>1, <2>5, CollectionAssumption, AmountsAssumption DEF CollectionInv, Sound, IsCredited, Credited
  <2>7. QED
    BY <2>4, <2>5, <2>6, OneLanded DEF Credited
<1>4. QED
  BY <1>1, <1>2, <1>3, CollectionsInvariant, PTL DEF TreasurySpec
=============================================================================
