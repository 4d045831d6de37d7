---------------------------- MODULE ConsumerProofs ----------------------------
(***************************************************************************)
(* Proofs about the consumer side as a whole (ConsumerApp): any calls,     *)
(* wallets, pots, products, flows and conversations at once.  First what   *)
(* payments keep of their money (IInv), then conversations and reviews     *)
(* (TalkInv, IntentInv), then what every step keeps whatever is lost       *)
(* (AppSound), then all steps together (MoneyInv), the pockets of the      *)
(* products (PocketInv), the schedules of the flow (ScheduleInv) and the   *)
(* books of all of it (BooksInv).                                          *)
(***************************************************************************)
EXTENDS ConsumerApp, FiniteSetTheorems, TLAPS

\* Under a debit or reversal key of a call stands the movement of that call.
KeyedMovements ==
  \A c \in Calls : \A m \in movements :
    /\ m.key = Key(c, "debit") => m = Movement(Key(c, "debit"), "debit", c.from, c.amount)
    /\ m.key = Key(c, "reversal") => m = Movement(Key(c, "reversal"), "credit", c.from, c.amount)

\* Where a payout stands with its money and its order.
PayoutAt(c) ==
  /\ pc[c] \in {"start", "request", "record", "recordFailed", "catch", "catchRow", "done"}
  /\ pc[c] \in {"request", "record", "recordFailed", "catch", "catchRow"} => HasDebit(c)
  /\ pc[c] \in {"start", "request", "catch", "catchRow"} => order[c] = "none"
  /\ pc[c] = "recordFailed" => order[c] = "failed"

\* Nothing says "failed" of a payout that may still be paid.
Failed(c) == order[c] = "failed" \/ (order[c] = "none" /\ pc[c] = "done")

FailureIsTrue(c) == row[c] = "failed" \/ fetched[c] = "failed" \/ c \in reversing => Failed(c)

ReversalAt(c) ==
  Reversed(c) => HasDebit(c) /\ (Failed(c) \/ (order[c] = "none" /\ pc[c] = "catchRow"))

\* The inductive invariant.
IInv ==
  /\ TypeOK
  /\ KeyedMovements
  /\ \A c \in Payouts : PayoutAt(c) /\ FailureIsTrue(c) /\ ReversalAt(c)

\* What a credit does to the ledger: at most the one movement asked for is new.
LEMMA CreditOne ==
  ASSUME LedgerTypeOK, NEW key, NEW w \in Accounts, NEW a \in Nat, credit(key, w, a)
  PROVE  /\ LedgerTypeOK'
         /\ \A m \in movements : m \in movements'
         /\ \A m \in movements' : m \in movements \/ m = Movement(key, "credit", w, a)
<1>1. CASE findMovementByKey(key)
  BY <1>1 DEF credit, LedgerTypeOK, ledgerVars
<1>2. CASE ~findMovementByKey(key)
  <2>1. movements' = movements \cup {Movement(key, "credit", w, a)}
    BY <1>2 DEF credit
  <2>2. balance' \in [Accounts -> Nat]
    BY <1>2 DEF credit, LedgerTypeOK
  <2>3. \A m, n \in movements' : m.key = n.key => m = n
    <3>1. Movement(key, "credit", w, a).key = key
      BY DEF Movement
    <3>2. QED
      BY <1>2, <2>1, <3>1 DEF LedgerTypeOK, findMovementByKey
  <2>4. QED
    BY <2>1, <2>2, <2>3 DEF LedgerTypeOK
<1>3. QED
  BY <1>1, <1>2

\* The same for a debit that the balance covers.
LEMMA DebitOne ==
  ASSUME LedgerTypeOK, NEW key, NEW w \in Accounts, NEW a \in Nat,
         debits(key, w, a), debit(key, w, a)
  PROVE  /\ LedgerTypeOK'
         /\ \A m \in movements : m \in movements'
         /\ \A m \in movements' : m \in movements \/ m = Movement(key, "debit", w, a)
         /\ \E m \in movements' : m.key = key
<1>0. Movement(key, "debit", w, a).key = key
  BY DEF Movement
<1>1. CASE findMovementByKey(key)
  BY <1>1 DEF debit, LedgerTypeOK, ledgerVars, findMovementByKey
<1>2. CASE ~findMovementByKey(key)
  <2>1. movements' = movements \cup {Movement(key, "debit", w, a)}
    BY <1>2 DEF debit
  <2>2. balance' \in [Accounts -> Nat]
    <3>1. balance[w] >= a /\ balance[w] \in Nat
      BY <1>2 DEF debits, LedgerTypeOK
    <3>2. balance[w] - a \in Nat
      BY <3>1
    <3>3. QED
      BY <1>2, <3>2 DEF debit, LedgerTypeOK
  <2>3. \A m, n \in movements' : m.key = n.key => m = n
    BY <1>0, <1>2, <2>1 DEF LedgerTypeOK, findMovementByKey
  <2>4. QED
    BY <1>0, <2>1, <2>2, <2>3 DEF LedgerTypeOK
<1>3. QED
  BY <1>1, <1>2

\* Keys of different calls and steps differ.
LEMMA KeysDiffer ==
  ASSUME NEW c \in Calls, NEW d \in Calls, NEW s, NEW t
  PROVE  Key(c, s) = Key(d, t) => c = d /\ s = t
BY CallsAssumption DEF Key

\* One new movement under a key of call d: keys still tell calls apart, debits stay, and
\* only a movement under a reversal key reverses.
LEMMA Posting ==
  ASSUME KeyedMovements, NEW d \in Calls, NEW s, NEW dir, NEW w, NEW a,
         \A m \in movements : m \in movements',
         \A m \in movements' : m \in movements \/ m = Movement(Key(d, s), dir, w, a),
         s = "debit" => dir = "debit" /\ w = d.from /\ a = d.amount,
         s = "reversal" => dir = "credit" /\ w = d.from /\ a = d.amount
  PROVE  /\ KeyedMovements'
         /\ \A c \in Calls : HasDebit(c) => HasDebit(c)'
         /\ \A c \in Calls : Reversed(c)' => Reversed(c) \/ (c = d /\ s = "reversal")
<1> DEFINE m0 == Movement(Key(d, s), dir, w, a)
<1>1. m0.key = Key(d, s)
  BY DEF Movement
<1>2. \A c \in Calls : \A t : Key(d, s) = Key(c, t) => c = d /\ t = s
  BY KeysDiffer
<1>3. KeyedMovements'
  <2>1. SUFFICES ASSUME NEW c \in Calls, NEW m \in movements'
                 PROVE  /\ m.key = Key(c, "debit")
                             => m = Movement(Key(c, "debit"), "debit", c.from, c.amount)
                        /\ m.key = Key(c, "reversal")
                             => m = Movement(Key(c, "reversal"), "credit", c.from, c.amount)
    BY DEF KeyedMovements, Key, Movement
  <2>2. CASE m \in movements
    BY <2>2 DEF KeyedMovements
  <2>3. CASE m = m0
    BY <1>1, <1>2, <2>3
  <2>4. QED
    BY <2>2, <2>3
<1>4. \A c \in Calls : HasDebit(c) => HasDebit(c)'
  BY DEF HasDebit, Movement, Key
<1>5. \A c \in Calls : Reversed(c)' => Reversed(c) \/ (c = d /\ s = "reversal")
  <2>1. SUFFICES ASSUME NEW c \in Calls, NEW m \in movements', m.key = Key(c, "reversal")
                 PROVE  Reversed(c) \/ (c = d /\ s = "reversal")
    BY DEF Reversed, findMovementByKey, Key
  <2>2. CASE m \in movements
    BY <2>1, <2>2 DEF Reversed, findMovementByKey
  <2>3. CASE m = m0
    BY <1>1, <1>2, <2>1, <2>3
  <2>4. QED
    BY <2>2, <2>3
<1>6. QED
  BY <1>3, <1>4, <1>5

\* A step that posts nothing.
LEMMA NoPosting ==
  ASSUME KeyedMovements, LedgerTypeOK, UNCHANGED ledgerVars
  PROVE  /\ LedgerTypeOK'
         /\ KeyedMovements'
         /\ \A c \in Calls : (HasDebit(c) <=> HasDebit(c)') /\ (Reversed(c) <=> Reversed(c)')
BY DEF ledgerVars, LedgerTypeOK, KeyedMovements, HasDebit, Reversed, findMovementByKey, Key,
       Movement

LEMMA CallFields ==
  ASSUME NEW c \in Calls
  PROVE  c.from \in Accounts /\ c.to \in Accounts /\ c.amount \in Nat /\ c.kind \in Kinds
BY CallsAssumption

\* What a payout's debit is followed by.
LEMMA PayoutAfterDebit ==
  /\ \A k \in DOMAIN AfterDebit : AfterDebit[k] \in Labels
  /\ \A k \in {"bank", "bill", "send"} : AfterDebit[k] = "request"
BY DEF AfterDebit, Kinds, Labels

\* Only payouts have a provider's order to wait for.
LEMMA PayoutsAreCalls ==
  /\ Payouts \subseteq Calls /\ Sends \subseteq Payouts /\ TopUps \subseteq Calls
  /\ Payouts \cap TopUps = {}
BY DEF Payouts, Sends, TopUps

LEMMA InitInv == Init => IInv
<1> SUFFICES ASSUME Init PROVE IInv
  OBVIOUS
<1>1. TypeOK
  BY AccountsAssumption DEF Init, LedgerInit, TypeOK, LedgerTypeOK, Labels, Statuses
<1>2. KeyedMovements
  BY DEF Init, LedgerInit, KeyedMovements
<1>3. ASSUME NEW c \in Payouts PROVE PayoutAt(c) /\ FailureIsTrue(c) /\ ReversalAt(c)
  <2>1. c \in Calls /\ c \notin TopUps
    BY PayoutsAreCalls
  <2>2. pc[c] \in {"start", "done"} /\ order[c] = "none" /\ row[c] = "none"
           /\ fetched[c] = "none" /\ c \notin reversing /\ ~Reversed(c)
    BY <2>1 DEF Init, LedgerInit, Reversed, findMovementByKey
  <2>3. QED
    BY <2>2 DEF PayoutAt, FailureIsTrue, ReversalAt
<1>4. QED
  BY <1>1, <1>2, <1>3 DEF IInv

-----------------------------------------------------------------------------
PayoutInv(c) == PayoutAt(c) /\ FailureIsTrue(c) /\ ReversalAt(c)

\* A payout the step is not about, or whose call only stops.
LEMMA PayoutStays ==
  ASSUME NEW c \in Payouts, PayoutInv(c),
         pc'[c] \in {pc[c], "done"}, order'[c] = order[c],
         row'[c] = row[c], fetched'[c] \in {fetched[c], "none"},
         c \in reversing' => c \in reversing,
         HasDebit(c) => HasDebit(c)', Reversed(c)' => Reversed(c)
  PROVE  PayoutInv(c)'
<1>1. PayoutAt(c)'
  BY DEF PayoutInv, PayoutAt
<1>2. Failed(c) => Failed(c)'
  BY DEF Failed
<1>3. FailureIsTrue(c)'
  BY <1>2 DEF PayoutInv, FailureIsTrue
<1>4. ReversalAt(c)'
  BY <1>2 DEF PayoutInv, ReversalAt, Failed
<1>5. QED
  BY <1>1, <1>3, <1>4 DEF PayoutInv

\* Every step keeps the variables in their types, given that it keeps the ledger so.
LEMMA TypeStep ==
  ASSUME TypeOK, LedgerTypeOK', Next
  PROVE  TypeOK'
<1> USE DEF TypeOK, Goto, Labels
<1>1. ASSUME NEW d \in Calls, Step(d) PROVE TypeOK'
  <2>1. CASE Debit(d)
    <3>1. d.kind \in DOMAIN AfterDebit => AfterDebit[d.kind] \in Labels
      BY PayoutAfterDebit
    <3>2. QED
      BY <2>1, <3>1 DEF Debit
  <2>2. CASE Credit(d)
    BY <2>2 DEF Credit
  <2>3. CASE Request(d)
    <3>1. PICK answer \in Answers :
            /\ order' = [order EXCEPT ![d] = CASE answer = "refused" -> "none"
                                               [] answer = "failed"  -> "failed"
                                               [] OTHER              -> "open"]
            /\ Goto(d, IF answer \in {"refused", "lost"} THEN "catch"
                       ELSE IF d \notin Sends THEN "done"
                       ELSE IF answer = "failed" THEN "recordFailed" ELSE "record")
      BY <2>3 DEF Request
    <3>2. QED
      BY <2>3, <3>1 DEF Request
  <2>4. CASE Record(d)
    BY <2>4 DEF Record, Statuses
  <2>5. CASE Catch(d) \/ CatchSkips(d) \/ CatchRow(d)
    BY <2>5 DEF Catch, CatchSkips, CatchRow, Statuses
  <2>6. CASE CollectionComplete(d) \/ CollectionSettled(d) \/ CollectionFailed(d)
    BY <2>6 DEF CollectionComplete, CollectionSettled, CollectionFailed, Statuses
  <2>7. CASE InsertPot(d) \/ AddToPot(d) \/ TakeFromPot(d) \/ PayOut(d)
    BY <2>7 DEF InsertPot, AddToPot, TakeFromPot, PayOut
  <2>8. CASE ReadPot(d)
    BY <2>8 DEF ReadPot
  <2>9. QED
    BY <1>1, <2>1, <2>2, <2>3, <2>4, <2>5, <2>6, <2>7, <2>8 DEF Step
<1>2. ASSUME NEW d \in Calls, CallStops(d) \/ HandlerStops(d) PROVE TypeOK'
  BY <1>2 DEF CallStops, HandlerStops, Statuses
<1>3. ASSUME NEW d \in Calls, Handlers(d) PROVE TypeOK'
  <2>1. StatusOf(d) \in Statuses
    BY DEF StatusOf, Statuses
  <2>2. QED
    BY <1>3, <2>1 DEF Handlers, SyncFetch, SyncApply, HandlerReverses, Repair, Statuses, payVars
<1>4. ASSUME NEW d \in Calls, NEW status \in {"pending", "success", "failed"},
             StatusWebhook(d, status)
      PROVE  TypeOK'
  BY <1>4 DEF StatusWebhook, Statuses
<1>5. ASSUME NEW d \in Calls, NEW outcome \in {"paid", "failed"},
             ProviderEnds(d, outcome) \/ PayIn(d, outcome)
      PROVE  TypeOK'
  BY <1>5 DEF ProviderEnds, PayIn
<1>6. ASSUME (\E x \in Pots : syncPotInterest(x)) \/ NextDay PROVE TypeOK'
  BY <1>6 DEF syncPotInterest, NextDay, payVars
<1>7. Payouts \subseteq Calls /\ TopUps \subseteq Calls
  BY PayoutsAreCalls
<1>8. QED
  BY <1>1, <1>2, <1>3, <1>4, <1>5, <1>6, <1>7 DEF Next

\* What makes a call's debit be credited back: its catch block, or a failure on its row.
Returns(c) ==
  \/ Catch(c)
  \/ HasDebit(c) /\ (HandlerReverses(c) \/ Repair(c))

\* The steps of a call that post, by which their movements are keyed.
CallSteps == {"debit", "credit", "reversal", "inflow", "payout"}

LedgerKept ==
  /\ LedgerTypeOK'
  /\ \A m \in movements : m \in movements'
  /\ \A m \in movements' : m \in movements \/ \E d \in Calls, s \in CallSteps : m.key = Key(d, s)
  /\ KeyedMovements'
  /\ \A c \in Calls : HasDebit(c) => HasDebit(c)'
  /\ \A c \in Calls : Reversed(c)' => Reversed(c) \/ Returns(c)

LEMMA LedgerStep ==
  ASSUME TypeOK, KeyedMovements, Next
  PROVE  LedgerKept
<1>1. LedgerTypeOK /\ KeyedMovements
  BY DEF TypeOK
<1>2. CASE UNCHANGED ledgerVars
  BY <1>1, <1>2, NoPosting DEF LedgerKept, ledgerVars
<1>3. ASSUME NEW d \in Calls, Debit(d), ~UNCHANGED ledgerVars PROVE LedgerKept
  <2>1. d.from \in Accounts /\ d.amount \in Nat
    BY CallFields
  <2>2. debits(Key(d, "debit"), d.from, d.amount) /\ debit(Key(d, "debit"), d.from, d.amount)
    BY <1>3 DEF Debit
  <2>3. /\ LedgerTypeOK'
        /\ \A m \in movements : m \in movements'
        /\ \A m \in movements' :
             m \in movements \/ m = Movement(Key(d, "debit"), "debit", d.from, d.amount)
    BY <1>1, <2>1, <2>2, DebitOne
  <2>4. /\ KeyedMovements'
        /\ \A c \in Calls : HasDebit(c) => HasDebit(c)'
        /\ \A c \in Calls : Reversed(c)' => Reversed(c)
    BY <1>1, <2>3, Posting
  <2>5. QED
    BY <2>3, <2>4 DEF LedgerKept, Movement, CallSteps
<1>4. ASSUME NEW d \in Calls, NEW s \in {"credit", "reversal", "inflow", "payout"},
             NEW w \in Accounts, s = "reversal" => w = d.from,
             credit(Key(d, s), w, d.amount), s = "reversal" => Returns(d)
      PROVE  LedgerKept
  <2>1. d.amount \in Nat
    BY CallFields
  <2>2. /\ LedgerTypeOK'
        /\ \A m \in movements : m \in movements'
        /\ \A m \in movements' :
             m \in movements \/ m = Movement(Key(d, s), "credit", w, d.amount)
    BY <1>1, <1>4, <2>1, CreditOne
  <2>3. /\ KeyedMovements'
        /\ \A c \in Calls : HasDebit(c) => HasDebit(c)'
        /\ \A c \in Calls : Reversed(c)' => Reversed(c) \/ (c = d /\ s = "reversal")
    BY <1>1, <1>4, <2>2, Posting
  <2>4. QED
    BY <1>4, <2>2, <2>3 DEF LedgerKept, Movement, CallSteps
<1>5. ASSUME NEW d \in Calls, Credit(d) \/ CollectionComplete(d) \/ PayOut(d)
      PROVE  LedgerKept
  <2>1. d.to \in Accounts
    BY CallFields
  <2>2. \E s \in {"credit", "inflow", "payout"} : credit(Key(d, s), d.to, d.amount)
    BY <1>5 DEF Credit, CollectionComplete, PayOut
  <2>3. QED
    BY <1>4, <2>1, <2>2
<1>6. ASSUME NEW d \in Calls, Catch(d) \/ HandlerReverses(d) \/ Repair(d),
             ~UNCHANGED ledgerVars
      PROVE  LedgerKept
  <2>1. d.from \in Accounts
    BY CallFields
  <2>2. credit(Key(d, "reversal"), d.from, d.amount) /\ Returns(d)
    BY <1>6 DEF Catch, HandlerReverses, Repair, Reverse, Returns
  <2>3. QED
    BY <1>4, <2>1, <2>2
<1>7. Payouts \subseteq Calls /\ TopUps \subseteq Calls
  BY PayoutsAreCalls
<1>8. ASSUME ~UNCHANGED ledgerVars
      PROVE  \E d \in Calls : \/ Debit(d) \/ Credit(d) \/ CollectionComplete(d) \/ PayOut(d)
                              \/ Catch(d) \/ HandlerReverses(d) \/ Repair(d)
  BY <1>7, <1>8 DEF Next, Step, Handlers, Request, Record, CatchSkips, CatchRow,
     CollectionSettled, CollectionFailed, InsertPot, ReadPot, AddToPot, TakeFromPot, CallStops,
     HandlerStops, SyncFetch, SyncApply, StatusWebhook, ProviderEnds, PayIn, syncPotInterest,
     NextDay
<1>9. QED
  BY <1>2, <1>3, <1>5, <1>6, <1>8

\* What every step keeps of a payout.
LEMMA PayoutStep ==
  ASSUME IInv, "lost" \notin Answers, NEW c \in Payouts, LedgerKept, TypeOK', Next
  PROVE  PayoutInv(c)'
<1>1. c \in Calls /\ c \notin TopUps /\ PayoutInv(c) /\ TypeOK /\ c.kind \in {"bank", "bill", "send"}
  BY PayoutsAreCalls DEF IInv, PayoutInv, Payouts
<1>2. HasDebit(c) => HasDebit(c)'
  BY <1>1 DEF LedgerKept
<1>3. ~Returns(c) => (Reversed(c)' => Reversed(c))
  BY <1>1 DEF LedgerKept
<1>4. Failed(c) /\ order'[c] = order[c] /\ pc'[c] \in {pc[c], "done"} => Failed(c)'
  BY DEF Failed
<1>5. StatusOf(c) = "failed" => order[c] = "failed"
  BY DEF StatusOf
<1>a. CASE Returns(c) /\ Catch(c)
  <2>1. HasDebit(c) /\ order[c] = "none" /\ pc[c] = "catch" /\ ~Failed(c)
    BY <1>a, <1>1 DEF Catch, PayoutInv, PayoutAt, Failed
  <2>2. /\ order'[c] = "none" /\ pc'[c] \in {"done", "catchRow"}
        /\ row'[c] = row[c] /\ fetched'[c] = fetched[c] /\ reversing' = reversing
    BY <1>a, <1>1, <2>1 DEF Catch, TypeOK, Goto
  <2>3. PayoutAt(c)'
    BY <1>2, <2>1, <2>2 DEF PayoutAt
  <2>4. FailureIsTrue(c)'
    BY <1>1, <2>1, <2>2 DEF PayoutInv, FailureIsTrue
  <2>5. ReversalAt(c)'
    BY <1>2, <2>1, <2>2 DEF ReversalAt, Failed
  <2>6. QED
    BY <2>3, <2>4, <2>5 DEF PayoutInv
<1>b. CASE HasDebit(c) /\ (HandlerReverses(c) \/ Repair(c))
  <2>1. Failed(c)
    BY <1>b, <1>1 DEF HandlerReverses, Repair, PayoutInv, FailureIsTrue
  <2>2. /\ order' = order /\ pc' = pc /\ row' = row /\ fetched' = fetched
        /\ c \in reversing' => c \in reversing
    BY <1>b DEF HandlerReverses, Repair, payVars
  <2>3. Failed(c)'
    BY <2>1, <2>2 DEF Failed
  <2>4. QED
    BY <1>1, <1>2, <1>b, <2>2, <2>3 DEF PayoutInv, PayoutAt, FailureIsTrue, ReversalAt
<1>c. CASE ~Returns(c)
  <2> DEFINE Stays == /\ pc'[c] \in {pc[c], "done"} /\ order'[c] = order[c]
                      /\ row'[c] = row[c] /\ fetched'[c] \in {fetched[c], "none"}
                      /\ c \in reversing' => c \in reversing
  <2>1. Stays => PayoutInv(c)'
    BY <1>1, <1>2, <1>3, <1>c, PayoutStays
  <2>2. Reversed(c)' => Reversed(c)
    BY <1>3, <1>c
  <2> HIDE DEF Stays
  <2>3. ASSUME NEW d \in Calls, Step(d), d # c PROVE Stays
    BY <2>3, <1>1 DEF Stays, Step, Debit, Credit, Request, Record, Catch, CatchSkips, CatchRow,
       CollectionComplete, CollectionSettled, CollectionFailed, InsertPot, ReadPot, AddToPot,
       TakeFromPot, PayOut, Goto, TypeOK
  <2>4. ASSUME Step(c) PROVE PayoutInv(c)'
    <3>1. CASE Debit(c)
      <4>1. pc[c] = "start" /\ order[c] = "none" /\ ~Failed(c) /\ AfterDebit[c.kind] = "request"
        BY <1>1, <3>1, PayoutAfterDebit DEF Debit, PayoutInv, PayoutAt, Failed
      <4>2. /\ order' = order /\ row' = row /\ fetched' = fetched /\ reversing' = reversing
            /\ pc'[c] \in {"request", "done"}
        BY <1>1, <3>1, <4>1 DEF Debit, Goto, TypeOK
      <4>3. pc'[c] = "request" => HasDebit(c)'
        <5>1. SUFFICES ASSUME pc'[c] = "request" PROVE HasDebit(c)'
          OBVIOUS
        <5>2. debits(Key(c, "debit"), c.from, c.amount) /\ debit(Key(c, "debit"), c.from, c.amount)
          BY <1>1, <3>1, <5>1 DEF Debit, Goto, TypeOK
        <5>3. \E m \in movements' : m.key = Key(c, "debit")
          BY <1>1, <5>2, DebitOne, CallFields DEF TypeOK
        <5>4. QED
          BY <1>1, <5>3 DEF LedgerKept, KeyedMovements, HasDebit, Key, Movement
      <4>4. QED
        BY <1>1, <2>2, <4>1, <4>2, <4>3
           DEF PayoutInv, PayoutAt, FailureIsTrue, ReversalAt, Failed
    <3>2. CASE Request(c)
      <4>1. pc[c] = "request" /\ order[c] = "none" /\ ~Failed(c) /\ HasDebit(c)
        BY <1>1, <3>2 DEF Request, PayoutInv, PayoutAt, Failed
      <4>2. PICK answer \in Answers :
              /\ answer = "failed" => c \in Sends
              /\ order' = [order EXCEPT ![c] = CASE answer = "refused" -> "none"
                                                 [] answer = "failed"  -> "failed"
                                                 [] OTHER              -> "open"]
              /\ Goto(c, IF answer \in {"refused", "lost"} THEN "catch"
                         ELSE IF c \notin Sends THEN "done"
                         ELSE IF answer = "failed" THEN "recordFailed" ELSE "record")
        BY <3>2 DEF Request
      <4>3. answer \in {"accepted", "failed", "refused"}
        BY CallsAssumption
      <4>4. row' = row /\ fetched' = fetched /\ reversing' = reversing
        BY <3>2 DEF Request
      <4>5. \/ pc'[c] = "catch" /\ order'[c] = "none"
            \/ pc'[c] \in {"done", "record"} /\ order'[c] = "open"
            \/ pc'[c] = "recordFailed" /\ order'[c] = "failed"
        <5>1. CASE answer = "refused"
          BY <1>1, <4>2, <5>1 DEF Goto, TypeOK
        <5>2. CASE answer = "failed"
          BY <1>1, <4>2, <5>2 DEF Goto, TypeOK
        <5>3. CASE answer = "accepted"
          BY <1>1, <4>2, <5>3 DEF Goto, TypeOK
        <5>4. QED
          BY <4>3, <5>1, <5>2, <5>3
      <4>6. QED
        BY <1>1, <1>2, <2>2, <4>1, <4>4, <4>5
           DEF PayoutInv, PayoutAt, FailureIsTrue, ReversalAt, Failed
    <3>3. CASE Record(c)
      <4>1. pc[c] = "recordFailed" => order[c] = "failed"
        BY <1>1 DEF PayoutInv, PayoutAt
      <4>2. /\ pc[c] \in {"record", "recordFailed"} /\ pc'[c] = "done"
            /\ order' = order /\ fetched' = fetched
            /\ row'[c] = "failed" \/ (c \in reversing' /\ c \notin reversing)
                 => pc[c] = "recordFailed"
        BY <1>1, <3>3 DEF Record, Goto, TypeOK
      <4>3. QED
        BY <1>1, <1>2, <2>2, <4>1, <4>2
           DEF PayoutInv, PayoutAt, FailureIsTrue, ReversalAt, Failed
    <3>4. CASE Catch(c)
      BY <1>c, <3>4 DEF Returns
    <3>5. CASE CatchSkips(c) \/ CatchRow(c)
      <4>1. /\ pc[c] \in {"catch", "catchRow"} /\ order' = order /\ fetched' = fetched
            /\ reversing' = reversing
            /\ \/ pc[c] = "catch" /\ pc'[c] = "catchRow" /\ row' = row
               \/ pc[c] = "catchRow" /\ pc'[c] = "done"
        BY <1>1, <3>5 DEF CatchSkips, CatchRow, Goto, TypeOK
      <4>2. QED
        BY <1>1, <1>2, <2>2, <4>1 DEF PayoutInv, PayoutAt, FailureIsTrue, ReversalAt, Failed
    <3>6. ~(Credit(c) \/ CollectionComplete(c) \/ CollectionSettled(c) \/ CollectionFailed(c)
             \/ InsertPot(c) \/ ReadPot(c) \/ AddToPot(c) \/ TakeFromPot(c) \/ PayOut(c))
      BY <1>1 DEF PayoutInv, PayoutAt, Credit, CollectionComplete, CollectionSettled,
         CollectionFailed, InsertPot, ReadPot, AddToPot, TakeFromPot, PayOut
    <3>7. QED
      BY <2>4, <3>1, <3>2, <3>3, <3>4, <3>5, <3>6 DEF Step
  <2>5. ASSUME NEW d \in Calls, CallStops(d) \/ HandlerStops(d) PROVE Stays
    BY <2>5, <1>1 DEF Stays, CallStops, HandlerStops, Goto, TypeOK
  <2>6. ASSUME NEW d \in Calls, SyncFetch(d) \/ SyncApply(d) PROVE PayoutInv(c)'
    <3>1. CASE d # c
      <4>1. Stays
        BY <1>1, <2>6, <3>1 DEF Stays, SyncFetch, SyncApply, TypeOK
      <4>2. QED
        BY <2>1, <4>1
    <3>2. CASE d = c
      <4>1. /\ pc' = pc /\ order' = order
            /\ row'[c] = "failed" \/ fetched'[c] = "failed" \/ c \in reversing'
                 => StatusOf(c) = "failed" \/ row[c] = "failed" \/ fetched[c] = "failed"
                    \/ c \in reversing
        BY <1>1, <2>6, <3>2 DEF SyncFetch, SyncApply, TypeOK
      <4>2. QED
        BY <1>1, <1>2, <1>5, <2>2, <4>1
           DEF PayoutInv, PayoutAt, FailureIsTrue, ReversalAt, Failed
    <3>3. QED
      BY <3>1, <3>2
  <2>7. ASSUME NEW d \in Calls, HandlerReverses(d) \/ Repair(d) PROVE Stays
    BY <2>7 DEF Stays, HandlerReverses, Repair, payVars
  <2>8. ASSUME NEW d \in Calls, NEW status \in {"pending", "success", "failed"},
               StatusWebhook(d, status)
        PROVE  PayoutInv(c)'
    <3>1. CASE d # c
      <4>1. Stays
        BY <1>1, <2>8, <3>1 DEF Stays, StatusWebhook, TypeOK
      <4>2. QED
        BY <2>1, <4>1
    <3>2. CASE d = c
      <4>1. /\ pc' = pc /\ order' = order /\ fetched' = fetched
            /\ row'[c] = "failed" \/ (c \in reversing' /\ c \notin reversing)
                 => StatusOf(c) = "failed"
        BY <1>1, <2>8, <3>2 DEF StatusWebhook, TypeOK
      <4>2. QED
        BY <1>1, <1>2, <1>5, <2>2, <4>1
           DEF PayoutInv, PayoutAt, FailureIsTrue, ReversalAt, Failed
    <3>3. QED
      BY <3>1, <3>2
  <2>9. ASSUME NEW d \in Payouts, NEW outcome \in {"paid", "failed"}, ProviderEnds(d, outcome)
        PROVE  PayoutInv(c)'
    <3>1. CASE d # c
      <4>1. Stays
        BY <1>1, <2>9, <3>1 DEF Stays, ProviderEnds, TypeOK
      <4>2. QED
        BY <2>1, <4>1
    <3>2. CASE d = c
      <4>1. /\ order[c] = "open" /\ order'[c] = outcome
            /\ pc' = pc /\ row' = row /\ fetched' = fetched /\ reversing' = reversing
        BY <1>1, <2>9, <3>2 DEF ProviderEnds, TypeOK
      <4>2. QED
        BY <1>1, <1>2, <2>2, <4>1
           DEF PayoutInv, PayoutAt, FailureIsTrue, ReversalAt, Failed
    <3>3. QED
      BY <3>1, <3>2
  <2>10. ASSUME NEW d \in TopUps, NEW outcome \in {"paid", "failed"}, PayIn(d, outcome)
         PROVE  Stays
    BY <1>1, <2>10 DEF Stays, PayIn, TypeOK
  <2>11. ASSUME (\E x \in Pots : syncPotInterest(x)) \/ NextDay PROVE Stays
    BY <2>11 DEF Stays, syncPotInterest, NextDay, payVars
  <2>12. QED
    BY <2>1, <2>3, <2>4, <2>5, <2>6, <2>7, <2>8, <2>9, <2>10, <2>11 DEF Next, Handlers
<1>6. QED
  BY <1>a, <1>b, <1>c DEF Returns

LEMMA StepInv ==
  ASSUME IInv, "lost" \notin Answers, [Next]_vars
  PROVE  IInv'
<1>1. CASE Next
  <2>1. LedgerKept
    BY <1>1, LedgerStep DEF IInv
  <2>2. TypeOK'
    BY <1>1, <2>1, TypeStep DEF IInv, LedgerKept
  <2>3. \A c \in Payouts : PayoutInv(c)'
    BY <1>1, <2>1, <2>2, PayoutStep
  <2>4. QED
    BY <2>1, <2>2, <2>3 DEF IInv, LedgerKept, PayoutInv
<1>2. CASE UNCHANGED vars
  BY <1>2 DEF vars, ledgerVars, payVars, potVars, IInv, TypeOK, LedgerTypeOK, KeyedMovements,
     PayoutAt, FailureIsTrue, ReversalAt, Failed, Reversed, HasDebit, findMovementByKey, Key,
     Movement
<1>3. QED
  BY <1>1, <1>2

LEMMA InvImplies == IInv => ReversalIsOfFailed
<1>1. SUFFICES ASSUME IInv, NEW c \in Payouts, Reversed(c)
               PROVE  /\ HasDebit(c)
                      /\ Movement(Key(c, "reversal"), "credit", c.from, c.amount) \in movements
                      /\ order[c] \in {"none", "failed"}
  BY DEF ReversalIsOfFailed
<1>2. c \in Calls
  BY PayoutsAreCalls
<1>3. Movement(Key(c, "reversal"), "credit", c.from, c.amount) \in movements
  BY <1>1, <1>2 DEF IInv, KeyedMovements, Reversed, findMovementByKey
<1>4. QED
  BY <1>1, <1>3 DEF IInv, ReversalAt, Failed

-----------------------------------------------------------------------------
(***************************************************************************)
(* Conversations.  Whatever rule answers a message, what it writes into    *)
(* the row is a draft without a review's number, a deposit, or the review  *)
(* of this very message; its amount was named in this message or stood in  *)
(* the row when the handler read it (Wrote).  A cancellation ends what the *)
(* handler has read as well as what is in the row.                         *)
(***************************************************************************)
IntentNames == {"none", "SEND_MONEY", "PAY_BILL", "SEND_YC", "SEND_CRYPTO", "FUND_CRYPTO"}

IntentStatuses == {"none", "COLLECTING_INFORMATION", "AWAITING_CONFIRMATION", "AWAITING_DEPOSIT",
                   "AWAITING_AUTHORIZATION", "PROCESSING", "COMPLETED", "FAILED", "CANCELLED"}

Wants == {"recipientLabel", "candidates", "bankHint", "account", "category", "amount", "bank",
          "asset", "issued", "address"}

SlotValues == [amount : Nat, to : Nat, pending : SUBSET Wants, by : Nat]

IntentRow == [intent : IntentNames, status : IntentStatuses, slots : SlotValues]

Handling == [at : {"idle", "button", "route", "rules", "issue"}, said : Utterances \cup {Silence},
             seen : IntentRow, planned : BOOLEAN]

TalkTyped ==
  /\ intent \in IntentRow
  /\ handling \in [Messages -> Handling]
  /\ heard \in 0..MaxMessages /\ recent \in Nat /\ closed \in 0..heard
  /\ \A n \in Messages : handling[n].at # "idle" => n <= heard /\ closed <= n
  /\ intent.intent = "none" \/ intent.status = "none" => intent = NoIntent

\* An amount that was named after the last cancellation, or none.
Fresh(amount) == amount = 0 \/ amount >= closed

TalkInv ==
  /\ TalkTyped
  /\ intent.status \notin Terminal => Fresh(intent.slots.amount)
  /\ \A n \in Messages : handling[n].at # "idle" => Fresh(seen(n).slots.amount)

\* What a rule writes.
Wrote(n) ==
  /\ intent' \in IntentRow
  /\ intent'.intent # "none"
  /\ \/ intent'.status \in {"COLLECTING_INFORMATION", "AWAITING_DEPOSIT"} /\ intent'.slots.by = 0
     \/ intent'.status = "AWAITING_CONFIRMATION" /\ intent'.slots.by = n
  /\ intent'.slots.amount \in {0, n, seen(n).slots.amount}

LEMMA UpsertWrites ==
  ASSUME NEW n \in Nat, NEW name \in IntentNames \ {"none"}, NEW status \in IntentStatuses,
         NEW slots \in SlotValues, upsertActiveIntent(name, status, slots),
         slots.amount \in {0, n, seen(n).slots.amount},
         \/ status \in {"COLLECTING_INFORMATION", "AWAITING_DEPOSIT"} /\ slots.by = 0
         \/ status = "AWAITING_CONFIRMATION" /\ slots.by = n
  PROVE  Wrote(n)
BY DEF upsertActiveIntent, Wrote, IntentRow

LEMMA CollectWrites ==
  ASSUME NEW n \in Nat, NEW name \in IntentNames \ {"none"}, NEW slots \in SlotValues,
         Collect(name, slots), slots.amount \in {0, n, seen(n).slots.amount}
  PROVE  Wrote(n)
<1>1. PICK s : s = [slots EXCEPT !.by = 0]
  OBVIOUS
<1>2. s \in SlotValues /\ s.by = 0 /\ s.amount = slots.amount
  BY <1>1 DEF SlotValues
<1>3. upsertActiveIntent(name, "COLLECTING_INFORMATION", s)
  BY <1>1 DEF Collect
<1>4. QED
  BY <1>2, <1>3, UpsertWrites DEF IntentStatuses

LEMMA ReviewWrites ==
  ASSUME NEW n \in Nat, NEW name \in IntentNames \ {"none"}, NEW slots \in SlotValues,
         Review(n, name, slots), slots.amount \in {0, n, seen(n).slots.amount}
  PROVE  Wrote(n)
<1>1. PICK s : s = [slots EXCEPT !.pending = {}, !.by = n]
  OBVIOUS
<1>2. s \in SlotValues /\ s.by = n /\ s.amount = slots.amount
  BY <1>1 DEF SlotValues
<1>3. upsertActiveIntent(name, "AWAITING_CONFIRMATION", s)
  BY <1>1 DEF Review
<1>4. QED
  BY <1>2, <1>3, UpsertWrites DEF IntentStatuses

LEMMA SlotsTyped ==
  ASSUME NEW amount \in Nat, NEW to \in Nat, NEW pending \in SUBSET Wants
  PROVE  /\ Slots(amount, to, pending) \in SlotValues
         /\ Slots(amount, to, pending).amount = amount
BY DEF Slots, SlotValues

\* The copy of the row that the handler has read.
LEMMA SeenTyped ==
  ASSUME TalkTyped, NEW n \in Messages
  PROVE  /\ seen(n) \in IntentRow /\ seen(n).slots \in SlotValues
         /\ seen(n).slots.amount \in Nat /\ seen(n).slots.to \in Nat
         /\ seen(n).slots.pending \in SUBSET Wants
         /\ n \in Nat /\ n # 0 /\ recent \in Nat
BY ConversationAssumption DEF TalkTyped, Handling, seen, IntentRow, SlotValues, Messages

LEMMA FundWrites ==
  ASSUME TalkTyped, NEW n \in Messages, NEW status \in {"COLLECTING_INFORMATION", "AWAITING_DEPOSIT"},
         NEW pending \in SUBSET Wants, Fund(status, pending)
  PROVE  Wrote(n)
<1>1. PICK s : s = Slots(0, 0, pending)
  OBVIOUS
<1>2. s \in SlotValues /\ s.by = 0 /\ s.amount = 0 /\ n \in Nat
  BY <1>1, SeenTyped DEF Slots, SlotValues
<1>3. upsertActiveIntent("FUND_CRYPTO", status, s)
  BY <1>1 DEF Fund
<1>4. QED
  BY <1>2, <1>3, UpsertWrites DEF IntentStatuses, IntentNames

LEMMA DraftWrites ==
  ASSUME TalkTyped, NEW n \in Messages, NEW amount \in {0, n, seen(n).slots.amount}, NEW to \in Nat,
         NEW pending \in SUBSET Wants, NEW name \in IntentNames \ {"none"},
         \/ Collect(name, Slots(amount, to, pending))
         \/ Review(n, name, Slots(amount, to, pending))
  PROVE  Wrote(n)
<1>1. amount \in Nat /\ n \in Nat
  BY SeenTyped
<1>2. PICK s : s = Slots(amount, to, pending)
  OBVIOUS
<1>3. s \in SlotValues /\ s.amount = amount
  BY <1>1, <1>2, SlotsTyped
<1>4. Collect(name, s) \/ Review(n, name, s)
  BY <1>2
<1>5. QED
  BY <1>1, <1>3, <1>4, CollectWrites, ReviewWrites

LEMMA FinalizeWrites ==
  ASSUME TalkTyped, NEW n \in Messages, NEW amount \in {0, n, seen(n).slots.amount}, NEW to \in Nat,
         finalizeSendReview(n, amount, to)
  PROVE  Wrote(n) /\ recent' \in Nat
<1>1. recent' \in Nat
  BY SeenTyped DEF finalizeSendReview
<1>2. \/ Collect("SEND_MONEY", Slots(amount, to, {}))
      \/ Review(n, "SEND_MONEY", Slots(amount, to, {}))
  BY DEF finalizeSendReview
<1>3. {} \in SUBSET Wants /\ "SEND_MONEY" \in IntentNames \ {"none"}
  BY DEF IntentNames
<1>4. QED
  BY <1>1, <1>2, <1>3, DraftWrites

LEMMA FoundWrites ==
  ASSUME TalkTyped, NEW n \in Messages, NEW amount \in {0, n, seen(n).slots.amount}, NEW to \in Nat,
         Found(n, amount, to)
  PROVE  Wrote(n) /\ recent' \in Nat
<1>1. CASE amount = 0
  <2>1. Collect("SEND_MONEY", Slots(amount, to, {})) /\ recent' = recent
    BY <1>1 DEF Found
  <2>2. {} \in SUBSET Wants /\ "SEND_MONEY" \in IntentNames \ {"none"}
    BY DEF IntentNames
  <2>3. QED
    BY <2>1, <2>2, DraftWrites, SeenTyped
<1>2. CASE amount # 0
  BY <1>2, FinalizeWrites DEF Found
<1>3. QED
  BY <1>1, <1>2

LEMMA SeveralWrites ==
  ASSUME TalkTyped, NEW n \in Messages, NEW amount \in {0, n, seen(n).slots.amount}, Several(amount)
  PROVE  Wrote(n) /\ recent' \in Nat
<1>1. /\ Collect("SEND_MONEY", Slots(amount, 0, {"recipientLabel", "candidates"}))
      /\ recent' = recent
  BY DEF Several
<1>2. {"recipientLabel", "candidates"} \in SUBSET Wants /\ "SEND_MONEY" \in IntentNames \ {"none"}
  BY DEF IntentNames, Wants
<1>3. QED
  BY <1>1, <1>2, DraftWrites, SeenTyped

LEMMA DeferWrites == ASSUME TalkTyped, NEW n \in Messages, Defer(n) PROVE Wrote(n) /\ recent' \in Nat
<1>0. PICK t \in SlotValues : t = seen(n).slots
  BY SeenTyped
<1>1. PICK s : s = [t EXCEPT !.pending = @ \ {"bankHint"}]
  OBVIOUS
<1>2. s \in SlotValues /\ s.amount = t.amount
  BY <1>1 DEF SlotValues
<1>3. Collect("SEND_MONEY", s) /\ recent' = recent
  BY <1>0, <1>1 DEF Defer
<1>4. "SEND_MONEY" \in IntentNames \ {"none"}
  BY DEF IntentNames
<1>5. QED
  BY <1>0, <1>2, <1>3, <1>4, CollectWrites, SeenTyped

LEMMA DestinationWrites == ASSUME TalkTyped, NEW n \in Messages, Destination(n) PROVE Wrote(n) /\ recent' \in Nat
<1>1. PICK amount : amount = IF said(n).amount THEN n ELSE seen(n).slots.amount
  OBVIOUS
<1>2. amount \in {0, n, seen(n).slots.amount}
  BY <1>1
<1>3. \/ \E what \in {"bankHint", "account"} :
           /\ Collect("SEND_MONEY", [seen(n).slots EXCEPT !.amount = amount, !.pending = @ \cup {what}])
           /\ recent' = recent
      \/ Found(n, amount, n)
  BY <1>1 DEF Destination
<1>4. ASSUME NEW what \in {"bankHint", "account"},
             Collect("SEND_MONEY", [seen(n).slots EXCEPT !.amount = amount, !.pending = @ \cup {what}])
      PROVE  Wrote(n)
  <2>0. PICK t \in SlotValues : t = seen(n).slots
    BY SeenTyped
  <2>1. PICK s : s = [t EXCEPT !.amount = amount, !.pending = @ \cup {what}]
    OBVIOUS
  <2>2. s \in SlotValues /\ s.amount = amount
    <3>1. amount \in Nat /\ {what} \subseteq Wants
      BY <1>2, SeenTyped DEF Wants
    <3>2. QED
      BY <2>1, <3>1 DEF SlotValues
  <2>3. Collect("SEND_MONEY", s)
    BY <1>4, <2>0, <2>1
  <2>4. "SEND_MONEY" \in IntentNames \ {"none"}
    BY DEF IntentNames
  <2>5. QED
    BY <1>2, <2>2, <2>3, <2>4, CollectWrites, SeenTyped
<1>5. QED
  BY <1>2, <1>3, <1>4, FoundWrites, SeenTyped

LEMMA BankNameWrites == ASSUME TalkTyped, NEW n \in Messages, BankName(n) PROVE Wrote(n) /\ recent' \in Nat
<1>1. CASE Found(n, seen(n).slots.amount, n)
  BY <1>1, FoundWrites, SeenTyped
<1>2. CASE /\ Collect("SEND_MONEY", [seen(n).slots EXCEPT !.pending = @ \cup {"bankHint"}])
           /\ recent' = recent
  <2>0. PICK t \in SlotValues : t = seen(n).slots
    BY SeenTyped
  <2>1. PICK s : s = [t EXCEPT !.pending = @ \cup {"bankHint"}]
    OBVIOUS
  <2>2. s \in SlotValues /\ s.amount = t.amount
    BY <2>1 DEF SlotValues, Wants
  <2>3. Collect("SEND_MONEY", s)
    BY <1>2, <2>0, <2>1
  <2>4. "SEND_MONEY" \in IntentNames \ {"none"}
    BY DEF IntentNames
  <2>5. QED
    BY <1>2, <2>0, <2>2, <2>3, <2>4, CollectWrites, SeenTyped
<1>3. QED
  BY <1>1, <1>2 DEF BankName

LEMMA ResumeWrites == ASSUME TalkTyped, NEW n \in Messages, Resume(n) PROVE Wrote(n) /\ recent' \in Nat
<1>1. CASE finalizeSendReview(n, n, recent)
  BY <1>1, FinalizeWrites, SeenTyped
<1>2. CASE Collect("SEND_MONEY", Slots(n, 0, {"recipientLabel"})) /\ recent' = recent
  <2>1. {"recipientLabel"} \in SUBSET Wants /\ "SEND_MONEY" \in IntentNames \ {"none"}
    BY DEF IntentNames, Wants
  <2>2. QED
    BY <1>2, <2>1, DraftWrites, SeenTyped
<1>3. QED
  BY <1>1, <1>2 DEF Resume

LEMMA SendWrites == ASSUME TalkTyped, NEW n \in Messages, Send(n) PROVE Wrote(n) /\ recent' \in Nat
<1> DEFINE inherits == seen(n).intent = "SEND_MONEY"
           amount0 == IF ~said(n).amount /\ inherits THEN seen(n).slots.amount ELSE Named(n)
           who0 == CASE said(n).to = "none"    -> IF inherits THEN seen(n).slots.to ELSE 0
                     [] said(n).to = "pronoun" -> recent
                     [] OTHER            -> n
<1>1. PICK amount, who : amount = amount0 /\ who = who0
  OBVIOUS
<1>2. amount \in {0, n, seen(n).slots.amount}
  BY <1>1 DEF Named
<1>3. who \in Nat
  <2>1. CASE said(n).to = "none"
    BY <1>1, <2>1, SeenTyped
  <2>2. CASE said(n).to = "pronoun"
    BY <1>1, <2>2, SeenTyped
  <2>3. CASE said(n).to \notin {"none", "pronoun"}
    BY <1>1, <2>3, SeenTyped
  <2>4. QED
    BY <2>1, <2>2, <2>3
<1>4. \/ \E pending \in {{"bankHint"}, {"account"}, {}, {"recipientLabel"}} :
           Collect("SEND_MONEY", Slots(amount, 0, pending)) /\ recent' = recent
      \/ Several(amount)
      \/ Found(n, amount, who)
  BY <1>1 DEF Send
<1>5. ASSUME NEW pending \in {{"bankHint"}, {"account"}, {}, {"recipientLabel"}},
             Collect("SEND_MONEY", Slots(amount, 0, pending)), recent' = recent
      PROVE  Wrote(n) /\ recent' \in Nat
  <2>1. pending \in SUBSET Wants /\ "SEND_MONEY" \in IntentNames \ {"none"}
    BY DEF IntentNames, Wants
  <2>2. QED
    BY <1>2, <1>5, <2>1, DraftWrites, SeenTyped
<1>6. QED
  BY <1>2, <1>3, <1>4, <1>5, SeveralWrites, FoundWrites

LEMMA BillWrites == ASSUME TalkTyped, NEW n \in Messages, Bill(n) PROVE Wrote(n) /\ recent' \in Nat
<1>1. PICK begins \in BOOLEAN :
        LET s == IF begins THEN Slots(0, 0, {"category"}) ELSE seen(n).slots
            filled == Slots(IF said(n).amount THEN n ELSE s.amount,
                            IF said(n).to # "none" THEN n ELSE s.to, {})
        IN \/ "category" \in s.pending /\ Collect("PAY_BILL", s)
           \/ Collect("PAY_BILL", filled)
           \/ filled.amount # 0 /\ filled.to # 0 /\ Review(n, "PAY_BILL", filled)
  BY DEF Bill
<1>2. PICK s : s = IF begins THEN Slots(0, 0, {"category"}) ELSE seen(n).slots
  OBVIOUS
<1>3. s \in SlotValues /\ s.amount \in {0, seen(n).slots.amount} /\ s.amount \in Nat /\ s.to \in Nat
  <2>1. Slots(0, 0, {"category"}) \in SlotValues /\ Slots(0, 0, {"category"}).amount = 0
           /\ Slots(0, 0, {"category"}).to = 0
    BY DEF Slots, SlotValues, Wants
  <2>2. QED
    BY <1>2, <2>1, SeenTyped
<1>4. PICK amount, to : /\ amount = IF said(n).amount THEN n ELSE s.amount
                        /\ to = IF said(n).to # "none" THEN n ELSE s.to
  OBVIOUS
<1>5. amount \in {0, n, seen(n).slots.amount} /\ to \in Nat
  BY <1>3, <1>4, SeenTyped
<1>6. \/ Collect("PAY_BILL", s)
      \/ Collect("PAY_BILL", Slots(amount, to, {})) \/ Review(n, "PAY_BILL", Slots(amount, to, {}))
  BY <1>1, <1>2, <1>4
<1>7. recent' = recent
  BY DEF Bill
<1>8. {} \in SUBSET Wants /\ "PAY_BILL" \in IntentNames \ {"none"}
  BY DEF IntentNames
<1>9. CASE Collect("PAY_BILL", s)
  BY <1>3, <1>7, <1>8, <1>9, CollectWrites, SeenTyped
<1>10. CASE Collect("PAY_BILL", Slots(amount, to, {})) \/ Review(n, "PAY_BILL", Slots(amount, to, {}))
  BY <1>5, <1>7, <1>8, <1>10, DraftWrites, SeenTyped
<1>11. QED
  BY <1>6, <1>9, <1>10

LEMMA CorridorWrites == ASSUME TalkTyped, NEW n \in Messages, Corridor(n) PROVE Wrote(n) /\ recent' \in Nat
<1>1. /\ \E amount \in {0, n, seen(n).slots.amount}, to \in {0, n},
              pending \in {{"bank"}, {"amount"}, {"account"}, {}} :
           \/ Collect("SEND_YC", Slots(amount, to, pending))
           \/ Review(n, "SEND_YC", Slots(amount, to, pending))
      /\ recent' = recent
  <2>1. recent' = recent
    BY DEF Corridor
  <2>2. \/ Collect("SEND_YC", Slots(Named(n), 0, {IF said(n).amount THEN "bank" ELSE "amount"}))
        \/ Collect("SEND_YC", Slots(n, 0, {"bank"}))
        \/ Collect("SEND_YC", Slots(seen(n).slots.amount, 0, {"account"}))
        \/ Review(n, "SEND_YC", Slots(seen(n).slots.amount, n, {}))
    BY DEF Corridor
  <2>3. CASE Collect("SEND_YC", Slots(Named(n), 0, {IF said(n).amount THEN "bank" ELSE "amount"}))
    <3>1. Named(n) \in {0, n, seen(n).slots.amount}
             /\ {IF said(n).amount THEN "bank" ELSE "amount"} \in {{"bank"}, {"amount"}, {"account"}, {}}
      BY DEF Named
    <3>2. QED
      BY <2>1, <2>3, <3>1
  <2>4. CASE \/ Collect("SEND_YC", Slots(n, 0, {"bank"}))
             \/ Collect("SEND_YC", Slots(seen(n).slots.amount, 0, {"account"}))
             \/ Review(n, "SEND_YC", Slots(seen(n).slots.amount, n, {}))
    BY <2>1, <2>4
  <2>5. QED
    BY <2>2, <2>3, <2>4
<1>2. PICK amount \in {0, n, seen(n).slots.amount}, to \in {0, n},
           pending \in {{"bank"}, {"amount"}, {"account"}, {}} :
        \/ Collect("SEND_YC", Slots(amount, to, pending))
        \/ Review(n, "SEND_YC", Slots(amount, to, pending))
  BY <1>1
<1>3. to \in Nat /\ pending \in SUBSET Wants /\ "SEND_YC" \in IntentNames \ {"none"}
  BY SeenTyped DEF IntentNames, Wants
<1>4. QED
  BY <1>1, <1>2, <1>3, DraftWrites, SeenTyped

LEMMA CryptoWrites == ASSUME TalkTyped, NEW n \in Messages, CryptoSend(n) PROVE Wrote(n) /\ recent' \in Nat
<1>1. PICK s : s = IF seen(n).intent = "SEND_CRYPTO" THEN seen(n).slots ELSE Slots(0, 0, {"asset"})
  OBVIOUS
<1>2. s \in SlotValues /\ s.amount \in {0, seen(n).slots.amount} /\ s.amount \in Nat /\ s.to \in Nat
  <2>1. Slots(0, 0, {"asset"}) \in SlotValues /\ Slots(0, 0, {"asset"}).amount = 0
           /\ Slots(0, 0, {"asset"}).to = 0
    BY DEF Slots, SlotValues, Wants
  <2>2. QED
    BY <1>1, <2>1, SeenTyped
<1>3. PICK amount, to : /\ amount = IF said(n).amount THEN n ELSE s.amount
                        /\ to = IF said(n).to # "none" THEN n ELSE s.to
  OBVIOUS
<1>4. amount \in {0, n, seen(n).slots.amount} /\ to \in Nat
  BY <1>2, <1>3, SeenTyped
<1>5. /\ recent' = recent
      /\ \/ Collect("SEND_CRYPTO", [Slots(amount, to, {}) EXCEPT !.pending = {"asset"}])
         \/ Collect("SEND_CRYPTO", Slots(amount, to, {}))
         \/ Review(n, "SEND_CRYPTO", Slots(amount, to, {}))
  BY <1>1, <1>3 DEF CryptoSend
<1>6. [Slots(amount, to, {}) EXCEPT !.pending = {"asset"}] = Slots(amount, to, {"asset"})
  BY DEF Slots
<1>7. /\ {} \in SUBSET Wants /\ {"asset"} \in SUBSET Wants
      /\ "SEND_CRYPTO" \in IntentNames \ {"none"}
  BY DEF IntentNames, Wants
<1>8. \E pending \in {{}, {"asset"}} : \/ Collect("SEND_CRYPTO", Slots(amount, to, pending))
                                       \/ Review(n, "SEND_CRYPTO", Slots(amount, to, pending))
  BY <1>5, <1>6
<1>9. Wrote(n)
  BY <1>4, <1>7, <1>8, DraftWrites
<1>10. QED
  BY <1>5, <1>9, SeenTyped

LEMMA OthersWrite ==
  ASSUME TalkTyped, NEW n \in Messages, Pick(n) \/ Amount(n) \/ Recipient(n) \/ Digits(n)
  PROVE  Wrote(n) /\ recent' \in Nat
<1>1. \/ Found(n, seen(n).slots.amount, n) \/ Several(seen(n).slots.amount)
      \/ finalizeSendReview(n, n, seen(n).slots.to)
  BY DEF Pick, Amount, Recipient, Digits
<1>2. QED
  BY <1>1, FoundWrites, SeveralWrites, FinalizeWrites, SeenTyped

\* What the step of a handler may do to the row: nothing, what a rule writes, or a
\* cancellation.  A review is the last thing a handler does.
Quiet == intent' = intent /\ closed' = closed /\ recent' = recent

Rewrites(n) ==
  /\ Wrote(n) /\ closed' = closed /\ recent' \in Nat
  /\ intent'.status = "AWAITING_CONFIRMATION" => handling'[n].at = "idle"

Cancels(n) == cancelActiveIntent(n) /\ recent' = recent /\ handling'[n].seen = NoIntent

\* The handler of message n takes a step, its first one or another.
TalkEffect(n) ==
  /\ handling' \in [Messages -> Handling]
  /\ \A m \in Messages \ {n} : handling'[m] = handling[m]
  /\ \/ /\ heard' = heard /\ handling[n].at # "idle" /\ (Quiet \/ Rewrites(n) \/ Cancels(n))
        /\ handling'[n].seen \in {handling[n].seen, NoIntent, getActive}
     \/ heard' = heard + 1 /\ n = heard + 1 /\ Quiet /\ handling'[n].seen = getActive

\* What happens in the background ends in a row without an amount.
Background ==
  /\ UNCHANGED <<handling, heard, closed, recent>>
  /\ \/ intent' = intent
     \/ /\ intent' \in IntentRow /\ intent'.intent # "none" /\ intent'.status = "AWAITING_DEPOSIT"
        /\ intent'.slots.by = 0 /\ intent'.slots.amount = 0

LEMMA IdleTyped ==
  /\ Idle \in Handling /\ [Idle EXCEPT !.at = "issue"] \in Handling
  /\ Idle.at = "idle" /\ Idle.seen = NoIntent /\ [Idle EXCEPT !.at = "issue"].seen = NoIntent
  /\ [Idle EXCEPT !.at = "issue"].at = "issue"
  /\ NoIntent \in IntentRow /\ NoIntent.slots.amount = 0 /\ NoIntent.slots.by = 0
BY DEF Idle, Handling, NoIntent, NoSlots, IntentRow, IntentNames, IntentStatuses, SlotValues

LEMMA ActiveTyped ==
  ASSUME TalkTyped
  PROVE  getActive \in IntentRow /\ getActive \in {intent, NoIntent}
BY IdleTyped DEF TalkTyped, getActive

\* One handler goes to another place.
LEMMA HandlerGoes ==
  ASSUME TalkTyped, NEW n \in Messages, NEW h \in Handling, handling' = [handling EXCEPT ![n] = h]
  PROVE  /\ handling' \in [Messages -> Handling] /\ handling'[n] = h
         /\ \A m \in Messages \ {n} : handling'[m] = handling[m]
BY DEF TalkTyped

\* A handler that writes and is done.
LEMMA DoneEffect ==
  ASSUME TalkTyped, NEW n \in Messages, handling[n].at # "idle", Handled(n), heard' = heard,
         \/ Wrote(n) /\ recent' \in Nat /\ closed' = closed
         \/ cancelActiveIntent(n) /\ recent' = recent
         \/ Quiet
  PROVE  TalkEffect(n)
<1>1. /\ handling' \in [Messages -> Handling] /\ handling'[n] = Idle
      /\ \A m \in Messages \ {n} : handling'[m] = handling[m]
  BY HandlerGoes, IdleTyped DEF Handled
<1>2. QED
  BY <1>1, IdleTyped DEF TalkEffect, Rewrites, Cancels, Quiet

LEMMA AnswerEffect ==
  ASSUME TalkTyped, NEW n \in Messages, Answer(n)
  PROVE  TalkEffect(n)
<1>1. handling[n].at \in {"rules", "route"} /\ heard' = heard
  BY DEF Answer
<1>2. PICK rule \in {Route(n)} :
       \/ rule = "plan" /\ Plan(n)
       \/ rule = "deposit" /\ Deposit(n)
       \/ /\ \/ rule = "cancel" /\ Cancel(n)
             \/ rule = "balance" /\ Balance(n)
          /\ Handled(n)
       \/ /\ \/ rule = "defer" /\ Defer(n)
             \/ rule = "pick" /\ Pick(n)
             \/ rule = "destination" /\ Destination(n)
             \/ rule = "amount" /\ Amount(n)
             \/ rule = "resume" /\ Resume(n)
             \/ rule = "recipient" /\ Recipient(n)
             \/ rule = "digits" /\ Digits(n)
             \/ rule = "bankName" /\ BankName(n)
             \/ rule = "send" /\ Send(n)
             \/ rule = "bill" /\ Bill(n)
             \/ rule = "corridor" /\ Corridor(n)
             \/ rule = "crypto" /\ CryptoSend(n)
          /\ Handled(n) /\ UNCHANGED closed
  BY DEF Answer
<1>3. CASE Plan(n)
  <2>1. Quiet
    <3>1. UNCHANGED <<intent, recent, closed>>
      BY <1>3 DEF Plan
    <3>2. QED
      BY <3>1 DEF Quiet
  <2>2. PICK w \in Utterances :
          handling' = [handling EXCEPT ![n].at = "route", ![n].said = w, ![n].planned = TRUE,
                         ![n].seen = IF w.kind = "send" THEN getActive ELSE NoIntent]
    BY <1>3 DEF Plan
  <2>3. PICK r : r = IF w.kind = "send" THEN getActive ELSE NoIntent
    OBVIOUS
  <2>4. r \in IntentRow /\ r \in {NoIntent, getActive}
    BY <2>3, ActiveTyped, IdleTyped
  <2>5. PICK t \in Handling : t = handling[n]
    BY DEF TalkTyped
  <2>6. PICK h : h = [t EXCEPT !.at = "route", !.said = w, !.planned = TRUE, !.seen = r]
    OBVIOUS
  <2>7. h \in Handling /\ h.seen = r /\ h.at = "route"
    BY <2>4, <2>6 DEF Handling
  <2>8. handling' = [handling EXCEPT ![n] = h]
    BY <2>2, <2>3, <2>5, <2>6 DEF TalkTyped
  <2>9. /\ handling' \in [Messages -> Handling] /\ handling'[n] = h
        /\ \A m \in Messages \ {n} : handling'[m] = handling[m]
    BY <2>7, <2>8, HandlerGoes
  <2>10. QED
    BY <1>1, <2>1, <2>4, <2>7, <2>9 DEF TalkEffect
<1>4. CASE Deposit(n)
  <2>1. recent' = recent /\ closed' = closed
    BY <1>4 DEF Deposit
  <2>2. PICK has : has = IF seen(n).intent = "FUND_CRYPTO" THEN seen(n).slots.pending ELSE {}
    OBVIOUS
  <2>3. has \in SUBSET Wants
    BY <2>2, SeenTyped
  <2>4. /\ \/ Fund("COLLECTING_INFORMATION", has)
           \/ Fund("AWAITING_DEPOSIT", has)
        /\ \E h \in {Idle, [Idle EXCEPT !.at = "issue"]} : handling' = [handling EXCEPT ![n] = h]
    BY <1>4, <2>2 DEF Deposit, Handled
  <2>5. Wrote(n)
    BY <2>3, <2>4, FundWrites
  <2>6. intent'.status # "AWAITING_CONFIRMATION"
    BY <2>4 DEF Fund, upsertActiveIntent
  <2>7. PICK h \in {Idle, [Idle EXCEPT !.at = "issue"]} : handling' = [handling EXCEPT ![n] = h]
    BY <2>4
  <2>8. h \in Handling /\ h.seen = NoIntent
    BY <2>7, IdleTyped
  <2>9. /\ handling' \in [Messages -> Handling] /\ handling'[n] = h
        /\ \A m \in Messages \ {n} : handling'[m] = handling[m]
    BY <2>7, <2>8, HandlerGoes
  <2>10. QED
    BY <1>1, <2>1, <2>5, <2>6, <2>8, <2>9, SeenTyped DEF TalkEffect, Rewrites
<1>5. CASE (Cancel(n) \/ Balance(n)) /\ Handled(n)
  BY <1>1, <1>5, DoneEffect DEF Cancel, Balance
<1>6. CASE /\ \/ Defer(n) \/ Pick(n) \/ Destination(n) \/ Amount(n) \/ Resume(n) \/ Recipient(n)
              \/ Digits(n) \/ BankName(n) \/ Send(n) \/ Bill(n) \/ Corridor(n) \/ CryptoSend(n)
           /\ Handled(n) /\ UNCHANGED closed
  <2>1. Wrote(n) /\ recent' \in Nat
    BY <1>6, DeferWrites, OthersWrite, DestinationWrites, ResumeWrites, BankNameWrites,
       SendWrites, BillWrites, CorridorWrites, CryptoWrites
  <2>2. QED
    BY <1>1, <1>6, <2>1, DoneEffect
<1>7. QED
  BY <1>2, <1>3, <1>4, <1>5, <1>6

LEMMA StepEffect ==
  ASSUME TalkTyped, ConversationNext
  PROVE  Background \/ \E n \in Messages : TalkEffect(n)
<1>1. CASE Hear
  <2>1. PICK w \in Utterances :
          handling' = [handling EXCEPT ![heard + 1] =
                         [at |-> IF w.kind = "button" THEN "button" ELSE "route", said |-> w,
                          seen |-> getActive, planned |-> FALSE]]
    BY <1>1 DEF Hear
  <2>2. PICK h : h = [at |-> IF w.kind = "button" THEN "button" ELSE "route", said |-> w,
                      seen |-> getActive, planned |-> FALSE]
    OBVIOUS
  <2>3. h \in Handling /\ h.seen = getActive
    BY <2>2, ActiveTyped DEF Handling
  <2>4. PICK n \in Messages : n = heard + 1
    BY <1>1, ConversationAssumption DEF Hear, TalkTyped, Messages
  <2>5. /\ handling' \in [Messages -> Handling] /\ handling'[n] = h
        /\ \A m \in Messages \ {n} : handling'[m] = handling[m]
    BY <2>1, <2>2, <2>3, <2>4, HandlerGoes
  <2>6. heard' = heard + 1 /\ Quiet
    BY <1>1 DEF Hear, Quiet
  <2>7. TalkEffect(n)
    BY <2>3, <2>4, <2>5, <2>6 DEF TalkEffect
  <2>8. QED
    BY <2>7
<1>2. ASSUME NEW n \in Messages, Interrupt(n) PROVE TalkEffect(n)
  <2>1. PICK t \in Handling : t = handling[n]
    BY DEF TalkTyped
  <2>2. PICK h : h = [t EXCEPT !.at = "rules", !.seen = NoIntent]
    OBVIOUS
  <2>3. h \in Handling /\ h.seen = NoIntent
    BY <2>2, IdleTyped DEF Handling
  <2>4. handling' = [handling EXCEPT ![n] = h]
    BY <1>2, <2>1, <2>2 DEF Interrupt, TalkTyped
  <2>5. /\ handling' \in [Messages -> Handling] /\ handling'[n] = h
        /\ \A m \in Messages \ {n} : handling'[m] = handling[m]
    BY <2>3, <2>4, HandlerGoes
  <2>6. /\ handling[n].at # "idle" /\ heard' = heard /\ recent' = recent
        /\ cancelActiveIntent(n)
    BY <1>2 DEF Interrupt
  <2>7. QED
    BY <2>3, <2>5, <2>6 DEF TalkEffect, Cancels
<1>3. ASSUME NEW n \in Messages, Answer(n) PROVE TalkEffect(n)
  BY <1>3, AnswerEffect
<1>4. ASSUME NEW n \in Messages, DepositButton(n) PROVE TalkEffect(n)
  <2>1. Fund("COLLECTING_INFORMATION", {}) /\ {} \in SUBSET Wants
    BY <1>4 DEF DepositButton
  <2>2. Wrote(n)
    BY <2>1, FundWrites
  <2>3. QED
    BY <1>4, <2>2, DoneEffect, SeenTyped DEF DepositButton
<1>5. ASSUME NEW n \in Messages, issueDepositAddress(n) PROVE TalkEffect(n)
  <2>1. \/ Fund("AWAITING_DEPOSIT", {"issued"})
        \/ Fund("COLLECTING_INFORMATION", {"address"})
    BY <1>5 DEF issueDepositAddress
  <2>2. {"issued"} \in SUBSET Wants /\ {"address"} \in SUBSET Wants
    BY DEF Wants
  <2>3. Wrote(n)
    BY <2>1, <2>2, FundWrites
  <2>4. QED
    BY <1>5, <2>3, DoneEffect, SeenTyped DEF issueDepositAddress
<1>6. CASE DepositAddressReady
  <2>1. UNCHANGED <<handling, heard, closed, recent>>
    BY <1>6 DEF DepositAddressReady
  <2>2. CASE intent' = intent
    BY <2>1, <2>2 DEF Background
  <2>3. CASE Fund("AWAITING_DEPOSIT", {"issued"})
    <3>1. PICK s : s = Slots(0, 0, {"issued"})
      OBVIOUS
    <3>2. s \in SlotValues /\ s.by = 0 /\ s.amount = 0
      BY <3>1 DEF Slots, SlotValues, Wants
    <3>3. intent' = [intent |-> "FUND_CRYPTO", status |-> "AWAITING_DEPOSIT", slots |-> s]
      BY <2>3, <3>1 DEF Fund, upsertActiveIntent
    <3>4. QED
      BY <2>1, <3>2, <3>3 DEF Background, IntentRow, IntentNames, IntentStatuses
  <2>4. QED
    BY <1>6, <2>2, <2>3 DEF DepositAddressReady
<1>7. ASSUME NEW n \in Messages, HandlerEnds(n) PROVE TalkEffect(n)
  BY <1>7, DoneEffect DEF HandlerEnds, Quiet
<1>8. QED
  BY <1>1, <1>2, <1>3, <1>4, <1>5, <1>6, <1>7 DEF ConversationNext

\* A row that is cancelled keeps its slots; one that has ended stays as it is.
LEMMA CancelledRow ==
  ASSUME TalkTyped, NEW n \in Messages, cancelActiveIntent(n)
  PROVE  /\ intent' \in IntentRow /\ intent'.slots = intent.slots /\ intent'.intent = intent.intent
         /\ intent'.status \in Terminal \/ (intent' = intent /\ intent = NoIntent)
         /\ intent = NoIntent => intent' = intent
         /\ \/ closed' = closed
            \/ closed' = n /\ \A m \in Messages \ {n} : handling[m].at = "idle"
<1>1. CASE intent.status \in Terminal \cup {"none"}
  BY <1>1 DEF cancelActiveIntent, TalkTyped
<1>2. CASE intent.status \notin Terminal \cup {"none"}
  BY <1>2 DEF cancelActiveIntent, TalkTyped, IntentRow, IntentStatuses, Terminal, NoIntent
<1>3. QED
  BY <1>1, <1>2

LEMMA TalkKept ==
  ASSUME TalkInv, ConversationNext
  PROVE  TalkInv'
<1>0. TalkTyped
  BY DEF TalkInv
<1>1. /\ heard \in 0..MaxMessages /\ closed \in 0..heard /\ recent \in Nat /\ intent \in IntentRow
      /\ MaxMessages \in Nat /\ intent.slots.amount \in Nat
      /\ intent.status \notin Terminal => Fresh(intent.slots.amount)
      /\ \A m \in Messages : handling[m].at # "idle" =>
           m <= heard /\ closed <= m /\ Fresh(seen(m).slots.amount)
  BY ConversationAssumption DEF TalkInv, TalkTyped, IntentRow, SlotValues
<1>2. CASE Background
  <2>1. TalkTyped'
    BY <1>0, <1>2 DEF Background, TalkTyped
  <2>2. \A m \in Messages : seen(m)' = seen(m)
    BY <1>2 DEF Background, seen
  <2>3. QED
    BY <1>1, <1>2, <2>1, <2>2 DEF Background, TalkInv, Fresh
<1>3. ASSUME NEW n \in Messages, TalkEffect(n) PROVE TalkInv'
  <2>0. n \in Nat /\ n # 0 /\ n <= MaxMessages /\ seen(n).slots.amount \in Nat
    BY <1>0, <1>1, SeenTyped DEF Messages
  <2>1. /\ handling' \in [Messages -> Handling]
        /\ \A m \in Messages \ {n} : handling'[m] = handling[m]
    BY <1>3 DEF TalkEffect
  <2>2. /\ getActive.slots.amount \in {0, intent.slots.amount}
        /\ intent.status \in Terminal => getActive.slots.amount = 0
    BY IdleTyped DEF getActive
  <2>3. Fresh(getActive.slots.amount) /\ Fresh(NoIntent.slots.amount)
    BY <1>1, <2>2, IdleTyped DEF Fresh
  <2>4. \A m \in Messages \ {n} : seen(m)' = seen(m)
    BY <2>1 DEF seen
  <2>5. seen(n)' = handling'[n].seen /\ seen(n) = handling[n].seen
    BY DEF seen
  <2>6. CASE heard' = heard + 1 /\ n = heard + 1 /\ Quiet /\ handling'[n].seen = getActive
    <3>1. TalkTyped'
      BY <1>0, <1>1, <2>0, <2>1, <2>6 DEF Quiet, TalkTyped
    <3>2. \A m \in Messages : handling'[m].at # "idle" => Fresh(seen(m).slots.amount)'
      BY <1>1, <2>1, <2>3, <2>4, <2>5, <2>6 DEF Quiet, Fresh
    <3>3. (intent.status \notin Terminal => Fresh(intent.slots.amount))'
      BY <1>1, <2>6 DEF Quiet, Fresh
    <3>4. QED
      BY <3>1, <3>2, <3>3 DEF TalkInv
  <2>7. CASE /\ heard' = heard /\ handling[n].at # "idle" /\ (Quiet \/ Rewrites(n))
             /\ handling'[n].seen \in {handling[n].seen, NoIntent, getActive}
    <3>1. closed' = closed /\ recent' \in Nat
      BY <1>1, <2>7 DEF Quiet, Rewrites
    <3>2. /\ intent' \in IntentRow
          /\ intent'.intent = "none" \/ intent'.status = "none" => intent' = NoIntent
          /\ intent' = intent \/ intent'.slots.amount \in {0, n, seen(n).slots.amount}
      <4>1. CASE Quiet
        BY <1>0, <4>1 DEF Quiet, TalkTyped
      <4>2. CASE Rewrites(n)
        BY <4>2 DEF Rewrites, Wrote
      <4>3. QED
        BY <2>7, <4>1, <4>2
    <3>3. TalkTyped'
      BY <1>0, <1>1, <2>0, <2>1, <2>7, <3>1, <3>2 DEF TalkTyped
    <3>4. \A m \in Messages : handling'[m].at # "idle" => Fresh(seen(m).slots.amount)'
      BY <1>1, <2>1, <2>3, <2>4, <2>5, <2>7, <3>1 DEF Fresh
    <3>5. (intent.status \notin Terminal => Fresh(intent.slots.amount))'
      BY <1>1, <2>0, <2>7, <3>1, <3>2 DEF Fresh
    <3>6. QED
      BY <3>3, <3>4, <3>5 DEF TalkInv
  <2>8. CASE heard' = heard /\ handling[n].at # "idle" /\ Cancels(n)
    <3>1. /\ intent' \in IntentRow /\ intent'.slots = intent.slots /\ intent'.intent = intent.intent
          /\ intent'.status \in Terminal \/ (intent' = intent /\ intent = NoIntent)
          /\ intent = NoIntent => intent' = intent
          /\ \/ closed' = closed
             \/ closed' = n /\ \A m \in Messages \ {n} : handling[m].at = "idle"
          /\ recent' = recent /\ handling'[n].seen = NoIntent
      BY <1>0, <2>8, CancelledRow DEF Cancels
    <3>2. /\ closed' \in 0..heard
          /\ \A m \in Messages : handling'[m].at # "idle" => m <= heard /\ closed' <= m
      BY <1>1, <2>0, <2>1, <2>8, <3>1
    <3>3. TalkTyped'
      BY <1>0, <1>1, <2>1, <2>8, <3>1, <3>2 DEF TalkTyped, Terminal
    <3>4. \A m \in Messages : handling'[m].at # "idle" => Fresh(seen(m).slots.amount)'
      BY <1>1, <2>1, <2>4, <2>5, <3>1, IdleTyped DEF Fresh
    <3>5. (intent.status \notin Terminal => Fresh(intent.slots.amount))'
      BY <3>1, IdleTyped DEF Fresh
    <3>6. QED
      BY <3>3, <3>4, <3>5 DEF TalkInv
  <2>9. QED
    BY <1>3, <2>6, <2>7, <2>8 DEF TalkEffect
<1>4. QED
  BY <1>0, <1>2, <1>3, StepEffect

-----------------------------------------------------------------------------
(***************************************************************************)
(* Reviews.  The page shows the row that awaits authorisation, and no page *)
(* is open while a confirmation is under way.  The number of a review that *)
(* an attempt has read belongs to that attempt: its row can neither be     *)
(* confirmed nor, once the attempt is past the PIN, authorised again.      *)
(***************************************************************************)
PageRow == [intent : IntentNames, slots : SlotValues]

Attempt == [at : {"start", "pin", "execute", "paying", "done"}, review : PageRow, from : PageRow]

IntentTyped ==
  /\ page \in PageRow
  /\ confirming \in BOOLEAN
  /\ auth \in [Attempts -> Attempt]

PageIsTheRow ==
  /\ confirming => page = NoPage /\ intent.intent # "none"
  /\ intent.status = "AWAITING_AUTHORIZATION" => page \in {NoPage, Shown(intent)}

\* What an attempt that has read a row goes on with.
AttemptHolds(a) ==
  Authorizing(a) => /\ auth[a].review = auth[a].from
                    /\ auth[a].review.intent \notin {"none", "FUND_CRYPTO"}
                    /\ intent.intent # "none"

ReviewOf(a) == auth[a].review.slots.by

\* A review that an attempt has read.
ReviewIsRead(a) ==
  ReviewOf(a) # 0 /\ intent.slots.by = ReviewOf(a) =>
    /\ ~confirming
    /\ intent.status # "AWAITING_CONFIRMATION"
    /\ auth[a].at # "pin" => intent.status # "AWAITING_AUTHORIZATION"

\* The number of a review is that of a message heard, and handled.
Numbered(n) == n \in 0..heard /\ (n # 0 => handling[n].at = "idle")

IntentInv ==
  /\ TalkInv
  /\ IntentTyped
  /\ PageIsTheRow
  /\ Numbered(intent.slots.by)
  /\ \A a \in Attempts : AttemptHolds(a) /\ ReviewIsRead(a) /\ Numbered(ReviewOf(a))
  /\ \A a, b \in Attempts : ReviewOf(a) = ReviewOf(b) /\ ReviewOf(a) # 0 => a = b
  /\ \A a, b \in Attempts : auth[a].at = "pin" /\ auth[b].at = "pin" => a = b

LEMMA NoPageTyped ==
  /\ NoPage \in PageRow /\ NoPage.slots.by = 0
  /\ Shown(NoIntent) = NoPage
BY IdleTyped DEF NoPage, PageRow, NoIntent, NoSlots, IntentNames, SlotValues, Shown

LEMMA InitIntentInv == IntentInit => IntentInv
<1>. SUFFICES ASSUME IntentInit PROVE IntentInv
  OBVIOUS
<1>1. /\ intent = NoIntent /\ handling = [n \in Messages |-> Idle]
      /\ heard \in 0..MaxMessages /\ recent = 0 /\ closed = 0
      /\ page = NoPage /\ confirming = FALSE
      /\ auth = [a \in Attempts |-> [at |-> "start", review |-> NoPage, from |-> NoPage]]
  BY ConversationAssumption DEF IntentInit, ConversationInit
<1>2. TalkInv
  BY <1>1, IdleTyped DEF TalkInv, TalkTyped, Fresh, seen
<1>3. IntentTyped
  BY <1>1, NoPageTyped DEF IntentTyped, Attempt
<1>4. PageIsTheRow
  BY <1>1 DEF PageIsTheRow, NoIntent
<1>5. \A a \in Attempts : ReviewOf(a) = 0 /\ auth[a].at = "start"
  BY <1>1, NoPageTyped DEF ReviewOf
<1>6. intent.slots.by = 0
  BY <1>1, IdleTyped
<1>7. Numbered(0)
  BY <1>1 DEF Numbered
<1>8. \A a \in Attempts : AttemptHolds(a) /\ ReviewIsRead(a)
  BY <1>5 DEF AttemptHolds, ReviewIsRead, Authorizing
<1>9. QED
  BY <1>2, <1>3, <1>4, <1>5, <1>6, <1>7, <1>8 DEF IntentInv

LEMMA AttemptTyped ==
  ASSUME IntentTyped, NEW a \in Attempts
  PROVE  /\ auth[a] \in Attempt /\ auth[a].review \in PageRow /\ auth[a].from \in PageRow
         /\ auth[a].review.slots \in SlotValues /\ ReviewOf(a) \in Nat
BY DEF IntentTyped, Attempt, PageRow, SlotValues, ReviewOf

\* A message, a handler, or a deposit address in the background.
LEMMA TalkStep ==
  ASSUME IntentInv, Talk
  PROVE  IntentInv'
<1>0. TalkInv /\ TalkTyped /\ ConversationNext
  BY DEF IntentInv, TalkInv, Talk
<1>1. TalkInv'
  BY <1>0, TalkKept
<1>2. Background \/ \E n \in Messages : TalkEffect(n)
  BY <1>0, StepEffect
<1>3. /\ page' = IF heard' # heard THEN NoPage ELSE page
      /\ confirming' = confirming /\ auth' = auth
  BY DEF Talk
<1>4. IntentTyped'
  BY <1>3, NoPageTyped DEF IntentInv, IntentTyped
<1>5. /\ heard \in 0..MaxMessages /\ MaxMessages \in Nat /\ intent \in IntentRow
      /\ intent.slots.by \in Nat
  BY <1>0, ConversationAssumption DEF TalkTyped, IntentRow, SlotValues
<1>6. \A k \in Nat : Numbered(k) => Numbered(k)'
  <2>1. SUFFICES ASSUME NEW k \in Nat, Numbered(k) PROVE Numbered(k)'
    OBVIOUS
  <2>2. k <= heard /\ (k # 0 => k \in Messages /\ handling[k].at = "idle")
    BY <1>5, <2>1 DEF Numbered, Messages
  <2>3. CASE Background
    BY <2>1, <2>3 DEF Background, Numbered
  <2>4. ASSUME NEW n \in Messages, TalkEffect(n) PROVE Numbered(k)'
    <3>1. k # n
      BY <1>5, <2>2, <2>4 DEF TalkEffect, Messages
    <3>2. QED
      BY <1>5, <2>2, <2>4, <3>1 DEF TalkEffect, Numbered
  <2>5. QED
    BY <1>2, <2>3, <2>4
<1>7. \A a \in Attempts : ReviewOf(a) \in Nat /\ ReviewOf(a)' = ReviewOf(a)
  BY <1>3, AttemptTyped DEF IntentInv, ReviewOf
<1>8. \A a \in Attempts : Numbered(ReviewOf(a))'
  BY <1>6, <1>7 DEF IntentInv, Numbered
<1>9. /\ \A a, b \in Attempts : ReviewOf(a)' = ReviewOf(b)' /\ ReviewOf(a)' # 0 => a = b
      /\ \A a, b \in Attempts : auth'[a].at = "pin" /\ auth'[b].at = "pin" => a = b
  BY <1>3, <1>7 DEF IntentInv
<1>10. intent.intent # "none" => intent'.intent # "none"
  BY <1>0, <1>2, CancelledRow DEF TalkEffect, Background, Quiet, Rewrites, Wrote, Cancels
<1>11. \A a \in Attempts : AttemptHolds(a)'
  BY <1>3, <1>10 DEF IntentInv, AttemptHolds, Authorizing
<1>12. /\ PageIsTheRow' /\ Numbered(intent.slots.by)'
       /\ \A a \in Attempts : ReviewIsRead(a)'
  <2>1. CASE intent' = intent
    <3>1. Numbered(intent.slots.by)'
      BY <1>5, <1>6, <2>1 DEF IntentInv, Numbered
    <3>2. PageIsTheRow'
      BY <1>3, <2>1 DEF IntentInv, PageIsTheRow, Shown
    <3>3. \A a \in Attempts : ReviewIsRead(a)'
      BY <1>3, <1>7, <2>1 DEF IntentInv, ReviewIsRead
    <3>4. QED
      BY <3>1, <3>2, <3>3
  \* A row that is no review.
  <2>2. CASE /\ intent'.intent # "none" /\ heard' = heard /\ intent'.slots.by = 0
             /\ intent'.status \in {"COLLECTING_INFORMATION", "AWAITING_DEPOSIT"}
    <3>1. PageIsTheRow'
      BY <1>3, <2>2 DEF IntentInv, PageIsTheRow
    <3>2. Numbered(intent.slots.by)'
      BY <1>5, <2>2 DEF Numbered
    <3>3. \A a \in Attempts : ReviewIsRead(a)'
      BY <1>7, <2>2 DEF ReviewIsRead
    <3>4. QED
      BY <3>1, <3>2, <3>3
  \* The review of a message that no attempt has read yet.
  <2>3. ASSUME NEW n \in Messages, TalkEffect(n), heard' = heard, intent'.slots.by = n,
               intent'.status = "AWAITING_CONFIRMATION", intent'.intent # "none",
               handling[n].at # "idle", handling'[n].at = "idle"
        PROVE  /\ PageIsTheRow' /\ Numbered(intent.slots.by)'
               /\ \A a \in Attempts : ReviewIsRead(a)'
    <3>0. n \in Nat /\ n # 0 /\ n <= heard
      BY <1>0, <2>3, SeenTyped DEF TalkTyped
    <3>1. PageIsTheRow'
      BY <1>3, <2>3 DEF IntentInv, PageIsTheRow
    <3>2. Numbered(intent.slots.by)'
      BY <1>5, <2>3, <3>0 DEF Numbered
    <3>3. \A a \in Attempts : ReviewOf(a) = 0 \/ ReviewOf(a) # n
      BY <2>3 DEF IntentInv, Numbered
    <3>4. \A a \in Attempts : ReviewIsRead(a)'
      BY <1>7, <2>3, <3>3 DEF ReviewIsRead
    <3>5. QED
      BY <3>1, <3>2, <3>4
  <2>4. ASSUME NEW n \in Messages, Cancels(n), heard' = heard
        PROVE  /\ PageIsTheRow' /\ Numbered(intent.slots.by)'
               /\ \A a \in Attempts : ReviewIsRead(a)'
    <3>1. /\ intent'.slots = intent.slots /\ intent'.intent = intent.intent
          /\ intent'.status \in Terminal \/ (intent' = intent /\ intent = NoIntent)
      BY <1>0, <2>4, CancelledRow DEF Cancels
    <3>2. intent'.status \notin {"AWAITING_CONFIRMATION", "AWAITING_AUTHORIZATION"}
      BY <3>1 DEF Terminal, NoIntent
    <3>3. PageIsTheRow'
      BY <1>3, <2>4, <3>1, <3>2 DEF IntentInv, PageIsTheRow
    <3>4. Numbered(intent.slots.by)'
      BY <1>5, <1>6, <3>1 DEF IntentInv, Numbered
    <3>5. \A a \in Attempts : ReviewIsRead(a)'
      BY <1>3, <1>7, <3>1, <3>2 DEF IntentInv, ReviewIsRead
    <3>6. QED
      BY <3>3, <3>4, <3>5
  <2>5. CASE Background
    BY <2>1, <2>2, <2>5 DEF Background
  <2>6. ASSUME NEW n \in Messages, TalkEffect(n)
        PROVE  /\ PageIsTheRow' /\ Numbered(intent.slots.by)'
               /\ \A a \in Attempts : ReviewIsRead(a)'
    <3>1. CASE Quiet
      BY <2>1, <3>1 DEF Quiet
    <3>2. CASE heard' = heard /\ handling[n].at # "idle" /\ Rewrites(n)
      <4>1. /\ intent'.intent # "none"
            /\ \/ /\ intent'.status \in {"COLLECTING_INFORMATION", "AWAITING_DEPOSIT"}
                  /\ intent'.slots.by = 0
               \/ /\ intent'.status = "AWAITING_CONFIRMATION" /\ intent'.slots.by = n
                  /\ handling'[n].at = "idle"
        BY <3>2 DEF Rewrites, Wrote
      <4>2. QED
        BY <2>2, <2>3, <2>6, <3>2, <4>1
    <3>3. CASE heard' = heard /\ Cancels(n)
      BY <2>4, <3>3
    <3>4. QED
      BY <2>6, <3>1, <3>2, <3>3 DEF TalkEffect
  <2>7. QED
    BY <1>2, <2>5, <2>6
<1>13. QED
  BY <1>1, <1>4, <1>8, <1>9, <1>11, <1>12 DEF IntentInv

\* A status that a confirmation or a payment writes.
LEMMA WriteKeepsTalk ==
  ASSUME TalkInv, NEW status \in IntentStatuses \ {"none"}, Write(status), intent.intent # "none",
         UNCHANGED rowVars
  PROVE  /\ TalkInv'
         /\ intent'.intent = intent.intent /\ intent'.slots = intent.slots
         /\ intent'.status = status /\ Shown(intent)' = Shown(intent)
         /\ \A n : Numbered(n) => Numbered(n)'
<1>1. /\ intent \in IntentRow /\ intent' = [intent EXCEPT !.status = status]
      /\ closed' \in {0, closed}
      /\ intent.status \in Terminal /\ status \notin Terminal => closed' = 0
      /\ heard' = heard /\ handling' = handling /\ recent' = recent
  BY DEF TalkInv, TalkTyped, Write, rowVars
<1>2. /\ intent' \in IntentRow /\ intent'.intent = intent.intent /\ intent'.slots = intent.slots
      /\ intent'.status = status
  BY <1>1 DEF IntentRow
<1>3. TalkTyped'
  BY <1>1, <1>2, SeenTyped, ConversationAssumption DEF TalkInv, TalkTyped
<1>4. /\ intent.slots.amount \in Nat
      /\ \A n \in Messages : seen(n).slots.amount \in Nat /\ seen(n)' = seen(n)
  BY <1>1, SeenTyped DEF TalkInv, IntentRow, SlotValues, seen
<1>5. \A n \in Messages : handling'[n].at # "idle" => Fresh(seen(n).slots.amount)'
  BY <1>1, <1>4 DEF TalkInv, TalkTyped, Fresh
<1>6. status \notin Terminal => Fresh(intent.slots.amount)'
  BY <1>1, <1>2, <1>4 DEF TalkInv, Fresh
<1>7. TalkInv'
  BY <1>2, <1>3, <1>5, <1>6 DEF TalkInv
<1>8. QED
  BY <1>1, <1>2, <1>7 DEF Shown, Numbered

\* Nothing of the conversation moves.
LEMMA TalkStays ==
  ASSUME TalkInv, UNCHANGED talkVars
  PROVE  /\ TalkInv'
         /\ intent' = intent /\ Shown(intent)' = Shown(intent)
         /\ \A n : Numbered(n) <=> Numbered(n)'
BY DEF talkVars, TalkInv, TalkTyped, Fresh, seen, Shown, Numbered

\* The button and the page: no attempt is touched, and the row keeps its review.
LEMMA ConfirmKeeps ==
  ASSUME IntentInv, "confirm" \notin Doubled, ConfirmLook \/ ConfirmWrite \/ getIntentForMiniApp
  PROVE  IntentInv'
<1>0. TalkInv /\ intent \in IntentRow /\ intent.slots.by \in Nat /\ page \in PageRow
  BY DEF IntentInv, TalkInv, TalkTyped, IntentTyped, IntentRow, SlotValues
<1>1. /\ auth' = auth
      /\ TalkInv' /\ intent'.intent = intent.intent /\ intent'.slots = intent.slots
      /\ \A n : Numbered(n) => Numbered(n)'
      /\ page' \in PageRow /\ confirming' \in BOOLEAN
  <2>1. CASE ConfirmLook
    BY <1>0, <2>1, TalkStays, NoPageTyped DEF ConfirmLook
  <2>2. CASE ConfirmWrite
    <3>1. intent.intent # "none"
      BY <2>2 DEF ConfirmWrite, IntentInv, PageIsTheRow
    <3>2. "AWAITING_AUTHORIZATION" \in IntentStatuses \ {"none"}
      BY DEF IntentStatuses
    <3>3. Write("AWAITING_AUTHORIZATION") /\ UNCHANGED rowVars
      BY <2>2 DEF ConfirmWrite
    <3>4. QED
      BY <1>0, <2>2, <3>1, <3>2, <3>3, WriteKeepsTalk DEF ConfirmWrite
  <2>3. CASE getIntentForMiniApp
    <3>0. Shown(intent) \in PageRow
      BY <1>0 DEF Shown, PageRow, IntentRow
    <3>1. CASE intent.status = "AWAITING_CONFIRMATION"
      <4>1. intent.intent # "none"
        BY <1>0, <3>1 DEF TalkInv, TalkTyped, NoIntent
      <4>2. "AWAITING_AUTHORIZATION" \in IntentStatuses \ {"none"}
        BY DEF IntentStatuses
      <4>3. Write("AWAITING_AUTHORIZATION") /\ UNCHANGED rowVars
        BY <2>3, <3>1 DEF getIntentForMiniApp
      <4>4. /\ TalkInv' /\ intent'.intent = intent.intent /\ intent'.slots = intent.slots
            /\ \A n : Numbered(n) => Numbered(n)'
        BY <1>0, <4>1, <4>2, <4>3, WriteKeepsTalk
      <4>5. page' = Shown(intent) /\ confirming' = confirming /\ auth' = auth
        BY <2>3 DEF getIntentForMiniApp
      <4>6. QED
        BY <3>0, <4>4, <4>5 DEF IntentInv, IntentTyped
    <3>2. CASE intent.status # "AWAITING_CONFIRMATION"
      <4>1. UNCHANGED talkVars
        BY <2>3, <3>2 DEF getIntentForMiniApp, rowVars, talkVars
      <4>2. page' = Shown(intent) /\ confirming' = confirming /\ auth' = auth
        BY <2>3 DEF getIntentForMiniApp
      <4>3. QED
        BY <1>0, <3>0, <4>1, <4>2, TalkStays DEF IntentInv, IntentTyped
    <3>3. QED
      BY <3>1, <3>2
  <2>4. QED
    BY <2>1, <2>2, <2>3
<1>2. PageIsTheRow'
  <2>1. CASE ConfirmLook
    BY <1>0, <1>1, <2>1 DEF ConfirmLook, PageIsTheRow, TalkInv, TalkTyped, NoIntent
  <2>2. CASE ConfirmWrite
    BY <1>1, <2>2 DEF ConfirmWrite, PageIsTheRow, IntentInv
  <2>3. CASE getIntentForMiniApp
    BY <1>1, <2>3 DEF getIntentForMiniApp, PageIsTheRow, IntentInv, Shown
  <2>4. QED
    BY <2>1, <2>2, <2>3
<1>3. ASSUME NEW a \in Attempts PROVE ReviewIsRead(a)' /\ AttemptHolds(a)'
  <2>1. ReviewIsRead(a) /\ ReviewOf(a)' = ReviewOf(a) /\ AttemptHolds(a)
    BY <1>1 DEF IntentInv, ReviewOf
  <2>2. ReviewOf(a) # 0 /\ intent.slots.by = ReviewOf(a) =>
          /\ ~confirming' /\ intent'.status # "AWAITING_CONFIRMATION"
          /\ auth[a].at # "pin" => intent'.status # "AWAITING_AUTHORIZATION"
    <3>1. SUFFICES ASSUME ReviewOf(a) # 0, intent.slots.by = ReviewOf(a)
                   PROVE  /\ ~confirming' /\ intent'.status # "AWAITING_CONFIRMATION"
                          /\ auth[a].at # "pin" => intent'.status # "AWAITING_AUTHORIZATION"
      OBVIOUS
    <3>2. /\ ~confirming /\ intent.status # "AWAITING_CONFIRMATION"
          /\ auth[a].at # "pin" => intent.status # "AWAITING_AUTHORIZATION"
      BY <2>1, <3>1 DEF ReviewIsRead
    <3>3. getIntentForMiniApp
      BY <3>2 DEF ConfirmLook, ConfirmWrite
    <3>4. intent' = intent /\ confirming' = confirming
      BY <3>2, <3>3 DEF getIntentForMiniApp
    <3>5. QED
      BY <3>2, <3>4
  <2>3. ReviewIsRead(a)'
    BY <1>1, <2>1, <2>2 DEF ReviewIsRead
  <2>4. AttemptHolds(a)'
    BY <1>1, <2>1 DEF AttemptHolds, Authorizing
  <2>5. QED
    BY <2>3, <2>4
<1>4. /\ Numbered(intent.slots.by)'
      /\ \A a \in Attempts : Numbered(ReviewOf(a))'
  BY <1>1 DEF IntentInv, ReviewOf, Numbered
<1>5. /\ \A a, b \in Attempts : ReviewOf(a)' = ReviewOf(b)' /\ ReviewOf(a)' # 0 => a = b
      /\ \A a, b \in Attempts : auth'[a].at = "pin" /\ auth'[b].at = "pin" => a = b
  BY <1>1 DEF IntentInv, ReviewOf
<1>6. IntentTyped'
  BY <1>1 DEF IntentInv, IntentTyped
<1>7. QED
  BY <1>1, <1>2, <1>3, <1>4, <1>5, <1>6 DEF IntentInv

\* What a step of an attempt leaves as it is, and where it goes.
OneAttempt(a) ==
  /\ auth' \in [Attempts -> Attempt]
  /\ \A b \in Attempts \ {a} : auth'[b] = auth[b]
  /\ page' = page /\ confirming' = confirming

\* An attempt goes on, or ends, with the review it has read or none.
LEMMA AttemptGoesOn ==
  ASSUME IntentInv, NEW a \in Attempts, OneAttempt(a), TalkInv',
         intent'.intent = intent.intent, intent'.slots = intent.slots,
         \A n : Numbered(n) => Numbered(n)',
         \/ intent' = intent
         \/ intent'.status \in {"PROCESSING", "COMPLETED", "FAILED"},
         \/ auth'[a].review = auth[a].review
              /\ (Authorizing(a)' => Authorizing(a) /\ auth'[a].from = auth[a].from)
         \/ auth'[a].at = "done" /\ ReviewOf(a)' = 0,
         auth'[a].at # "pin",
         auth[a].at = "pin" => intent'.status = "PROCESSING" \/ ReviewOf(a)' = 0,
         auth[a].at # "start"
  PROVE  IntentInv'
<1>1. \A b \in Attempts : ReviewOf(b)' \in {ReviewOf(b), 0}
  BY DEF OneAttempt, ReviewOf
<1>2. IntentTyped'
  BY DEF IntentInv, IntentTyped, OneAttempt
<1>3. PageIsTheRow'
  BY DEF IntentInv, PageIsTheRow, OneAttempt, Shown
<1>4. Numbered(intent.slots.by)'
  BY DEF IntentInv, Numbered
<1>5. \A b \in Attempts : Numbered(ReviewOf(b))'
  <2>0. heard' \in Nat
    BY DEF TalkInv, TalkTyped
  <2>1. SUFFICES ASSUME NEW b \in Attempts PROVE Numbered(ReviewOf(b))'
    OBVIOUS
  <2>2. CASE ReviewOf(b)' = ReviewOf(b)
    BY <2>2 DEF IntentInv, Numbered
  <2>3. CASE ReviewOf(b)' = 0
    BY <2>0, <2>3 DEF Numbered
  <2>4. QED
    BY <1>1, <2>2, <2>3
<1>6. \A b, c \in Attempts : ReviewOf(b)' = ReviewOf(c)' /\ ReviewOf(b)' # 0 => b = c
  BY <1>1 DEF IntentInv
<1>7. \A b, c \in Attempts : auth'[b].at = "pin" /\ auth'[c].at = "pin" => b = c
  BY DEF IntentInv, OneAttempt
<1>8. ASSUME NEW b \in Attempts PROVE AttemptHolds(b)'
  BY <1>8 DEF IntentInv, AttemptHolds, Authorizing, OneAttempt
<1>9. ASSUME NEW b \in Attempts PROVE ReviewIsRead(b)'
  <2>1. SUFFICES ASSUME ReviewOf(b)' # 0, intent'.slots.by = ReviewOf(b)'
                 PROVE  /\ ~confirming' /\ intent'.status # "AWAITING_CONFIRMATION"
                        /\ auth'[b].at # "pin" => intent'.status # "AWAITING_AUTHORIZATION"
    BY DEF ReviewIsRead
  <2>2. ReviewOf(b)' = ReviewOf(b)
    BY <1>1, <2>1
  <2>3. /\ ~confirming /\ intent.status # "AWAITING_CONFIRMATION"
        /\ auth[b].at # "pin" => intent.status # "AWAITING_AUTHORIZATION"
    BY <2>1, <2>2 DEF IntentInv, ReviewIsRead
  <2>4. CASE b # a
    BY <2>3, <2>4 DEF OneAttempt
  <2>5. CASE b = a
    <3>1. auth[a].at = "pin" => intent'.status = "PROCESSING"
      BY <2>1, <2>5
    <3>2. QED
      BY <2>3, <2>5, <3>1 DEF OneAttempt
  <2>6. QED
    BY <2>4, <2>5
<1>10. QED
  BY <1>2, <1>3, <1>4, <1>5, <1>6, <1>7, <1>8, <1>9 DEF IntentInv

LEMMA OverFields ==
  ASSUME IntentTyped, NEW a \in Attempts, page' = page, confirming' = confirming
  PROVE  /\ Over(a) => OneAttempt(a) /\ auth'[a].at = "done" /\ ReviewOf(a)' = 0
         /\ Ended(a) => OneAttempt(a) /\ auth'[a].at = "done" /\ auth'[a].review = auth[a].review
<1>1. ASSUME Over(a) PROVE OneAttempt(a) /\ auth'[a].at = "done" /\ ReviewOf(a)' = 0
  <2>1. PICK r : r = [at |-> "done", review |-> NoPage, from |-> NoPage]
    OBVIOUS
  <2>2. r \in Attempt /\ r.at = "done" /\ r.review.slots.by = 0
    BY <2>1, NoPageTyped DEF Attempt
  <2>3. auth' = [auth EXCEPT ![a] = r]
    BY <1>1, <2>1 DEF Over
  <2>4. QED
    BY <2>2, <2>3 DEF IntentTyped, OneAttempt, ReviewOf
<1>2. ASSUME Ended(a)
      PROVE  OneAttempt(a) /\ auth'[a].at = "done" /\ auth'[a].review = auth[a].review
  <2>0. PICK t \in Attempt : t = auth[a]
    BY DEF IntentTyped
  <2>1. PICK r : r = [t EXCEPT !.at = "done", !.from = NoPage]
    OBVIOUS
  <2>2. r \in Attempt /\ r.at = "done" /\ r.review = t.review
    BY <2>1, NoPageTyped DEF Attempt
  <2>3. auth' = [auth EXCEPT ![a] = r]
    BY <1>2, <2>0, <2>1 DEF Ended
  <2>4. QED
    BY <2>0, <2>2, <2>3 DEF IntentTyped, OneAttempt
<1>3. QED
  BY <1>1, <1>2

LEMMA GoesToFields ==
  ASSUME IntentTyped, NEW a \in Attempts, page' = page, confirming' = confirming,
         NEW label \in {"execute", "paying"}, auth' = [auth EXCEPT ![a].at = label]
  PROVE  /\ OneAttempt(a) /\ auth'[a].at = label
         /\ auth'[a].review = auth[a].review /\ auth'[a].from = auth[a].from
<1>0. PICK t \in Attempt : t = auth[a]
  BY DEF IntentTyped
<1>1. PICK r : r = [t EXCEPT !.at = label]
  OBVIOUS
<1>2. r \in Attempt /\ r.at = label /\ r.review = t.review /\ r.from = t.from
  BY <1>1 DEF Attempt
<1>3. auth' = [auth EXCEPT ![a] = r]
  BY <1>0, <1>1
<1>4. QED
  BY <1>0, <1>2, <1>3 DEF IntentTyped, OneAttempt

\* An attempt reads the row that the page shows; nobody else has read this review.
LEMMA AttemptReads ==
  ASSUME IntentInv, "confirm" \notin Doubled, "authorize" \notin Doubled,
         NEW a \in Attempts, AuthRead(a)
  PROVE  IntentInv'
<1>0. TalkInv /\ intent \in IntentRow /\ intent.slots.by \in Nat /\ page \in PageRow
  BY DEF IntentInv, TalkInv, TalkTyped, IntentTyped, IntentRow, SlotValues
<1>1. /\ auth[a].at = "start" /\ page # NoPage
      /\ intent.status = "AWAITING_AUTHORIZATION" /\ intent.intent # "FUND_CRYPTO"
      /\ \A b \in Attempts : auth[b].at # "pin"
      /\ auth' = [auth EXCEPT ![a] = [at |-> "pin", review |-> Shown(intent), from |-> page]]
      /\ UNCHANGED talkVars /\ page' = page /\ confirming' = confirming
  BY DEF AuthRead, AUTHORIZABLE
<1>2. page = Shown(intent) /\ ~confirming /\ intent.intent # "none"
  BY <1>0, <1>1 DEF IntentInv, PageIsTheRow, TalkInv, TalkTyped, NoIntent
<1>3. TalkInv' /\ intent' = intent /\ \A n : Numbered(n) <=> Numbered(n)'
  BY <1>0, <1>1, TalkStays
<1>4. PICK r : r = [at |-> "pin", review |-> Shown(intent), from |-> page]
  OBVIOUS
<1>5. /\ r \in Attempt /\ r.at = "pin" /\ r.review = r.from
      /\ r.review.slots.by = intent.slots.by /\ r.review.intent = intent.intent
  BY <1>0, <1>2, <1>4 DEF Attempt, Shown, PageRow, IntentRow
<1>6. auth' \in [Attempts -> Attempt] /\ auth'[a] = r /\ \A b \in Attempts \ {a} : auth'[b] = auth[b]
  BY <1>1, <1>4, <1>5 DEF IntentInv, IntentTyped
<1>7. IntentTyped'
  BY <1>1, <1>6 DEF IntentInv, IntentTyped
<1>8. PageIsTheRow'
  BY <1>1, <1>3 DEF IntentInv, PageIsTheRow, Shown
<1>9. ReviewOf(a)' = intent.slots.by /\ \A b \in Attempts \ {a} : ReviewOf(b)' = ReviewOf(b)
  BY <1>5, <1>6 DEF ReviewOf
<1>10. Numbered(intent.slots.by)' /\ \A b \in Attempts : Numbered(ReviewOf(b))'
  <2>1. Numbered(intent.slots.by)'
    BY <1>3 DEF IntentInv, Numbered
  <2>2. Numbered(ReviewOf(a))'
    BY <1>3, <1>9 DEF IntentInv, Numbered
  <2>3. \A b \in Attempts \ {a} : Numbered(ReviewOf(b))'
    BY <1>3, <1>9 DEF IntentInv, Numbered
  <2>4. QED
    BY <2>1, <2>2, <2>3
<1>11. \A b \in Attempts : ReviewOf(b) # 0 => ReviewOf(b) # intent.slots.by
  BY <1>1 DEF IntentInv, ReviewIsRead
<1>12. \A b, c \in Attempts : ReviewOf(b)' = ReviewOf(c)' /\ ReviewOf(b)' # 0 => b = c
  BY <1>9, <1>11 DEF IntentInv
<1>13. \A b, c \in Attempts : auth'[b].at = "pin" /\ auth'[c].at = "pin" => b = c
  BY <1>1, <1>6
<1>14. ASSUME NEW b \in Attempts PROVE AttemptHolds(b)' /\ ReviewIsRead(b)'
  <2>1. CASE b = a
    <3>1. AttemptHolds(a)'
      BY <1>1, <1>2, <1>3, <1>5, <1>6 DEF AttemptHolds
    <3>2. ReviewIsRead(a)'
      BY <1>1, <1>2, <1>3, <1>5, <1>6 DEF ReviewIsRead
    <3>3. QED
      BY <2>1, <3>1, <3>2
  <2>2. CASE b # a
    BY <1>1, <1>3, <1>6, <1>9, <2>2 DEF IntentInv, AttemptHolds, Authorizing, ReviewIsRead
  <2>3. QED
    BY <2>1, <2>2
<1>15. QED
  BY <1>3, <1>7, <1>8, <1>10, <1>12, <1>13, <1>14 DEF IntentInv

LEMMA AttemptKeeps ==
  ASSUME IntentInv, "confirm" \notin Doubled, "authorize" \notin Doubled, NEW a \in Attempts,
         \/ AuthRead(a) \/ AuthRefused(a) \/ AuthProcessing(a)
         \/ AuthExecute(a) \/ AuthUnfit(a) \/ AuthEnd(a) \/ AuthStops(a)
  PROVE  IntentInv'
<1>0. TalkInv /\ IntentTyped
  BY DEF IntentInv
<1>a. {"PROCESSING", "FAILED", "COMPLETED"} \subseteq IntentStatuses \ {"none"}
  BY DEF IntentStatuses
<1>1. CASE AuthRead(a)
  BY <1>1, AttemptReads
<1>2. ASSUME UNCHANGED talkVars, UNCHANGED <<page, confirming>>, auth[a].at # "start",
             \/ Over(a)
             \/ Ended(a) /\ auth[a].at = "paying"
             \/ auth' = [auth EXCEPT ![a].at = "paying"] /\ auth[a].at = "execute"
      PROVE  IntentInv'
  <2>1. TalkInv' /\ intent' = intent /\ \A n : Numbered(n) => Numbered(n)'
    BY <1>0, <1>2, TalkStays
  <2>2. OneAttempt(a) /\ auth'[a].at \in {"done", "paying"}
    BY <1>0, <1>2, OverFields, GoesToFields
  <2>3. /\ \/ auth'[a].review = auth[a].review
                /\ (Authorizing(a)' => Authorizing(a) /\ auth'[a].from = auth[a].from)
           \/ auth'[a].at = "done" /\ ReviewOf(a)' = 0
        /\ auth[a].at = "pin" => ReviewOf(a)' = 0
    BY <1>0, <1>2, OverFields, GoesToFields DEF Authorizing
  <2>4. QED
    BY <1>2, <2>1, <2>2, <2>3, AttemptGoesOn
<1>3. ASSUME NEW status \in {"PROCESSING", "FAILED", "COMPLETED"}, Write(status),
             UNCHANGED rowVars, UNCHANGED <<page, confirming>>, Authorizing(a),
             \/ Over(a)
             \/ Ended(a) /\ auth[a].at = "paying"
             \/ auth' = [auth EXCEPT ![a].at = "execute"] /\ status = "PROCESSING"
      PROVE  IntentInv'
  <2>0. intent.intent # "none" /\ auth[a].at # "start"
    BY <1>3 DEF IntentInv, AttemptHolds, Authorizing
  <2>1. /\ TalkInv' /\ intent'.intent = intent.intent /\ intent'.slots = intent.slots
        /\ intent'.status = status
        /\ \A n : Numbered(n) => Numbered(n)'
    BY <1>0, <1>a, <1>3, <2>0, WriteKeepsTalk
  <2>2. OneAttempt(a) /\ auth'[a].at \in {"done", "execute"}
    BY <1>0, <1>3, OverFields, GoesToFields
  <2>3. /\ \/ auth'[a].review = auth[a].review
                /\ (Authorizing(a)' => Authorizing(a) /\ auth'[a].from = auth[a].from)
           \/ auth'[a].at = "done" /\ ReviewOf(a)' = 0
        /\ auth[a].at = "pin" => ReviewOf(a)' = 0 \/ status = "PROCESSING"
    BY <1>0, <1>3, OverFields, GoesToFields DEF Authorizing
  <2>4. QED
    BY <1>3, <2>0, <2>1, <2>2, <2>3, AttemptGoesOn
<1>4. CASE AuthRefused(a)
  BY <1>2, <1>4 DEF AuthRefused
<1>5. CASE AuthProcessing(a)
  BY <1>3, <1>5 DEF AuthProcessing, Authorizing
<1>6. CASE AuthExecute(a)
  BY <1>2, <1>6 DEF AuthExecute
<1>7. CASE AuthUnfit(a)
  BY <1>3, <1>7 DEF AuthUnfit, Authorizing
<1>8. CASE AuthEnd(a)
  <2>1. Write("FAILED") \/ Write("COMPLETED")
    BY <1>8 DEF AuthEnd
  <2>2. /\ UNCHANGED rowVars /\ UNCHANGED <<page, confirming>> /\ Authorizing(a)
        /\ Ended(a) /\ auth[a].at = "paying"
    BY <1>8 DEF AuthEnd, Authorizing
  <2>3. QED
    BY <1>3, <2>1, <2>2
<1>9. CASE AuthStops(a)
  <2>1. /\ UNCHANGED talkVars /\ UNCHANGED <<page, confirming>> /\ auth[a].at # "start"
        /\ Over(a) \/ (Ended(a) /\ auth[a].at = "paying")
    BY <1>9 DEF AuthStops, Authorizing
  <2>2. QED
    BY <1>2, <2>1
<1>10. QED
  BY <1>1, <1>4, <1>5, <1>6, <1>7, <1>8, <1>9

LEMMA NextIntentInv ==
  ASSUME IntentInv, "confirm" \notin Doubled, "authorize" \notin Doubled, [AppNext]_everyVar
  PROVE  IntentInv'
<1>1. CASE IntentNext
  BY <1>1, TalkStep, ConfirmKeeps, AttemptKeeps DEF IntentNext
<1>2. CASE UNCHANGED intentVars
  <2>1. UNCHANGED talkVars /\ page' = page /\ confirming' = confirming /\ auth' = auth
    BY <1>2 DEF intentVars
  <2>2. TalkInv' /\ intent' = intent /\ \A n : Numbered(n) <=> Numbered(n)'
    BY <2>1, TalkStays DEF IntentInv
  <2>3. Numbered(intent.slots.by)' /\ \A b \in Attempts : Numbered(ReviewOf(b))'
    BY <2>1, <2>2 DEF IntentInv, Numbered, ReviewOf
  <2>4. QED
    BY <2>1, <2>2, <2>3 DEF IntentInv, IntentTyped, PageIsTheRow, Shown, AttemptHolds, Authorizing,
       ReviewIsRead, ReviewOf
<1>3. QED
  BY <1>1, <1>2 DEF AppNext, everyVar

-----------------------------------------------------------------------------
\* However messages, the button, the Mini App and attempts interleave, what is paid is
\* what the page showed on which the PIN was entered (authorizeIntentWithPin), when a
\* confirmation does not overlap another, nor a check of the PIN another.
THEOREM WhatIsPaidWasShown ==
  ASSUME "confirm" \notin Doubled, "authorize" \notin Doubled
  PROVE  AppSpec => []PaidAsShown
<1>1. AppInit => IntentInv
  BY InitIntentInv DEF AppInit
<1>2. IntentInv /\ [AppNext]_everyVar => IntentInv'
  BY NextIntentInv
<1>3. IntentInv => PaidAsShown
  BY DEF IntentInv, AttemptHolds, PaidAsShown, Authorizing
<1>4. QED
  BY <1>1, <1>2, <1>3, PTL DEF AppSpec

\* Under the same conditions, no review is paid by two attempts, whatever messages write
\* into the row and whichever attempts fail or stop (authorizeIntentWithPin).
THEOREM ReviewsArePaidOnce ==
  ASSUME "confirm" \notin Doubled, "authorize" \notin Doubled
  PROVE  AppSpec => []ReviewPaidOnce
<1>1. AppInit => IntentInv
  BY InitIntentInv DEF AppInit
<1>2. IntentInv /\ [AppNext]_everyVar => IntentInv'
  BY NextIntentInv
<1>3. IntentInv => ReviewPaidOnce
  <2>1. SUFFICES ASSUME IntentInv, NEW n \in 1..MaxMessages
                 PROVE  Cardinality({a \in Attempts : Taken(a, n)}) <= 1
    BY DEF ReviewPaidOnce
  <2>2. PICK S : S = {a \in Attempts : Taken(a, n)}
    OBVIOUS
  <2>3. \A a, b \in S : a = b
    <3>1. \A a \in S : a \in Attempts /\ ReviewOf(a) = n
      BY <2>2 DEF Taken, ReviewOf
    <3>2. n # 0
      BY ConversationAssumption
    <3>3. QED
      BY <2>1, <3>1, <3>2 DEF IntentInv
  <2>4. CASE S = {}
    BY <2>2, <2>4, FS_EmptySet
  <2>5. CASE S # {}
    <3>0. PICK a \in S : TRUE
      BY <2>5
    <3>1. S = {a}
      BY <2>3, <3>0
    <3>2. Cardinality(S) = 1
      BY <3>1, FS_Singleton
    <3>3. QED
      BY <2>2, <3>2
  <2>6. QED
    BY <2>4, <2>5
<1>4. QED
  BY <1>1, <1>2, <1>3, PTL DEF AppSpec

\* What keeps amounts fresh needs nothing of what overlaps: only that a row which is
\* written to be paid is one of a payment.
ReadsPayment(a) == Authorizing(a) => auth[a].review.intent \notin {"none", "FUND_CRYPTO"}

TalkLive ==
  /\ TalkInv /\ IntentTyped
  /\ confirming \/ (\E a \in Attempts : Authorizing(a)) => intent.intent # "none"
  /\ \A a \in Attempts : ReadsPayment(a)

LEMMA NextTalkLive == ASSUME TalkLive, [AppNext]_everyVar PROVE TalkLive'
<1>0. /\ TalkInv /\ TalkTyped /\ IntentTyped /\ page \in PageRow /\ intent \in IntentRow
      /\ Shown(intent) \in PageRow
      /\ intent.intent # "none" \/ intent.status = "none"
  BY DEF TalkLive, TalkInv, TalkTyped, IntentTyped, IntentRow, PageRow, Shown, NoIntent
<1>a. {"PROCESSING", "FAILED", "COMPLETED", "AWAITING_AUTHORIZATION"} \subseteq IntentStatuses \ {"none"}
  BY DEF IntentStatuses
<1>b. auth' = auth => \A a \in Attempts : ReadsPayment(a)'
  BY DEF TalkLive, ReadsPayment, Authorizing
<1>1. CASE Talk
  <2>1. TalkInv' /\ (Background \/ \E n \in Messages : TalkEffect(n))
    BY <1>0, <1>1, TalkKept, StepEffect DEF Talk
  <2>2. intent.intent # "none" => intent'.intent # "none"
    BY <1>0, <2>1, CancelledRow DEF TalkEffect, Background, Quiet, Rewrites, Wrote, Cancels
  <2>3. confirming' = confirming /\ auth' = auth /\ page' \in PageRow
    BY <1>0, <1>1, NoPageTyped DEF Talk
  <2>4. QED
    BY <2>1, <2>2, <2>3 DEF TalkLive, IntentTyped, Authorizing, ReadsPayment
<1>2. ASSUME NEW status \in {"PROCESSING", "FAILED", "COMPLETED", "AWAITING_AUTHORIZATION"},
             Write(status), UNCHANGED rowVars, intent.intent # "none", IntentTyped',
             \A b \in Attempts : ReadsPayment(b)'
      PROVE  TalkLive'
  BY <1>0, <1>a, <1>2, WriteKeepsTalk DEF TalkLive
<1>3. ASSUME UNCHANGED talkVars, IntentTyped',
             intent.intent # "none"
               \/ (auth' = auth /\ confirming' = confirming),
             \A b \in Attempts : ReadsPayment(b)'
      PROVE  TalkLive'
  BY <1>0, <1>3, TalkStays DEF TalkLive, Authorizing
<1>4. CASE ConfirmLook
  <2>1. UNCHANGED talkVars /\ intent.intent # "none" /\ IntentTyped'
    BY <1>0, <1>4, NoPageTyped DEF ConfirmLook, IntentTyped
  <2>2. auth' = auth
    BY <1>4 DEF ConfirmLook
  <2>3. QED
    BY <1>b, <1>3, <2>1, <2>2
<1>5. CASE ConfirmWrite
  <2>1. /\ Write("AWAITING_AUTHORIZATION") /\ UNCHANGED rowVars /\ intent.intent # "none"
        /\ IntentTyped' /\ auth' = auth
    BY <1>5 DEF ConfirmWrite, TalkLive, IntentTyped
  <2>2. QED
    BY <1>b, <1>2, <2>1
<1>6. CASE getIntentForMiniApp
  <2>1. IntentTyped' /\ auth' = auth /\ confirming' = confirming
    BY <1>0, <1>6 DEF getIntentForMiniApp, IntentTyped
  <2>2. CASE intent.status = "AWAITING_CONFIRMATION"
    <3>1. Write("AWAITING_AUTHORIZATION") /\ UNCHANGED rowVars /\ intent.intent # "none"
      BY <1>0, <1>6, <2>2 DEF getIntentForMiniApp
    <3>2. QED
      BY <1>b, <1>2, <2>1, <3>1
  <2>3. CASE intent.status # "AWAITING_CONFIRMATION"
    <3>1. UNCHANGED talkVars
      BY <1>6, <2>3 DEF getIntentForMiniApp, rowVars, talkVars
    <3>2. QED
      BY <1>b, <1>3, <2>1, <3>1
  <2>4. QED
    BY <2>2, <2>3
<1>7. ASSUME NEW a \in Attempts, AuthRead(a) PROVE TalkLive'
  <2>1. PICK r : r = [at |-> "pin", review |-> Shown(intent), from |-> page]
    OBVIOUS
  <2>2. auth' = [auth EXCEPT ![a] = r] /\ r \in Attempt
    BY <1>0, <1>7, <2>1 DEF AuthRead, Attempt
  <2>3. UNCHANGED talkVars /\ IntentTyped' /\ intent.intent # "none"
    BY <1>0, <1>7, <2>2 DEF AuthRead, AUTHORIZABLE, IntentTyped
  <2>4. \A b \in Attempts : ReadsPayment(b)'
    <3>1. r.review.intent = intent.intent /\ intent.intent # "FUND_CRYPTO"
      BY <1>7, <2>1 DEF AuthRead, Shown
    <3>2. QED
      BY <1>0, <2>2, <2>3, <3>1 DEF TalkLive, IntentTyped, ReadsPayment, Authorizing
  <2>5. QED
    BY <1>3, <2>3, <2>4
<1>8. ASSUME NEW a \in Attempts,
             \/ AuthRefused(a) \/ AuthProcessing(a)
             \/ AuthExecute(a) \/ AuthUnfit(a) \/ AuthEnd(a) \/ AuthStops(a)
      PROVE  TalkLive'
  <2>1. intent.intent # "none"
    BY <1>8 DEF TalkLive, Authorizing, AuthRefused, AuthProcessing, AuthExecute, AuthUnfit, AuthEnd,
       AuthStops
  <2>2. /\ page' = page /\ confirming' = confirming
        /\ Authorizing(a)
        /\ \/ Over(a) \/ Ended(a)
           \/ \E label \in {"execute", "paying"} : auth' = [auth EXCEPT ![a].at = label]
    BY <1>8 DEF AuthRefused, AuthProcessing, AuthExecute, AuthUnfit, AuthEnd, AuthStops, Authorizing
  <2>3. OneAttempt(a) /\ (auth'[a].at = "done" \/ auth'[a].review = auth[a].review)
    BY <1>0, <2>2, OverFields, GoesToFields
  <2>6. IntentTyped'
    BY <1>0, <2>3 DEF OneAttempt, IntentTyped
  <2>7. \A b \in Attempts : ReadsPayment(b)'
    BY <2>2, <2>3 DEF TalkLive, OneAttempt, ReadsPayment, Authorizing
  <2>4. \/ UNCHANGED talkVars
        \/ UNCHANGED rowVars /\ \E status \in {"PROCESSING", "FAILED", "COMPLETED"} : Write(status)
    BY <1>8 DEF AuthRefused, AuthProcessing, AuthExecute, AuthUnfit, AuthEnd, AuthStops
  <2>5. QED
    BY <1>2, <1>3, <2>1, <2>6, <2>7, <2>4
<1>9. CASE UNCHANGED intentVars
  BY <1>0, <1>b, <1>3, <1>9 DEF intentVars, IntentTyped
<1>10. QED
  BY <1>1, <1>4, <1>5, <1>6, <1>7, <1>8, <1>9 DEF AppNext, everyVar, IntentNext

\* No draft or review of a payment has an amount that the user named before the last
\* cancellation that came while no other message was being handled (cancelActiveIntent,
\* shouldInterruptCollection), whatever rule answers a message, and however messages,
\* confirmations and attempts overlap before and after it.
THEOREM AmountsAreFresh == AppSpec => []FreshAmount
<1>1. AppInit => TalkLive
  <2>1. IntentInit => TalkLive
    BY InitIntentInv DEF IntentInv, TalkLive, PageIsTheRow, AttemptHolds, ReadsPayment
  <2>2. QED
    BY <2>1 DEF AppInit
<1>2. TalkLive /\ [AppNext]_everyVar => TalkLive'
  BY NextTalkLive
<1>3. TalkLive => FreshAmount
  BY DEF TalkLive, TalkInv, FreshAmount, Fresh, Open, Terminal
<1>4. QED
  BY <1>1, <1>2, <1>3, PTL DEF AppSpec

-----------------------------------------------------------------------------
(***************************************************************************)
(* Money.  A call that a flow or an attempt has not made yet is as fresh   *)
(* as its reference: making it starts it from nothing (Starts).  Products  *)
(* post under keys of their own, which no call's debit or reversal has.    *)
(***************************************************************************)
Untouched(c) ==
  /\ pc[c] = "done" /\ order[c] = "none" /\ row[c] = "none" /\ fetched[c] = "none"
  /\ c \notin reversing /\ ~Reversed(c)

\* The calls that a run of the flow has still before it, and those of an attempt.
RunAhead(r, i) ==
  \/ run[r].at = "start"
  \/ run[r].at = "next" /\ i >= run[r].i
  \/ run[r].at = "paying" /\ i > run[r].i

Ahead(c) ==
  \/ \E r \in Runs, i \in DOMAIN Schedules : c = PaymentOf[r][i] /\ RunAhead(r, i)
  \/ \E a \in Attempts, name \in Payable :
       c = ExecutionOf[a][name] /\ auth[a].at \in {"start", "pin", "execute"}

FreshCalls == \A c \in Payouts : Ahead(c) => Untouched(c)

ScheduleList == [DOMAIN Schedules -> [autoPay : BOOLEAN, next : Nat]]

RunRow == [at : {"start", "next", "paying", "done"}, i : Nat, wallet : Nat,
           schedules : ScheduleList \cup {NoEdit}, spent : Nat]

FlowTyped ==
  /\ day \in Nat
  /\ flow \in [status : {"none", "active", "cancelled"}, spent : Nat, schedules : ScheduleList]
  /\ run \in [Runs -> RunRow]
  /\ \A r \in Runs : /\ Working(r) => run[r].schedules \in ScheduleList
                     /\ run[r].at = "paying" => run[r].i \in DOMAIN Schedules
  /\ edit \in ScheduleList \cup {NoEdit}

PositionRow == [status : {"none", "active", "claimed"}, owner : Accounts \cup {Outside},
                principal : Nat, matures : Nat]

ProductTyped ==
  /\ at \in [Requests -> {"start", "done", "debit", "place", "pay", "mirror", "fee"}]
  /\ position \in [Positions -> PositionRow]
  /\ \A r \in Requests : /\ at[r] \in {"debit", "place"} => r.kind = "invest"
                         /\ at[r] = "pay" => r.kind = "claim"
                         /\ at[r] \in {"mirror", "fee"} => r.kind = "crypto"

\* What holds whatever the providers answer; and the whole invariant, for which no order
\* may be taken whose answer is lost.
AppSound == TypeOK /\ KeyedMovements /\ TalkLive /\ FlowTyped /\ ProductTyped

MoneyInv == IInv /\ TalkLive /\ FlowTyped /\ ProductTyped /\ FreshCalls

\* The other side of a transfer or a swap.
Received(c) == findMovementByKey(Key(c, "credit"))

\* One new movement under a key that is no call's debit, credit or reversal.
LEMMA OtherPosting ==
  ASSUME KeyedMovements, NEW x, NEW t, t \notin {"debit", "reversal", "credit"},
         NEW dir, NEW w, NEW a,
         \A m \in movements : m \in movements',
         \A m \in movements' : m \in movements \/ m = Movement(<<x, t>>, dir, w, a)
  PROVE  /\ KeyedMovements'
         /\ \A c \in Calls : HasDebit(c) => HasDebit(c)'
         /\ \A c \in Calls : Reversed(c)' => Reversed(c)
         /\ \A c \in Calls : Received(c)' => Received(c)
<1>1. Movement(<<x, t>>, dir, w, a).key = <<x, t>>
  BY DEF Movement
<1>2. \A c \in Calls : \A s \in {"debit", "reversal", "credit"} : Key(c, s) # <<x, t>>
  BY DEF Key
<1>3. KeyedMovements'
  <2>1. SUFFICES ASSUME NEW c \in Calls, NEW m \in movements'
                 PROVE  /\ m.key = Key(c, "debit")
                             => m = Movement(Key(c, "debit"), "debit", c.from, c.amount)
                        /\ m.key = Key(c, "reversal")
                             => m = Movement(Key(c, "reversal"), "credit", c.from, c.amount)
    BY DEF KeyedMovements, Key, Movement
  <2>2. CASE m \in movements
    BY <2>2 DEF KeyedMovements
  <2>3. CASE m = Movement(<<x, t>>, dir, w, a)
    BY <1>1, <1>2, <2>3
  <2>4. QED
    BY <2>2, <2>3
<1>4. \A c \in Calls : HasDebit(c) => HasDebit(c)'
  BY DEF HasDebit, Movement, Key
<1>5. \A c \in Calls : Reversed(c)' => Reversed(c)
  <2>1. SUFFICES ASSUME NEW c \in Calls, NEW m \in movements', m.key = Key(c, "reversal")
                 PROVE  Reversed(c)
    BY DEF Reversed, findMovementByKey, Key
  <2>2. m \in movements
    BY <1>1, <1>2, <2>1
  <2>3. QED
    BY <2>1, <2>2 DEF Reversed, findMovementByKey
<1>6. \A c \in Calls : Received(c)' => Received(c)
  <2>1. SUFFICES ASSUME NEW c \in Calls, NEW m \in movements', m.key = Key(c, "credit")
                 PROVE  Received(c)
    BY DEF Received, findMovementByKey, Key
  <2>2. m \in movements
    BY <1>1, <1>2, <2>1
  <2>3. QED
    BY <2>1, <2>2 DEF Received, findMovementByKey
<1>7. QED
  BY <1>3, <1>4, <1>5, <1>6

InvestMovement(r) == Movement(<<r.ref, "investment">>, "debit", r.from, r.amount)

\* Movements stay, and one that is new is an investment's own or stands under another key.
InvestsOnly ==
  /\ \A m \in movements : m \in movements'
  /\ \A m \in movements' :
       \/ m \in movements
       \/ \E x, t : t # "investment" /\ m.key = <<x, t>>
       \/ \E r \in Requests : r.kind = "invest" /\ m = InvestMovement(r)

\* What a step of a product may do to the ledger.
ProductPosts ==
  /\ LedgerTypeOK' /\ KeyedMovements' /\ InvestsOnly
  /\ \A c \in Calls : HasDebit(c) => HasDebit(c)'
  /\ \A c \in Calls : Reversed(c)' => Reversed(c)
  /\ \A c \in Calls : Received(c)' => Received(c)

LEMMA CreditPosts ==
  ASSUME LedgerTypeOK, KeyedMovements, NEW x, NEW t,
         t \notin {"debit", "reversal", "credit", "investment"},
         NEW w \in Accounts, NEW a \in Nat, credit(<<x, t>>, w, a)
  PROVE  ProductPosts
<1>1. /\ LedgerTypeOK' /\ \A m \in movements : m \in movements'
      /\ \A m \in movements' : m \in movements \/ m = Movement(<<x, t>>, "credit", w, a)
  BY CreditOne
<1>2. Movement(<<x, t>>, "credit", w, a).key = <<x, t>>
  BY DEF Movement
<1>3. InvestsOnly
  BY <1>1, <1>2 DEF InvestsOnly
<1>4. QED
  BY <1>1, <1>3, OtherPosting DEF ProductPosts

LEMMA DebitPosts ==
  ASSUME LedgerTypeOK, KeyedMovements, NEW x, NEW t, t \notin {"debit", "reversal", "credit"},
         NEW w \in Accounts, NEW a \in Nat, debits(<<x, t>>, w, a), debit(<<x, t>>, w, a),
         \/ t # "investment"
         \/ \E r \in Requests : r.kind = "invest" /\ x = r.ref /\ w = r.from /\ a = r.amount
  PROVE  ProductPosts
<1>1. /\ LedgerTypeOK' /\ \A m \in movements : m \in movements'
      /\ \A m \in movements' : m \in movements \/ m = Movement(<<x, t>>, "debit", w, a)
  BY DebitOne
<1>2. Movement(<<x, t>>, "debit", w, a).key = <<x, t>>
  BY DEF Movement
<1>3. InvestsOnly
  <2>1. CASE t # "investment"
    BY <1>1, <1>2, <2>1 DEF InvestsOnly
  <2>2. ASSUME NEW r \in Requests, r.kind = "invest", x = r.ref, w = r.from, a = r.amount,
               t = "investment"
        PROVE  InvestsOnly
    BY <1>1, <2>2 DEF InvestsOnly, InvestMovement
  <2>3. QED
    BY <2>1, <2>2
<1>4. QED
  BY <1>1, <1>3, OtherPosting DEF ProductPosts

LEMMA NothingPosts ==
  ASSUME LedgerTypeOK, KeyedMovements, UNCHANGED ledgerVars
  PROVE  ProductPosts
BY NoPosting DEF ProductPosts, InvestsOnly, Received, findMovementByKey, Key, ledgerVars

LEMMA RequestFields ==
  ASSUME NEW r \in Requests
  PROVE  /\ r.amount \in Nat /\ r.kind \in RequestKinds
         /\ r.kind \in {"invest", "claim", "crypto"} => r.from \in Accounts
         /\ r.kind = "bank" => r.to \in Accounts
         /\ r.kind = "invest" => r.ref \in Positions
         /\ r.kind = "claim" => r.position \in Positions
         /\ Fee \in Nat /\ Interest \in Nat
BY RequestsAssumption

\* A step of a request, or a sync that has seen a payment.
ProductWorks ==
  \/ \E r \in Requests : ProductStep(r)
  \/ \E r \in Requests, form \in Forms : InflowSynced(r, form)

LEMMA ProductLedger ==
  ASSUME LedgerTypeOK, KeyedMovements, ProductTyped, ProductWorks
  PROVE  ProductPosts /\ UNCHANGED <<payVars, potVars>>
<1>1. CASE UNCHANGED vars
  BY <1>1, NothingPosts DEF vars
<1>2. ASSUME NEW r \in Requests, InvestDebit(r) PROVE ProductPosts /\ UNCHANGED <<payVars, potVars>>
  <2>1. r.kind = "invest" /\ r.from \in Accounts /\ r.amount \in Nat
    BY <1>2, RequestFields DEF InvestDebit, ProductTyped
  <2>2. QED
    BY <1>2, <2>1, DebitPosts, NothingPosts DEF InvestDebit
<1>3. ASSUME NEW r \in Requests, ClaimPay(r) PROVE ProductPosts /\ UNCHANGED <<payVars, potVars>>
  <2>1. r.from \in Accounts /\ r.position \in Positions /\ Interest \in Nat
    BY <1>3, RequestFields DEF ClaimPay, ProductTyped
  <2>2. PICK paid : paid = position[r.position].principal + Interest
    OBVIOUS
  <2>3. paid \in Nat
    BY <2>1, <2>2 DEF ProductTyped, PositionRow
  <2>4. UNCHANGED ledgerVars \/ credit(<<r.ref, "yield">>, r.from, paid)
    BY <1>3, <2>2 DEF ClaimPay
  <2>5. UNCHANGED <<payVars, potVars>>
    BY <1>3 DEF ClaimPay
  <2>6. QED
    BY <2>1, <2>3, <2>4, <2>5, CreditPosts, NothingPosts
<1>4. ASSUME NEW r \in Requests, Mirror(r) PROVE ProductPosts /\ UNCHANGED <<payVars, potVars>>
  <2>1. r.from \in Accounts /\ r.amount \in Nat
    BY <1>4, RequestFields DEF Mirror, ProductTyped
  <2>2. QED
    BY <1>4, <2>1, DebitPosts, NothingPosts DEF Mirror
<1>5. ASSUME NEW r \in Requests, MirrorFee(r) PROVE ProductPosts /\ UNCHANGED <<payVars, potVars>>
  <2>1. r.from \in Accounts /\ Fee \in Nat
    BY <1>5, RequestFields DEF MirrorFee, ProductTyped
  <2>2. QED
    BY <1>5, <2>1, DebitPosts, NothingPosts DEF MirrorFee
<1>6. ASSUME NEW r \in Requests, LogSynced(r) PROVE ProductPosts /\ UNCHANGED <<payVars, potVars>>
  <2>1. r.to \in Accounts /\ r.amount \in Nat
    BY <1>6, RequestFields DEF LogSynced
  <2>2. QED
    BY <1>6, <2>1, CreditPosts DEF LogSynced
<1>7. ASSUME NEW r \in Requests, BankWebhook(r) PROVE ProductPosts /\ UNCHANGED <<payVars, potVars>>
  <2>1. r.to \in Accounts /\ r.amount \in Nat
    BY <1>7, RequestFields DEF BankWebhook
  <2>2. PICK t : t = IF r.rail = "looked up" THEN "flw_ref" ELSE "tx_ref"
    OBVIOUS
  <2>3. t \in {"flw_ref", "tx_ref"}
    BY <2>2
  <2>4. credit(<<r.id, t>>, r.to, r.amount) /\ UNCHANGED <<payVars, potVars>>
    BY <1>7, <2>2 DEF BankWebhook
  <2>5. ProductPosts
    BY <2>1, <2>3, <2>4, CreditPosts
  <2>6. QED
    BY <2>4, <2>5
<1>8. ASSUME NEW r \in Requests, NEW form \in Forms, InflowSynced(r, form)
      PROVE  ProductPosts /\ UNCHANGED <<payVars, potVars>>
  <2>1. r.to \in Accounts /\ r.amount \in Nat
    BY <1>8, RequestFields DEF InflowSynced
  <2>2. PICK x : credit(<<x, "in">>, r.to, r.amount)
    BY <1>8 DEF InflowSynced
  <2>3. QED
    BY <1>8, <2>1, <2>2, CreditPosts DEF InflowSynced
<1>9. ASSUME NEW r \in Requests,
             \/ InvestLook(r) \/ InvestPlace(r) \/ ClaimLook(r) \/ SendOnChain(r) \/ PaidIn(r)
             \/ RequestStops(r)
      PROVE  UNCHANGED vars
  BY <1>9 DEF InvestLook, InvestPlace, ClaimLook, SendOnChain, PaidIn, RequestStops
<1>10. QED
  BY <1>1, <1>2, <1>3, <1>4, <1>5, <1>6, <1>7, <1>8, <1>9 DEF ProductWorks, ProductStep

\* Counted from below, the elements of a finite set of numbers have as many ranks as
\* there are elements; the one of rank one is the least.
LEMMA LeastElement ==
  ASSUME NEW S, S \subseteq Nat, IsFiniteSet(S), S # {}
  PROVE  Min(S) \in S /\ \A y \in S : Min(S) <= y
<1> DEFINE Below(x) == {y \in S : y <= x}
           rank == [x \in S |-> Cardinality(Below(x))]
           n == Cardinality(S)
<1>1. n \in Nat /\ n # 0
  BY FS_CardinalityType, FS_EmptySet
<1>2. ASSUME NEW x \in S
      PROVE  /\ IsFiniteSet(Below(x)) /\ Cardinality(Below(x)) \in 1..n
             /\ IsFiniteSet(Below(x) \ {x})
             /\ Cardinality(Below(x) \ {x}) = Cardinality(Below(x)) - 1
  <2>1. x \in Below(x) /\ Below(x) \in SUBSET S
    OBVIOUS
  <2> HIDE DEF Below
  <2>2. IsFiniteSet(Below(x)) /\ Cardinality(Below(x)) <= n
    BY <2>1, FS_Subset
  <2>3. Cardinality(Below(x)) \in Nat /\ Cardinality(Below(x)) # 0
    BY <2>1, <2>2, FS_CardinalityType, FS_EmptySet
  <2>4. /\ IsFiniteSet(Below(x) \ {x})
        /\ Cardinality(Below(x) \ {x}) = Cardinality(Below(x)) - 1
    BY <2>1, <2>2, FS_RemoveElement
  <2>5. QED
    BY <1>1, <2>2, <2>3, <2>4
<1>3. ASSUME NEW x \in S, NEW y \in S, x < y
      PROVE  Cardinality(Below(x)) < Cardinality(Below(y))
  <2>1. Below(x) \in SUBSET (Below(y) \ {y})
    <3>1. x \in Nat /\ y \in Nat /\ S \subseteq Nat
      OBVIOUS
    <3>2. ASSUME NEW z \in S, z <= x PROVE z <= y /\ z # y
      BY <1>3, <3>1, <3>2
    <3>3. QED
      BY <3>2
  <2> HIDE DEF Below, n
  <2>2. Cardinality(Below(x)) <= Cardinality(Below(y) \ {y})
    BY <1>2, <2>1, FS_Subset
  <2>3. Cardinality(Below(x)) \in 1..n /\ Cardinality(Below(y)) \in 1..n
    BY <1>2
  <2>4. QED
    BY <1>1, <1>2, <2>2, <2>3
<1>4. rank \in Injection(S, 1..n)
  <2>1. rank \in [S -> 1..n]
    BY <1>2
  <2>2. ASSUME NEW x \in S, NEW y \in S, rank[x] = rank[y] PROVE x = y
    <3>0. x \in Nat /\ y \in Nat /\ Cardinality(Below(x)) = Cardinality(Below(y))
      BY <2>2
    <3> HIDE DEF Below, rank, n
    <3>1. ~(x < y) /\ ~(y < x)
      <4>1. Cardinality(Below(x)) \in 1..n
        BY <1>2
      <4>2. Cardinality(Below(x)) \in Nat
        BY <1>1, <4>1
      <4>3. QED
        BY <1>3, <3>0, <4>2
    <3>2. QED
      BY <3>0, <3>1
  <2> HIDE DEF rank
  <2>3. QED
    BY <2>1, <2>2 DEF Injection, IsInjective
<1>5. rank \in Surjection(S, 1..n)
  <2>1. IsFiniteSet(1..n) /\ Cardinality(1..n) = n
    BY <1>1, FS_Interval
  <2> HIDE DEF rank, n
  <2>2. QED
    BY <1>4, <2>1, FS_Injection DEF n
<1>6. PICK x \in S : rank[x] = 1
  <2> HIDE DEF rank
  <2>1. 1 \in 1..n
    BY <1>1
  <2>2. QED
    BY <1>5, <2>1 DEF Surjection
<1>7. \A y \in S : x <= y
  <2>1. SUFFICES ASSUME NEW y \in S, y < x PROVE FALSE
    OBVIOUS
  <2>2. Cardinality(Below(y)) \in 1..n /\ Cardinality(Below(y)) < 1
    BY <1>2, <1>3, <1>6, <2>1
  <2>3. QED
    BY <1>1, <2>2
<1>8. QED
  BY <1>7 DEF Min

-----------------------------------------------------------------------------
(* Flows. *)

LEMMA ScheduleFields ==
  /\ IsFiniteSet(DOMAIN Schedules) /\ DOMAIN Schedules \subseteq Nat
  /\ \A i \in DOMAIN Schedules :
       Schedules[i].amount \in Nat /\ Schedules[i].amount # 0 /\ Schedules[i].once \in BOOLEAN
<1>1. Schedules \in Seq([amount : Nat \ {0}, once : BOOLEAN])
  BY DayflowAssumption
<1>2. PICK n \in Nat : n = Len(Schedules)
  BY <1>1
<1>3. DOMAIN Schedules = 1..n
  BY <1>1, <1>2
<1>4. IsFiniteSet(1..n) /\ 1..n \subseteq Nat
  BY FS_Interval
<1>5. ASSUME NEW i \in DOMAIN Schedules
      PROVE  Schedules[i].amount \in Nat /\ Schedules[i].amount # 0 /\ Schedules[i].once \in BOOLEAN
  <2>1. \A S : Schedules \in Seq(S) => Schedules[i] \in S
    OBVIOUS
  <2>2. Schedules[i] \in [amount : Nat \ {0}, once : BOOLEAN]
    BY <1>1, <2>1
  <2>3. QED
    BY <2>2
<1>6. QED
  BY <1>3, <1>4, <1>5

\* A step of one run, which may pass payments over but goes back to none.
OneRun(r) ==
  /\ run' \in [Runs -> RunRow]
  /\ \A q \in Runs \ {r} : run'[q] = run[q]
  /\ \A i \in DOMAIN Schedules : RunAhead(r, i)' => RunAhead(r, i)
  /\ Working(r)' => run'[r].schedules \in ScheduleList
  /\ run'[r].at = "paying" => run'[r].i \in DOMAIN Schedules
  /\ day' = day

LEMMA NoRunTyped ==
  ASSUME NEW label \in {"start", "next", "done"}
  PROVE  /\ NoRun(label) \in [at : {label}, i : {1}, wallet : {0}, schedules : {NoEdit}, spent : {0}]
         /\ NoRun(label) \in RunRow
BY DEF NoRun, RunRow

LEMMA RunLoads ==
  ASSUME FlowTyped, LedgerTypeOK, NEW r \in Runs, RunLoad(r)
  PROVE  OneRun(r)
<1>1. PICK x : x = [NoRun("next") EXCEPT !.wallet = balance[Payer], !.schedules = flow.schedules]
  OBVIOUS
<1>2. balance[Payer] \in Nat /\ flow.schedules \in ScheduleList
  BY DayflowAssumption DEF FlowTyped, LedgerTypeOK
<1>3. x \in RunRow /\ x.at = "next" /\ x.schedules = flow.schedules
  BY <1>1, <1>2 DEF NoRun, RunRow
<1>4. run' = [run EXCEPT ![r] = x] /\ day' = day /\ run[r].at = "start"
  BY <1>1 DEF RunLoad, vars, potVars
<1>5. QED
  BY <1>2, <1>3, <1>4 DEF FlowTyped, OneRun, RunAhead, Working

Paying(r, i) == run[r].at = "paying" /\ run[r].i = i

\* The first payment that is due is one that the run has not come to yet.
LEMMA RunPays ==
  ASSUME FlowTyped, NEW r \in Runs, RunPay(r)
  PROVE  /\ OneRun(r) /\ run[r].at = "next"
         /\ run'[r].schedules = run[r].schedules /\ run'[r].spent = run[r].spent
         /\ \/ pc' = pc /\ run'[r].at = "next"
            \/ \E i \in DOMAIN Schedules : /\ Goto(PaymentOf[r][i], "start")
                                           /\ RunAhead(r, i) /\ ~RunAhead(r, i)'
                                           /\ Paying(r, i)' /\ Due(run[r].schedules[i])
<1>0. PICK t \in RunRow : t = run[r]
  BY DEF FlowTyped
<1>1. PICK i : i = Min(DueFrom(run[r]))
  OBVIOUS
<1>2. i \in DOMAIN Schedules /\ i \in Nat /\ i >= t.i /\ Due(t.schedules[i])
  <2>1. DueFrom(run[r]) \in SUBSET DOMAIN Schedules /\ DueFrom(run[r]) # {}
    BY DEF DueFrom, RunPay
  <2>2. IsFiniteSet(DueFrom(run[r])) /\ DueFrom(run[r]) \subseteq Nat
    BY <2>1, ScheduleFields, FS_Subset
  <2>3. i \in DueFrom(run[r])
    BY <1>1, <2>1, <2>2, LeastElement
  <2>4. QED
    BY <1>0, <2>2, <2>3 DEF DueFrom
<1>3. t.at = "next" /\ t.schedules \in ScheduleList /\ day' = day
  BY <1>0 DEF RunPay, FlowTyped, Working, potVars
<1>4. CASE run' = [run EXCEPT ![r].i = i + 1] /\ pc' = pc
  <2>1. PICK x : x = [t EXCEPT !.i = i + 1]
    OBVIOUS
  <2>2. /\ x \in RunRow /\ x.i = i + 1 /\ x.at = "next"
        /\ x.schedules = t.schedules /\ x.spent = t.spent
    BY <1>2, <1>3, <2>1 DEF RunRow
  <2>3. run' = [run EXCEPT ![r] = x]
    BY <1>0, <1>4, <2>1
  <2>4. run' \in [Runs -> RunRow] /\ run'[r] = x /\ \A q \in Runs \ {r} : run'[q] = run[q]
    BY <2>2, <2>3 DEF FlowTyped
  <2>5. ASSUME NEW j \in DOMAIN Schedules, RunAhead(r, j)' PROVE RunAhead(r, j)
    <3>1. j >= i + 1 /\ j \in Nat /\ t.i \in Nat
      BY <2>2, <2>4, <2>5, DayflowAssumption DEF RunAhead, RunRow
    <3>2. QED
      BY <1>0, <1>2, <1>3, <3>1 DEF RunAhead
  <2>6. QED
    BY <1>0, <1>3, <1>4, <2>2, <2>4, <2>5 DEF OneRun
<1>5. CASE /\ Goto(PaymentOf[r][i], "start")
           /\ run' = [run EXCEPT ![r].at = "paying", ![r].i = i]
  <2>1. PICK x : x = [t EXCEPT !.at = "paying", !.i = i]
    OBVIOUS
  <2>2. /\ x \in RunRow /\ x.i = i /\ x.at = "paying"
        /\ x.schedules = t.schedules /\ x.spent = t.spent
    BY <1>2, <1>3, <2>1 DEF RunRow
  <2>3. run' = [run EXCEPT ![r] = x]
    BY <1>0, <1>5, <2>1 DEF FlowTyped
  <2>4. run' \in [Runs -> RunRow] /\ run'[r] = x /\ \A q \in Runs \ {r} : run'[q] = run[q]
    BY <2>2, <2>3 DEF FlowTyped
  <2>5. ASSUME NEW j \in DOMAIN Schedules, RunAhead(r, j)' PROVE RunAhead(r, j) /\ j # i
    <3>1. j > i /\ j \in Nat /\ t.i \in Nat
      BY <2>2, <2>4, <2>5, DayflowAssumption DEF RunAhead, RunRow
    <3>2. QED
      BY <1>0, <1>2, <1>3, <3>1 DEF RunAhead
  <2>6. RunAhead(r, i)
    BY <1>0, <1>2, <1>3 DEF RunAhead
  <2>7. QED
    BY <1>0, <1>2, <1>3, <1>5, <2>2, <2>4, <2>5, <2>6 DEF OneRun, Paying
<1>6. QED
  BY <1>1, <1>4, <1>5 DEF RunPay

\* A payment that has ended: the schedule is noted unless it threw, and the run goes on.
LEMMA RunPaidRow ==
  ASSUME FlowTyped, NEW r \in Runs, RunPaid(r)
  PROVE  \E i \in DOMAIN Schedules, x \in RunRow :
           /\ Paying(r, i) /\ pc[PaymentOf[r][i]] = "done"
           /\ run' = [run EXCEPT ![r] = x]
           /\ x.at = "next" /\ x.i = i + 1 /\ x.schedules \in ScheduleList
           /\ \E threw \in BOOLEAN :
                /\ ~Moved(PaymentOf[r][i]) => threw
                /\ Moved(PaymentOf[r][i]) /\ threw => "throw" \in Overlaps
                /\ IF threw
                     THEN x.spent = run[r].spent /\ x.schedules = run[r].schedules
                     ELSE /\ x.spent = run[r].spent + Schedules[i].amount
                          /\ x.schedules = [run[r].schedules EXCEPT
                                              ![i] = AfterExecution(@, Schedules[i].once)]
<1>0. PICK t \in RunRow : t = run[r]
  BY DEF FlowTyped
<1>1. PICK i : i = t.i
  OBVIOUS
<1>2. /\ t.at = "paying" /\ t.schedules \in ScheduleList /\ i \in Nat /\ day \in Nat
      /\ i \in DOMAIN Schedules /\ pc[PaymentOf[r][i]] = "done"
  BY <1>0, <1>1 DEF RunPaid, FlowTyped, Working, RunRow
<1>3. Schedules[i].amount \in Nat /\ Schedules[i].once \in BOOLEAN
  BY <1>2, ScheduleFields
<1>4. PICK k \in Nat : k = i + 1
  BY <1>2
<1>5. PICK y : y = [run[r] EXCEPT !.at = "next", !.i = run[r].i + 1,
                                  !.spent = @ + Schedules[run[r].i].amount,
                                  !.schedules[run[r].i] = AfterExecution(@, Schedules[run[r].i].once)]
  OBVIOUS
<1>6. PICK z : z = [run[r] EXCEPT !.at = "next", !.i = run[r].i + 1]
  OBVIOUS
<1>7. PICK threw \in BOOLEAN :
        /\ ~Moved(PaymentOf[r][run[r].i]) => threw
        /\ Moved(PaymentOf[r][run[r].i]) /\ threw => "throw" \in Overlaps
        /\ run' = [run EXCEPT ![r] = IF threw THEN z ELSE y]
  BY <1>5, <1>6 DEF RunPaid
<1>a. /\ ~Moved(PaymentOf[r][i]) => threw
      /\ Moved(PaymentOf[r][i]) /\ threw => "throw" \in Overlaps
  BY <1>0, <1>1, <1>7
<1>8. CASE ~threw
  <2>1. PICK s : s = [t.schedules EXCEPT ![i] = AfterExecution(@, Schedules[i].once)]
    OBVIOUS
  <2>2. PICK spent \in Nat : spent = t.spent + Schedules[i].amount
    BY <1>3 DEF RunRow
  <2>3. PICK x : x = [t EXCEPT !.at = "next", !.i = k, !.spent = spent, !.schedules = s]
    OBVIOUS
  <2>4. AfterExecution(t.schedules[i], Schedules[i].once) \in [autoPay : BOOLEAN, next : Nat]
    BY <1>2, <1>3, CallsAssumption DEF AfterExecution, Never
  <2>5. s \in ScheduleList
    BY <1>2, <2>1, <2>4 DEF ScheduleList
  <2>6. x \in RunRow /\ x.at = "next" /\ x.i = k /\ x.schedules = s /\ x.spent = spent
    BY <2>3, <2>5 DEF RunRow
  <2>7. x = y
    <3>1. [t EXCEPT !.at = "next", !.i = t.i + 1, !.spent = @ + Schedules[t.i].amount,
                    !.schedules[t.i] = AfterExecution(@, Schedules[t.i].once)] = x
      BY <1>1, <1>4, <2>1, <2>2, <2>3 DEF RunRow
    <3>2. QED
      BY <1>0, <1>5, <3>1
  <2>8. run' = [run EXCEPT ![r] = x]
    BY <1>0, <1>1, <1>7, <1>8, <2>7
  <2>9. x.spent = run[r].spent + Schedules[i].amount /\ x.i = i + 1
    BY <1>0, <1>4, <2>2, <2>6
  <2>10. x.schedules = [run[r].schedules EXCEPT ![i] = AfterExecution(@, Schedules[i].once)]
    BY <1>0, <2>1, <2>6
  <2>11. Paying(r, i) /\ pc[PaymentOf[r][i]] = "done"
    BY <1>0, <1>1, <1>2 DEF Paying
  <2>12. QED
    BY <1>2, <1>8, <1>a, <2>5, <2>6, <2>8, <2>9, <2>10, <2>11
<1>9. CASE threw
  <2>1. PICK x : x = [t EXCEPT !.at = "next", !.i = k]
    OBVIOUS
  <2>2. x \in RunRow /\ x.at = "next" /\ x.i = i + 1 /\ x.schedules = t.schedules /\ x.spent = t.spent
    BY <1>4, <2>1 DEF RunRow
  <2>3. x = z
    BY <1>0, <1>1, <1>4, <1>6, <2>1
  <2>4. run' = [run EXCEPT ![r] = x]
    BY <1>0, <1>1, <1>7, <1>9, <2>3
  <2>5. QED
    BY <1>0, <1>1, <1>2, <1>9, <1>a, <2>2, <2>4 DEF Paying
<1>10. QED
  BY <1>8, <1>9

LEMMA RunsGoOn ==
  ASSUME FlowTyped, NEW r \in Runs, RunPaid(r) \/ RunSave(r) \/ RunStops(r)
  PROVE  OneRun(r)
<1>1. day' = day
  BY DEF RunPaid, RunSave, RunStops, vars, potVars
<1>2. ASSUME run' = [run EXCEPT ![r] = NoRun("done")] PROVE OneRun(r)
  BY <1>1, <1>2, NoRunTyped DEF FlowTyped, OneRun, RunAhead, Working
<1>3. CASE RunPaid(r)
  <2>1. PICK i \in DOMAIN Schedules, x \in RunRow :
          /\ Paying(r, i) /\ run' = [run EXCEPT ![r] = x]
          /\ x.at = "next" /\ x.i = i + 1 /\ x.schedules \in ScheduleList
    BY <1>3, RunPaidRow
  <2>2. run' \in [Runs -> RunRow] /\ run'[r] = x /\ \A q \in Runs \ {r} : run'[q] = run[q]
    BY <2>1 DEF FlowTyped
  <2>3. ASSUME NEW j \in DOMAIN Schedules, RunAhead(r, j)' PROVE RunAhead(r, j)
    <3>1. j >= i + 1 /\ j \in Nat /\ i \in Nat
      BY <2>1, <2>2, <2>3, ScheduleFields DEF RunAhead
    <3>2. QED
      BY <2>1, <3>1 DEF RunAhead, Paying
  <2>4. QED
    BY <1>1, <2>1, <2>2, <2>3 DEF OneRun
<1>4. CASE RunSave(r) \/ RunStops(r)
  BY <1>2, <1>4 DEF RunSave, RunStops
<1>5. QED
  BY <1>3, <1>4

\* What a step of the flows does: it keeps their types, posts nothing, starts at most one
\* call, and that one a run had before it and has behind it afterwards.
StartsOne(c) ==
  /\ pc' = [pc EXCEPT ![c] = "start"]
  /\ UNCHANGED <<ledgerVars, order, row, fetched, reversing, potVars>>

NothingMoves == UNCHANGED <<ledgerVars, payVars, potVars>>

LEMMA FlowKeeps ==
  ASSUME FlowTyped, LedgerTypeOK, FlowNext
  PROVE  /\ FlowTyped'
         /\ \A r \in Runs, i \in DOMAIN Schedules : RunAhead(r, i)' => RunAhead(r, i)
         /\ \/ NothingMoves
            \/ \E r \in Runs, i \in DOMAIN Schedules :
                 StartsOne(PaymentOf[r][i]) /\ RunAhead(r, i) /\ ~RunAhead(r, i)'
<1>1. ASSUME NEW r \in Runs, OneRun(r), flow' = flow, edit' = edit PROVE FlowTyped'
  BY <1>1 DEF FlowTyped, OneRun, Working
<1>2. ASSUME NEW r \in Runs, OneRun(r)
      PROVE  \A q \in Runs, i \in DOMAIN Schedules : RunAhead(q, i)' => RunAhead(q, i)
  BY <1>2 DEF OneRun, RunAhead
<1>3. ASSUME NEW r \in Runs, RunLoad(r) \/ RunPaid(r) \/ RunStops(r)
      PROVE  OneRun(r) /\ flow' = flow /\ edit' = edit /\ NothingMoves
  BY <1>3, RunLoads, RunsGoOn DEF RunLoad, RunPaid, RunStops, vars, NothingMoves
<1>4. ASSUME NEW r \in Runs, RunPay(r)
      PROVE  /\ OneRun(r) /\ flow' = flow /\ edit' = edit
             /\ \/ NothingMoves
                \/ \E i \in DOMAIN Schedules :
                     StartsOne(PaymentOf[r][i]) /\ RunAhead(r, i) /\ ~RunAhead(r, i)'
  BY <1>4, RunPays DEF RunPay, NothingMoves, payVars, StartsOne, Goto
<1>5. ASSUME NEW r \in Runs, RunSave(r)
      PROVE  OneRun(r) /\ FlowTyped' /\ NothingMoves
  <2>1. OneRun(r) /\ edit' = edit /\ NothingMoves
    BY <1>5, RunsGoOn DEF RunSave, vars, NothingMoves
  <2>2. PICK f \in [status : {"none", "active", "cancelled"}, spent : Nat, schedules : ScheduleList] :
          f = flow
    BY DEF FlowTyped
  <2>3. PICK t \in RunRow : t = run[r]
    BY DEF FlowTyped
  <2>4. t.schedules \in ScheduleList /\ f.spent + t.spent \in Nat
    BY <1>5, <2>2, <2>3 DEF RunSave, FlowTyped, Working, RunRow
  <2>5. PICK g : g = [f EXCEPT !.schedules = t.schedules, !.spent = f.spent + t.spent]
    OBVIOUS
  <2>6. g \in [status : {"none", "active", "cancelled"}, spent : Nat, schedules : ScheduleList]
    BY <2>2, <2>4, <2>5
  <2>7. flow' = g
    BY <1>5, <2>2, <2>3, <2>5 DEF RunSave
  <2>8. QED
    BY <2>1, <2>6, <2>7 DEF FlowTyped, OneRun, Working
<1>6. CASE EditRead \/ EditWrite \/ cancelFlow
  <2>1. run' = run /\ NothingMoves /\ day' = day
    BY <1>6 DEF EditRead, EditWrite, cancelFlow, vars, NothingMoves, potVars
  <2>2. PICK f \in [status : {"none", "active", "cancelled"}, spent : Nat, schedules : ScheduleList] :
          f = flow
    BY DEF FlowTyped
  <2>3. /\ flow' \in [status : {"none", "active", "cancelled"}, spent : Nat,
                      schedules : ScheduleList]
        /\ edit' \in ScheduleList \cup {NoEdit}
    <3>1. CASE EditRead
      BY <3>1, <2>2 DEF EditRead, FlowTyped
    <3>2. CASE EditWrite
      <4>1. edit \in ScheduleList
        BY <3>2 DEF EditWrite, FlowTyped
      <4>2. [f EXCEPT !.schedules = edit] \in [status : {"none", "active", "cancelled"}, spent : Nat,
                                               schedules : ScheduleList]
        BY <4>1
      <4>3. QED
        BY <2>2, <3>2, <4>2 DEF EditWrite
    <3>3. CASE cancelFlow
      <4>1. [f EXCEPT !.status = "cancelled"]
              \in [status : {"none", "active", "cancelled"}, spent : Nat, schedules : ScheduleList]
        OBVIOUS
      <4>2. QED
        BY <2>2, <3>3, <4>1 DEF cancelFlow, FlowTyped
    <3>4. QED
      BY <1>6, <3>1, <3>2, <3>3
  <2>4. QED
    BY <2>1, <2>3 DEF FlowTyped, Working, RunAhead
<1>7. QED
  BY <1>1, <1>2, <1>3, <1>4, <1>5, <1>6 DEF FlowNext

LEMMA InitFlow == FlowInit /\ day = 0 => FlowTyped
<1>1. SUFFICES ASSUME FlowInit, day = 0 PROVE FlowTyped
  OBVIOUS
<1>2. [i \in DOMAIN Schedules |-> [autoPay |-> TRUE, next |-> 0]] \in ScheduleList
  BY DEF ScheduleList
<1>3. flow \in [status : {"none", "active", "cancelled"}, spent : Nat, schedules : ScheduleList]
  BY <1>1, <1>2 DEF FlowInit
<1>4. \A r \in Runs : run[r] = NoRun("start") /\ run[r].at = "start"
  BY <1>1 DEF FlowInit, NoRun
<1>5. QED
  BY <1>1, <1>3, <1>4, NoRunTyped DEF FlowInit, FlowTyped, Working

-----------------------------------------------------------------------------
(* Attempts to authorise. *)

LEMMA IntentsKeep ==
  ASSUME TalkLive, IntentNext
  PROVE  /\ \A a \in Attempts : auth'[a].at \in {"start", "pin", "execute"}
                                  => auth[a].at \in {"start", "pin", "execute"}
         /\ \/ NothingMoves
            \/ \E a \in Attempts, name \in Payable :
                 /\ StartsOne(ExecutionOf[a][name])
                 /\ auth[a].at = "execute" /\ auth'[a].at = "paying"
<1>0. IntentTyped
  BY DEF TalkLive
<1>1. CASE Talk \/ ConfirmLook \/ ConfirmWrite \/ getIntentForMiniApp
  BY <1>1 DEF Talk, ConfirmLook, ConfirmWrite, getIntentForMiniApp, vars, NothingMoves
<1>2. ASSUME NEW a \in Attempts, AuthRead(a) \/ AuthRefused(a) \/ AuthProcessing(a) \/ AuthUnfit(a)
                                 \/ AuthEnd(a) \/ AuthStops(a)
      PROVE  /\ \A b \in Attempts : auth'[b].at \in {"start", "pin", "execute"}
                                      => auth[b].at \in {"start", "pin", "execute"}
             /\ NothingMoves
  <2>1. NothingMoves
    BY <1>2 DEF AuthRead, AuthRefused, AuthProcessing, AuthUnfit, AuthEnd, AuthStops, vars, NothingMoves
  <2>2. CASE AuthRead(a)
    <3>1. auth[a].at = "start" /\ \A b \in Attempts \ {a} : auth'[b] = auth[b]
      BY <1>0, <2>2 DEF AuthRead, IntentTyped
    <3>2. QED
      BY <2>1, <3>1
  <2>3. CASE ~AuthRead(a)
    <3>1. /\ page' = page /\ confirming' = confirming
          /\ \/ Over(a) \/ Ended(a)
             \/ auth' = [auth EXCEPT ![a].at = "execute"] /\ auth[a].at = "pin"
      BY <1>2, <2>3 DEF AuthRefused, AuthProcessing, AuthUnfit, AuthEnd, AuthStops
    <3>2. OneAttempt(a) /\ (auth'[a].at = "done" \/ auth[a].at = "pin")
      BY <1>0, <3>1, OverFields, GoesToFields
    <3>3. QED
      BY <2>1, <3>2 DEF OneAttempt
  <2>4. QED
    BY <2>2, <2>3
<1>3. ASSUME NEW a \in Attempts, AuthExecute(a)
      PROVE  /\ \A b \in Attempts : auth'[b].at \in {"start", "pin", "execute"}
                                      => auth[b].at \in {"start", "pin", "execute"}
             /\ \/ NothingMoves
                \/ \E name \in Payable : /\ StartsOne(ExecutionOf[a][name])
                                         /\ auth[a].at = "execute" /\ auth'[a].at = "paying"
  <2>1. PICK name : name = auth[a].review.intent
    OBVIOUS
  <2>2. name \in IntentNames \ {"none", "FUND_CRYPTO"}
    BY <1>0, <1>3, <2>1 DEF TalkLive, ReadsPayment, Authorizing, AuthExecute, IntentTyped, Attempt, PageRow
  <2>3. OneAttempt(a) /\ auth'[a].at = "paying" /\ auth[a].at = "execute"
    BY <1>0, <1>3, GoesToFields DEF AuthExecute
  <2>4. \/ name = "SEND_CRYPTO" /\ NothingMoves
        \/ name # "SEND_CRYPTO" /\ StartsOne(ExecutionOf[a][name])
    BY <1>3, <2>1 DEF AuthExecute, NothingMoves, payVars, StartsOne, Goto
  <2>5. QED
    BY <2>2, <2>3, <2>4 DEF OneAttempt, IntentNames, Payable
<1>4. QED
  BY <1>1, <1>2, <1>3 DEF IntentNext

-----------------------------------------------------------------------------
(* All together. *)

LEMMA Starts ==
  ASSUME IInv, NEW d \in Calls, d \in Payouts => Untouched(d), StartsOne(d)
  PROVE  IInv' /\ \A c \in Payouts \ {d} : Untouched(c) => Untouched(c)'
<1>1. LedgerTypeOK /\ KeyedMovements /\ TypeOK /\ Payouts \subseteq Calls
  BY PayoutsAreCalls DEF IInv, TypeOK
<1>2. /\ LedgerTypeOK' /\ KeyedMovements'
      /\ \A c \in Calls : (HasDebit(c) <=> HasDebit(c)') /\ (Reversed(c) <=> Reversed(c)')
  BY <1>1, NoPosting DEF StartsOne
<1>3. /\ order' = order /\ row' = row /\ fetched' = fetched /\ reversing' = reversing
      /\ pc'[d] = "start" /\ \A c \in Calls \ {d} : pc'[c] = pc[c]
      /\ TypeOK'
  BY <1>1, <1>2 DEF StartsOne, TypeOK, Labels
<1>4. ASSUME NEW c \in Payouts PROVE PayoutInv(c)'
  <2>1. PayoutInv(c)
    BY DEF IInv, PayoutInv
  <2>2. CASE c = d
    <3>1. order[d] = "none" /\ row[d] = "none" /\ fetched[d] = "none" /\ d \notin reversing /\ ~Reversed(d)
      BY <2>2 DEF Untouched
    <3>2. PayoutAt(d)'
      BY <1>3, <3>1 DEF PayoutAt
    <3>3. FailureIsTrue(d)'
      BY <1>3, <3>1 DEF FailureIsTrue
    <3>4. ReversalAt(d)'
      BY <1>2, <3>1 DEF ReversalAt
    <3>5. QED
      BY <2>2, <3>2, <3>3, <3>4 DEF PayoutInv
  <2>3. CASE c # d
    BY <1>1, <1>2, <1>3, <2>1, <2>3, PayoutStays
  <2>4. QED
    BY <2>2, <2>3
<1>5. ASSUME NEW c \in Payouts \ {d}, Untouched(c) PROVE Untouched(c)'
  BY <1>1, <1>2, <1>3, <1>5 DEF Untouched
<1>6. QED
  BY <1>2, <1>3, <1>4, <1>5 DEF IInv, PayoutInv

\* Nobody but a run or an attempt touches a call that it has not made yet.
LEMMA UntouchedStays ==
  ASSUME IInv, NEW c \in Payouts, Untouched(c), LedgerKept, Next
  PROVE  Untouched(c)'
<1>1. c \in Calls /\ c \notin TopUps /\ TypeOK
  BY PayoutsAreCalls DEF IInv
<1>2. ~Reversed(c)'
  <2>1. ~Returns(c)
    BY DEF Returns, Catch, HandlerReverses, Repair, Untouched
  <2>2. QED
    BY <1>1, <2>1 DEF LedgerKept, Untouched
<1>3. SUFFICES /\ pc'[c] = pc[c] /\ order'[c] = order[c] /\ row'[c] = row[c]
               /\ fetched'[c] = fetched[c] /\ c \notin reversing'
  BY <1>2 DEF Untouched
<1>4. /\ pc[c] = "done" /\ order[c] = "none" /\ row[c] = "none" /\ fetched[c] = "none"
      /\ c \notin reversing
  BY DEF Untouched
<1>5. ASSUME NEW d \in Calls, Step(d)
      PROVE  /\ pc'[c] = pc[c] /\ order'[c] = order[c] /\ row'[c] = row[c]
             /\ fetched'[c] = fetched[c] /\ c \notin reversing'
  <2>1. d # c
    BY <1>1, <1>4, <1>5 DEF Step, Debit, Credit, Request, Record, Catch, CatchSkips, CatchRow,
       CollectionComplete, CollectionSettled, CollectionFailed, InsertPot, ReadPot, AddToPot,
       TakeFromPot, PayOut
  <2>2. QED
    BY <1>1, <1>4, <1>5, <2>1 DEF Step, Debit, Credit, Request, Record, Catch, CatchSkips, CatchRow,
       CollectionComplete, CollectionSettled, CollectionFailed, InsertPot, ReadPot, AddToPot,
       TakeFromPot, PayOut, Goto, TypeOK
<1>6. ASSUME NEW d \in Calls, CallStops(d) \/ HandlerStops(d) \/ Handlers(d)
      PROVE  /\ pc'[c] = pc[c] /\ order'[c] = order[c] /\ row'[c] = row[c]
             /\ fetched'[c] = fetched[c] /\ c \notin reversing'
  BY <1>1, <1>4, <1>6 DEF CallStops, HandlerStops, Handlers, SyncFetch, SyncApply, HandlerReverses,
     Repair, Goto, TypeOK, payVars
<1>7. ASSUME NEW d \in Calls, NEW status \in {"pending", "success", "failed"}, StatusWebhook(d, status)
      PROVE  /\ pc'[c] = pc[c] /\ order'[c] = order[c] /\ row'[c] = row[c]
             /\ fetched'[c] = fetched[c] /\ c \notin reversing'
  BY <1>1, <1>4, <1>7 DEF StatusWebhook, TypeOK
<1>8. ASSUME NEW d \in Calls, NEW outcome \in {"paid", "failed"},
             ProviderEnds(d, outcome) \/ PayIn(d, outcome)
      PROVE  /\ pc'[c] = pc[c] /\ order'[c] = order[c] /\ row'[c] = row[c]
             /\ fetched'[c] = fetched[c] /\ c \notin reversing'
  BY <1>1, <1>4, <1>8 DEF ProviderEnds, PayIn, TypeOK
<1>9. ASSUME (\E x \in Pots : syncPotInterest(x)) \/ NextDay
      PROVE  /\ pc'[c] = pc[c] /\ order'[c] = order[c] /\ row'[c] = row[c]
             /\ fetched'[c] = fetched[c] /\ c \notin reversing'
  BY <1>4, <1>9 DEF syncPotInterest, NextDay, payVars
<1>10. Payouts \subseteq Calls /\ TopUps \subseteq Calls
  BY PayoutsAreCalls
<1>11. QED
  BY <1>5, <1>6, <1>7, <1>8, <1>9, <1>10 DEF Next

LEMMA ProductsTyped ==
  ASSUME ProductTyped, day \in Nat, ProductWorks
  PROVE  ProductTyped'
<1> DEFINE Labelled == [Requests -> {"start", "done", "debit", "place", "pay", "mirror", "fee"}]
           Goes(r, label) == /\ GotoR(r, label) /\ position' \in [Positions -> PositionRow]
                             /\ label \in {"debit", "place"} => r.kind = "invest"
                             /\ label = "pay" => r.kind = "claim"
                             /\ label \in {"mirror", "fee"} => r.kind = "crypto"
<1>1. ASSUME NEW r \in Requests,
             NEW label \in {"start", "done", "debit", "place", "pay", "mirror", "fee"}, Goes(r, label)
      PROVE  ProductTyped'
  BY <1>1 DEF ProductTyped, GotoR
<1>2. ASSUME UNCHANGED productVars PROVE ProductTyped'
  BY <1>2 DEF productVars, ProductTyped
<1>3. ASSUME NEW r \in Requests, ProductStep(r) PROVE ProductTyped'
  <2>1. CASE InvestLook(r)
    BY <1>1, <2>1 DEF InvestLook, ProductTyped
  <2>2. CASE InvestDebit(r)
    <3>1. r.kind = "invest" /\ position' = position
      BY <2>2 DEF InvestDebit, ProductTyped
    <3>2. QED
      BY <1>1, <2>2, <3>1 DEF InvestDebit, ProductTyped
  <2>3. CASE InvestPlace(r)
    <3>1. r.from \in Accounts /\ r.amount \in Nat
      BY <2>3, RequestFields DEF InvestPlace, ProductTyped
    <3>2. PICK x : x = [status |-> "active", owner |-> r.from, principal |-> r.amount,
                        matures |-> day + 1]
      OBVIOUS
    <3>3. x \in PositionRow
      BY <3>1, <3>2 DEF PositionRow
    <3>4. position' = position \/ position' = [position EXCEPT ![r.ref] = x]
      BY <2>3, <3>2 DEF InvestPlace
    <3>5. position' \in [Positions -> PositionRow]
      BY <3>3, <3>4 DEF ProductTyped
    <3>6. GotoR(r, "done")
      BY <2>3 DEF InvestPlace
    <3>7. QED
      BY <1>1, <3>5, <3>6
  <2>4. CASE ClaimLook(r)
    BY <1>1, <2>4 DEF ClaimLook, ProductTyped
  <2>5. CASE ClaimPay(r)
    <3>1. r.position \in Positions
      BY <2>5, RequestFields DEF ClaimPay, ProductTyped
    <3>2. PICK t \in PositionRow : t = position[r.position]
      BY <3>1 DEF ProductTyped
    <3>3. PICK x : x = [t EXCEPT !.status = "claimed"]
      OBVIOUS
    <3>4. x \in PositionRow
      BY <3>3 DEF PositionRow
    <3>5. position' = position \/ position' = [position EXCEPT ![r.position] = x]
      BY <2>5, <3>2, <3>3 DEF ClaimPay, ProductTyped
    <3>6. position' \in [Positions -> PositionRow] /\ GotoR(r, "done")
      BY <2>5, <3>4, <3>5 DEF ProductTyped, ClaimPay
    <3>7. QED
      BY <1>1, <3>6
  <2>6. CASE SendOnChain(r)
    BY <1>1, <2>6 DEF SendOnChain, ProductTyped
  <2>7. CASE Mirror(r)
    <3>1. r.kind = "crypto" /\ position' = position
      BY <2>7 DEF Mirror, ProductTyped
    <3>2. QED
      BY <1>1, <2>7, <3>1 DEF Mirror, ProductTyped
  <2>8. CASE MirrorFee(r)
    BY <1>1, <2>8 DEF MirrorFee, ProductTyped
  <2>9. CASE PaidIn(r) \/ RequestStops(r)
    BY <1>1, <2>9 DEF PaidIn, RequestStops, ProductTyped
  <2>10. CASE LogSynced(r) \/ BankWebhook(r)
    BY <1>2, <2>10 DEF LogSynced, BankWebhook
  <2>11. QED
    BY <1>3, <2>1, <2>2, <2>3, <2>4, <2>5, <2>6, <2>7, <2>8, <2>9, <2>10 DEF ProductStep
<1>4. QED
  BY <1>2, <1>3 DEF ProductWorks, InflowSynced

\* A step of a product leaves payouts as they are, and the calls not made yet.
LEMMA ProductKeeps ==
  ASSUME IInv, ProductPosts, UNCHANGED payVars
  PROVE  IInv' /\ \A c \in Payouts : Untouched(c) => Untouched(c)'
<1>1. Payouts \subseteq Calls /\ TypeOK
  BY PayoutsAreCalls DEF IInv
<1>2. TypeOK'
  BY <1>1 DEF TypeOK, ProductPosts, payVars
<1>3. ASSUME NEW c \in Payouts PROVE PayoutInv(c)'
  <2>1. PayoutInv(c) /\ c \in Calls
    BY <1>1 DEF IInv, PayoutInv
  <2>2. (HasDebit(c) => HasDebit(c)') /\ (Reversed(c)' => Reversed(c))
    BY <2>1 DEF ProductPosts
  <2>3. QED
    BY <2>1, <2>2, PayoutStays DEF payVars
<1>4. \A c \in Payouts : Untouched(c) => Untouched(c)'
  BY <1>1 DEF ProductPosts, Untouched, payVars
<1>5. QED
  BY <1>2, <1>3, <1>4 DEF IInv, PayoutInv, ProductPosts

LEMMA NothingKeeps ==
  ASSUME IInv, "lost" \notin Answers, NothingMoves
  PROVE  IInv' /\ \A c \in Payouts : Untouched(c) => Untouched(c)'
<1>1. IInv'
  BY StepInv DEF NothingMoves, vars
<1>2. \A c \in Payouts : Untouched(c) => Untouched(c)'
  BY DEF Untouched, Reversed, findMovementByKey, Key, NothingMoves, ledgerVars, payVars
<1>3. QED
  BY <1>1, <1>2

LEMMA DaysPass ==
  ASSUME Next, day \in Nat
  PROVE  day' \in Nat /\ day <= day'
<1>1. ASSUME NEW c \in Calls, Step(c) PROVE day' = day
  BY <1>1 DEF Step, Debit, Credit, Request, Record, Catch, CatchSkips, CatchRow,
     CollectionComplete, CollectionSettled, CollectionFailed, InsertPot, ReadPot, AddToPot,
     TakeFromPot, PayOut, potVars
<1>2. ASSUME NEW c \in Calls, CallStops(c) \/ HandlerStops(c) \/ Handlers(c) PROVE day' = day
  BY <1>2 DEF CallStops, HandlerStops, Handlers, SyncFetch, SyncApply, HandlerReverses, Repair, potVars
<1>3. ASSUME NEW c, NEW status, StatusWebhook(c, status) \/ ProviderEnds(c, status) \/ PayIn(c, status)
      PROVE  day' = day
  BY <1>3 DEF StatusWebhook, ProviderEnds, PayIn, potVars
<1>4. ASSUME NEW x, syncPotInterest(x) PROVE day' = day
  BY <1>4 DEF syncPotInterest
<1>5. QED
  BY <1>1, <1>2, <1>3, <1>4 DEF Next, NextDay

\* Types and keys, whatever the providers answer.
LEMMA StepSound ==
  ASSUME AppSound, [AppNext]_everyVar
  PROVE  AppSound'
<1>0. /\ TypeOK /\ KeyedMovements /\ FlowTyped /\ ProductTyped /\ TalkLive /\ TalkLive'
      /\ LedgerTypeOK /\ day \in Nat
  BY NextTalkLive DEF AppSound, TypeOK, FlowTyped
<1>1. ASSUME TypeOK', KeyedMovements', FlowTyped', ProductTyped' PROVE AppSound'
  BY <1>0, <1>1 DEF AppSound
<1>2. ASSUME NothingMoves \/ \E d \in Calls : StartsOne(d) PROVE TypeOK' /\ KeyedMovements' /\ day' = day
  <2>1. LedgerTypeOK' /\ KeyedMovements' /\ day' = day
    BY <1>0, <1>2, NoPosting DEF NothingMoves, StartsOne, potVars
  <2>2. CASE NothingMoves
    BY <1>0, <2>1, <2>2 DEF TypeOK, NothingMoves, payVars
  <2>3. CASE \E d \in Calls : StartsOne(d)
    BY <1>0, <2>1, <2>3 DEF TypeOK, StartsOne, Labels
  <2>4. QED
    BY <1>2, <2>1, <2>2, <2>3
<1>3. CASE Next /\ UNCHANGED <<productVars, flowVars, intentVars>>
  <2>1. LedgerKept
    BY <1>0, <1>3, LedgerStep
  <2>2. TypeOK' /\ KeyedMovements'
    BY <1>0, <1>3, <2>1, TypeStep DEF LedgerKept
  <2>3. day' \in Nat
    BY <1>0, <1>3, DaysPass
  <2>4. FlowTyped' /\ ProductTyped'
    BY <1>0, <1>3, <2>3 DEF FlowTyped, ProductTyped, Working, flowVars, productVars
  <2>5. QED
    BY <1>1, <2>2, <2>4
<1>4. CASE ProductWorks /\ UNCHANGED <<flowVars, intentVars>>
  <2>1. ProductPosts /\ UNCHANGED <<payVars, potVars>>
    BY <1>0, <1>4, ProductLedger
  <2>2. TypeOK' /\ KeyedMovements'
    BY <1>0, <2>1 DEF TypeOK, ProductPosts, payVars
  <2>3. ProductTyped'
    BY <1>0, <1>4, ProductsTyped
  <2>4. FlowTyped'
    BY <1>0, <1>4, <2>1 DEF FlowTyped, Working, flowVars, potVars
  <2>5. QED
    BY <1>1, <2>2, <2>3, <2>4
<1>5. CASE FlowNext /\ UNCHANGED <<productVars, intentVars>>
  <2>1. FlowTyped' /\ (NothingMoves \/ \E r \in Runs, i \in DOMAIN Schedules : StartsOne(PaymentOf[r][i]))
    BY <1>0, <1>5, FlowKeeps
  <2>2. NothingMoves \/ \E d \in Calls : StartsOne(d)
    <3>1. \A r \in Runs, i \in DOMAIN Schedules : PaymentOf[r][i] \in Calls
      BY DayflowAssumption
    <3>2. QED
      BY <2>1, <3>1
  <2>3. ProductTyped'
    BY <1>0, <1>5 DEF ProductTyped, productVars
  <2>4. QED
    BY <1>1, <1>2, <2>1, <2>2, <2>3
<1>6. CASE IntentNext /\ UNCHANGED <<productVars, flowVars>>
  <2>1. NothingMoves \/ \E a \in Attempts, name \in Payable : StartsOne(ExecutionOf[a][name])
    BY <1>0, <1>6, IntentsKeep
  <2>2. NothingMoves \/ \E d \in Calls : StartsOne(d)
    <3>1. \A a \in Attempts, name \in Payable : ExecutionOf[a][name] \in Calls
      BY IntentsAssumption
    <3>2. QED
      BY <2>1, <3>1
  <2>3. TypeOK' /\ KeyedMovements' /\ day' = day
    BY <1>2, <2>2
  <2>4. FlowTyped' /\ ProductTyped'
    BY <1>0, <1>6, <2>3 DEF FlowTyped, ProductTyped, Working, flowVars, productVars
  <2>5. QED
    BY <1>1, <2>3, <2>4
<1>7. CASE UNCHANGED everyVar
  <2>1. NothingMoves /\ UNCHANGED <<productVars, flowVars, intentVars>>
    BY <1>7 DEF everyVar, appVars, vars, NothingMoves
  <2>2. FlowTyped' /\ ProductTyped'
    BY <1>0, <2>1 DEF FlowTyped, ProductTyped, Working, NothingMoves, flowVars, productVars, potVars
  <2>3. QED
    BY <1>1, <1>2, <2>1, <2>2
<1>8. QED
  BY <1>3, <1>4, <1>5, <1>6, <1>7 DEF AppNext, ProductNext, ProductWorks

LEMMA StepMoney ==
  ASSUME MoneyInv, "lost" \notin Answers, [AppNext]_everyVar
  PROVE  MoneyInv'
<1>0. /\ IInv /\ FlowTyped /\ ProductTyped /\ FreshCalls /\ TalkLive
      /\ LedgerTypeOK /\ KeyedMovements /\ TypeOK
      /\ TalkLive' /\ FlowTyped' /\ ProductTyped'
  BY StepSound DEF MoneyInv, AppSound, IInv, TypeOK
<1>1. ASSUME run' = run PROVE \A r \in Runs, i \in DOMAIN Schedules : RunAhead(r, i)' <=> RunAhead(r, i)
  BY <1>1 DEF RunAhead
\* What is ahead afterwards was ahead before, so that it is enough to keep it untouched.
<1>2. ASSUME IInv',
             \A c \in Payouts : Ahead(c)' => Ahead(c) /\ (Untouched(c) => Untouched(c)')
      PROVE  MoneyInv'
  BY <1>0, <1>2 DEF MoneyInv, FreshCalls
<1>3. ASSUME UNCHANGED <<flowVars, intentVars>>
      PROVE  \A c \in Payouts : Ahead(c)' => Ahead(c)
  BY <1>3 DEF Ahead, RunAhead, flowVars, intentVars
<1>4. CASE Next /\ UNCHANGED <<productVars, flowVars, intentVars>>
  <2>1. IInv' /\ LedgerKept
    BY <1>0, <1>4, StepInv, LedgerStep
  <2>2. \A c \in Payouts : Untouched(c) => Untouched(c)'
    BY <1>0, <1>4, <2>1, UntouchedStays
  <2>3. QED
    BY <1>2, <1>3, <1>4, <2>1, <2>2
<1>5. CASE ProductWorks /\ UNCHANGED <<flowVars, intentVars>>
  <2>1. ProductPosts /\ UNCHANGED <<payVars, potVars>>
    BY <1>0, <1>5, ProductLedger
  <2>2. IInv' /\ \A c \in Payouts : Untouched(c) => Untouched(c)'
    BY <1>0, <2>1, ProductKeeps
  <2>3. QED
    BY <1>2, <1>3, <1>5, <2>2
\* A call that is started is one that was ahead, and is behind from now on.
<1>6. ASSUME NEW d \in Calls, StartsOne(d), d \in Payouts => Ahead(d), ~Ahead(d)',
             \A c \in Payouts : Ahead(c)' => Ahead(c)
      PROVE  MoneyInv'
  <2>1. d \in Payouts => Untouched(d)
    BY <1>0, <1>6 DEF FreshCalls
  <2>2. IInv' /\ \A c \in Payouts \ {d} : Untouched(c) => Untouched(c)'
    BY <1>0, <1>6, <2>1, Starts
  <2>3. QED
    BY <1>2, <1>6, <2>2
<1>7. CASE FlowNext /\ UNCHANGED <<productVars, intentVars>>
  <2>1. /\ \A r \in Runs, i \in DOMAIN Schedules : RunAhead(r, i)' => RunAhead(r, i)
        /\ \/ NothingMoves
           \/ \E r \in Runs, i \in DOMAIN Schedules :
                StartsOne(PaymentOf[r][i]) /\ RunAhead(r, i) /\ ~RunAhead(r, i)'
    BY <1>0, <1>7, FlowKeeps
  <2>2. \A c \in Payouts : Ahead(c)' => Ahead(c)
    BY <1>7, <2>1 DEF Ahead, intentVars
  <2>3. CASE NothingMoves
    BY <1>0, <1>2, <2>2, <2>3, NothingKeeps
  <2>4. ASSUME NEW r \in Runs, NEW i \in DOMAIN Schedules,
               StartsOne(PaymentOf[r][i]), RunAhead(r, i), ~RunAhead(r, i)'
        PROVE  MoneyInv'
    <3>1. PICK d \in Calls : d = PaymentOf[r][i]
      BY DayflowAssumption
    <3>2. Ahead(d)
      BY <2>4, <3>1 DEF Ahead
    <3>3. ~Ahead(d)'
      <4>1. \A q \in Runs, j \in DOMAIN Schedules : d = PaymentOf[q][j] => q = r /\ j = i
        <5>1. \A q, p \in Runs, i1, j1 \in DOMAIN Schedules :
                PaymentOf[q][i1] = PaymentOf[p][j1] => q = p /\ i1 = j1
          BY DayflowAssumption
        <5>2. QED
          BY <3>1, <5>1
      <4>2. \A a \in Attempts, name \in Payable : d # ExecutionOf[a][name]
        BY <3>1, AppAssumption
      <4>3. QED
        BY <2>4, <4>1, <4>2 DEF Ahead
    <3>4. QED
      BY <1>6, <2>2, <2>4, <3>1, <3>2, <3>3
  <2>5. QED
    BY <2>1, <2>3, <2>4
<1>8. CASE IntentNext /\ UNCHANGED <<productVars, flowVars>>
  <2>1. /\ \A a \in Attempts : auth'[a].at \in {"start", "pin", "execute"}
                                 => auth[a].at \in {"start", "pin", "execute"}
        /\ \/ NothingMoves
           \/ \E a \in Attempts, name \in Payable :
                /\ StartsOne(ExecutionOf[a][name])
                /\ auth[a].at = "execute" /\ auth'[a].at = "paying"
    BY <1>0, <1>8, IntentsKeep
  <2>2. \A c \in Payouts : Ahead(c)' => Ahead(c)
    BY <1>1, <1>8, <2>1 DEF Ahead, flowVars
  <2>3. CASE NothingMoves
    BY <1>0, <1>2, <2>2, <2>3, NothingKeeps
  <2>4. ASSUME NEW a \in Attempts, NEW name \in Payable, StartsOne(ExecutionOf[a][name]),
               auth[a].at = "execute", auth'[a].at = "paying"
        PROVE  MoneyInv'
    <3>1. PICK d \in Calls : d = ExecutionOf[a][name]
      BY IntentsAssumption
    <3>2. Ahead(d)
      BY <2>4, <3>1 DEF Ahead
    <3>3. ~Ahead(d)'
      <4>1. \A b \in Attempts, other \in Payable : d = ExecutionOf[b][other] => b = a
        BY <3>1, IntentsAssumption
      <4>2. \A r \in Runs, i \in DOMAIN Schedules : d # PaymentOf[r][i]
        BY <3>1, AppAssumption
      <4>3. QED
        BY <2>4, <4>1, <4>2 DEF Ahead
    <3>4. QED
      BY <1>6, <2>2, <2>4, <3>1, <3>2, <3>3
  <2>5. QED
    BY <2>1, <2>3, <2>4
<1>9. CASE UNCHANGED everyVar
  <2>1. NothingMoves /\ UNCHANGED <<productVars, flowVars, intentVars>>
    BY <1>9 DEF everyVar, appVars, vars, NothingMoves
  <2>2. QED
    BY <1>0, <1>2, <1>3, <2>1, NothingKeeps
<1>10. QED
  BY <1>4, <1>5, <1>7, <1>8, <1>9 DEF AppNext, ProductNext, ProductWorks

LEMMA InitMoney == AppInit => MoneyInv
<1>1. SUFFICES ASSUME AppInit PROVE MoneyInv
  OBVIOUS
<1>2. Init /\ IInv /\ FlowTyped
  BY <1>1, InitInv, InitFlow DEF AppInit, ProductInit, Init
<1>3. TalkLive
  BY <1>1, InitIntentInv DEF AppInit, IntentInv, TalkLive, PageIsTheRow, AttemptHolds, ReadsPayment
<1>4. ProductTyped
  <2>1. at \in [Requests -> {"start", "done"}]
    BY <1>1 DEF AppInit, ProductInit
  <2>2. position \in [Positions -> PositionRow]
    <3>1. SUFFICES ASSUME NEW x \in Positions PROVE position[x] \in PositionRow
      BY <1>1 DEF AppInit, ProductInit
    <3>2. NoPosition \in PositionRow
      BY DEF NoPosition, PositionRow
    <3>3. CASE \E w \in Accounts : x \in OpenPositions[w]
      <4>1. PICK w : w = CHOOSE v \in Accounts : x \in OpenPositions[v]
        OBVIOUS
      <4>2. w \in Accounts
        BY <3>3, <4>1
      <4>3. position[x] = [status |-> "active", principal |-> 1, matures |-> 0, owner |-> w]
        BY <1>1, <3>3, <4>1 DEF AppInit, ProductInit
      <4>4. QED
        BY <4>2, <4>3 DEF PositionRow
    <3>4. QED
      BY <1>1, <3>2, <3>3 DEF AppInit, ProductInit
  <2>3. QED
    BY <2>1, <2>2 DEF ProductTyped
<1>5. FreshCalls
  <2>1. SUFFICES ASSUME NEW c \in Payouts, Ahead(c) PROVE Untouched(c)
    BY DEF FreshCalls
  <2>2. c \in Calls \ UserCalls /\ c \notin TopUps
    BY <2>1, DayflowAssumption, IntentsAssumption, PayoutsAreCalls DEF Ahead
  <2>3. QED
    BY <1>2, <2>2 DEF Init, LedgerInit, Untouched, Reversed, findMovementByKey
<1>6. QED
  BY <1>2, <1>3, <1>4, <1>5 DEF MoneyInv

-----------------------------------------------------------------------------
\* No wallet is overdrawn and no key stands for two movements (balanceService.ts),
\* whatever payments, products, flows and conversations do to the wallets at once, and
\* whatever the providers answer.
THEOREM WalletsAreSound == AppSpec => []TypeOK
<1>1. AppInit => AppSound
  BY InitMoney DEF MoneyInv, AppSound, IInv
<1>2. AppSound /\ [AppNext]_everyVar => AppSound'
  BY StepSound
<1>3. AppSound => TypeOK
  BY DEF AppSound
<1>4. QED
  BY <1>1, <1>2, <1>3, PTL DEF AppSpec

\* What is credited back (reverseYellowCardWalletDebit, the catch blocks) was debited for a
\* payout that the provider has not paid and will not pay, whether a user, a flow or a
\* conversation asked for it.
THEOREM ReversalsAreOfFailed ==
  ASSUME "lost" \notin Answers
  PROVE  AppSpec => []ReversalIsOfFailed
<1>1. MoneyInv /\ [AppNext]_everyVar => MoneyInv'
  BY StepMoney
<1>2. MoneyInv => ReversalIsOfFailed
  BY InvImplies DEF MoneyInv
<1>3. QED
  BY InitMoney, <1>1, <1>2, PTL DEF AppSpec

-----------------------------------------------------------------------------
(***************************************************************************)
(* Pockets.  Sums are those of LedgerLemmas, whose ledger is left out.     *)
(***************************************************************************)
Sums == INSTANCE LedgerLemmas WITH Wallets <- {}, Keys <- {}, Refs <- {}, Amounts <- {},
                                   Opened <- {}, NoRef <- 0

LEMMA SameSums ==
  ASSUME NEW f, NEW S
  PROVE  SumFunctionOnSet(f, S) = Sums!SumFunctionOnSet(f, S)
BY DEF SumFunctionOnSet, FoldFunctionOnSet, MapThenFoldSet, Sums!SumFunctionOnSet,
       Sums!FoldFunctionOnSet, Sums!MapThenFoldSet

LEMMA SameFinite ==
  ASSUME NEW S
  PROVE  IsFiniteSet(S) <=> Sums!IsFiniteSet(S)
BY DEF IsFiniteSet, Sums!IsFiniteSet

LEMMA SumWith ==
  ASSUME NEW f, NEW g, NEW S, IsFiniteSet(S), NEW x, x \notin S, g[x] \in Nat,
         \A y \in S : f[y] \in Nat /\ g[y] = f[y]
  PROVE  SumFunctionOnSet(g, S \cup {x}) = SumFunctionOnSet(f, S) + g[x]
<1>1. Sums!IsFiniteSet(S)
  BY SameFinite
<1>2. Sums!SumFunctionOnSet(g, S \cup {x}) = Sums!SumFunctionOnSet(f, S) + g[x]
  BY <1>1, Sums!SumAdd
<1>3. QED
  BY <1>2, SameSums

LEMMA SumAgrees ==
  ASSUME NEW f, NEW g, NEW S, IsFiniteSet(S), \A y \in S : f[y] = g[y]
  PROVE  SumFunctionOnSet(f, S) = SumFunctionOnSet(g, S)
<1>1. Sums!IsFiniteSet(S)
  BY SameFinite
<1>2. Sums!SumFunctionOnSet(f, S) = Sums!SumFunctionOnSet(g, S)
  BY <1>1, Sums!SumSame
<1>3. QED
  BY <1>2, SameSums

LEMMA SumOnes ==
  ASSUME NEW f, NEW S, IsFiniteSet(S), \A y \in S : f[y] = 1
  PROVE  SumFunctionOnSet(f, S) = Cardinality(S)
<1>1. PICK F : F = {T \in SUBSET S : SumFunctionOnSet(f, T) = Cardinality(T)}
  OBVIOUS
<1>2. {} \in F
  <2>1. SumFunctionOnSet(f, {}) = 0
    BY SameSums, Sums!SumEmpty
  <2>2. QED
    BY <1>1, <2>1, FS_EmptySet
<1>3. ASSUME NEW T \in SUBSET S, T # {}, \A x \in T : T \ {x} \in F
      PROVE  T \in F
  <2>1. PICK x \in T : TRUE
    BY <1>3
  <2>2. IsFiniteSet(T) /\ IsFiniteSet(T \ {x})
    BY FS_Subset
  <2>3. SumFunctionOnSet(f, T \ {x}) = Cardinality(T \ {x})
    BY <1>1, <1>3, <2>1
  <2>4. /\ Cardinality(T \ {x}) = Cardinality(T) - 1
        /\ Cardinality(T) \in Nat /\ Cardinality(T \ {x}) \in Nat
    BY <2>1, <2>2, FS_RemoveElement, FS_CardinalityType
  <2>5. SumFunctionOnSet(f, (T \ {x}) \cup {x}) = SumFunctionOnSet(f, T \ {x}) + f[x]
    BY <2>1, <2>2, SumWith
  <2>6. (T \ {x}) \cup {x} = T /\ f[x] = 1
    BY <2>1
  <2>7. SumFunctionOnSet(f, T) = SumFunctionOnSet(f, T \ {x}) + 1
    BY <2>5, <2>6
  <2>8. SumFunctionOnSet(f, T) = Cardinality(T)
    BY <2>3, <2>4, <2>7
  <2>9. QED
    BY <1>1, <2>8
<1>4. S \in F
  <2>1. Sums!IsFiniteSet(S)
    BY SameFinite
  <2>2. QED
    BY <1>2, <1>3, <2>1, Sums!SetInduction
<1>5. QED
  BY <1>1, <1>4

-----------------------------------------------------------------------------
OfWallet(w) == {x \in Positions : position[x].owner = w /\ position[x].status = "active"}

Principals == [x \in Positions |-> position[x].principal]

Claimed == {x \in Positions : position[x].status = "claimed"}

Unopened == Positions \ UNION {OpenPositions[w] : w \in Accounts}

\* Whoever is about to pay a claim out, and whose key is not known yet, has the position.
ClaimHolds(r) ==
  at[r] = "pay" /\ r.ref \notin claims =>
    position[r.position].status = "active" /\ position[r.position].owner = r.from

\* A position was debited before it stands, and a request that is about to place one has
\* debited it: under the key of a deposit stands the movement that its requests ask for.
PocketInv ==
  /\ \A m \in movements : \A x : m.key = <<x, "investment">> =>
       \E r \in Requests : r.kind = "invest" /\ m = InvestMovement(r)
  /\ \A r \in Requests : at[r] = "place" => InvestMovement(r) \in movements
  /\ \A x \in Unopened : position[x] # NoPosition =>
       Movement(<<x, "investment">>, "debit", position[x].owner, position[x].principal) \in movements
  /\ \A r \in Requests : ClaimHolds(r)
  /\ \A r, q \in Requests : at[r] = "pay" /\ at[q] = "pay" /\ r.position = q.position => r.ref = q.ref
  /\ pocket \in [Accounts -> Nat]
  /\ \A w \in Accounts : pocket[w] = SumFunctionOnSet(Principals, OfWallet(w))
  /\ IsFiniteSet(claims) /\ Cardinality(Claimed) = Cardinality(claims)

LEMMA HeldIs ==
  ASSUME NEW w
  PROVE  Held(w) = SumFunctionOnSet(Principals, OfWallet(w))
BY DEF Held, Principals, OfWallet

LEMMA PositionsFinite ==
  /\ IsFiniteSet(Positions)
  /\ \A w : IsFiniteSet(OfWallet(w)) /\ IsFiniteSet(OfWallet(w)')
  /\ IsFiniteSet(Claimed)
<1>1. IsFiniteSet(Positions)
  BY RequestsAssumption
<1>2. \A S \in SUBSET Positions : IsFiniteSet(S)
  BY <1>1, FS_Subset
<1>3. QED
  BY <1>1, <1>2 DEF OfWallet, Claimed

\* Two deposits under one key ask for one movement.
LEMMA SameDeposit ==
  ASSUME NEW r \in Requests, NEW q \in Requests, r.kind = "invest", q.kind = "invest", r.ref = q.ref
  PROVE  InvestMovement(r) = InvestMovement(q)
<1>1. \A s, t \in Requests : s.kind = "invest" /\ t.kind = "invest" /\ s.ref = t.ref
                               => s.from = t.from /\ s.amount = t.amount
  BY RequestsAssumption
<1>2. r.from = q.from /\ r.amount = q.amount
  BY <1>1
<1>3. QED
  BY <1>2 DEF InvestMovement

LEMMA InitPocket == AppInit => PocketInv
<1>1. SUFFICES ASSUME AppInit PROVE PocketInv
  OBVIOUS
<1>2. /\ movements = {} /\ claims = {}
      /\ at \in [Requests -> {"start", "done"}]
      /\ position = [x \in Positions |->
                       IF \E w \in Accounts : x \in OpenPositions[w]
                         THEN [status |-> "active", principal |-> 1, matures |-> 0,
                               owner |-> CHOOSE w \in Accounts : x \in OpenPositions[w]]
                         ELSE NoPosition]
      /\ pocket = [w \in Accounts |-> Cardinality(OpenPositions[w])]
  BY <1>1 DEF AppInit, ProductInit, Init, LedgerInit
<1>3. ASSUME NEW x \in Positions
      PROVE  /\ \A w \in Accounts : x \in OpenPositions[w] =>
                  position[x].status = "active" /\ position[x].principal = 1 /\ position[x].owner = w
             /\ position[x].status # "claimed"
             /\ (\A w \in Accounts : x \notin OpenPositions[w]) => position[x] = NoPosition
  <2>1. CASE \E w \in Accounts : x \in OpenPositions[w]
    <3>1. PICK v : v = CHOOSE w \in Accounts : x \in OpenPositions[w]
      OBVIOUS
    <3>2. v \in Accounts /\ x \in OpenPositions[v]
      BY <2>1, <3>1
    <3>3. position[x] = [status |-> "active", principal |-> 1, matures |-> 0, owner |-> v]
      BY <1>2, <2>1, <3>1
    <3>4. \A w \in Accounts : x \in OpenPositions[w] => w = v
      <4>1. \A u, w \in Accounts : u # w => OpenPositions[u] \cap OpenPositions[w] = {}
        BY RequestsAssumption
      <4>2. QED
        BY <3>2, <4>1
    <3>5. QED
      BY <2>1, <3>3, <3>4
  <2>2. CASE ~ \E w \in Accounts : x \in OpenPositions[w]
    BY <1>2, <2>2 DEF NoPosition
  <2>3. QED
    BY <2>1, <2>2
<1>4. ASSUME NEW w \in Accounts
      PROVE  /\ pocket[w] = SumFunctionOnSet(Principals, OfWallet(w))
             /\ pocket[w] \in Nat
  <2>1. OpenPositions[w] \in SUBSET Positions
    BY RequestsAssumption
  <2>2. OfWallet(w) = OpenPositions[w]
    <3>1. ASSUME NEW x \in Positions, x \notin OpenPositions[w], position[x].owner = w PROVE FALSE
      <4>1. PICK v \in Accounts : x \in OpenPositions[v]
        BY <1>3, <3>1, RequestsAssumption DEF NoPosition
      <4>2. position[x].owner = v
        BY <1>3, <4>1
      <4>3. QED
        BY <3>1, <4>1, <4>2
    <3>2. QED
      BY <1>3, <2>1, <3>1 DEF OfWallet
  <2>3. IsFiniteSet(OfWallet(w))
    BY PositionsFinite
  <2>4. \A x \in OfWallet(w) : Principals[x] = 1
    BY <1>3, <2>1, <2>2 DEF Principals
  <2>5. QED
    BY <1>2, <2>2, <2>3, <2>4, SumOnes, FS_CardinalityType
<1>5. pocket \in [Accounts -> Nat]
  BY <1>2, <1>4
<1>6. IsFiniteSet(claims) /\ Cardinality(Claimed) = Cardinality(claims)
  <2>1. Claimed = {}
    BY <1>3 DEF Claimed
  <2>2. QED
    BY <1>2, <2>1, FS_EmptySet
<1>7. \A x \in Unopened : position[x] = NoPosition
  BY <1>3 DEF Unopened
<1>8. QED
  BY <1>2, <1>4, <1>5, <1>6, <1>7 DEF PocketInv, ClaimHolds

\* No part of the program but a deposit posts under a deposit's key.
LEMMA OnlyInvests ==
  ASSUME AppSound, [AppNext]_everyVar
  PROVE  InvestsOnly
<1>0. /\ TypeOK /\ KeyedMovements /\ LedgerTypeOK
      /\ FlowTyped /\ ProductTyped /\ TalkLive
  BY DEF AppSound, TypeOK
<1>1. CASE UNCHANGED ledgerVars
  BY <1>1 DEF InvestsOnly, ledgerVars
<1>2. CASE Next
  <2>1. LedgerKept
    BY <1>0, <1>2, LedgerStep
  <2>2. \A d \in Calls : \A s \in CallSteps : s # "investment" /\ Key(d, s) = <<d.id, s>>
    BY DEF CallSteps, Key
  <2>3. QED
    BY <2>1, <2>2 DEF InvestsOnly, LedgerKept
<1>3. CASE ProductWorks
  BY <1>0, <1>3, ProductLedger DEF ProductPosts
<1>4. CASE FlowNext
  BY <1>0, <1>1, <1>4, FlowKeeps DEF NothingMoves, StartsOne
<1>5. CASE IntentNext
  BY <1>0, <1>1, <1>5, IntentsKeep DEF NothingMoves, StartsOne
<1>6. QED
  BY <1>1, <1>2, <1>3, <1>4, <1>5 DEF AppNext, ProductNext, ProductWorks, everyVar, appVars, vars

\* A step that moves no position: what it brings to the ledger, and who goes on.
LEMMA PocketStays ==
  ASSUME PocketInv, InvestsOnly, UNCHANGED <<position, pocket, claims>>,
         \A r \in Requests : at'[r] = "place" => at[r] = "place" \/ InvestMovement(r) \in movements',
         \A r \in Requests : ClaimHolds(r)',
         \A r, q \in Requests : at'[r] = "pay" /\ at'[q] = "pay" /\ r.position = q.position
                                  => r.ref = q.ref
  PROVE  PocketInv'
<1>1. ASSUME NEW m \in movements', NEW x, m.key = <<x, "investment">>
      PROVE  \E r \in Requests : r.kind = "invest" /\ m = InvestMovement(r)
  <2>1. CASE m \in movements
    BY <1>1, <2>1 DEF PocketInv
  <2>2. CASE m \notin movements
    <3>1. ~ \E y, t : t # "investment" /\ m.key = <<y, t>>
      BY <1>1
    <3>2. QED
      BY <2>2, <3>1 DEF InvestsOnly
  <2>3. QED
    BY <2>1, <2>2
<1>2. \A r \in Requests : at'[r] = "place" => InvestMovement(r) \in movements'
  BY DEF PocketInv, InvestsOnly
<1>3. ASSUME NEW x \in Unopened, position'[x] # NoPosition
      PROVE  Movement(<<x, "investment">>, "debit", position'[x].owner, position'[x].principal)
               \in movements'
  BY <1>3 DEF PocketInv, InvestsOnly
<1>4. Principals' = Principals /\ Claimed' = Claimed /\ \A w : OfWallet(w)' = OfWallet(w)
  BY DEF Principals, Claimed, OfWallet
<1>5. /\ pocket' \in [Accounts -> Nat]
      /\ \A w \in Accounts : pocket'[w] = SumFunctionOnSet(Principals', OfWallet(w)')
      /\ IsFiniteSet(claims') /\ Cardinality(Claimed') = Cardinality(claims')
  BY <1>4 DEF PocketInv
<1>6. QED
  BY <1>1, <1>2, <1>3, <1>5 DEF PocketInv, InvestMovement, Movement, Unopened

\* The position is new, so that its wallet holds its amount more and nobody else any less.
LEMMA PlaceKeeps ==
  ASSUME PocketInv, ProductTyped, NEW r \in Requests, InvestPlace(r)
  PROVE  PocketInv'
<1>0. r.kind = "invest" /\ r.from \in Accounts /\ r.amount \in Nat /\ r.ref \in Positions
  BY RequestFields DEF InvestPlace, ProductTyped
<1>1. /\ movements' = movements /\ claims' = claims /\ at[r] = "place"
      /\ at' = [at EXCEPT ![r] = "done"] /\ at \in [Requests -> {"start", "done", "debit", "place", "pay", "mirror", "fee"}]
  BY DEF InvestPlace, GotoR, vars, ledgerVars, ProductTyped
<1>2. /\ \A q \in Requests : at'[q] \in {"place", "pay"} => at[q] = at'[q]
      /\ InvestsOnly
  BY <1>1 DEF InvestsOnly
<1>3. CASE position[r.ref] # NoPosition
  <2>1. UNCHANGED <<position, pocket, claims>>
    BY <1>3 DEF InvestPlace
  <2>2. \A q \in Requests : ClaimHolds(q)'
    BY <1>2, <2>1 DEF PocketInv, ClaimHolds
  <2>3. QED
    BY <1>2, <2>1, <2>2, PocketStays DEF PocketInv
<1>4. CASE position[r.ref] = NoPosition
  <2>0. PICK x \in Positions : x = r.ref
    BY <1>0
  <2>1. PICK p : p = [status |-> "active", owner |-> r.from, principal |-> r.amount,
                      matures |-> day + 1]
    OBVIOUS
  <2>2. position' = [position EXCEPT ![x] = p] /\ pocket' = [pocket EXCEPT ![r.from] = @ + r.amount]
    BY <1>4, <2>0, <2>1 DEF InvestPlace
  <2>3. /\ position'[x] = p /\ \A y \in Positions \ {x} : position'[y] = position[y]
        /\ position[x].status = "none" /\ position[x] = NoPosition
        /\ p.status = "active" /\ p.owner = r.from /\ p.principal = r.amount
    BY <1>4, <2>0, <2>1, <2>2 DEF ProductTyped, NoPosition
  <2>4. \A y \in Unopened : position'[y] # NoPosition =>
          Movement(<<y, "investment">>, "debit", position'[y].owner, position'[y].principal) \in movements'
    <3>1. ASSUME NEW y \in Unopened, y = x
          PROVE  Movement(<<y, "investment">>, "debit", position'[y].owner, position'[y].principal)
                   \in movements'
      <4>1. InvestMovement(r) \in movements'
        BY <1>1 DEF PocketInv
      <4>2. QED
        BY <2>0, <2>3, <3>1, <4>1 DEF InvestMovement
    <3>2. ASSUME NEW y \in Unopened, y # x, position'[y] # NoPosition
          PROVE  Movement(<<y, "investment">>, "debit", position'[y].owner, position'[y].principal)
                   \in movements'
      <4>1. position'[y] = position[y]
        BY <2>3, <3>2 DEF Unopened
      <4>2. QED
        BY <1>1, <3>2, <4>1 DEF PocketInv
    <3>3. QED
      BY <3>1, <3>2
  <2>5. \A q \in Requests : ClaimHolds(q)'
    <3>1. SUFFICES ASSUME NEW q \in Requests, at'[q] = "pay", q.ref \notin claims'
                   PROVE  position'[q.position].status = "active" /\ position'[q.position].owner = q.from
      BY DEF ClaimHolds
    <3>2. at[q] = "pay" /\ q.kind = "claim" /\ q.position \in Positions
      BY <1>2, <3>1, RequestFields DEF ProductTyped
    <3>3. position[q.position].status = "active" /\ position[q.position].owner = q.from
      BY <1>1, <3>1, <3>2 DEF PocketInv, ClaimHolds
    <3>4. QED
      BY <2>3, <3>2, <3>3
  <2>6. pocket' \in [Accounts -> Nat]
    BY <1>0, <2>2 DEF PocketInv
  <2>7. ASSUME NEW w \in Accounts
        PROVE  pocket'[w] = SumFunctionOnSet(Principals', OfWallet(w)')
    <3>0. /\ \A y \in OfWallet(w) : Principals[y] \in Nat /\ Principals'[y] = Principals[y]
          /\ x \notin OfWallet(w) /\ Principals'[x] = r.amount /\ IsFiniteSet(OfWallet(w))
          /\ pocket[w] = SumFunctionOnSet(Principals, OfWallet(w))
      BY <2>3, PositionsFinite DEF Principals, OfWallet, ProductTyped, PositionRow, PocketInv
    <3>1. CASE w = r.from
      <4>1. OfWallet(w)' = OfWallet(w) \cup {x}
        BY <2>3, <3>1 DEF OfWallet
      <4>2. SumFunctionOnSet(Principals', OfWallet(w) \cup {x})
              = SumFunctionOnSet(Principals, OfWallet(w)) + Principals'[x]
        BY <1>0, <3>0, SumWith
      <4>3. pocket'[w] = pocket[w] + r.amount
        BY <1>0, <2>2, <3>1 DEF PocketInv
      <4>4. QED
        BY <3>0, <4>1, <4>2, <4>3
    <3>2. CASE w # r.from
      <4>1. OfWallet(w)' = OfWallet(w)
        BY <2>3, <3>2 DEF OfWallet
      <4>2. pocket'[w] = pocket[w]
        BY <2>2, <3>2 DEF PocketInv
      <4>3. SumFunctionOnSet(Principals, OfWallet(w)) = SumFunctionOnSet(Principals', OfWallet(w))
        BY <3>0, SumAgrees
      <4>4. QED
        BY <3>0, <4>1, <4>2, <4>3
    <3>3. QED
      BY <3>1, <3>2
  <2>8. IsFiniteSet(claims') /\ Cardinality(Claimed') = Cardinality(claims')
    <3>1. Claimed' = Claimed
      BY <2>3 DEF Claimed
    <3>2. QED
      BY <1>1, <3>1 DEF PocketInv
  <2>9. \A m \in movements' : \A y : m.key = <<y, "investment">> =>
          \E q \in Requests : q.kind = "invest" /\ m = InvestMovement(q)
    BY <1>1 DEF PocketInv
  <2>10. \A q \in Requests : at'[q] = "place" => InvestMovement(q) \in movements'
    BY <1>1, <1>2 DEF PocketInv
  <2>11. \A q, s \in Requests : at'[q] = "pay" /\ at'[s] = "pay" /\ q.position = s.position
                                  => q.ref = s.ref
    BY <1>2 DEF PocketInv
  <2>12. QED
    BY <2>4, <2>5, <2>6, <2>7, <2>8, <2>9, <2>10, <2>11 DEF PocketInv, InvestMovement, Movement, Unopened
<1>5. QED
  BY <1>3, <1>4

\* The position was active, so that its wallet holds its principal less.
LEMMA ClaimKeeps ==
  ASSUME PocketInv, ProductTyped, InvestsOnly, NEW r \in Requests, ClaimPay(r)
  PROVE  PocketInv'
<1>0. r.kind = "claim" /\ r.from \in Accounts /\ r.position \in Positions
  BY RequestFields DEF ClaimPay, ProductTyped
<1>1. /\ at[r] = "pay" /\ at' = [at EXCEPT ![r] = "done"]
      /\ at \in [Requests -> {"start", "done", "debit", "place", "pay", "mirror", "fee"}]
  BY DEF ClaimPay, GotoR, ProductTyped
<1>2. \A q \in Requests : at'[q] \in {"place", "pay"} => at[q] = at'[q]
  BY <1>1
<1>3. CASE UNCHANGED <<position, pocket, claims>>
  <2>1. \A q \in Requests : ClaimHolds(q)'
    BY <1>2, <1>3 DEF PocketInv, ClaimHolds
  <2>2. \A q \in Requests : at'[q] = "place" => at[q] = "place"
    BY <1>2
  <2>3. \A q, s \in Requests : at'[q] = "pay" /\ at'[s] = "pay" /\ q.position = s.position
                                 => q.ref = s.ref
    BY <1>2 DEF PocketInv
  <2>4. QED
    BY <1>3, <2>1, <2>2, <2>3, PocketStays
<1>4. CASE ~UNCHANGED <<position, pocket, claims>>
  <2>0. PICK x \in Positions : x = r.position
    BY <1>0
  <2>a. PICK t \in PositionRow : t = position[x]
    BY DEF ProductTyped
  <2>1. PICK p : p = [t EXCEPT !.status = "claimed"]
    OBVIOUS
  <2>2. /\ position' = [position EXCEPT ![x] = p]
        /\ pocket' = [pocket EXCEPT ![r.from] = @ - t.principal]
        /\ claims' = claims \cup {r.ref} /\ r.ref \notin claims
        /\ ~(pocket[r.from] < t.principal)
    BY <1>4, <2>0, <2>a, <2>1 DEF ClaimPay, ProductTyped
  <2>3. t.status = "active" /\ t.owner = r.from /\ t.principal \in Nat
    BY <1>1, <2>0, <2>a, <2>2 DEF PocketInv, ClaimHolds, PositionRow
  <2>4. /\ p.status = "claimed" /\ p.owner = t.owner /\ p.principal = t.principal
        /\ position'[x] = p /\ \A y \in Positions \ {x} : position'[y] = position[y]
    BY <2>1, <2>2 DEF ProductTyped, PositionRow
  <2>5. Principals' = Principals
    BY <2>a, <2>4 DEF Principals
  <2>6. ASSUME NEW y \in Unopened, position'[y] # NoPosition
        PROVE  Movement(<<y, "investment">>, "debit", position'[y].owner, position'[y].principal)
                 \in movements'
    <3>1. y \in Positions /\ position'[y].owner = position[y].owner
          /\ position'[y].principal = position[y].principal
      BY <2>a, <2>4 DEF Unopened
    <3>2. position[y] # NoPosition
      BY <2>a, <2>3, <2>4, <2>6, <3>1 DEF NoPosition
    <3>3. QED
      BY <2>6, <3>1, <3>2 DEF PocketInv, InvestsOnly
  <2>7. ASSUME NEW q \in Requests PROVE ClaimHolds(q)'
    <3>1. SUFFICES ASSUME at'[q] = "pay", q.ref \notin claims'
                   PROVE  position'[q.position].status = "active" /\ position'[q.position].owner = q.from
      BY DEF ClaimHolds
    <3>2. at[q] = "pay" /\ q.kind = "claim" /\ q.position \in Positions
      BY <1>2, <3>1, RequestFields DEF ProductTyped
    <3>3. position[q.position].status = "active" /\ position[q.position].owner = q.from
      BY <2>2, <3>1, <3>2 DEF PocketInv, ClaimHolds
    <3>4. q.position # x
      BY <1>1, <2>0, <2>2, <3>1, <3>2 DEF PocketInv
    <3>5. QED
      BY <2>4, <3>2, <3>3, <3>4
  <2>8. pocket[r.from] - t.principal \in Nat
    BY <1>0, <2>2, <2>3 DEF PocketInv
  <2>9. pocket' \in [Accounts -> Nat]
    BY <1>0, <2>2, <2>8 DEF PocketInv
  <2>10. ASSUME NEW w \in Accounts
         PROVE  pocket'[w] = SumFunctionOnSet(Principals', OfWallet(w)')
    <3>0. /\ \A y \in OfWallet(w)' : Principals[y] \in Nat
          /\ x \notin OfWallet(w)' /\ Principals[x] = t.principal
          /\ IsFiniteSet(OfWallet(w)')
          /\ pocket[w] = SumFunctionOnSet(Principals, OfWallet(w))
      <4>1. \A y \in Positions : Principals[y] \in Nat
        BY DEF Principals, ProductTyped, PositionRow
      <4>2. OfWallet(w)' \subseteq Positions /\ x \notin OfWallet(w)'
        BY <2>4 DEF OfWallet
      <4>3. IsFiniteSet(OfWallet(w)')
        BY PositionsFinite
      <4>4. pocket[w] = SumFunctionOnSet(Principals, OfWallet(w))
        BY DEF PocketInv
      <4>5. Principals[x] = t.principal
        BY <2>a DEF Principals
      <4>6. QED
        BY <4>1, <4>2, <4>3, <4>4, <4>5
    <3>1. CASE w = r.from
      <4>1. OfWallet(w) = OfWallet(w)' \cup {x}
        BY <2>a, <2>3, <2>4, <3>1 DEF OfWallet
      <4>2. PICK S : S = OfWallet(w)'
        OBVIOUS
      <4>3. SumFunctionOnSet(Principals, S \cup {x}) = SumFunctionOnSet(Principals, S) + Principals[x]
        BY <2>3, <3>0, <4>2, SumWith
      <4>4. PICK n : n = SumFunctionOnSet(Principals, S)
        OBVIOUS
      <4>5. n \in Nat
        <5>1. Sums!IsFiniteSet(S)
          BY <3>0, <4>2, SameFinite
        <5>2. Sums!SumFunctionOnSet(Principals, S) \in Nat
          BY <3>0, <4>2, <5>1, Sums!SumType
        <5>3. QED
          BY <4>4, <5>2, SameSums
      <4>6. pocket[w] = n + t.principal
        BY <3>0, <4>1, <4>2, <4>3, <4>4
      <4>7. pocket'[w] = pocket[w] - t.principal
        BY <1>0, <2>2, <3>1 DEF PocketInv
      <4>8. pocket'[w] = n
        BY <2>3, <4>5, <4>6, <4>7
      <4>9. QED
        BY <2>5, <4>2, <4>4, <4>8
    <3>2. CASE w # r.from
      <4>1. OfWallet(w)' = OfWallet(w)
        BY <2>a, <2>3, <2>4, <3>2 DEF OfWallet
      <4>2. pocket'[w] = pocket[w]
        BY <2>2, <3>2 DEF PocketInv
      <4>3. QED
        BY <2>5, <3>0, <4>1, <4>2
    <3>3. QED
      BY <3>1, <3>2
  <2>11. IsFiniteSet(claims') /\ Cardinality(Claimed') = Cardinality(claims')
    <3>1. Claimed' = Claimed \cup {x} /\ x \notin Claimed
      BY <2>a, <2>3, <2>4 DEF Claimed
    <3>2. IsFiniteSet(Claimed) /\ IsFiniteSet(claims) /\ Cardinality(Claimed) = Cardinality(claims)
      BY PositionsFinite DEF PocketInv
    <3>3. Cardinality(Claimed \cup {x}) = Cardinality(Claimed) + 1
      BY <3>1, <3>2, FS_AddElement
    <3>4. IsFiniteSet(claims') /\ Cardinality(claims') = Cardinality(claims) + 1
      BY <2>2, <3>2, FS_AddElement
    <3>5. QED
      BY <3>1, <3>2, <3>3, <3>4
  <2>12. ASSUME NEW m \in movements', NEW y, m.key = <<y, "investment">>
         PROVE  \E q \in Requests : q.kind = "invest" /\ m = InvestMovement(q)
    <3>1. ~ \E z, u : u # "investment" /\ m.key = <<z, u>>
      BY <2>12
    <3>2. QED
      BY <2>12, <3>1 DEF PocketInv, InvestsOnly
  <2>13. \A q \in Requests : at'[q] = "place" => InvestMovement(q) \in movements'
    BY <1>2 DEF PocketInv, InvestsOnly
  <2>14. \A q, s \in Requests : at'[q] = "pay" /\ at'[s] = "pay" /\ q.position = s.position
                                  => q.ref = s.ref
    BY <1>2 DEF PocketInv
  <2>15. QED
    BY <2>6, <2>7, <2>9, <2>10, <2>11, <2>12, <2>13, <2>14 DEF PocketInv, InvestMovement, Movement, Unopened
<1>5. QED
  BY <1>3, <1>4

\* A deposit that goes on to its position has debited it, now or in an earlier call.
LEMMA DepositIsDebited ==
  ASSUME PocketInv, LedgerTypeOK, InvestsOnly, ProductTyped, NEW r \in Requests, InvestDebit(r),
         at'[r] = "place"
  PROVE  InvestMovement(r) \in movements'
<1>1. r.kind = "invest" /\ r.from \in Accounts /\ r.amount \in Nat /\ at[r] = "debit"
  BY RequestFields DEF InvestDebit, ProductTyped
<1>2. /\ debits(<<r.ref, "investment">>, r.from, r.amount)
      /\ debit(<<r.ref, "investment">>, r.from, r.amount)
  BY <1>1 DEF InvestDebit, GotoR, ProductTyped
<1>3. PICK m \in movements' : m.key = <<r.ref, "investment">>
  BY <1>1, <1>2, DebitOne
<1>4. PICK q \in Requests : q.kind = "invest" /\ m = InvestMovement(q)
  <2>1. ~ \E z, u : u # "investment" /\ m.key = <<z, u>>
    BY <1>3
  <2>2. QED
    BY <1>3, <2>1 DEF PocketInv, InvestsOnly
<1>5. q.ref = r.ref
  BY <1>3, <1>4 DEF InvestMovement, Movement
<1>6. QED
  BY <1>1, <1>3, <1>4, <1>5, SameDeposit

LEMMA NextPocket ==
  ASSUME AppSound, PocketInv, [AppNext]_everyVar
  PROVE  PocketInv'
<1>0. InvestsOnly /\ ProductTyped /\ LedgerTypeOK
  BY OnlyInvests DEF AppSound, TypeOK
\* A request that goes on, but not to paying a claim out.
<1>1. ASSUME NEW r \in Requests, NEW label, GotoR(r, label), UNCHANGED <<position, pocket, claims>>,
             label # "pay", label = "place" => InvestMovement(r) \in movements'
      PROVE  PocketInv'
  <2>1. \A q \in Requests : q # r => at'[q] = at[q]
    BY <1>0, <1>1 DEF GotoR, ProductTyped
  <2>2. at'[r] = label
    BY <1>0, <1>1 DEF GotoR, ProductTyped
  <2>3. \A q \in Requests : ClaimHolds(q)'
    BY <1>1, <2>1, <2>2 DEF PocketInv, ClaimHolds
  <2>4. \A q, s \in Requests : at'[q] = "pay" /\ at'[s] = "pay" /\ q.position = s.position
                                 => q.ref = s.ref
    BY <1>1, <2>1, <2>2 DEF PocketInv
  <2>5. QED
    BY <1>0, <1>1, <2>1, <2>2, <2>3, <2>4, PocketStays
<1>2. CASE UNCHANGED productVars
  <2>1. \A q \in Requests : ClaimHolds(q)'
    BY <1>2 DEF PocketInv, ClaimHolds, productVars
  <2>2. QED
    BY <1>0, <1>2, <2>1, PocketStays DEF productVars, PocketInv
<1>3. ASSUME NEW r \in Requests, InvestDebit(r) PROVE PocketInv'
  <2>1. UNCHANGED <<position, pocket, claims>> /\ (GotoR(r, "place") \/ GotoR(r, "done"))
    BY <1>3 DEF InvestDebit
  <2>2. GotoR(r, "place") => at'[r] = "place"
    BY <1>0 DEF GotoR, ProductTyped
  <2>3. QED
    BY <1>0, <1>1, <1>3, <2>1, <2>2, DepositIsDebited
<1>4. ASSUME NEW r \in Requests, ClaimLook(r) PROVE PocketInv'
  <2>1. /\ UNCHANGED <<vars, position, pocket, claims>>
        /\ \A q \in Requests : q # r => at'[q] = at[q]
        /\ ClaimAlone(r) /\ at'[r] \in {"pay", "done"}
        /\ at'[r] = "pay" => position[r.position].status = "active" /\ position[r.position].owner = r.from
    BY <1>0, <1>4 DEF ClaimLook, GotoR, ProductTyped
  <2>2. \A q \in Requests : ClaimHolds(q)'
    BY <2>1 DEF PocketInv, ClaimHolds
  <2>3. \A q, s \in Requests : at'[q] = "pay" /\ at'[s] = "pay" /\ q.position = s.position
                                 => q.ref = s.ref
    BY <2>1 DEF PocketInv, ClaimAlone
  <2>4. QED
    BY <1>0, <2>1, <2>2, <2>3, PocketStays
<1>5. ASSUME NEW r \in Requests, ProductStep(r) PROVE PocketInv'
  <2>1. CASE InvestLook(r) \/ SendOnChain(r) \/ PaidIn(r) \/ RequestStops(r)
    <3>1. \E label \in {"done", "debit", "mirror"} : GotoR(r, label)
      BY <2>1 DEF InvestLook, SendOnChain, PaidIn, RequestStops
    <3>2. UNCHANGED <<position, pocket, claims>>
      BY <2>1 DEF InvestLook, SendOnChain, PaidIn, RequestStops
    <3>3. QED
      BY <1>1, <3>1, <3>2
  <2>2. CASE Mirror(r) \/ MirrorFee(r)
    <3>1. \E label \in {"done", "fee"} : GotoR(r, label)
      BY <2>2 DEF Mirror, MirrorFee
    <3>2. UNCHANGED <<position, pocket, claims>>
      BY <2>2 DEF Mirror, MirrorFee
    <3>3. QED
      BY <1>1, <3>1, <3>2
  <2>3. CASE LogSynced(r) \/ BankWebhook(r)
    BY <1>2, <2>3 DEF LogSynced, BankWebhook
  <2>4. CASE InvestPlace(r)
    BY <1>0, <2>4, PlaceKeeps
  <2>5. CASE ClaimPay(r)
    BY <1>0, <2>5, ClaimKeeps
  <2>6. QED
    BY <1>3, <1>4, <1>5, <2>1, <2>2, <2>3, <2>4, <2>5 DEF ProductStep
<1>6. ASSUME NEW r \in Requests, NEW form \in Forms, InflowSynced(r, form) PROVE PocketInv'
  BY <1>2, <1>6 DEF InflowSynced
<1>7. QED
  BY <1>2, <1>5, <1>6 DEF AppNext, ProductNext, everyVar, appVars

\* A pocket holds what its owner's unclaimed positions promise, each position was debited
\* once in its amount, and each claimed one was paid out once (depositToInvestment,
\* claimInvestmentPosition): for any deposits and claims, their retries and where they stop.
THEOREM PocketsAreLocked == AppSpec => []PocketIsLocked
<1>1. AppInit => AppSound /\ PocketInv
  BY InitMoney, InitPocket DEF MoneyInv, AppSound, IInv
<1>2. AppSound /\ PocketInv /\ [AppNext]_everyVar => (AppSound /\ PocketInv)'
  BY StepSound, NextPocket
<1>3. PocketInv => PocketIsLocked
  BY HeldIs DEF PocketInv, PocketIsLocked, Unopened, Claimed
<1>4. QED
  BY <1>1, <1>2, <1>3, PTL DEF AppSpec
-----------------------------------------------------------------------------
(***************************************************************************)
(* Schedules.  While runs, edits and stops do not overlap, a run knows the *)
(* schedules alone: its copy agrees with what was paid (Agrees), and when  *)
(* no run works, the row does.                                             *)
(***************************************************************************)
\* The payments for schedule i that no run waits for any more.
Counted(i) == {r \in Runs : Moved(PaymentOf[r][i]) /\ ~Paying(r, i)}

Counts == [i \in DOMAIN Schedules |-> Cardinality(Counted(i))]

\* What n[i] payments for each schedule i come to.
Worth(n) == SumFunctionOnSet([i \in DOMAIN Schedules |-> Schedules[i].amount * n[i]], DOMAIN Schedules)

\* A schedule that is due on day d has a date that was not paid yet.
Unpaid(s, n, once, d) ==
  IF once THEN n = 0 \/ (n = 1 /\ ~s.autoPay)
  ELSE n <= s.next /\ s.next <= d + 1

Agrees(s, spent, n, d) ==
  spent = Worth(n) /\ \A i \in DOMAIN Schedules : Unpaid(s[i], n[i], Schedules[i].once, d)

\* A call is made by its run alone, which waits for its end.
CallsAt ==
  \A r \in Runs, i \in DOMAIN Schedules :
    /\ RunAhead(r, i) => pc[PaymentOf[r][i]] = "done" /\ ~Moved(PaymentOf[r][i])
    /\ pc[PaymentOf[r][i]] # "done" => Paying(r, i)

\* The row stays as a run read it, and a run that has paid nothing has changed nothing.
RunHolds(r) ==
  /\ run[r].spent = 0 => run[r].schedules = flow.schedules
  /\ run[r].at = "paying" => run[r].schedules[run[r].i].autoPay
                               /\ run[r].schedules[run[r].i].next <= day
  /\ Agrees(run[r].schedules, flow.spent + run[r].spent, Counts, day)

NobodyWorks == \A r \in Runs : ~Working(r)

RunsInv ==
  /\ \A q, r \in Runs : Working(q) /\ Working(r) => q = r
  /\ \A r \in Runs : IF Working(r) THEN RunHolds(r) ELSE run[r].spent = 0
  /\ edit # NoEdit => edit = flow.schedules /\ NobodyWorks
  /\ NobodyWorks => Agrees(flow.schedules, flow.spent, Counts, day)

ScheduleInv == RunsInv /\ CallsAt

\* Only sends have a row, a sync and a handler that reverses them.
SendsOnly ==
  \A c \in Calls :
    pc[c] \in {"record", "recordFailed"} \/ fetched[c] # "none" \/ c \in reversing => c \in Sends

LEMMA SumNat ==
  ASSUME NEW f, NEW S, IsFiniteSet(S), \A y \in S : f[y] \in Nat
  PROVE  SumFunctionOnSet(f, S) \in Nat
<1>1. Sums!IsFiniteSet(S)
  BY SameFinite
<1>2. Sums!SumFunctionOnSet(f, S) \in Nat
  BY <1>1, Sums!SumType
<1>3. QED
  BY <1>2, SameSums

\* Two functions that differ at one place.
LEMMA SumChanges ==
  ASSUME NEW f, NEW g, NEW S, IsFiniteSet(S), NEW x \in S, \A y \in S : f[y] \in Nat,
         g[x] \in Nat, \A y \in S \ {x} : g[y] = f[y]
  PROVE  \E rest \in Nat : SumFunctionOnSet(f, S) = rest + f[x] /\ SumFunctionOnSet(g, S) = rest + g[x]
<1>1. PICK T : T = S \ {x}
  OBVIOUS
<1>2. IsFiniteSet(T) /\ x \notin T /\ T \cup {x} = S
  BY <1>1, FS_RemoveElement
<1>3. \A y \in T : f[y] \in Nat /\ g[y] = f[y]
  BY <1>1
<1>4. SumFunctionOnSet(f, T) \in Nat
  BY <1>2, <1>3, SumNat
<1>5. f[x] \in Nat
  OBVIOUS
<1>6. SumFunctionOnSet(f, T \cup {x}) = SumFunctionOnSet(f, T) + f[x]
  BY <1>2, <1>3, <1>5, SumWith
<1>7. SumFunctionOnSet(g, T \cup {x}) = SumFunctionOnSet(f, T) + g[x]
  BY <1>2, <1>3, SumWith
<1>8. QED
  BY <1>2, <1>4, <1>6, <1>7

LEMMA SumZeros ==
  ASSUME NEW f, NEW S, IsFiniteSet(S), \A y \in S : f[y] = 0
  PROVE  SumFunctionOnSet(f, S) = 0
<1>1. PICK F : F = {T \in SUBSET S : SumFunctionOnSet(f, T) = 0}
  OBVIOUS
<1>2. {} \in F
  BY <1>1, SameSums, Sums!SumEmpty
<1>3. ASSUME NEW T \in SUBSET S, T # {}, \A x \in T : T \ {x} \in F
      PROVE  T \in F
  <2>1. PICK x \in T : TRUE
    BY <1>3
  <2>2. IsFiniteSet(T \ {x}) /\ (T \ {x}) \cup {x} = T
    BY <2>1, FS_Subset
  <2>3. SumFunctionOnSet(f, T \ {x}) = 0
    BY <1>1, <1>3, <2>1
  <2>4. SumFunctionOnSet(f, (T \ {x}) \cup {x}) = SumFunctionOnSet(f, T \ {x}) + f[x]
    BY <2>1, <2>2, SumWith
  <2>5. f[x] = 0
    OBVIOUS
  <2>6. SumFunctionOnSet(f, T) = 0
    BY <2>2, <2>3, <2>4, <2>5
  <2>7. QED
    BY <1>1, <2>6
<1>4. S \in F
  <2>1. Sums!IsFiniteSet(S)
    BY SameFinite
  <2>2. QED
    BY <1>2, <1>3, <2>1, Sums!SetInduction
<1>5. QED
  BY <1>1, <1>4

-----------------------------------------------------------------------------
\* What the payments of a flow are.
FlowKinds == {"p2p", "swap", "bill"}

LEMMA FlowCalls ==
  /\ \A r \in Runs, i \in DOMAIN Schedules :
       PaymentOf[r][i] \in Calls \ UserCalls /\ PaymentOf[r][i].kind \in FlowKinds
  /\ \A r, q \in Runs, i, j \in DOMAIN Schedules : PaymentOf[r][i] = PaymentOf[q][j] => r = q /\ i = j
  /\ \A r \in Runs, i \in DOMAIN Schedules, a \in Attempts, name \in Payable :
       PaymentOf[r][i] # ExecutionOf[a][name]
BY DayflowAssumption, AppAssumption DEF FlowKinds

\* One payment more is worth its amount.
LEMMA WorthOfOne ==
  ASSUME NEW n \in [DOMAIN Schedules -> Nat], NEW m \in [DOMAIN Schedules -> Nat],
         NEW i \in DOMAIN Schedules, m[i] = n[i] + 1, \A j \in DOMAIN Schedules \ {i} : m[j] = n[j]
  PROVE  Worth(m) = Worth(n) + Schedules[i].amount /\ Worth(n) \in Nat
<1>1. PICK f, g : /\ f = [j \in DOMAIN Schedules |-> Schedules[j].amount * n[j]]
                  /\ g = [j \in DOMAIN Schedules |-> Schedules[j].amount * m[j]]
  OBVIOUS
<1>2. \A j \in DOMAIN Schedules : f[j] \in Nat /\ g[j] \in Nat
  BY <1>1, ScheduleFields
<1>3. \A j \in DOMAIN Schedules \ {i} : g[j] = f[j]
  BY <1>1
<1>4. g[i] = f[i] + Schedules[i].amount
  <2>1. PICK a \in Nat, k \in Nat : a = Schedules[i].amount /\ k = n[i]
    BY ScheduleFields
  <2>2. a * (k + 1) = a * k + a
    OBVIOUS
  <2>3. QED
    BY <1>1, <2>1, <2>2
<1>5. PICK rest \in Nat : /\ SumFunctionOnSet(f, DOMAIN Schedules) = rest + f[i]
                          /\ SumFunctionOnSet(g, DOMAIN Schedules) = rest + g[i]
  BY <1>2, <1>3, ScheduleFields, SumChanges
<1>6. Worth(n) = rest + f[i] /\ Worth(m) = rest + g[i]
  BY <1>1, <1>5 DEF Worth
<1>7. f[i] \in Nat /\ Schedules[i].amount \in Nat
  BY <1>2, ScheduleFields
<1>8. QED
  BY <1>4, <1>6, <1>7

LEMMA WorthOfNone ==
  ASSUME NEW n \in [DOMAIN Schedules -> Nat], \A i \in DOMAIN Schedules : n[i] = 0
  PROVE  Worth(n) = 0
<1>1. PICK f : f = [j \in DOMAIN Schedules |-> Schedules[j].amount * n[j]]
  OBVIOUS
<1>2. \A j \in DOMAIN Schedules : f[j] = 0
  BY <1>1, ScheduleFields
<1>3. SumFunctionOnSet(f, DOMAIN Schedules) = 0
  BY <1>2, ScheduleFields, SumZeros
<1>4. QED
  BY <1>1, <1>3 DEF Worth

\* Days that pass make nothing wrong.
LEMMA AgreesLater ==
  ASSUME NEW s \in ScheduleList, NEW x, NEW n, NEW d \in Nat, NEW e \in Nat, d <= e, Agrees(s, x, n, d)
  PROVE  Agrees(s, x, n, e)
<1>1. \A i \in DOMAIN Schedules : s[i].next \in Nat
  BY DEF ScheduleList
<1>2. QED
  BY <1>1 DEF Agrees, Unpaid

\* A payment that is due, counted and noted.
LEMMA AgreesPaid ==
  ASSUME NEW s \in ScheduleList, NEW x \in Nat, NEW n \in [DOMAIN Schedules -> Nat],
         NEW d \in Nat, Agrees(s, x, n, d),
         NEW i \in DOMAIN Schedules, s[i].autoPay, s[i].next <= d,
         NEW m \in [DOMAIN Schedules -> Nat], m[i] = n[i] + 1,
         \A j \in DOMAIN Schedules \ {i} : m[j] = n[j],
         NEW t, \A j \in DOMAIN Schedules \ {i} : t[j] = s[j],
         t[i] = IF Schedules[i].once THEN [autoPay |-> FALSE, next |-> Never]
                ELSE [autoPay |-> TRUE, next |-> d + 1]
  PROVE  Agrees(t, x + Schedules[i].amount, m, d)
<1>1. x + Schedules[i].amount = Worth(m)
  BY WorthOfOne DEF Agrees
<1>2. s[i] \in [autoPay : BOOLEAN, next : Nat] /\ n[i] \in Nat
  BY DEF ScheduleList
<1>3. Unpaid(s[i], n[i], Schedules[i].once, d) /\ Schedules[i].once \in BOOLEAN
  BY ScheduleFields DEF Agrees
<1>4. Unpaid(t[i], m[i], Schedules[i].once, d)
  <2>1. CASE Schedules[i].once
    BY <1>2, <1>3, <2>1 DEF Unpaid
  <2>2. CASE ~Schedules[i].once
    BY <1>2, <1>3, <2>2 DEF Unpaid
  <2>3. QED
    BY <2>1, <2>2
<1>5. \A j \in DOMAIN Schedules \ {i} : Unpaid(t[j], m[j], Schedules[j].once, d)
  BY DEF Agrees
<1>6. QED
  BY <1>1, <1>4, <1>5 DEF Agrees

-----------------------------------------------------------------------------
(* What becomes of a flow's payments. *)

\* Counting depends on which payments returned that no run waits for.
LEMMA SameCounts ==
  ASSUME \A r \in Runs, i \in DOMAIN Schedules :
           (Moved(PaymentOf[r][i]) /\ ~Paying(r, i))' <=> (Moved(PaymentOf[r][i]) /\ ~Paying(r, i))
  PROVE  Counts' = Counts
<1>1. \A i \in DOMAIN Schedules : Counted(i)' = Counted(i)
  BY DEF Counted
<1>2. QED
  BY <1>1 DEF Counts

LEMMA PartOfRuns ==
  ASSUME IsFiniteSet(Runs), NEW T \in SUBSET Runs
  PROVE  IsFiniteSet(T) /\ Cardinality(T) \in Nat
BY FS_Subset, FS_CardinalityType

LEMMA CountsTyped ==
  ASSUME IsFiniteSet(Runs)
  PROVE  Counts \in [DOMAIN Schedules -> Nat]
BY PartOfRuns DEF Counts, Counted

\* A credit that is new is made by the step for it.
LEMMA NewCredit ==
  ASSUME Next, NEW c \in Calls, Received(c)', ~Received(c)
  PROVE  pc[c] = "credit"
<1>1. PICK m \in movements' : m.key = Key(c, "credit") /\ m \notin movements
  BY DEF Received, findMovementByKey, Key
<1>2. SUFFICES ASSUME pc[c] # "credit" PROVE FALSE
  OBVIOUS
<1>3. ASSUME NEW d \in Calls, NEW s, s # "credit" \/ d # c, NEW dir, NEW w, NEW a,
             movements' = movements \cup {Movement(Key(d, s), dir, w, a)}
      PROVE  FALSE
  <2>1. m = Movement(Key(d, s), dir, w, a)
    BY <1>1, <1>3
  <2>2. Key(d, s) = Key(c, "credit")
    BY <1>1, <2>1 DEF Movement
  <2>3. QED
    BY <1>3, <2>2, KeysDiffer
<1>4. ASSUME NEW d \in Calls, NEW s, s # "credit" \/ d # c, NEW w, NEW a, credit(Key(d, s), w, a)
      PROVE  FALSE
  <2>1. movements' = movements \/ movements' = movements \cup {Movement(Key(d, s), "credit", w, a)}
    BY <1>4 DEF credit, ledgerVars
  <2>2. QED
    BY <1>1, <1>3, <1>4, <2>1
<1>5. ASSUME NEW d \in Calls, Debit(d) PROVE FALSE
  <2>1. \/ movements' = movements
        \/ movements' = movements \cup {Movement(Key(d, "debit"), "debit", d.from, d.amount)}
    BY <1>5 DEF Debit, debit, ledgerVars
  <2>2. QED
    BY <1>1, <1>3, <2>1
<1>6. ASSUME NEW d \in Calls, Credit(d) PROVE FALSE
  <2>1. d # c
    BY <1>2, <1>6 DEF Credit
  <2>2. QED
    BY <1>4, <1>6, <2>1 DEF Credit
<1>7. ASSUME NEW d \in Calls, Catch(d) \/ CollectionComplete(d) \/ PayOut(d) PROVE FALSE
  <2>1. \E s \in {"reversal", "inflow", "payout"}, w \in {d.from, d.to} : credit(Key(d, s), w, d.amount)
    BY <1>7 DEF Catch, CollectionComplete, PayOut
  <2>2. QED
    BY <1>4, <2>1
<1>8. ASSUME NEW d \in Calls, HandlerReverses(d) \/ Repair(d) PROVE FALSE
  <2>1. credit(Key(d, "reversal"), d.from, d.amount) \/ UNCHANGED ledgerVars
    BY <1>8 DEF HandlerReverses, Repair, Reverse
  <2>2. QED
    BY <1>1, <1>4, <2>1 DEF ledgerVars
<1>9. movements' = movements => FALSE
  BY <1>1
<1>10. ASSUME NEW d \in Calls, Step(d) PROVE FALSE
  BY <1>5, <1>6, <1>7, <1>9, <1>10 DEF Step, Request, Record, CatchSkips, CatchRow, CollectionSettled,
     CollectionFailed, InsertPot, ReadPot, AddToPot, TakeFromPot, ledgerVars
<1>11. ASSUME NEW d \in Calls, CallStops(d) \/ HandlerStops(d) \/ Handlers(d) PROVE FALSE
  BY <1>8, <1>9, <1>11 DEF CallStops, HandlerStops, Handlers, SyncFetch, SyncApply, ledgerVars
<1>12. ASSUME NEW d, NEW status, StatusWebhook(d, status) \/ ProviderEnds(d, status) \/ PayIn(d, status)
       PROVE  FALSE
  BY <1>9, <1>12 DEF StatusWebhook, ProviderEnds, PayIn, ledgerVars
<1>13. ASSUME (\E x \in Pots : syncPotInterest(x)) \/ NextDay PROVE FALSE
  BY <1>9, <1>13 DEF syncPotInterest, NextDay, ledgerVars
<1>14. QED
  BY <1>10, <1>11, <1>12, <1>13 DEF Next

\* A call that has ended stays as it ended, unless it is a send.
LEMMA EndedStays ==
  ASSUME TypeOK, SendsOnly, LedgerKept, Next,
         NEW c \in Calls, c.kind \in FlowKinds, pc[c] = "done"
  PROVE  pc'[c] = "done" /\ (Moved(c)' <=> Moved(c))
<1>1. c \notin TopUps /\ c \notin Sends
  BY DEF TopUps, Sends, FlowKinds
<1>2. c \notin reversing /\ fetched[c] = "none"
  BY <1>1 DEF SendsOnly
<1>3. /\ pc'[c] = "done"
      /\ order'[c] = order[c] \/ (order[c] # "none" /\ order'[c] # "none")
  <2>1. ASSUME NEW d \in Calls, Step(d) PROVE pc'[c] = pc[c] /\ order'[c] = order[c]
    <3>1. CASE d = c
      BY <1>1, <2>1, <3>1 DEF Step, Debit, Credit, Request, Record, Catch, CatchSkips, CatchRow,
         CollectionComplete, CollectionSettled, CollectionFailed, InsertPot, ReadPot, AddToPot,
         TakeFromPot, PayOut
    <3>2. CASE d # c
      BY <2>1, <3>2 DEF Step, Debit, Credit, Request, Record, Catch, CatchSkips, CatchRow,
         CollectionComplete, CollectionSettled, CollectionFailed, InsertPot, ReadPot, AddToPot,
         TakeFromPot, PayOut, Goto, TypeOK
    <3>3. QED
      BY <3>1, <3>2
  <2>2. ASSUME NEW d \in Calls, CallStops(d) \/ HandlerStops(d) \/ Handlers(d)
        PROVE  pc'[c] = pc[c] /\ order'[c] = order[c]
    BY <2>2 DEF CallStops, HandlerStops, Handlers, SyncFetch, SyncApply, HandlerReverses, Repair,
       Goto, TypeOK, payVars
  <2>3. ASSUME NEW d \in Calls, NEW status, StatusWebhook(d, status)
        PROVE  pc'[c] = pc[c] /\ order'[c] = order[c]
    BY <2>3 DEF StatusWebhook
  <2>4. ASSUME NEW d \in Calls, NEW outcome \in {"paid", "failed"}, ProviderEnds(d, outcome)
        PROVE  /\ pc'[c] = pc[c]
               /\ order'[c] = order[c] \/ (order[c] # "none" /\ order'[c] # "none")
    BY <2>4 DEF ProviderEnds, TypeOK
  <2>5. ASSUME NEW d \in TopUps, NEW outcome, PayIn(d, outcome)
        PROVE  pc'[c] = pc[c] /\ order'[c] = order[c]
    BY <1>1, <2>5 DEF PayIn, TypeOK
  <2>6. ASSUME (\E x \in Pots : syncPotInterest(x)) \/ NextDay
        PROVE  pc'[c] = pc[c] /\ order'[c] = order[c]
    BY <2>6 DEF syncPotInterest, NextDay, payVars
  <2>7. Payouts \subseteq Calls
    BY PayoutsAreCalls
  <2>8. QED
    BY <2>1, <2>2, <2>3, <2>4, <2>5, <2>6, <2>7 DEF Next
<1>4. Reversed(c)' <=> Reversed(c)
  <2>1. ~Returns(c)
    BY <1>1, <1>2 DEF Returns, Catch, HandlerReverses, Repair
  <2>2. Reversed(c) => Reversed(c)'
    BY DEF LedgerKept, Reversed, findMovementByKey, Key
  <2>3. QED
    BY <2>1, <2>2 DEF LedgerKept
<1>5. Received(c)' <=> Received(c)
  <2>1. Received(c) => Received(c)'
    BY DEF LedgerKept, Received, findMovementByKey, Key
  <2>2. QED
    BY <2>1, NewCredit
<1>6. QED
  BY <1>3, <1>4, <1>5 DEF Moved, Received

\* So it does when a product moves, ...
LEMMA ProductsReturnNone ==
  ASSUME ProductPosts, UNCHANGED payVars, NEW c \in Calls
  PROVE  pc'[c] = pc[c] /\ (Moved(c)' <=> Moved(c))
<1>1. Reversed(c) => Reversed(c)'
  BY DEF ProductPosts, InvestsOnly, Reversed, findMovementByKey, Key
<1>2. Received(c) => Received(c)'
  BY DEF ProductPosts, InvestsOnly, Received, findMovementByKey, Key
<1>3. (Reversed(c)' <=> Reversed(c)) /\ (Received(c)' <=> Received(c))
  BY <1>1, <1>2 DEF ProductPosts
<1>4. QED
  BY <1>3 DEF Moved, Received, payVars

\* ... and nothing returns when a call is made or nothing moves.
LEMMA StartsMoveNone ==
  ASSUME NEW c \in Calls, UNCHANGED <<ledgerVars, order>>
  PROVE  Moved(c)' <=> Moved(c)
BY DEF Moved, Reversed, findMovementByKey, Key, ledgerVars

LEMMA SendsKept ==
  ASSUME TypeOK, SendsOnly, Next
  PROVE  SendsOnly'
<1>1. SUFFICES ASSUME NEW c \in Calls, c \notin Sends
               PROVE  pc'[c] \notin {"record", "recordFailed"} /\ fetched'[c] = "none" /\ c \notin reversing'
  BY DEF SendsOnly
<1>2. pc[c] \notin {"record", "recordFailed"} /\ fetched[c] = "none" /\ c \notin reversing
  BY <1>1 DEF SendsOnly
<1>3. ASSUME NEW d \in Calls, Step(d)
      PROVE  pc'[c] \notin {"record", "recordFailed"} /\ fetched'[c] = "none" /\ c \notin reversing'
  <2>1. CASE Debit(d)
    <3>1. d.kind \in DOMAIN AfterDebit => AfterDebit[d.kind] \in {"credit", "request", "insertPot", "addToPot"}
      BY DEF AfterDebit, Kinds
    <3>2. QED
      BY <1>2, <2>1, <3>1 DEF Debit, Goto, TypeOK
  <2>2. CASE Request(d)
    <3>1. PICK label : Goto(d, label) /\ (label \in {"record", "recordFailed"} => d \in Sends)
      BY <2>2 DEF Request
    <3>2. fetched' = fetched /\ reversing' = reversing
      BY <2>2 DEF Request
    <3>3. QED
      BY <1>1, <1>2, <3>1, <3>2 DEF Goto, TypeOK
  <2>3. CASE Record(d)
    BY <1>2, <2>3 DEF Record, Goto, TypeOK
  <2>4. CASE Credit(d) \/ Catch(d) \/ CatchSkips(d) \/ CatchRow(d) \/ CollectionComplete(d)
             \/ CollectionSettled(d) \/ CollectionFailed(d) \/ InsertPot(d) \/ AddToPot(d)
             \/ TakeFromPot(d) \/ PayOut(d)
    BY <1>2, <2>4 DEF Credit, Catch, CatchSkips, CatchRow, CollectionComplete, CollectionSettled,
       CollectionFailed, InsertPot, AddToPot, TakeFromPot, PayOut, Goto, TypeOK
  <2>5. CASE ReadPot(d)
    <3>1. PICK label \in {"done", "pay", "takeFromPot"} : Goto(d, label)
      BY <2>5 DEF ReadPot
    <3>2. fetched' = fetched /\ reversing' = reversing
      BY <2>5 DEF ReadPot
    <3>3. QED
      BY <1>2, <3>1, <3>2 DEF Goto, TypeOK
  <2>6. QED
    BY <1>3, <2>1, <2>2, <2>3, <2>4, <2>5 DEF Step
<1>4. ASSUME NEW d \in Calls, CallStops(d) \/ HandlerStops(d) \/ Handlers(d)
      PROVE  pc'[c] \notin {"record", "recordFailed"} /\ fetched'[c] = "none" /\ c \notin reversing'
  BY <1>1, <1>2, <1>4 DEF CallStops, HandlerStops, Handlers, SyncFetch, SyncApply, HandlerReverses,
     Repair, Goto, TypeOK, payVars
<1>5. ASSUME NEW d \in Calls, NEW status, StatusWebhook(d, status)
      PROVE  pc'[c] \notin {"record", "recordFailed"} /\ fetched'[c] = "none" /\ c \notin reversing'
  BY <1>1, <1>2, <1>5 DEF StatusWebhook
<1>6. ASSUME NEW d, NEW outcome, ProviderEnds(d, outcome) \/ PayIn(d, outcome)
      PROVE  pc'[c] \notin {"record", "recordFailed"} /\ fetched'[c] = "none" /\ c \notin reversing'
  BY <1>2, <1>6 DEF ProviderEnds, PayIn
<1>7. ASSUME (\E x \in Pots : syncPotInterest(x)) \/ NextDay
      PROVE  pc'[c] \notin {"record", "recordFailed"} /\ fetched'[c] = "none" /\ c \notin reversing'
  BY <1>2, <1>7 DEF syncPotInterest, NextDay, payVars
<1>8. QED
  BY <1>3, <1>4, <1>5, <1>6, <1>7 DEF Next

LEMMA SendsStay ==
  ASSUME TypeOK, SendsOnly, UNCHANGED <<fetched, reversing>>,
         pc' = pc \/ \E d \in Calls : pc' = [pc EXCEPT ![d] = "start"]
  PROVE  SendsOnly'
BY DEF SendsOnly, TypeOK

-----------------------------------------------------------------------------
\* A step that is not of the flow: it leaves ended payments as they are and starts none.
FlowRests ==
  /\ flow' = flow /\ run' = run /\ edit' = edit
  /\ day' \in Nat /\ day <= day'
  /\ \A r \in Runs, i \in DOMAIN Schedules :
       pc[PaymentOf[r][i]] = "done" =>
         /\ pc'[PaymentOf[r][i]] = "done"
         /\ Moved(PaymentOf[r][i])' <=> Moved(PaymentOf[r][i])

LEMMA RestKeeps ==
  ASSUME FlowTyped, ScheduleInv, FlowRests
  PROVE  ScheduleInv'
<1>1. CallsAt'
  <2>1. ASSUME NEW r \in Runs, NEW i \in DOMAIN Schedules
        PROVE  (RunAhead(r, i)' <=> RunAhead(r, i)) /\ (Paying(r, i)' <=> Paying(r, i))
    BY DEF FlowRests, RunAhead, Paying
  <2>2. QED
    BY <2>1 DEF ScheduleInv, CallsAt, FlowRests
<1>2. PICK n : n = Counts
  OBVIOUS
<1>3. Counts' = n
  <2>1. ASSUME NEW r \in Runs, NEW i \in DOMAIN Schedules
        PROVE  (Moved(PaymentOf[r][i]) /\ ~Paying(r, i))' <=> (Moved(PaymentOf[r][i]) /\ ~Paying(r, i))
    <3>1. Paying(r, i)' <=> Paying(r, i)
      BY DEF FlowRests, Paying
    <3>2. QED
      BY <3>1 DEF ScheduleInv, CallsAt, FlowRests
  <2>2. QED
    BY <1>2, <2>1, SameCounts
<1>4. PICK d \in Nat, e \in Nat : d = day /\ e = day' /\ d <= e
  BY DEF FlowTyped, FlowRests
<1>5. ASSUME NEW s \in ScheduleList, NEW x, Agrees(s, x, n, d) PROVE Agrees(s, x, n, e)
  BY <1>4, <1>5, AgreesLater
<1>6. \A r \in Runs : (Working(r)' <=> Working(r)) /\ run'[r] = run[r]
  BY DEF FlowRests, Working
<1>7. NobodyWorks' <=> NobodyWorks
  BY <1>6 DEF NobodyWorks
<1>8. ASSUME NEW r \in Runs, Working(r) PROVE RunHolds(r)'
  <2>1. RunHolds(r) /\ run[r].schedules \in ScheduleList
    BY <1>8 DEF ScheduleInv, RunsInv, FlowTyped
  <2>0. PICK x : x = flow.spent + run[r].spent
    OBVIOUS
  <2>2. PICK s \in ScheduleList : s = run[r].schedules /\ x = flow.spent + run[r].spent
    BY <2>0, <2>1
  <2>3. Agrees(s, x, n, d)
    BY <1>2, <1>4, <2>1, <2>2 DEF RunHolds
  <2>4. Agrees(s, x, n, e)
    BY <1>5, <2>3
  <2>5. Agrees(run'[r].schedules, flow'.spent + run'[r].spent, Counts', day')
    BY <1>3, <1>4, <1>6, <2>2, <2>4 DEF FlowRests
  <2>6. run'[r].at = "paying" => run'[r].schedules[run'[r].i].autoPay
                                   /\ run'[r].schedules[run'[r].i].next <= day'
    <3>1. SUFFICES ASSUME run[r].at = "paying"
                   PROVE  run[r].schedules[run[r].i].autoPay /\ run[r].schedules[run[r].i].next <= day'
      BY <1>6
    <3>2. run[r].i \in DOMAIN Schedules
      BY <3>1 DEF FlowTyped
    <3>3. s[run[r].i].next \in Nat
      BY <3>2 DEF ScheduleList
    <3>4. s[run[r].i].autoPay /\ s[run[r].i].next <= d
      BY <1>4, <2>1, <2>2, <3>1 DEF RunHolds
    <3>5. QED
      BY <1>4, <2>2, <3>3, <3>4
  <2>7. run'[r].spent = 0 => run'[r].schedules = flow'.schedules
    BY <1>6, <2>1 DEF RunHolds, FlowRests
  <2>8. QED
    BY <2>5, <2>6, <2>7 DEF RunHolds
<1>9. NobodyWorks => Agrees(flow'.schedules, flow'.spent, Counts', day')
  <2>1. SUFFICES ASSUME NobodyWorks PROVE Agrees(flow.schedules, flow.spent, n, e)
    BY <1>3, <1>4 DEF FlowRests
  <2>0. PICK x : x = flow.spent
    OBVIOUS
  <2>2. PICK s \in ScheduleList : s = flow.schedules /\ x = flow.spent
    BY <2>0 DEF FlowTyped
  <2>3. Agrees(s, x, n, d)
    BY <1>2, <1>4, <2>1, <2>2 DEF ScheduleInv, RunsInv
  <2>4. QED
    BY <1>5, <2>2, <2>3
<1>10. RunsInv'
  <2>1. \A q, r \in Runs : Working(q)' /\ Working(r)' => q = r
    BY <1>6 DEF ScheduleInv, RunsInv
  <2>2. \A r \in Runs : ~Working(r)' => run'[r].spent = 0
    BY <1>6 DEF ScheduleInv, RunsInv
  <2>3. edit' # NoEdit => edit' = flow'.schedules /\ NobodyWorks'
    BY <1>7 DEF ScheduleInv, RunsInv, FlowRests
  <2>4. QED
    BY <1>6, <1>7, <1>8, <1>9, <2>1, <2>2, <2>3 DEF RunsInv
<1>11. QED
  BY <1>1, <1>10 DEF ScheduleInv

\* Calls that go on, products and conversations are such steps.
LEMMA OthersRest ==
  ASSUME AppSound, SendsOnly, [AppNext]_everyVar, ~(FlowNext /\ UNCHANGED <<productVars, intentVars>>)
  PROVE  FlowRests /\ SendsOnly'
<1>0. /\ TypeOK /\ LedgerTypeOK /\ KeyedMovements /\ FlowTyped /\ ProductTyped /\ TalkLive /\ day \in Nat
      /\ \A r \in Runs, i \in DOMAIN Schedules :
           PaymentOf[r][i] \in Calls /\ PaymentOf[r][i].kind \in FlowKinds
  BY FlowCalls DEF AppSound, TypeOK, FlowTyped
<1>1. CASE Next /\ UNCHANGED <<productVars, flowVars, intentVars>>
  <2>1. LedgerKept
    BY <1>0, <1>1, LedgerStep
  <2>2. day' \in Nat /\ day <= day'
    BY <1>0, <1>1, DaysPass
  <2>3. flow' = flow /\ run' = run /\ edit' = edit
    BY <1>1 DEF flowVars
  <2>4. ASSUME NEW r \in Runs, NEW i \in DOMAIN Schedules, pc[PaymentOf[r][i]] = "done"
        PROVE  /\ pc'[PaymentOf[r][i]] = "done"
               /\ Moved(PaymentOf[r][i])' <=> Moved(PaymentOf[r][i])
    BY <1>0, <1>1, <2>1, <2>4, EndedStays
  <2>5. SendsOnly'
    BY <1>0, <1>1, SendsKept
  <2>6. QED
    BY <2>2, <2>3, <2>4, <2>5 DEF FlowRests
<1>2. CASE ProductWorks /\ UNCHANGED <<flowVars, intentVars>>
  <2>1. ProductPosts /\ UNCHANGED <<payVars, potVars>>
    BY <1>0, <1>2, ProductLedger
  <2>2. flow' = flow /\ run' = run /\ edit' = edit /\ day' = day
    BY <1>2, <2>1 DEF flowVars, potVars
  <2>3. ASSUME NEW r \in Runs, NEW i \in DOMAIN Schedules, pc[PaymentOf[r][i]] = "done"
        PROVE  /\ pc'[PaymentOf[r][i]] = "done"
               /\ Moved(PaymentOf[r][i])' <=> Moved(PaymentOf[r][i])
    BY <1>0, <2>1, <2>3, ProductsReturnNone
  <2>4. SendsOnly'
    BY <1>0, <2>1, SendsStay DEF payVars
  <2>5. QED
    BY <1>0, <2>2, <2>3, <2>4 DEF FlowRests
<1>3. ASSUME NothingMoves, UNCHANGED flowVars PROVE FlowRests /\ SendsOnly'
  <2>1. UNCHANGED <<ledgerVars, order, fetched, reversing>> /\ pc' = pc /\ day' = day
    BY <1>3 DEF NothingMoves, payVars, potVars
  <2>2. flow' = flow /\ run' = run /\ edit' = edit
    BY <1>3 DEF flowVars
  <2>3. SendsOnly'
    BY <1>0, <2>1, SendsStay
  <2>4. \A r \in Runs, i \in DOMAIN Schedules :
          Moved(PaymentOf[r][i])' <=> Moved(PaymentOf[r][i])
    BY <1>0, <2>1, StartsMoveNone
  <2>5. QED
    BY <1>0, <2>1, <2>2, <2>3, <2>4 DEF FlowRests
<1>4. CASE IntentNext /\ UNCHANGED <<productVars, flowVars>>
  <2>1. CASE NothingMoves
    BY <1>3, <1>4, <2>1
  <2>2. ASSUME NEW a \in Attempts, NEW name \in Payable, StartsOne(ExecutionOf[a][name])
        PROVE  FlowRests /\ SendsOnly'
    <3>1. PICK c \in Calls : c = ExecutionOf[a][name]
      BY IntentsAssumption
    <3>2. /\ UNCHANGED <<ledgerVars, order, fetched, reversing>> /\ day' = day
          /\ pc' = [pc EXCEPT ![c] = "start"]
      BY <2>2, <3>1 DEF StartsOne, potVars
    <3>3. flow' = flow /\ run' = run /\ edit' = edit
      BY <1>4 DEF flowVars
    <3>4. SendsOnly'
      BY <1>0, <3>2, SendsStay
    <3>5. \A r \in Runs, i \in DOMAIN Schedules :
            /\ pc'[PaymentOf[r][i]] = pc[PaymentOf[r][i]]
            /\ Moved(PaymentOf[r][i])' <=> Moved(PaymentOf[r][i])
      <4>1. \A r \in Runs, i \in DOMAIN Schedules : PaymentOf[r][i] # c
        BY <3>1, FlowCalls
      <4>2. QED
        BY <1>0, <3>2, <4>1, StartsMoveNone DEF TypeOK
    <3>6. QED
      BY <1>0, <3>2, <3>3, <3>4, <3>5 DEF FlowRests
  <2>3. QED
    BY <1>0, <1>4, <2>1, <2>2, IntentsKeep
<1>5. CASE UNCHANGED everyVar
  BY <1>3, <1>5 DEF everyVar, appVars, vars, NothingMoves
<1>6. QED
  BY <1>1, <1>2, <1>4, <1>5 DEF AppNext, ProductNext, ProductWorks

-----------------------------------------------------------------------------
(* Steps of the flow itself. *)

LEMMA FlowCallsAt ==
  ASSUME AppSound, ScheduleInv, FlowNext, Overlaps = {}
  PROVE  /\ CallsAt'
         /\ \A r \in Runs, i \in DOMAIN Schedules :
              Moved(PaymentOf[r][i])' <=> Moved(PaymentOf[r][i])
<1>0. /\ TypeOK /\ LedgerTypeOK /\ FlowTyped /\ CallsAt
      /\ \A r \in Runs, i \in DOMAIN Schedules : PaymentOf[r][i] \in Calls
  BY FlowCalls DEF AppSound, TypeOK, ScheduleInv
<1>1. /\ \A r \in Runs, i \in DOMAIN Schedules : RunAhead(r, i)' => RunAhead(r, i)
      /\ \/ NothingMoves
         \/ \E r \in Runs, i \in DOMAIN Schedules :
              StartsOne(PaymentOf[r][i]) /\ RunAhead(r, i) /\ ~RunAhead(r, i)'
  BY <1>0, FlowKeeps
<1>2. UNCHANGED <<ledgerVars, order>>
  BY <1>1 DEF NothingMoves, StartsOne, payVars
<1>3. \A r \in Runs, i \in DOMAIN Schedules : Moved(PaymentOf[r][i])' <=> Moved(PaymentOf[r][i])
  BY <1>0, <1>2, StartsMoveNone
<1>4. ASSUME NEW r \in Runs, NEW i \in DOMAIN Schedules, RunAhead(r, i)'
      PROVE  pc'[PaymentOf[r][i]] = "done" /\ ~Moved(PaymentOf[r][i])'
  <2>1. pc[PaymentOf[r][i]] = "done" /\ ~Moved(PaymentOf[r][i])'
    BY <1>0, <1>1, <1>3, <1>4 DEF CallsAt
  <2>2. CASE NothingMoves
    BY <2>1, <2>2 DEF NothingMoves, payVars
  <2>3. ASSUME NEW q \in Runs, NEW j \in DOMAIN Schedules, StartsOne(PaymentOf[q][j]), ~RunAhead(q, j)'
        PROVE  pc'[PaymentOf[r][i]] = "done"
    <3>1. PaymentOf[q][j] # PaymentOf[r][i]
      <4>1. CASE q = r /\ i = j
        BY <1>4, <2>3, <4>1
      <4>2. CASE ~(q = r /\ i = j)
        BY <4>2, FlowCalls
      <4>3. QED
        BY <4>1, <4>2
    <3>2. QED
      BY <1>0, <2>1, <2>3, <3>1 DEF StartsOne, TypeOK
  <2>4. QED
    BY <1>1, <2>1, <2>2, <2>3
<1>5. ASSUME NEW q \in Runs, OneRun(q), pc' = pc, ~\E i \in DOMAIN Schedules : Paying(q, i),
             NEW r \in Runs, NEW i \in DOMAIN Schedules, pc'[PaymentOf[r][i]] # "done"
      PROVE  Paying(r, i)'
  BY <1>0, <1>5 DEF CallsAt, OneRun, Paying
<1>6. ASSUME NEW r \in Runs, NEW i \in DOMAIN Schedules, pc'[PaymentOf[r][i]] # "done"
      PROVE  Paying(r, i)'
  <2>1. ASSUME NEW q \in Runs, RunPay(q) PROVE Paying(r, i)'
    <3>1. OneRun(q) /\ run[q].at = "next"
      BY <1>0, <2>1, RunPays
    <3>2. CASE pc' = pc
      BY <1>5, <1>6, <3>1, <3>2 DEF Paying
    <3>3. ASSUME NEW j \in DOMAIN Schedules, Goto(PaymentOf[q][j], "start"), Paying(q, j)'
          PROVE  Paying(r, i)'
      <4>1. CASE q = r /\ i = j
        BY <3>3, <4>1
      <4>2. CASE ~(q = r /\ i = j)
        <5>1. PaymentOf[q][j] # PaymentOf[r][i]
          BY <4>2, FlowCalls
        <5>2. pc[PaymentOf[r][i]] # "done"
          BY <1>0, <1>6, <3>3, <5>1 DEF Goto, TypeOK
        <5>3. Paying(r, i)
          BY <1>0, <5>2 DEF CallsAt
        <5>4. QED
          BY <3>1, <5>3 DEF OneRun, Paying
      <4>3. QED
        BY <4>1, <4>2
    <3>4. QED
      BY <1>0, <2>1, <3>2, <3>3, RunPays
  <2>2. ASSUME NEW q \in Runs, RunPaid(q) PROVE Paying(r, i)'
    <3>1. OneRun(q) /\ pc' = pc
      BY <1>0, <2>2, RunsGoOn DEF RunPaid, vars, payVars
    <3>2. PICK j \in DOMAIN Schedules : Paying(q, j) /\ pc[PaymentOf[q][j]] = "done"
      BY <1>0, <2>2, RunPaidRow
    <3>3. Paying(r, i)
      BY <1>0, <1>6, <3>1 DEF CallsAt
    <3>4. q # r
      BY <1>6, <3>1, <3>2, <3>3 DEF Paying
    <3>5. QED
      BY <3>1, <3>3, <3>4 DEF OneRun, Paying
  <2>3. ASSUME NEW q \in Runs, RunLoad(q) \/ RunSave(q) \/ RunStops(q) PROVE Paying(r, i)'
    <3>1. OneRun(q)
      BY <1>0, <2>3, RunLoads, RunsGoOn
    <3>2. pc' = pc /\ run[q].at # "paying"
      BY <2>3 DEF RunLoad, RunSave, RunStops, vars, payVars
    <3>3. QED
      BY <1>5, <1>6, <3>1, <3>2 DEF Paying
  <2>4. CASE EditRead \/ EditWrite \/ cancelFlow
    <3>1. pc' = pc /\ run' = run
      BY <2>4 DEF EditRead, EditWrite, cancelFlow, vars, payVars
    <3>2. QED
      BY <1>0, <1>6, <3>1 DEF CallsAt, Paying
  <2>5. QED
    BY <2>1, <2>2, <2>3, <2>4, Overlaps = {} DEF FlowNext
<1>7. QED
  BY <1>3, <1>4, <1>6 DEF CallsAt

\* A step of the one run that works before or after it.
LEMMA OneRunKeeps ==
  ASSUME RunsInv, NEW r \in Runs, OneRun(r), \A q \in Runs \ {r} : ~Working(q),
         edit = NoEdit, edit' = edit,
         IF Working(r)' THEN RunHolds(r)'
         ELSE run'[r].spent = 0 /\ Agrees(flow.schedules, flow.spent, Counts, day)'
  PROVE  RunsInv'
<1>1. ASSUME NEW q \in Runs, q # r PROVE run'[q] = run[q] /\ ~Working(q)' /\ run'[q].spent = 0
  BY <1>1 DEF OneRun, RunsInv, Working
<1>2. \A q \in Runs : IF Working(q)' THEN RunHolds(q)' ELSE run'[q].spent = 0
  BY <1>1
<1>3. \A p, q \in Runs : Working(p)' /\ Working(q)' => p = q
  BY <1>1
<1>4. NobodyWorks' => ~Working(r)'
  BY DEF NobodyWorks
<1>5. QED
  BY <1>2, <1>3, <1>4 DEF RunsInv

LEMMA RunLoadKeeps ==
  ASSUME AppSound, ScheduleInv, FlowNext, Overlaps = {}, NEW r \in Runs, RunLoad(r)
  PROVE  RunsInv'
<1>0. FlowTyped /\ LedgerTypeOK /\ RunsInv
  BY DEF AppSound, TypeOK, ScheduleInv
<1>1. OneRun(r)
  BY <1>0, RunLoads
<1>2. NobodyWorks /\ edit = NoEdit
  BY DEF RunLoad, MayRun, NobodyWorks
<1>3. PICK x : x = [NoRun("next") EXCEPT !.wallet = balance[Payer], !.schedules = flow.schedules]
  OBVIOUS
<1>4. x.at = "next" /\ x.spent = 0 /\ x.schedules = flow.schedules
  BY <1>3 DEF NoRun
<1>5. /\ run'[r] = x /\ run[r].at = "start" /\ UNCHANGED <<vars, flow, edit>>
  BY <1>0, <1>3 DEF RunLoad, FlowTyped
<1>6. Counts' = Counts
  <2>1. \A q \in Runs, i \in DOMAIN Schedules : Paying(q, i)' <=> Paying(q, i)
    BY <1>1, <1>4, <1>5 DEF OneRun, Paying
  <2>2. \A q \in Runs, i \in DOMAIN Schedules : Moved(PaymentOf[q][i])' <=> Moved(PaymentOf[q][i])
    BY FlowCallsAt
  <2>3. QED
    BY <2>1, <2>2, SameCounts
<1>7. RunHolds(r)'
  <2>1. flow.spent + 0 = flow.spent
    BY <1>0 DEF FlowTyped
  <2>2. Agrees(flow.schedules, flow.spent, Counts, day)
    BY <1>0, <1>2 DEF RunsInv
  <2>3. day' = day
    BY <1>5 DEF vars, potVars
  <2>4. QED
    BY <1>4, <1>5, <1>6, <2>1, <2>2, <2>3 DEF RunHolds
<1>8. Working(r)' /\ edit' = edit
  BY <1>4, <1>5 DEF Working
<1>9. QED
  BY <1>0, <1>1, <1>2, <1>7, <1>8, OneRunKeeps DEF NobodyWorks

\* What is common to the other steps of a run.
LEMMA RunAlone ==
  ASSUME RunsInv, NEW r \in Runs, Working(r)
  PROVE  edit = NoEdit /\ RunHolds(r) /\ \A q \in Runs \ {r} : ~Working(q)
BY DEF RunsInv, NobodyWorks

LEMMA RunPayKeeps ==
  ASSUME AppSound, ScheduleInv, FlowNext, Overlaps = {}, NEW r \in Runs, RunPay(r)
  PROVE  RunsInv'
<1>0. FlowTyped /\ RunsInv /\ CallsAt /\ Working(r)
  BY DEF AppSound, ScheduleInv, RunPay, Working
<1>1. /\ OneRun(r) /\ run[r].at = "next"
      /\ run'[r].schedules = run[r].schedules /\ run'[r].spent = run[r].spent
      /\ \/ pc' = pc /\ run'[r].at = "next"
         \/ \E i \in DOMAIN Schedules : RunAhead(r, i) /\ Paying(r, i)' /\ Due(run[r].schedules[i])
  BY <1>0, RunPays
<1>2. flow' = flow /\ edit' = edit /\ day' = day
  BY DEF RunPay, potVars
<1>3. edit = NoEdit /\ RunHolds(r) /\ \A q \in Runs \ {r} : ~Working(q)
  BY <1>0, RunAlone
<1>4. \A i \in DOMAIN Schedules : Paying(r, i)' => ~Moved(PaymentOf[r][i])
  BY <1>0, <1>1 DEF CallsAt, Paying
<1>5. Counts' = Counts
  <2>1. \A q \in Runs, i \in DOMAIN Schedules : q # r => (Paying(q, i)' <=> Paying(q, i))
    BY <1>1 DEF OneRun, Paying
  <2>2. \A i \in DOMAIN Schedules : ~Paying(r, i)
    BY <1>1 DEF Paying
  <2>3. \A q \in Runs, i \in DOMAIN Schedules : Moved(PaymentOf[q][i])' <=> Moved(PaymentOf[q][i])
    BY FlowCallsAt
  <2>4. QED
    BY <1>4, <2>1, <2>2, <2>3, SameCounts
<1>6. run'[r].at = "paying" => run[r].schedules[run'[r].i].autoPay /\ run[r].schedules[run'[r].i].next <= day
  BY <1>1 DEF Paying, Due
<1>7. RunHolds(r)' /\ Working(r)'
  BY <1>1, <1>2, <1>3, <1>5, <1>6 DEF RunHolds, Working, Paying
<1>8. QED
  BY <1>0, <1>1, <1>2, <1>3, <1>7, OneRunKeeps

LEMMA RunPaidKeeps ==
  ASSUME AppSound, ScheduleInv, FlowNext, Overlaps = {}, IsFiniteSet(Runs), NEW r \in Runs, RunPaid(r)
  PROVE  RunsInv'
<1>0. FlowTyped /\ RunsInv /\ Working(r)
  BY DEF AppSound, ScheduleInv, RunPaid, Working
<1>1. PICK i \in DOMAIN Schedules, x \in RunRow :
        /\ Paying(r, i)
        /\ run' = [run EXCEPT ![r] = x]
        /\ x.at = "next"
        /\ IF Moved(PaymentOf[r][i])
             THEN /\ x.spent = run[r].spent + Schedules[i].amount
                  /\ x.schedules = [run[r].schedules EXCEPT ![i] = AfterExecution(@, Schedules[i].once)]
             ELSE x.spent = run[r].spent /\ x.schedules = run[r].schedules
  <2>1. "throw" \notin Overlaps
    OBVIOUS
  <2>2. QED
    BY <1>0, <2>1, RunPaidRow
<1>2. /\ OneRun(r) /\ flow' = flow /\ edit' = edit /\ day' = day
      /\ run'[r] = x
  BY <1>0, <1>1, RunsGoOn DEF RunPaid, vars, potVars, FlowTyped
<1>3. edit = NoEdit /\ RunHolds(r) /\ \A q \in Runs \ {r} : ~Working(q)
  BY <1>0, RunAlone
<1>4. /\ \A q \in Runs, j \in DOMAIN Schedules : Moved(PaymentOf[q][j])' <=> Moved(PaymentOf[q][j])
      /\ \A q \in Runs, j \in DOMAIN Schedules :
           ~(q = r /\ i = j) => (Paying(q, j)' <=> Paying(q, j))
      /\ ~Paying(r, i)'
  <2>1. \A q \in Runs, j \in DOMAIN Schedules : Moved(PaymentOf[q][j])' <=> Moved(PaymentOf[q][j])
    BY FlowCallsAt
  <2>2. \A q \in Runs, j \in DOMAIN Schedules : ~(q = r /\ i = j) => (Paying(q, j)' <=> Paying(q, j))
    BY <1>1, <1>2 DEF OneRun, Paying
  <2>3. ~Paying(r, i)'
    BY <1>1, <1>2 DEF Paying
  <2>4. QED
    BY <2>1, <2>2, <2>3
<1>5. PICK s \in ScheduleList, spent \in Nat, d \in Nat :
        s = run[r].schedules /\ spent = run[r].spent /\ d = day
  BY <1>0 DEF FlowTyped, RunRow
<1>6. PICK n : n = Counts
  OBVIOUS
<1>7. PICK m : m = Counts'
  OBVIOUS
<1>8. n \in [DOMAIN Schedules -> Nat] /\ m \in [DOMAIN Schedules -> Nat]
  <2>1. ASSUME NEW j \in DOMAIN Schedules PROVE Counted(j) \in SUBSET Runs /\ Counted(j)' \in SUBSET Runs
    BY DEF Counted
  <2>2. \A j \in DOMAIN Schedules : Cardinality(Counted(j)) \in Nat /\ Cardinality(Counted(j)') \in Nat
    BY <2>1, PartOfRuns
  <2>3. QED
    BY <1>6, <1>7, <2>2 DEF Counts
<1>9. CASE ~Moved(PaymentOf[r][i])
  <2>1. m = n
    BY <1>4, <1>6, <1>7, <1>9, SameCounts
  <2>2. RunHolds(r)' /\ Working(r)'
    BY <1>1, <1>2, <1>3, <1>6, <1>7, <1>9, <2>1 DEF RunHolds, Working
  <2>3. QED
    BY <1>0, <1>2, <1>3, <2>2, OneRunKeeps
<1>10. CASE Moved(PaymentOf[r][i])
  <2>1. Counted(i)' = Counted(i) \cup {r} /\ r \notin Counted(i)
    BY <1>1, <1>4, <1>10 DEF Counted
  <2>2. m[i] = n[i] + 1
    <3>1. PICK T, U : T = Counted(i) /\ U = Counted(i)'
      OBVIOUS
    <3>2. IsFiniteSet(T) /\ U = T \cup {r} /\ r \notin T /\ T \in SUBSET Runs
      BY <2>1, <3>1, FS_Subset DEF Counted
    <3>3. Cardinality(U) = Cardinality(T) + 1
      BY <3>2, FS_AddElement
    <3>4. QED
      BY <1>6, <1>7, <3>1, <3>3 DEF Counts
  <2>3. \A j \in DOMAIN Schedules \ {i} : m[j] = n[j]
    <3>1. ASSUME NEW j \in DOMAIN Schedules \ {i} PROVE Counted(j)' = Counted(j)
      BY <1>4, <3>1 DEF Counted
    <3>2. QED
      BY <1>6, <1>7, <3>1 DEF Counts
  <2>4. PICK t : t = x.schedules
    OBVIOUS
  <2>5. /\ \A j \in DOMAIN Schedules \ {i} : t[j] = s[j]
        /\ t[i] = IF Schedules[i].once THEN [autoPay |-> FALSE, next |-> Never]
                  ELSE [autoPay |-> TRUE, next |-> d + 1]
    BY <1>1, <1>5, <1>10, <2>4 DEF AfterExecution, ScheduleList
  <2>6. PICK f \in Nat : f = flow.spent
    BY <1>0 DEF FlowTyped
  <2>7. Agrees(s, f + spent, n, d) /\ s[i].autoPay /\ s[i].next <= d
    BY <1>1, <1>3, <1>5, <1>6, <2>6 DEF RunHolds, Paying
  <2>8. Agrees(t, f + spent + Schedules[i].amount, m, d)
    <3>1. PICK y \in Nat : y = f + spent
      OBVIOUS
    <3>2. Agrees(s, y, n, d)
      BY <2>7, <3>1
    <3>3. Agrees(t, y + Schedules[i].amount, m, d)
      BY <1>8, <2>2, <2>3, <2>5, <2>7, <3>2, AgreesPaid
    <3>4. QED
      BY <3>1, <3>3
  <2>9. x.spent = spent + Schedules[i].amount /\ Schedules[i].amount \in Nat /\ Schedules[i].amount # 0
    BY <1>1, <1>5, <1>10, ScheduleFields
  <2>10. f + x.spent = f + spent + Schedules[i].amount /\ x.spent # 0
    BY <1>5, <2>6, <2>9
  <2>11. RunHolds(r)'
    BY <1>1, <1>2, <1>5, <1>7, <2>4, <2>6, <2>8, <2>10 DEF RunHolds
  <2>12. Working(r)'
    BY <1>1, <1>2 DEF Working
  <2>13. QED
    BY <1>0, <1>2, <1>3, <2>11, <2>12, OneRunKeeps
<1>11. QED
  BY <1>9, <1>10

LEMMA RunEndKeeps ==
  ASSUME AppSound, ScheduleInv, FlowNext, Overlaps = {}, NEW r \in Runs, RunSave(r) \/ RunStops(r)
  PROVE  RunsInv'
<1>0. FlowTyped /\ RunsInv /\ Working(r) /\ run[r].at = "next"
  BY DEF AppSound, ScheduleInv, RunSave, RunStops, Working
<1>1. OneRun(r) /\ edit' = edit /\ day' = day
  BY <1>0, RunsGoOn DEF RunSave, RunStops, vars, potVars
<1>2. edit = NoEdit /\ RunHolds(r) /\ \A q \in Runs \ {r} : ~Working(q)
  BY <1>0, RunAlone
<1>3. run'[r].at = "done" /\ run'[r].spent = 0
  BY <1>0 DEF RunSave, RunStops, NoRun, FlowTyped
<1>4. Counts' = Counts
  <2>1. \A q \in Runs, i \in DOMAIN Schedules : Paying(q, i)' <=> Paying(q, i)
    BY <1>0, <1>1, <1>3 DEF OneRun, Paying
  <2>2. \A q \in Runs, i \in DOMAIN Schedules : Moved(PaymentOf[q][i])' <=> Moved(PaymentOf[q][i])
    BY FlowCallsAt
  <2>3. QED
    BY <2>1, <2>2, SameCounts
<1>5. CASE RunStops(r)
  <2>1. flow' = flow /\ run[r].spent = 0
    BY <1>5 DEF RunStops
  <2>2. run[r].schedules = flow.schedules /\ flow.spent + 0 = flow.spent
    BY <1>0, <1>2, <2>1 DEF RunHolds, FlowTyped
  <2>3. Agrees(flow.schedules, flow.spent, Counts, day)
    BY <1>2, <2>1, <2>2 DEF RunHolds
  <2>4. QED
    BY <1>0, <1>1, <1>2, <1>3, <1>4, <2>1, <2>3, OneRunKeeps DEF Working
<1>6. CASE RunSave(r)
  <2>1. PICK f : f = flow
    OBVIOUS
  <2>2. f \in [status : {"none", "active", "cancelled"}, spent : Nat, schedules : ScheduleList]
    BY <1>0, <2>1 DEF FlowTyped
  <2>3. flow' = [f EXCEPT !.schedules = run[r].schedules, !.spent = f.spent + run[r].spent]
    BY <1>6, <2>1, <2>2 DEF RunSave
  <2>4. flow'.schedules = run[r].schedules /\ flow'.spent = f.spent + run[r].spent
    BY <2>2, <2>3
  <2>5. Agrees(flow'.schedules, flow'.spent, Counts', day')
    BY <1>1, <1>2, <1>4, <2>1, <2>4 DEF RunHolds
  <2>6. \A q \in Runs : ~Working(q)' /\ run'[q].spent = 0
    BY <1>0, <1>1, <1>2, <1>3 DEF OneRun, Working, RunsInv
  <2>7. edit' = NoEdit
    BY <1>1, <1>2
  <2>8. QED
    BY <2>5, <2>6, <2>7 DEF RunsInv
<1>7. QED
  BY <1>5, <1>6

LEMMA EditKeeps ==
  ASSUME AppSound, ScheduleInv, FlowNext, Overlaps = {}, EditRead \/ EditWrite \/ cancelFlow
  PROVE  RunsInv'
<1>0. FlowTyped /\ RunsInv
  BY DEF AppSound, ScheduleInv
<1>1. run' = run /\ day' = day
  BY DEF EditRead, EditWrite, cancelFlow, vars, potVars
<1>2. Counts' = Counts
  <2>1. \A q \in Runs, i \in DOMAIN Schedules : Paying(q, i)' <=> Paying(q, i)
    BY <1>1 DEF Paying
  <2>2. \A q \in Runs, i \in DOMAIN Schedules : Moved(PaymentOf[q][i])' <=> Moved(PaymentOf[q][i])
    BY FlowCallsAt
  <2>3. QED
    BY <2>1, <2>2, SameCounts
<1>3. \A r \in Runs : Working(r)' <=> Working(r)
  BY <1>1 DEF Working
<1>4. NobodyWorks' <=> NobodyWorks
  BY <1>3 DEF NobodyWorks
<1>5. flow'.schedules = flow.schedules /\ flow'.spent = flow.spent
  <2>1. PICK f : f = flow
    OBVIOUS
  <2>2. f \in [status : {"none", "active", "cancelled"}, spent : Nat, schedules : ScheduleList]
    BY <1>0, <2>1 DEF FlowTyped
  <2>3. CASE EditRead
    BY <2>3 DEF EditRead
  <2>4. CASE EditWrite
    <3>1. edit = f.schedules
      BY <1>0, <2>1, <2>4 DEF EditWrite, RunsInv
    <3>2. flow' = [f EXCEPT !.schedules = f.schedules]
      BY <2>1, <2>4, <3>1 DEF EditWrite
    <3>3. QED
      BY <2>1, <2>2, <3>2
  <2>5. CASE cancelFlow
    <3>1. flow' = [f EXCEPT !.status = "cancelled"]
      BY <2>1, <2>5 DEF cancelFlow
    <3>2. QED
      BY <2>1, <2>2, <3>1
  <2>6. QED
    BY <2>3, <2>4, <2>5
<1>6. edit' # NoEdit => edit' = flow'.schedules /\ NobodyWorks'
  <2>1. CASE EditRead
    BY <1>4, <1>5, <2>1 DEF EditRead, NobodyWorks
  <2>2. CASE EditWrite \/ cancelFlow
    BY <1>0, <1>4, <1>5, <2>2 DEF EditWrite, cancelFlow, RunsInv
  <2>3. QED
    BY <2>1, <2>2
<1>7. \A r \in Runs : RunHolds(r) => RunHolds(r)'
  BY <1>1, <1>2, <1>5 DEF RunHolds
<1>8. QED
  BY <1>0, <1>1, <1>2, <1>3, <1>4, <1>5, <1>6, <1>7 DEF RunsInv

LEMMA NextSchedule ==
  ASSUME AppSound, SendsOnly, ScheduleInv, Overlaps = {}, IsFiniteSet(Runs), [AppNext]_everyVar
  PROVE  SendsOnly' /\ ScheduleInv'
<1>0. FlowTyped /\ TypeOK /\ LedgerTypeOK
  BY DEF AppSound, TypeOK
<1>1. CASE ~(FlowNext /\ UNCHANGED <<productVars, intentVars>>)
  BY <1>0, <1>1, OthersRest, RestKeeps
<1>2. CASE FlowNext /\ UNCHANGED <<productVars, intentVars>>
  <2>1. RunsInv'
    BY <1>2, RunLoadKeeps, RunPayKeeps, RunPaidKeeps, RunEndKeeps, EditKeeps DEF FlowNext
  <2>2. CallsAt'
    BY <1>2, FlowCallsAt
  <2>3. NothingMoves \/ \E r \in Runs, i \in DOMAIN Schedules : StartsOne(PaymentOf[r][i])
    BY <1>0, <1>2, FlowKeeps
  <2>4. \A r \in Runs, i \in DOMAIN Schedules : PaymentOf[r][i] \in Calls
    BY FlowCalls
  <2>5. SendsOnly'
    <3>1. UNCHANGED <<fetched, reversing>> /\ (pc' = pc \/ \E d \in Calls : pc' = [pc EXCEPT ![d] = "start"])
      BY <2>3, <2>4 DEF NothingMoves, StartsOne, payVars
    <3>2. QED
      BY <1>0, <3>1, SendsStay
  <2>6. QED
    BY <2>1, <2>2, <2>5 DEF ScheduleInv
<1>3. QED
  BY <1>1, <1>2

\* At the start nothing is paid and everything is due.
LEMMA InitSchedule ==
  ASSUME AppInit, IsFiniteSet(Runs)
  PROVE  SendsOnly /\ ScheduleInv
<1>0. AppSound /\ FlowTyped /\ FlowInit /\ Init
  BY InitMoney DEF MoneyInv, AppSound, IInv, AppInit, ProductInit
<1>1. SendsOnly
  BY <1>0 DEF SendsOnly, Init
<1>2. ASSUME NEW r \in Runs, NEW i \in DOMAIN Schedules
      PROVE  pc[PaymentOf[r][i]] = "done" /\ ~Moved(PaymentOf[r][i])
  <2>1. PICK c \in Calls \ UserCalls : c = PaymentOf[r][i]
    BY FlowCalls
  <2>2. pc[c] = "done" /\ order[c] = "none" /\ movements = {}
    BY <1>0, <2>1 DEF Init, LedgerInit
  <2>3. ~Moved(c)
    BY <2>2 DEF Moved, findMovementByKey
  <2>4. QED
    BY <2>1, <2>2, <2>3
<1>3. \A i \in DOMAIN Schedules : Counts[i] = 0
  <2>1. \A i \in DOMAIN Schedules : Counted(i) = {}
    BY <1>2 DEF Counted
  <2>2. QED
    BY <2>1, FS_EmptySet DEF Counts
<1>4. \A r \in Runs : run[r].at = "start" /\ run[r].spent = 0 /\ ~Working(r)
  BY <1>0 DEF FlowInit, NoRun, Working
<1>5. Agrees(flow.schedules, flow.spent, Counts, day)
  <2>1. /\ flow.spent = 0
        /\ flow.schedules = [i \in DOMAIN Schedules |-> [autoPay |-> TRUE, next |-> 0]]
        /\ day = 0
    BY <1>0 DEF FlowInit, Init
  <2>2. Worth(Counts) = 0
    BY <1>3, CountsTyped, WorthOfNone
  <2>3. QED
    BY <1>3, <2>1, <2>2 DEF Agrees, Unpaid
<1>6. edit # NoEdit => edit = flow.schedules
  BY <1>0 DEF FlowInit
<1>7. RunsInv
  BY <1>4, <1>5, <1>6 DEF RunsInv, NobodyWorks
<1>8. CallsAt
  BY <1>2 DEF CallsAt
<1>9. QED
  BY <1>1, <1>7, <1>8 DEF ScheduleInv

-----------------------------------------------------------------------------
(* From the invariant to what was paid. *)

\* What runs have in hand is what the one that works has.
LEMMA InHandIs ==
  ASSUME FlowTyped, RunsInv, IsFiniteSet(Runs)
  PROVE  /\ NobodyWorks => Total(InHand, Runs) = 0
         /\ \A r \in Runs : Working(r) => Total(InHand, Runs) = InHand(r)
<1>1. PICK g : g = [r \in Runs |-> InHand(r)]
  OBVIOUS
<1>2. Total(InHand, Runs) = SumFunctionOnSet(g, Runs)
  BY <1>1 DEF Total
<1>3. ASSUME NEW r \in Runs, ~Working(r) PROVE g[r] = 0
  BY <1>1, <1>3 DEF InHand, RunsInv, Working
<1>4. ASSUME NobodyWorks PROVE Total(InHand, Runs) = 0
  BY <1>2, <1>3, <1>4, SumZeros DEF NobodyWorks
<1>5. ASSUME NEW r \in Runs, Working(r) PROVE Total(InHand, Runs) = InHand(r)
  <2>1. \A q \in Runs \ {r} : g[q] = 0
    BY <1>3, <1>5 DEF RunsInv
  <2>2. InHand(r) \in Nat
    <3>1. run[r].spent \in Nat
      BY DEF FlowTyped, RunRow
    <3>2. run[r].at = "paying" => Schedules[run[r].i].amount \in Nat
      BY ScheduleFields DEF FlowTyped
    <3>3. QED
      BY <3>1, <3>2 DEF InHand
  <2>3. PICK z : z = [q \in Runs |-> 0]
    OBVIOUS
  <2>4. PICK rest \in Nat : SumFunctionOnSet(z, Runs) = rest + z[r] /\ SumFunctionOnSet(g, Runs) = rest + g[r]
    <3>1. \A q \in Runs : z[q] \in Nat
      BY <2>3
    <3>2. \A q \in Runs \ {r} : g[q] = z[q]
      BY <2>1, <2>3
    <3>3. g[r] \in Nat
      BY <1>1, <2>2
    <3>4. QED
      BY <3>1, <3>2, <3>3, SumChanges
  <2>5. SumFunctionOnSet(z, Runs) = 0 /\ z[r] = 0
    BY <2>3, SumZeros
  <2>6. QED
    BY <1>1, <1>2, <2>2, <2>4, <2>5
<1>6. QED
  BY <1>4, <1>5

LEMMA UnpaidBound ==
  ASSUME NEW s \in [autoPay : BOOLEAN, next : Nat], NEW n \in Nat, NEW once \in BOOLEAN, NEW d \in Nat,
         Unpaid(s, n, once, d)
  PROVE  /\ n <= IF once THEN 1 ELSE d + 1
         /\ s.autoPay /\ s.next <= d => n + 1 <= IF once THEN 1 ELSE d + 1
<1>1. CASE once
  BY <1>1 DEF Unpaid
<1>2. CASE ~once
  BY <1>2 DEF Unpaid
<1>3. QED
  BY <1>1, <1>2

\* What was paid, when what a run is waiting for is not counted or did not return.
LEMMA PaidIsCounted ==
  ASSUME IsFiniteSet(Runs), NEW s \in ScheduleList, NEW x \in Nat, Agrees(s, x, Counts, day), day \in Nat,
         \A i \in DOMAIN Schedules : PaidFor(i) = Counted(i)
  PROVE  /\ \A i \in DOMAIN Schedules :
              Cardinality(PaidFor(i)) <= (IF Schedules[i].once THEN 1 ELSE day + 1)
         /\ x = Total(LAMBDA i : Schedules[i].amount * Cardinality(PaidFor(i)), DOMAIN Schedules)
<1>1. PICK n : n = Counts
  OBVIOUS
<1>2. n \in [DOMAIN Schedules -> Nat] /\ \A i \in DOMAIN Schedules : Cardinality(PaidFor(i)) = n[i]
  BY <1>1, CountsTyped DEF Counts
<1>3. ASSUME NEW i \in DOMAIN Schedules
      PROVE  Cardinality(PaidFor(i)) <= (IF Schedules[i].once THEN 1 ELSE day + 1)
  <2>1. Unpaid(s[i], n[i], Schedules[i].once, day) /\ s[i] \in [autoPay : BOOLEAN, next : Nat]
    BY <1>1 DEF Agrees, ScheduleList
  <2>2. Schedules[i].once \in BOOLEAN /\ n[i] \in Nat
    BY <1>2, ScheduleFields
  <2>3. n[i] <= IF Schedules[i].once THEN 1 ELSE day + 1
    BY <2>1, <2>2, UnpaidBound
  <2>4. QED
    BY <1>2, <2>3
<1>4. Total(LAMBDA i : Schedules[i].amount * Cardinality(PaidFor(i)), DOMAIN Schedules) = Worth(n)
  <2>1. [i \in DOMAIN Schedules |-> Schedules[i].amount * Cardinality(PaidFor(i))]
          = [i \in DOMAIN Schedules |-> Schedules[i].amount * n[i]]
    BY <1>2
  <2>2. QED
    BY <2>1 DEF Total, Worth
<1>5. QED
  BY <1>1, <1>3, <1>4 DEF Agrees

\* When a run waits for a payment that has returned, it comes on top of what is counted.
LEMMA OnePaidMore ==
  ASSUME IsFiniteSet(Runs), NEW s \in ScheduleList, NEW x \in Nat, Agrees(s, x, Counts, day), day \in Nat,
         NEW r \in Runs, NEW i \in DOMAIN Schedules,
         s[i].autoPay, s[i].next <= day,
         PaidFor(i) = Counted(i) \cup {r}, r \notin Counted(i),
         \A j \in DOMAIN Schedules \ {i} : PaidFor(j) = Counted(j)
  PROVE  /\ \A j \in DOMAIN Schedules :
              Cardinality(PaidFor(j)) <= (IF Schedules[j].once THEN 1 ELSE day + 1)
         /\ x + Schedules[i].amount
              = Total(LAMBDA j : Schedules[j].amount * Cardinality(PaidFor(j)), DOMAIN Schedules)
<1>1. PICK n : n = Counts
  OBVIOUS
<1>2. PICK m : m = [j \in DOMAIN Schedules |-> Cardinality(PaidFor(j))]
  OBVIOUS
<1>3. n \in [DOMAIN Schedules -> Nat]
  BY <1>1, CountsTyped
<1>4. m \in [DOMAIN Schedules -> Nat] /\ \A j \in DOMAIN Schedules : m[j] = Cardinality(PaidFor(j))
  <2>1. ASSUME NEW j \in DOMAIN Schedules PROVE Cardinality(PaidFor(j)) \in Nat
    <3>1. PaidFor(j) \in SUBSET Runs
      BY DEF PaidFor
    <3>2. QED
      BY <3>1, PartOfRuns
  <2>2. QED
    BY <1>2, <2>1
<1>5. m[i] = n[i] + 1
  <2>1. PICK T : T = Counted(i)
    OBVIOUS
  <2>2. T \in SUBSET Runs /\ IsFiniteSet(T) /\ r \notin T
    BY <2>1, PartOfRuns DEF Counted
  <2>3. Cardinality(T \cup {r}) = Cardinality(T) + 1
    BY <2>2, FS_AddElement
  <2>4. QED
    BY <1>1, <1>4, <2>1, <2>3 DEF Counts
<1>6. \A j \in DOMAIN Schedules \ {i} : m[j] = n[j]
  BY <1>1, <1>4 DEF Counts
<1>7. ASSUME NEW j \in DOMAIN Schedules PROVE m[j] <= (IF Schedules[j].once THEN 1 ELSE day + 1)
  <2>1. Unpaid(s[j], n[j], Schedules[j].once, day) /\ s[j] \in [autoPay : BOOLEAN, next : Nat]
    BY <1>1 DEF Agrees, ScheduleList
  <2>2. Schedules[j].once \in BOOLEAN /\ n[j] \in Nat
    BY <1>3, ScheduleFields
  <2>3. /\ n[j] <= IF Schedules[j].once THEN 1 ELSE day + 1
        /\ s[j].autoPay /\ s[j].next <= day => n[j] + 1 <= IF Schedules[j].once THEN 1 ELSE day + 1
    BY <2>1, <2>2, UnpaidBound
  <2>4. CASE j = i
    BY <1>5, <2>3, <2>4
  <2>5. CASE j # i
    BY <1>6, <2>3, <2>5
  <2>6. QED
    BY <2>4, <2>5
<1>8. Worth(m) = x + Schedules[i].amount
  BY <1>1, <1>3, <1>4, <1>5, <1>6, WorthOfOne DEF Agrees
<1>9. Total(LAMBDA j : Schedules[j].amount * Cardinality(PaidFor(j)), DOMAIN Schedules) = Worth(m)
  <2>1. [j \in DOMAIN Schedules |-> Schedules[j].amount * Cardinality(PaidFor(j))]
          = [j \in DOMAIN Schedules |-> Schedules[j].amount * m[j]]
    BY <1>4
  <2>2. QED
    BY <2>1 DEF Total, Worth
<1>10. QED
  BY <1>4, <1>7, <1>8, <1>9

LEMMA InvPaidOnce ==
  ASSUME FlowTyped, RunsInv, IsFiniteSet(Runs)
  PROVE  SchedulePaidOnce
<1>0. day \in Nat /\ flow.spent \in Nat /\ flow.schedules \in ScheduleList
  BY DEF FlowTyped
<1>1. CASE NobodyWorks
  <2>1. \A i \in DOMAIN Schedules : PaidFor(i) = Counted(i)
    BY <1>1 DEF NobodyWorks, Working, PaidFor, Counted, Paying
  <2>2. Agrees(flow.schedules, flow.spent, Counts, day)
    BY <1>1 DEF RunsInv
  <2>3. Total(InHand, Runs) = 0
    BY <1>1, InHandIs
  <2>4. /\ \A i \in DOMAIN Schedules :
             Cardinality(PaidFor(i)) <= (IF Schedules[i].once THEN 1 ELSE day + 1)
        /\ flow.spent = Total(LAMBDA i : Schedules[i].amount * Cardinality(PaidFor(i)), DOMAIN Schedules)
    BY <1>0, <2>1, <2>2, PaidIsCounted
  <2>5. flow.spent + Total(InHand, Runs) = flow.spent
    BY <1>0, <2>3
  <2>6. QED
    BY <2>4, <2>5 DEF SchedulePaidOnce
<1>2. ASSUME NEW r \in Runs, Working(r) PROVE SchedulePaidOnce
  <2>1. RunHolds(r) /\ \A q \in Runs \ {r} : ~Working(q)
    BY <1>2, RunAlone
  <2>2. Total(InHand, Runs) = InHand(r)
    BY <1>2, InHandIs
  <2>3. PICK s \in ScheduleList : s = run[r].schedules
    BY <1>2 DEF FlowTyped
  <2>4. PICK x \in Nat : x = flow.spent + run[r].spent
    BY <1>0 DEF FlowTyped, RunRow
  <2>5. Agrees(s, x, Counts, day)
    BY <2>1, <2>3, <2>4 DEF RunHolds
  <2>6. \A q \in Runs \ {r}, i \in DOMAIN Schedules : ~Paying(q, i)
    BY <2>1 DEF Working, Paying
  <2>7. CASE run[r].at = "paying" /\ Moved(PaymentOf[r][run[r].i])
    <3>1. PICK i \in DOMAIN Schedules : i = run[r].i
      BY <2>7 DEF FlowTyped
    <3>2. Paying(r, i) /\ Moved(PaymentOf[r][i]) /\ \A j \in DOMAIN Schedules \ {i} : ~Paying(r, j)
      BY <2>7, <3>1 DEF Paying
    <3>3. PaidFor(i) = Counted(i) \cup {r} /\ r \notin Counted(i)
      BY <2>6, <3>2 DEF PaidFor, Counted
    <3>4. \A j \in DOMAIN Schedules \ {i} : PaidFor(j) = Counted(j)
      BY <2>6, <3>2 DEF PaidFor, Counted
    <3>5. s[i].autoPay /\ s[i].next <= day
      BY <2>1, <2>3, <2>7, <3>1 DEF RunHolds
    <3>6. /\ \A j \in DOMAIN Schedules :
               Cardinality(PaidFor(j)) <= (IF Schedules[j].once THEN 1 ELSE day + 1)
          /\ x + Schedules[i].amount
               = Total(LAMBDA j : Schedules[j].amount * Cardinality(PaidFor(j)), DOMAIN Schedules)
      BY <1>0, <2>5, <3>3, <3>4, <3>5, OnePaidMore
    <3>7. flow.spent + Total(InHand, Runs) = x + Schedules[i].amount
      <4>1. InHand(r) = run[r].spent + Schedules[i].amount
        BY <2>7, <3>1 DEF InHand
      <4>2. run[r].spent \in Nat /\ Schedules[i].amount \in Nat
        BY ScheduleFields DEF FlowTyped, RunRow
      <4>3. QED
        BY <1>0, <2>2, <2>4, <4>1, <4>2
    <3>8. QED
      BY <3>6, <3>7 DEF SchedulePaidOnce
  <2>8. CASE ~(run[r].at = "paying" /\ Moved(PaymentOf[r][run[r].i]))
    <3>1. \A i \in DOMAIN Schedules : PaidFor(i) = Counted(i)
      BY <2>6, <2>8 DEF PaidFor, Counted, Paying
    <3>2. /\ \A i \in DOMAIN Schedules :
               Cardinality(PaidFor(i)) <= (IF Schedules[i].once THEN 1 ELSE day + 1)
          /\ x = Total(LAMBDA i : Schedules[i].amount * Cardinality(PaidFor(i)), DOMAIN Schedules)
      BY <1>0, <2>5, <3>1, PaidIsCounted
    <3>3. flow.spent + Total(InHand, Runs) = x
      <4>1. InHand(r) = run[r].spent + 0 /\ run[r].spent \in Nat
        BY <2>8 DEF InHand, FlowTyped, RunRow
      <4>2. QED
        BY <1>0, <2>2, <2>4, <4>1
    <3>4. QED
      BY <3>2, <3>3 DEF SchedulePaidOnce
  <2>9. QED
    BY <2>7, <2>8
<1>3. QED
  BY <1>1, <1>2 DEF NobodyWorks

\* A schedule is paid once per date at most, and spent_amount, with what a run is about to
\* add to it, is what was paid (runDueSchedulesForUser), for any schedules, ticks and calls,
\* and whichever payments throw before their money moved or fail later.  It is of runs that
\* overlap neither each other nor an edit, that no stop of the server cuts off between a
\* payment and the UPDATE, and whose payments do not throw after their money moved: then
\* the schedule stays due, and the next run pays it again.
THEOREM SchedulesArePaidOnce ==
  ASSUME Overlaps = {}, IsFiniteSet(Runs)
  PROVE  AppSpec => []SchedulePaidOnce
<1>1. AppInit => AppSound /\ SendsOnly /\ ScheduleInv
  BY InitMoney, InitSchedule DEF MoneyInv, AppSound, IInv
<1>2. AppSound /\ SendsOnly /\ ScheduleInv /\ [AppNext]_everyVar
        => (AppSound /\ SendsOnly /\ ScheduleInv)'
  BY StepSound, NextSchedule
<1>3. AppSound /\ ScheduleInv => SchedulePaidOnce
  BY InvPaidOnce DEF AppSound, ScheduleInv
<1>4. QED
  BY <1>1, <1>2, <1>3, PTL DEF AppSpec

-----------------------------------------------------------------------------
(***************************************************************************)
(* The books as a whole.  What is in wallets and pockets, what is in pots  *)
(* beyond their interest, and what calls, deposits and payments have in    *)
(* hand add up to no more at any step (Books): each posting takes from one *)
(* term of the sum what it gives another.                                  *)
(***************************************************************************)

\* Sums of integers, one term after another.
LEMMA SumNext ==
  ASSUME NEW f, NEW S, IsFiniteSet(S), S # {}
  PROVE  /\ Sums!Pick(S) \in S
         /\ SumFunctionOnSet(f, S) = f[Sums!Pick(S)] + SumFunctionOnSet(f, S \ {Sums!Pick(S)})
<1>1. Sums!IsFiniteSet(S)
  BY SameFinite
<1>2. Sums!SumFunctionOnSet(f, S)
        = f[Sums!Pick(S)] + Sums!SumFunctionOnSet(f, S \ {Sums!Pick(S)})
  BY <1>1, Sums!SumPick
<1>3. Sums!Pick(S) \in S
  BY DEF Sums!Pick
<1>4. QED
  BY <1>2, <1>3, SameSums

LEMMA SumOfNone ==
  ASSUME NEW f
  PROVE  SumFunctionOnSet(f, {}) = 0
BY SameSums, Sums!SumEmpty

LEMMA SumInt ==
  ASSUME NEW f, NEW S, IsFiniteSet(S), \A y \in S : f[y] \in Int
  PROVE  SumFunctionOnSet(f, S) \in Int
<1>1. PICK F : F = {T \in SUBSET S : SumFunctionOnSet(f, T) \in Int}
  OBVIOUS
<1>2. {} \in F
  BY <1>1, SumOfNone
<1>3. ASSUME NEW T \in SUBSET S, T # {}, \A x \in T : T \ {x} \in F
      PROVE  T \in F
  <2>1. PICK z : z = Sums!Pick(T)
    OBVIOUS
  <2>2. z \in T /\ SumFunctionOnSet(f, T) = f[z] + SumFunctionOnSet(f, T \ {z})
    BY <1>3, <2>1, FS_Subset, SumNext
  <2>3. SumFunctionOnSet(f, T \ {z}) \in Int
    BY <1>1, <1>3, <2>2
  <2>4. QED
    BY <1>1, <2>2, <2>3
<1>4. Sums!IsFiniteSet(S)
  BY SameFinite
<1>5. S \in F
  BY <1>2, <1>3, <1>4, Sums!SetInduction
<1>6. QED
  BY <1>1, <1>5

\* A term that changes by d changes the sum by d.
LEMMA SumShift ==
  ASSUME NEW f, NEW g, NEW S, IsFiniteSet(S), NEW x \in S, NEW d \in Int,
         \A y \in S : f[y] \in Int, g[x] = f[x] + d, \A y \in S \ {x} : g[y] = f[y]
  PROVE  SumFunctionOnSet(f, S) \in Int /\ SumFunctionOnSet(g, S) = SumFunctionOnSet(f, S) + d
<1>0. PICK Shifts : Shifts = [T \in SUBSET S |-> IF x \in T THEN d ELSE 0]
  OBVIOUS
<1>1. PICK F : F = {T \in SUBSET S :
                      SumFunctionOnSet(g, T) = SumFunctionOnSet(f, T) + Shifts[T]}
  OBVIOUS
<1>2. {} \in F
  BY <1>0, <1>1, SumOfNone
<1>3. ASSUME NEW T \in SUBSET S, T # {}, \A y \in T : T \ {y} \in F
      PROVE  T \in F
  <2>1. PICK z : z = Sums!Pick(T)
    OBVIOUS
  <2>2. /\ z \in T /\ z \in S /\ IsFiniteSet(T \ {z})
        /\ SumFunctionOnSet(f, T) = f[z] + SumFunctionOnSet(f, T \ {z})
        /\ SumFunctionOnSet(g, T) = g[z] + SumFunctionOnSet(g, T \ {z})
    BY <1>3, <2>1, FS_Subset, SumNext
  <2>3. SumFunctionOnSet(f, T \ {z}) \in Int
    BY <2>2, SumInt
  <2>4. SumFunctionOnSet(g, T \ {z}) = SumFunctionOnSet(f, T \ {z}) + Shifts[T \ {z}]
    BY <1>1, <1>3, <2>2
  <2>5. f[z] \in Int /\ g[z] = IF z = x THEN f[z] + d ELSE f[z]
    BY <2>2
  <2>6. Shifts[T] = Shifts[T \ {z}] + (IF z = x THEN d ELSE 0)
    <3>1. Shifts[T] = (IF x \in T THEN d ELSE 0) /\ Shifts[T \ {z}] = (IF x \in T \ {z} THEN d ELSE 0)
      BY <1>0
    <3>2. QED
      BY <2>2, <3>1
  <2>7. Shifts[T \ {z}] \in Int
    BY <1>0
  <2>8. SumFunctionOnSet(g, T) = SumFunctionOnSet(f, T) + Shifts[T]
    BY <2>2, <2>3, <2>4, <2>5, <2>6, <2>7
  <2>9. QED
    BY <1>1, <2>8
<1>4. Sums!IsFiniteSet(S)
  BY SameFinite
<1>5. S \in F
  BY <1>2, <1>3, <1>4, Sums!SetInduction
<1>6. QED
  BY <1>0, <1>1, <1>5, SumInt

\* What holds of the terms holds of the sums.
LEMMA SumBound ==
  ASSUME NEW f, NEW g, NEW h, NEW S, IsFiniteSet(S),
         \A y \in S : f[y] \in Int /\ g[y] \in Int /\ h[y] \in Int /\ f[y] <= g[y] + h[y]
  PROVE  SumFunctionOnSet(f, S) <= SumFunctionOnSet(g, S) + SumFunctionOnSet(h, S)
<1>1. PICK F : F = {T \in SUBSET S :
                      SumFunctionOnSet(f, T) <= SumFunctionOnSet(g, T) + SumFunctionOnSet(h, T)}
  OBVIOUS
<1>2. {} \in F
  BY <1>1, SumOfNone
<1>3. ASSUME NEW T \in SUBSET S, T # {}, \A y \in T : T \ {y} \in F
      PROVE  T \in F
  <2>1. PICK z : z = Sums!Pick(T)
    OBVIOUS
  <2>2. /\ z \in T /\ z \in S /\ IsFiniteSet(T \ {z})
        /\ SumFunctionOnSet(f, T) = f[z] + SumFunctionOnSet(f, T \ {z})
        /\ SumFunctionOnSet(g, T) = g[z] + SumFunctionOnSet(g, T \ {z})
        /\ SumFunctionOnSet(h, T) = h[z] + SumFunctionOnSet(h, T \ {z})
    BY <1>3, <2>1, FS_Subset, SumNext
  <2>3. /\ SumFunctionOnSet(f, T \ {z}) \in Int /\ SumFunctionOnSet(g, T \ {z}) \in Int
        /\ SumFunctionOnSet(h, T \ {z}) \in Int
    BY <2>2, SumInt
  <2>4. SumFunctionOnSet(f, T \ {z})
          <= SumFunctionOnSet(g, T \ {z}) + SumFunctionOnSet(h, T \ {z})
    BY <1>1, <1>3, <2>2
  <2>5. f[z] \in Int /\ g[z] \in Int /\ h[z] \in Int /\ f[z] <= g[z] + h[z]
    BY <2>2
  <2>6. SumFunctionOnSet(f, T) <= SumFunctionOnSet(g, T) + SumFunctionOnSet(h, T)
    BY <2>2, <2>3, <2>4, <2>5
  <2>7. QED
    BY <1>1, <2>6
<1>4. Sums!IsFiniteSet(S)
  BY SameFinite
<1>5. S \in F
  BY <1>2, <1>3, <1>4, Sums!SetInduction
<1>6. QED
  BY <1>1, <1>5

\* Terms that are zero may be left out.
LEMMA SumOfPart ==
  ASSUME NEW f, NEW g, NEW S, IsFiniteSet(S), NEW P \in SUBSET S,
         \A y \in P : f[y] \in Nat /\ g[y] = f[y], \A y \in S \ P : g[y] = 0
  PROVE  SumFunctionOnSet(f, P) = SumFunctionOnSet(g, S)
<1>. DEFINE Same(T) == SumFunctionOnSet(f, T \cap P) = SumFunctionOnSet(g, T)
<1>1. PICK F : F = {T \in SUBSET S : Same(T)}
  OBVIOUS
<1>2. {} \in F
  <2>1. {} \cap P = {}
    OBVIOUS
  <2>2. QED
    BY <1>1, <2>1, SumOfNone
<1>3. ASSUME NEW T \in SUBSET S, T # {}, \A y \in T : T \ {y} \in F
      PROVE  T \in F
  <2>1. PICK z : z = Sums!Pick(T)
    OBVIOUS
  <2>2. /\ z \in T /\ z \in S /\ IsFiniteSet(T \ {z}) /\ IsFiniteSet((T \ {z}) \cap P)
        /\ SumFunctionOnSet(g, T) = g[z] + SumFunctionOnSet(g, T \ {z})
    BY <1>3, <2>1, FS_Subset, SumNext
  <2>3. PICK U, V, W : U = (T \ {z}) \cap P /\ V = T \cap P /\ W = T \ {z}
    OBVIOUS
  <2>4. /\ SumFunctionOnSet(f, U) = SumFunctionOnSet(g, W) /\ SumFunctionOnSet(g, W) \in Int
        /\ SumFunctionOnSet(g, T) = g[z] + SumFunctionOnSet(g, W)
    BY <1>1, <1>3, <2>2, <2>3, SumInt
  <2>5. SumFunctionOnSet(f, V) = SumFunctionOnSet(g, T)
    <3>1. CASE z \in P
      <4>1. SumFunctionOnSet(f, U \cup {z}) = SumFunctionOnSet(f, U) + f[z]
        BY <2>2, <2>3, <3>1, SumWith
      <4>2. U \cup {z} = V /\ f[z] \in Int /\ g[z] = f[z]
        BY <2>2, <2>3, <3>1
      <4>3. SumFunctionOnSet(f, V) = SumFunctionOnSet(f, U) + f[z]
        BY <4>1, <4>2
      <4>4. QED
        BY <2>4, <4>2, <4>3
    <3>2. CASE z \notin P
      <4>1. U = V /\ g[z] = 0
        BY <2>2, <2>3, <3>2
      <4>2. QED
        BY <2>4, <4>1
    <3>3. QED
      BY <3>1, <3>2
  <2>6. Same(T)
    BY <2>3, <2>5
  <2>. HIDE DEF Same
  <2>7. QED
    BY <1>1, <2>6
<1>4. Sums!IsFiniteSet(S)
  BY SameFinite
<1>5. S \in F
  BY <1>2, <1>3, <1>4, Sums!SetInduction
<1>6. S \cap P = P
  OBVIOUS
<1>7. QED
  BY <1>1, <1>5, <1>6

-----------------------------------------------------------------------------
\* What the ledger knows under a key <<y, s>>.
Knows(y, s) == findMovementByKey(<<y, s>>)

Debited(c) == Knows(c.id, "debit")
Topped(c) == Knows(c.id, "inflow")
Back(c) == IF c.kind \in {"p2p", "swap"} THEN Knows(c.id, "credit") ELSE Knows(c.id, "reversal")

PaysIn(r) == r.kind \in {"crypto", "inflow", "bank"}
InTag(r) == IF r.kind # "bank" THEN "in" ELSE IF r.rail = "looked up" THEN "flw_ref" ELSE "tx_ref"
Arrived(r) == PaysIn(r) /\ Knows(r.id, InTag(r))
Out(r) == r.kind = "crypto" /\ Knows(r.id, "out")

If(p, n) == IF p THEN n ELSE 0

\* What a call has taken from a wallet, or from a pot, and not passed on; what a top-up
\* brought is taken off.
Travels == {"p2p", "swap", "bank", "bill", "send"}
Holding == {"insertPot", "addToPot", "payOut"}

Travelling(c) == c.kind \in Travels /\ Debited(c) /\ ~Back(c)

Float(c) == If(Travelling(c), c.amount) + If(pc[c] \in Holding, c.amount) - If(Topped(c), c.amount)

\* What a payment on chain took from a wallet, less what it, or a payment from outside,
\* gave to one.
Passing(r) == If(Out(r), r.amount) - If(Arrived(r), r.amount)

\* What was debited for a position that does not stand yet.
DepositOf(x) == CHOOSE n \in Nat : \A r \in Requests : r.kind = "invest" /\ r.ref = x => n = r.amount
Deposited(x) == If(Knows(x, "investment") /\ position[x] = NoPosition, DepositOf(x))

Floats == [c \in Calls |-> Float(c)]
Passes == [r \in Requests |-> Passing(r)]
Deposits == [x \in Positions |-> Deposited(x)]
Wealth == [w \in Accounts |-> balance[w] + pocket[w]]
PotsNet == [x \in Pots |-> PotBalance(pot[x]) - pot[x].credits]

InHands ==
  SumFunctionOnSet(Wealth, Accounts) + SumFunctionOnSet(Floats, Calls)
    + SumFunctionOnSet(Passes, Requests) + SumFunctionOnSet(Deposits, Positions)
    + SumFunctionOnSet(PotsNet, Pots)

AtFirst ==
  SumFunctionOnSet([w \in Accounts |-> Opening[w] + Cardinality(OpenPositions[w])], Accounts)
    + 2 * Cardinality(OpenPots)

Books == InHands <= AtFirst + Interest * Cardinality(claims)

\* Where a call stands with its money.
CallFacts(c) ==
  /\ pc[c] = "credit" => c.kind \in {"p2p", "swap"} /\ Debited(c)
  /\ pc[c] \in {"request", "catch"} => c \in Payouts
  /\ pc[c] = "insertPot" => c.kind = "create"
  /\ pc[c] \in {"pay", "addToPot"} => c.kind = "deposit"
  /\ pc[c] \in {"takeFromPot", "payOut"} => c.kind = "withdraw"
  /\ pc[c] = "settle" => c.kind = "topup"
  /\ c.kind \in {"create", "deposit"} /\ pc[c] \in {"start", "pay"} => ~Debited(c)
  /\ c.kind \in Travels /\ Back(c) => Debited(c)
  /\ Topped(c) => c.kind = "topup" /\ order[c] = "paid"
  /\ c.kind \in {"bank", "bill", "send"} /\ order[c] # "none" => Debited(c)

\* A withdrawal read no more in the pot than is there.
HeldFacts(c) == pc[c] = "takeFromPot" => PotBalance(held[c]) <= PotBalance(pot[c.pot])

RequestFacts(r) ==
  /\ at[r] = "mirror" => r \in landed
  /\ Out(r) => r \in landed /\ r.from # r.to /\ Mirrored(r)
  /\ Arrived(r) => r \in landed /\ r.to \in Accounts /\ (r.kind = "crypto" => r.from # r.to)

PotRow == [status : {"none", "active", "closed"}, principal : Int, interest : Int, days : Nat,
           credits : Int]

PotFacts ==
  /\ pot \in [Pots -> PotRow] /\ held \in [Calls -> PotRow]
  /\ \A x \in Pots : pot[x].days <= day

Facts == /\ \A c \in Calls : CallFacts(c) /\ HeldFacts(c)
         /\ \A r \in Requests : RequestFacts(r)
         /\ PotFacts /\ SendsOnly

BooksInv == Books /\ Facts

\* What the theorem is about: finitely many wallets, calls, payments and pots, payments
\* told apart by their hashes, calls of an attempt that are payouts.
FiniteBooks ==
  /\ IsFiniteSet(Accounts) /\ IsFiniteSet(Calls) /\ IsFiniteSet(Requests) /\ IsFiniteSet(Pots)
  /\ \A c \in Calls : c.kind \in {"create", "deposit", "withdraw"} => c.pot \in Pots
  /\ \A r, q \in Requests : r.id = q.id => r = q
  /\ \A a \in Attempts, name \in Payable : ExecutionOf[a][name] \in Payouts

\* Bound: no two withdrawals from one pot are between their read and their UPDATE.
PotsAlone ==
  \A c, d \in Calls : pc[c] = "takeFromPot" /\ pc[d] = "takeFromPot" /\ c.pot = d.pot => c = d

\* One movement under a new key <<y, s>>: a wallet changes by n.
PostsOne(y, s, w, n) ==
  /\ ~Knows(y, s)
  /\ balance'[w] = balance[w] + n /\ \A v \in Accounts \ {w} : balance'[v] = balance[v]
  /\ \A m \in movements : m \in movements'
  /\ \A x, t : Knows(x, t)' <=> Knows(x, t) \/ (x = y /\ t = s)

\* A posting that is known already changes nothing.
Posts(y, s, w, n) == (Knows(y, s) /\ UNCHANGED ledgerVars) \/ PostsOne(y, s, w, n)

LEMMA NewKey ==
  ASSUME NEW m, NEW y, NEW s, m.key = <<y, s>>, movements' = movements \cup {m}
  PROVE  \A x, t : Knows(x, t)' <=> Knows(x, t) \/ (x = y /\ t = s)
<1>1. SUFFICES ASSUME NEW x, NEW t PROVE Knows(x, t)' <=> Knows(x, t) \/ (x = y /\ t = s)
  BY DEF Knows, findMovementByKey
<1>2. <<x, t>> = <<y, s>> <=> x = y /\ t = s
  OBVIOUS
<1>3. QED
  BY <1>2 DEF Knows, findMovementByKey

LEMMA CreditEffect ==
  ASSUME LedgerTypeOK, NEW y, NEW s, NEW w \in Accounts, NEW a \in Nat, credit(<<y, s>>, w, a)
  PROVE  Posts(y, s, w, a)
<1>1. CASE Knows(y, s)
  BY <1>1 DEF credit, Knows, Posts
<1>2. CASE ~Knows(y, s)
  <2>1. PICK m : m = Movement(<<y, s>>, "credit", w, a)
    OBVIOUS
  <2>2. m.key = <<y, s>>
    BY <2>1 DEF Movement
  <2>3. balance' = [balance EXCEPT ![w] = balance[w] + a] /\ movements' = movements \cup {m}
    BY <1>2, <2>1 DEF credit, Knows
  <2>4. \A x, t : Knows(x, t)' <=> Knows(x, t) \/ (x = y /\ t = s)
    BY <2>2, <2>3, NewKey
  <2>5. QED
    BY <1>2, <2>3, <2>4 DEF Posts, PostsOne, LedgerTypeOK
<1>3. QED
  BY <1>1, <1>2

LEMMA DebitEffect ==
  ASSUME LedgerTypeOK, NEW y, NEW s, NEW w \in Accounts, NEW a \in Nat, debit(<<y, s>>, w, a)
  PROVE  /\ Posts(y, s, w, 0 - a)
         /\ PostsOne(y, s, w, 0 - a) => Movement(<<y, s>>, "debit", w, a) \in movements'
<1>1. CASE Knows(y, s)
  BY <1>1 DEF debit, Knows, Posts, PostsOne
<1>2. CASE ~Knows(y, s)
  <2>1. PICK m : m = Movement(<<y, s>>, "debit", w, a)
    OBVIOUS
  <2>2. m.key = <<y, s>>
    BY <2>1 DEF Movement
  <2>3. balance' = [balance EXCEPT ![w] = balance[w] - a] /\ movements' = movements \cup {m}
    BY <1>2, <2>1 DEF debit, Knows
  <2>4. \A x, t : Knows(x, t)' <=> Knows(x, t) \/ (x = y /\ t = s)
    BY <2>2, <2>3, NewKey
  <2>5. balance'[w] = balance[w] + (0 - a) /\ \A v \in Accounts \ {w} : balance'[v] = balance[v]
    BY <2>3 DEF LedgerTypeOK
  <2>6. QED
    BY <1>2, <2>1, <2>3, <2>4, <2>5 DEF Posts, PostsOne
<1>3. QED
  BY <1>1, <1>2

\* Where nothing is posted, nothing is known that was not.
LEMMA NoneKnown ==
  ASSUME UNCHANGED ledgerVars
  PROVE  /\ \A y, s : Knows(y, s)' <=> Knows(y, s)
         /\ \A m \in movements : m \in movements'
BY DEF ledgerVars, Knows, findMovementByKey

\* The terms of the sum are integers.
LEMMA DepositIs ==
  ASSUME NEW r \in Requests, r.kind = "invest"
  PROVE  DepositOf(r.ref) = r.amount
<1>1. r.amount \in Nat /\ \A q \in Requests : q.kind = "invest" /\ q.ref = r.ref => r.amount = q.amount
  BY RequestsAssumption
<1>2. \A n \in Nat : (\A q \in Requests : q.kind = "invest" /\ q.ref = r.ref => n = q.amount) => n = r.amount
  OBVIOUS
<1>3. QED
  BY <1>1, <1>2 DEF DepositOf

LEMMA DepositNat ==
  ASSUME PocketInv, NEW x \in Positions
  PROVE  Deposited(x) \in Nat
<1>1. CASE Knows(x, "investment")
  <2>1. PICK m \in movements : m.key = <<x, "investment">>
    BY <1>1 DEF Knows, findMovementByKey
  <2>2. PICK r \in Requests : r.kind = "invest" /\ m = InvestMovement(r)
    BY <2>1 DEF PocketInv
  <2>3. m.key = <<r.ref, "investment">>
    BY <2>2 DEF InvestMovement, Movement
  <2>4. x = r.ref /\ DepositOf(x) = r.amount /\ r.amount \in Nat
    BY <2>1, <2>2, <2>3, DepositIs, RequestFields
  <2>5. QED
    BY <2>4 DEF Deposited, If
<1>2. CASE ~Knows(x, "investment")
  BY <1>2 DEF Deposited, If
<1>3. QED
  BY <1>1, <1>2

LEMMA FloatInt ==
  ASSUME NEW c \in Calls
  PROVE  Float(c) \in Int
<1>1. c.amount \in Nat
  BY CallFields
<1>2. QED
  BY <1>1 DEF Float, If

LEMMA PassingInt ==
  ASSUME NEW r \in Requests
  PROVE  Passing(r) \in Int
<1>1. r.amount \in Nat
  BY RequestFields
<1>2. QED
  BY <1>1 DEF Passing, If

LEMMA NetInt ==
  ASSUME pot \in [Pots -> PotRow], NEW x \in Pots
  PROVE  PotBalance(pot[x]) \in Int /\ pot[x].credits \in Int /\ PotBalance(pot[x]) - pot[x].credits \in Int
<1>1. PICK p \in PotRow : p = pot[x]
  OBVIOUS
<1>2. QED
  BY <1>1 DEF PotRow, PotBalance

LEMMA TermsInt ==
  ASSUME LedgerTypeOK, PocketInv, PotFacts
  PROVE  /\ \A w \in Accounts : Wealth[w] \in Int
         /\ \A c \in Calls : Floats[c] \in Int
         /\ \A r \in Requests : Passes[r] \in Int
         /\ \A x \in Positions : Deposits[x] \in Int
         /\ \A x \in Pots : PotsNet[x] \in Int
<1>1. \A w \in Accounts : balance[w] \in Nat /\ pocket[w] \in Nat
  BY DEF LedgerTypeOK, PocketInv
<1>2. \A w \in Accounts : Wealth[w] \in Int
  BY <1>1 DEF Wealth
<1>3. \A c \in Calls : Floats[c] \in Int
  BY FloatInt DEF Floats
<1>4. \A r \in Requests : Passes[r] \in Int
  BY PassingInt DEF Passes
<1>5. \A x \in Positions : Deposits[x] \in Int
  BY DepositNat DEF Deposits
<1>6. \A x \in Pots : PotsNet[x] \in Int
  BY NetInt DEF PotsNet, PotFacts
<1>7. QED
  BY <1>2, <1>3, <1>4, <1>5, <1>6

-----------------------------------------------------------------------------
\* At most one term of a sum changes, by n.
Moves(f, g, S, n) ==
  \/ n = 0 /\ \A y \in S : g[y] = f[y]
  \/ \E x \in S : g[x] = f[x] + n /\ \A y \in S \ {x} : g[y] = f[y]

LEMMA MovesSum ==
  ASSUME NEW f, NEW g, NEW S, IsFiniteSet(S), NEW n \in Int, \A y \in S : f[y] \in Int,
         Moves(f, g, S, n)
  PROVE  SumFunctionOnSet(f, S) \in Int /\ SumFunctionOnSet(g, S) = SumFunctionOnSet(f, S) + n
<1>1. SumFunctionOnSet(f, S) \in Int
  BY SumInt
<1>2. CASE n = 0 /\ \A y \in S : g[y] = f[y]
  <2>1. SumFunctionOnSet(f, S) = SumFunctionOnSet(g, S)
    BY <1>2, SumAgrees
  <2>2. QED
    BY <1>1, <1>2, <2>1
<1>3. ASSUME NEW x \in S, g[x] = f[x] + n, \A y \in S \ {x} : g[y] = f[y]
      PROVE  SumFunctionOnSet(g, S) = SumFunctionOnSet(f, S) + n
  <2>1. IsFiniteSet(S) /\ x \in S /\ n \in Int /\ \A y \in S : f[y] \in Int
    OBVIOUS
  <2>2. QED
    BY ONLY <1>3, <2>1, SumShift
<1>4. QED
  BY <1>1, <1>2, <1>3 DEF Moves

LEMMA BooksStep ==
  ASSUME FiniteBooks, LedgerTypeOK, PocketInv, PotFacts, Books,
         NEW dw \in Int, NEW df \in Int, NEW dp \in Int, NEW dd \in Int, NEW dn \in Int, NEW e \in Int,
         Moves(Wealth, Wealth', Accounts, dw), Moves(Floats, Floats', Calls, df),
         Moves(Passes, Passes', Requests, dp), Moves(Deposits, Deposits', Positions, dd),
         Moves(PotsNet, PotsNet', Pots, dn),
         Interest * Cardinality(claims') = Interest * Cardinality(claims) + e,
         dw + df + dp + dd + dn <= e
  PROVE  Books'
<1>1. /\ IsFiniteSet(Accounts) /\ IsFiniteSet(Calls) /\ IsFiniteSet(Requests)
      /\ IsFiniteSet(Pots) /\ IsFiniteSet(Positions)
  BY PositionsFinite DEF FiniteBooks
<1>2. PICK W, F, P, D, N : /\ W = SumFunctionOnSet(Wealth, Accounts) /\ F = SumFunctionOnSet(Floats, Calls)
                           /\ P = SumFunctionOnSet(Passes, Requests)
                           /\ D = SumFunctionOnSet(Deposits, Positions)
                           /\ N = SumFunctionOnSet(PotsNet, Pots)
  OBVIOUS
<1>3. W \in Int /\ SumFunctionOnSet(Wealth', Accounts) = W + dw
  BY <1>1, <1>2, TermsInt, MovesSum
<1>4. F \in Int /\ SumFunctionOnSet(Floats', Calls) = F + df
  BY <1>1, <1>2, TermsInt, MovesSum
<1>5. P \in Int /\ SumFunctionOnSet(Passes', Requests) = P + dp
  BY <1>1, <1>2, TermsInt, MovesSum
<1>6. D \in Int /\ SumFunctionOnSet(Deposits', Positions) = D + dd
  BY <1>1, <1>2, TermsInt, MovesSum
<1>7. N \in Int /\ SumFunctionOnSet(PotsNet', Pots) = N + dn
  BY <1>1, <1>2, TermsInt, MovesSum
<1>8. AtFirst \in Int /\ AtFirst' = AtFirst /\ Interest * Cardinality(claims) \in Int
  <2>1. \A w \in Accounts : Cardinality(OpenPositions[w]) \in Nat
    <3>1. \A w \in Accounts : OpenPositions[w] \in SUBSET Positions
      BY RequestsAssumption
    <3>2. QED
      BY <1>1, <3>1, FS_Subset, FS_CardinalityType
  <2>2. PICK f : f = [w \in Accounts |-> Opening[w] + Cardinality(OpenPositions[w])]
    OBVIOUS
  <2>3. \A w \in Accounts : f[w] \in Int
    BY <2>1, <2>2, AccountsAssumption
  <2>4. SumFunctionOnSet(f, Accounts) \in Int
    BY <1>1, <2>3, SumInt
  <2>5. Cardinality(OpenPots) \in Nat
    <3>1. OpenPots \in SUBSET Pots
      BY CallsAssumption
    <3>2. QED
      BY <1>1, <3>1, FS_Subset, FS_CardinalityType
  <2>6. Interest \in Nat /\ Cardinality(claims) \in Nat
    BY RequestsAssumption, FS_CardinalityType DEF PocketInv
  <2>7. Interest * Cardinality(claims) \in Int
    BY <2>6
  <2>8. QED
    BY <2>2, <2>4, <2>5, <2>7 DEF AtFirst
<1>9. InHands = W + F + P + D + N
  BY <1>2 DEF InHands
<1>10. InHands' = (W + dw) + (F + df) + (P + dp) + (D + dd) + (N + dn)
  BY <1>3, <1>4, <1>5, <1>6, <1>7 DEF InHands
<1>11. PICK A \in Int, C \in Int : A = AtFirst /\ C = Interest * Cardinality(claims)
  BY <1>8
<1>12. W + F + P + D + N <= A + C
  BY <1>9, <1>11 DEF Books
<1>13. (W + dw) + (F + df) + (P + dp) + (D + dd) + (N + dn) <= A + (C + e)
  BY <1>3, <1>4, <1>5, <1>6, <1>7, <1>12
<1>14. AtFirst' = A /\ (Interest * Cardinality(claims))' = C + e
  BY <1>8, <1>11
<1>15. QED
  BY <1>10, <1>13, <1>14 DEF Books

-----------------------------------------------------------------------------
(* What a step leaves alone. *)

LEMMA WealthMoves ==
  ASSUME LedgerTypeOK, PocketInv, pocket' = pocket
  PROVE  /\ UNCHANGED ledgerVars => Moves(Wealth, Wealth', Accounts, 0)
         /\ \A y, s : \A w \in Accounts, n \in Int :
              PostsOne(y, s, w, n) => Moves(Wealth, Wealth', Accounts, n)
<1>1. \A w \in Accounts : balance[w] \in Nat /\ pocket[w] \in Nat
  BY DEF LedgerTypeOK, PocketInv
<1>2. \A w \in Accounts : Wealth[w] = balance[w] + pocket[w] /\ Wealth'[w] = balance'[w] + pocket[w]
  BY DEF Wealth
<1>3. ASSUME UNCHANGED ledgerVars PROVE Moves(Wealth, Wealth', Accounts, 0)
  BY <1>2, <1>3 DEF Moves, ledgerVars
<1>4. ASSUME NEW y, NEW s, NEW w \in Accounts, NEW n \in Int, PostsOne(y, s, w, n)
      PROVE  Moves(Wealth, Wealth', Accounts, n)
  <2>1. Wealth'[w] = Wealth[w] + n
    BY <1>1, <1>2, <1>4 DEF PostsOne
  <2>2. \A v \in Accounts \ {w} : Wealth'[v] = Wealth[v]
    BY <1>2, <1>4 DEF PostsOne
  <2>3. QED
    BY <2>1, <2>2 DEF Moves
<1>5. QED
  BY <1>3, <1>4

\* The tags of the keys that payments and products post under.
RequestTags == {"investment", "yield", "out", "fee", "in", "flw_ref", "tx_ref"}

\* Those of payments on a chain or to a bank account.
ChainTags == {"out", "fee", "in", "flw_ref", "tx_ref"}

LEMMA RequestsRest ==
  ASSUME NEW r \in Requests, RequestFacts(r), at'[r] = at[r] \/ at'[r] # "mirror",
         \A q \in landed : q \in landed', \A m \in movements : m \in movements',
         \A t \in ChainTags : Knows(r.id, t)' <=> Knows(r.id, t)
  PROVE  Passing(r)' = Passing(r) /\ RequestFacts(r)'
<1>1. InTag(r) \in ChainTags /\ "out" \in ChainTags
  BY DEF InTag, ChainTags
<1>2. (Out(r)' <=> Out(r)) /\ (Arrived(r)' <=> Arrived(r))
  BY <1>1 DEF Out, Arrived
<1>3. Passing(r)' = Passing(r)
  BY <1>2 DEF Passing, If
<1>4. Mirrored(r) => Mirrored(r)'
  BY DEF Mirrored, Movement
<1>5. QED
  BY <1>2, <1>3, <1>4 DEF RequestFacts

LEMMA ProductsRest ==
  ASSUME \A r \in Requests : RequestFacts(r), UNCHANGED productVars,
         \A m \in movements : m \in movements',
         \A x, t : t \in RequestTags => (Knows(x, t)' <=> Knows(x, t))
  PROVE  /\ Moves(Passes, Passes', Requests, 0) /\ Moves(Deposits, Deposits', Positions, 0)
         /\ \A r \in Requests : RequestFacts(r)'
<1>1. /\ at' = at /\ position' = position /\ landed' = landed
  BY DEF productVars
<1>2. \A r \in Requests : Passing(r)' = Passing(r) /\ RequestFacts(r)'
  <2>1. ChainTags \subseteq RequestTags
    BY DEF ChainTags, RequestTags
  <2>2. QED
    BY <1>1, <2>1, RequestsRest
<1>3. Moves(Passes, Passes', Requests, 0)
  BY <1>2 DEF Moves, Passes
<1>4. "investment" \in RequestTags
  BY DEF RequestTags
<1>5. \A x \in Positions : Deposited(x)' = Deposited(x)
  BY <1>1, <1>4 DEF Deposited, If, DepositOf
<1>6. Moves(Deposits, Deposits', Positions, 0)
  BY <1>5 DEF Moves, Deposits
<1>7. QED
  BY <1>2, <1>3, <1>6

\* A call that the step is not about.
LEMMA CallRests ==
  ASSUME NEW c \in Calls, CallFacts(c), pc'[c] = pc[c], order'[c] = order[c],
         \A t \in CallSteps : Knows(c.id, t)' <=> Knows(c.id, t)
  PROVE  Float(c)' = Float(c) /\ CallFacts(c)'
<1>1. /\ Debited(c)' <=> Debited(c)
      /\ Topped(c)' <=> Topped(c)
      /\ Back(c)' <=> Back(c)
  BY DEF Debited, Topped, Back, CallSteps
<1>2. Travelling(c)' <=> Travelling(c)
  BY <1>1 DEF Travelling
<1>3. Float(c)' = Float(c)
  BY <1>1, <1>2 DEF Float, If
<1>4. CallFacts(c)'
  BY <1>1 DEF CallFacts, Payouts
<1>5. QED
  BY <1>3, <1>4

LEMMA FloatsMove ==
  ASSUME NEW d \in Calls, \A c \in Calls \ {d} : Float(c)' = Float(c)
  PROVE  Moves(Floats, Floats', Calls, Float(d)' - Float(d))
<1>1. Float(d) \in Int /\ Float(d)' \in Int
  <2>1. d.amount \in Nat
    BY CallFields
  <2>2. QED
    BY <2>1 DEF Float, If
<1>2. Floats'[d] = Floats[d] + (Float(d)' - Float(d))
  BY <1>1 DEF Floats
<1>3. \A c \in Calls \ {d} : Floats'[c] = Floats[c]
  BY DEF Floats
<1>4. QED
  BY <1>2, <1>3 DEF Moves

LEMMA FloatsRest ==
  ASSUME \A c \in Calls : Float(c)' = Float(c)
  PROVE  Moves(Floats, Floats', Calls, 0)
BY DEF Moves, Floats

LEMMA PotsRest ==
  ASSUME PotFacts, \A c \in Calls : HeldFacts(c), UNCHANGED potVars,
         \A c \in Calls : pc'[c] = "takeFromPot" => pc[c] = "takeFromPot"
  PROVE  Moves(PotsNet, PotsNet', Pots, 0) /\ PotFacts' /\ \A c \in Calls : HeldFacts(c)'
<1>1. pot' = pot /\ held' = held /\ day' = day
  BY DEF potVars
<1>2. Moves(PotsNet, PotsNet', Pots, 0)
  BY <1>1 DEF Moves, PotsNet, PotBalance
<1>3. \A c \in Calls : HeldFacts(c)'
  BY <1>1 DEF HeldFacts, PotBalance
<1>4. QED
  BY <1>1, <1>2, <1>3 DEF PotFacts

\* A call moves, and what it posts goes from its hands to a wallet or back.
CallPosts(d, n) ==
  \/ UNCHANGED ledgerVars /\ n = 0
  \/ \E s \in CallSteps, w \in Accounts : PostsOne(d.id, s, w, n)

LEMMA CallPostsOwn ==
  ASSUME NEW d \in Calls, NEW n \in Int, CallPosts(d, n)
  PROVE  /\ \A c \in Calls \ {d} : \A t \in CallSteps : Knows(c.id, t)' <=> Knows(c.id, t)
         /\ \A x, t : t \in RequestTags => (Knows(x, t)' <=> Knows(x, t))
         /\ \A m \in movements : m \in movements'
<1>1. CASE UNCHANGED ledgerVars
  BY <1>1, NoneKnown
<1>2. ASSUME NEW s \in CallSteps, NEW w \in Accounts, PostsOne(d.id, s, w, n)
      PROVE  /\ \A c \in Calls \ {d} : \A t \in CallSteps : Knows(c.id, t)' <=> Knows(c.id, t)
             /\ \A x, t : t \in RequestTags => (Knows(x, t)' <=> Knows(x, t))
             /\ \A m \in movements : m \in movements'
  <2>1. \A c \in Calls \ {d} : c.id # d.id
    BY CallsAssumption
  <2>2. s \notin RequestTags
    BY DEF CallSteps, RequestTags
  <2>3. QED
    BY <1>2, <2>1, <2>2 DEF PostsOne
<1>3. QED
  BY <1>1, <1>2 DEF CallPosts

LEMMA CallBooks ==
  ASSUME FiniteBooks, TypeOK, PocketInv, BooksInv, SendsOnly', UNCHANGED <<productVars, potVars>>,
         NEW d \in Calls, \A c \in Calls \ {d} : pc'[c] = pc[c] /\ order'[c] = order[c],
         pc'[d] = "takeFromPot" => pc[d] = "takeFromPot",
         NEW n \in Int, CallPosts(d, n), CallFacts(d)', Float(d)' + n <= Float(d)
  PROVE  BooksInv'
<1>1. /\ LedgerTypeOK /\ PotFacts /\ Books
      /\ \A c \in Calls : CallFacts(c) /\ HeldFacts(c)
      /\ \A r \in Requests : RequestFacts(r)
  BY DEF TypeOK, BooksInv, Facts
<1>2. /\ \A c \in Calls \ {d} : \A t \in CallSteps : Knows(c.id, t)' <=> Knows(c.id, t)
      /\ \A x, t : t \in RequestTags => (Knows(x, t)' <=> Knows(x, t))
      /\ \A m \in movements : m \in movements'
  BY CallPostsOwn
<1>3. \A c \in Calls \ {d} : Float(c)' = Float(c) /\ CallFacts(c)'
  BY <1>1, <1>2, CallRests
<1>4. Moves(Floats, Floats', Calls, Float(d)' - Float(d))
  BY <1>3, FloatsMove
<1>5. /\ Moves(Passes, Passes', Requests, 0) /\ Moves(Deposits, Deposits', Positions, 0)
      /\ \A r \in Requests : RequestFacts(r)'
  BY <1>1, <1>2, ProductsRest
<1>6. Moves(PotsNet, PotsNet', Pots, 0) /\ PotFacts' /\ \A c \in Calls : HeldFacts(c)'
  BY <1>1, PotsRest
<1>7. Moves(Wealth, Wealth', Accounts, n) /\ claims' = claims
  <2>1. pocket' = pocket /\ claims' = claims
    BY DEF productVars
  <2>2. QED
    BY <1>1, <2>1, WealthMoves DEF CallPosts
<1>8. Float(d) \in Int /\ Float(d)' \in Int
  <2>1. d.amount \in Nat
    BY CallFields
  <2>2. QED
    BY <2>1 DEF Float, If
<1>9. Books'
  <2>1. PICK k \in Int : k = Float(d)' - Float(d)
    BY <1>8
  <2>2. n + k + 0 + 0 + 0 <= 0
    BY <1>8, <2>1
  <2>3. Interest * Cardinality(claims') = Interest * Cardinality(claims) + 0
    <3>1. Interest \in Nat /\ Cardinality(claims) \in Nat
      BY RequestsAssumption, FS_CardinalityType DEF PocketInv
    <3>2. QED
      BY <1>7, <3>1
  <2>4. Moves(Floats, Floats', Calls, k)
    BY <1>4, <2>1
  <2>5. QED
    BY <1>1, <1>5, <1>6, <1>7, <2>2, <2>3, <2>4, BooksStep
<1>10. QED
  BY <1>3, <1>5, <1>6, <1>9 DEF BooksInv, Facts

-----------------------------------------------------------------------------
(* Payments, one action after the other. *)

\* What the actions start from.
BooksAt == FiniteBooks /\ TypeOK /\ IInv /\ PocketInv /\ BooksInv /\ day \in Nat

\* Every call but d stays where it is.
OthersStay(d) == \A c \in Calls \ {d} : pc'[c] = pc[c] /\ order'[c] = order[c]

LEMMA HasDebitKnown ==
  ASSUME NEW c \in Calls, HasDebit(c)
  PROVE  Debited(c)
BY DEF HasDebit, Debited, Knows, findMovementByKey, Key, Movement

\* What was credited back was debited, and waits no more.
LEMMA ReversedDebit ==
  ASSUME BooksAt, NEW c \in Payouts, Knows(c.id, "reversal")
  PROVE  Debited(c) /\ order[c] \in {"none", "failed"}
<1>1. c \in Calls /\ Reversed(c)
  BY PayoutsAreCalls DEF Reversed, Knows, Key
<1>2. HasDebit(c) /\ order[c] \in {"none", "failed"}
  BY <1>1, InvImplies DEF BooksAt, ReversalIsOfFailed
<1>3. QED
  BY <1>1, <1>2, HasDebitKnown

LEMMA FactsOf ==
  ASSUME BooksAt, NEW c \in Calls
  PROVE  /\ LedgerTypeOK /\ PotFacts /\ CallFacts(c) /\ HeldFacts(c) /\ pc[c] \in Labels
         /\ pc \in [Calls -> Labels] /\ order \in [Calls -> {"none", "open", "paid", "failed"}]
         /\ c.amount \in Nat /\ c.from \in Accounts /\ c.to \in Accounts /\ c.kind \in Kinds
BY CallFields DEF BooksAt, BooksInv, Facts, TypeOK

\* A step of a call that posts nothing and moves no pot.
LEMMA QuietBooks ==
  ASSUME BooksAt, SendsOnly', UNCHANGED <<ledgerVars, productVars, potVars>>,
         NEW d \in Calls, OthersStay(d), pc'[d] = "takeFromPot" => pc[d] = "takeFromPot",
         pc'[d] \in Holding => pc[d] \in Holding, CallFacts(d)'
  PROVE  BooksInv'
<1>1. CallPosts(d, 0)
  BY DEF CallPosts
<1>2. d.amount \in Nat
  BY CallFields
<1>3. \A y, s : Knows(y, s)' <=> Knows(y, s)
  BY NoneKnown
<1>4. (Travelling(d)' <=> Travelling(d)) /\ (Topped(d)' <=> Topped(d))
  BY <1>3 DEF Travelling, Debited, Back, Topped
<1>5. Float(d)' + 0 <= Float(d)
  BY <1>2, <1>4 DEF Float, If
<1>6. QED
  BY <1>1, <1>5, CallBooks DEF BooksAt, OthersStay

LEMMA DebitBooks ==
  ASSUME BooksAt, SendsOnly', UNCHANGED productVars, NEW d \in Calls, Debit(d)
  PROVE  BooksInv'
<1>1. /\ LedgerTypeOK /\ CallFacts(d) /\ pc \in [Calls -> Labels]
      /\ d.amount \in Nat /\ d.from \in Accounts /\ d.kind \in Kinds
  BY FactsOf
<1>2. /\ order' = order /\ UNCHANGED potVars /\ d.kind \in DOMAIN AfterDebit
      /\ pc[d] = IF d.kind = "deposit" THEN "pay" ELSE "start"
  BY DEF Debit
<1>3. CASE Goto(d, "done") /\ UNCHANGED ledgerVars
  <2>1. pc'[d] = "done" /\ OthersStay(d)
    BY <1>1, <1>2, <1>3 DEF Goto, OthersStay
  <2>2. \A y, s : Knows(y, s)' <=> Knows(y, s)
    BY <1>3, NoneKnown
  <2>3. CallFacts(d)'
    BY <1>1, <1>2, <2>1, <2>2 DEF CallFacts, Debited, Back, Topped
  <2>4. QED
    BY <1>2, <1>3, <2>1, <2>3, QuietBooks DEF Holding
<1>4. CASE debit(Key(d, "debit"), d.from, d.amount) /\ Goto(d, AfterDebit[d.kind])
  <2>1. Posts(d.id, "debit", d.from, 0 - d.amount)
    BY <1>1, <1>4, DebitEffect DEF Key
  <2>2. /\ d.kind \in {"p2p", "swap"} => AfterDebit[d.kind] = "credit"
        /\ d.kind \in {"bank", "bill", "send"} => AfterDebit[d.kind] = "request"
        /\ d.kind = "create" => AfterDebit[d.kind] = "insertPot"
        /\ d.kind = "deposit" => AfterDebit[d.kind] = "addToPot"
        /\ d.kind \in {"p2p", "swap", "bank", "bill", "send", "create", "deposit"}
    BY <1>2 DEF AfterDebit, Kinds
  <2>3. pc'[d] = AfterDebit[d.kind] /\ OthersStay(d)
    BY <1>1, <1>2, <1>4 DEF Goto, OthersStay
  <2>4. CASE Debited(d) /\ UNCHANGED ledgerVars
    <3>1. \A y, s : Knows(y, s)' <=> Knows(y, s)
      BY <2>4, NoneKnown
    <3>2. d.kind \notin {"create", "deposit"}
      BY <1>1, <1>2, <2>4 DEF CallFacts
    <3>3. CallFacts(d)'
      BY <1>1, <1>2, <2>2, <2>3, <2>4, <3>1, <3>2 DEF CallFacts, Debited, Back, Topped, Payouts
    <3>4. QED
      BY <1>2, <2>2, <2>3, <2>4, <3>2, <3>3, QuietBooks DEF Holding
  <2>5. CASE PostsOne(d.id, "debit", d.from, 0 - d.amount)
    <3>1. /\ ~Debited(d) /\ Debited(d)' /\ (Back(d)' <=> Back(d)) /\ (Topped(d)' <=> Topped(d))
      BY <2>5 DEF PostsOne, Debited, Back, Topped
    <3>2. CallFacts(d)'
      BY <1>1, <1>2, <2>2, <2>3, <3>1 DEF CallFacts, Payouts
    <3>3. d.kind \in Travels => ~Back(d)
      BY <1>1, <3>1 DEF CallFacts
    <3>4. Float(d)' + (0 - d.amount) <= Float(d)
      <4>1. ~Travelling(d) /\ (Travelling(d)' <=> d.kind \in Travels)
        BY <3>1, <3>3 DEF Travelling
      <4>2. pc[d] \notin Holding /\ (pc'[d] \in Holding <=> d.kind \notin Travels)
        BY <1>2, <2>2, <2>3 DEF Holding, Travels
      <4>3. QED
        BY <1>1, <3>1, <4>1, <4>2 DEF Float, If
    <3>5. CallPosts(d, 0 - d.amount)
      BY <1>1, <2>5 DEF CallPosts, CallSteps
    <3>6. pc'[d] # "takeFromPot"
      BY <2>2, <2>3
    <3>7. 0 - d.amount \in Int
      BY <1>1
    <3>8. QED
      BY <1>2, <2>3, <3>2, <3>4, <3>5, <3>6, <3>7, CallBooks DEF BooksAt, OthersStay
  <2>6. QED
    BY <2>1, <2>4, <2>5 DEF Posts, Debited
<1>5. QED
  BY <1>3, <1>4 DEF Debit

\* A credit that a call makes to a wallet from what it has in hand, under key t.
LEMMA CreditBooks ==
  ASSUME BooksAt, SendsOnly', UNCHANGED <<productVars, potVars>>, NEW d \in Calls, OthersStay(d),
         NEW t \in CallSteps, NEW w \in Accounts, credit(Key(d, t), w, d.amount),
         pc'[d] # "takeFromPot", pc'[d] \notin Holding,
         CallFacts(d)',
         t \in {"credit", "reversal"} => d.kind \in Travels /\ Debited(d) /\ pc[d] \notin Holding
                                         /\ (t = "credit" <=> d.kind \in {"p2p", "swap"}),
         t = "payout" => pc[d] = "payOut",
         t = "inflow" => pc[d] \notin Holding,
         t # "debit"
  PROVE  BooksInv'
<1>1. /\ LedgerTypeOK /\ d.amount \in Nat
  BY FactsOf
<1>2. Posts(d.id, t, w, d.amount)
  BY <1>1, CreditEffect DEF Key
<1>3. CASE UNCHANGED ledgerVars
  BY <1>3, QuietBooks
<1>4. CASE PostsOne(d.id, t, w, d.amount)
  <2>1. /\ ~Knows(d.id, t) /\ Knows(d.id, t)'
        /\ \A s \in CallSteps \ {t} : Knows(d.id, s)' <=> Knows(d.id, s)
    BY <1>4 DEF PostsOne
  <2>2. t \in {"credit", "reversal", "inflow", "payout"}
    BY DEF CallSteps
  <2>3. CASE t \in {"credit", "reversal"}
    <3>1. ~Back(d) /\ Back(d)' /\ (Debited(d)' <=> Debited(d)) /\ (Topped(d)' <=> Topped(d))
      BY <2>1, <2>3 DEF Back, Debited, Topped, CallSteps
    <3>2. Travelling(d) /\ ~Travelling(d)'
      BY <2>3, <3>1 DEF Travelling
    <3>3. Float(d)' + d.amount <= Float(d)
      BY <1>1, <2>3, <3>1, <3>2 DEF Float, If
    <3>4. QED
      BY <1>1, <1>4, <3>3, CallBooks DEF BooksAt, OthersStay, CallPosts
  <2>4. CASE t = "payout"
    <3>1. (Back(d)' <=> Back(d)) /\ (Debited(d)' <=> Debited(d)) /\ (Topped(d)' <=> Topped(d))
      BY <2>1, <2>4 DEF Back, Debited, Topped, CallSteps
    <3>2. (Travelling(d)' <=> Travelling(d)) /\ pc[d] \in Holding
      BY <2>4, <3>1 DEF Travelling, Holding
    <3>3. Float(d)' + d.amount <= Float(d)
      BY <1>1, <3>1, <3>2 DEF Float, If
    <3>4. QED
      BY <1>1, <1>4, <3>3, CallBooks DEF BooksAt, OthersStay, CallPosts
  <2>5. CASE t = "inflow"
    <3>1. (Back(d)' <=> Back(d)) /\ (Debited(d)' <=> Debited(d)) /\ ~Topped(d) /\ Topped(d)'
      BY <2>1, <2>5 DEF Back, Debited, Topped, CallSteps
    <3>2. Travelling(d)' <=> Travelling(d)
      BY <3>1 DEF Travelling
    <3>3. Float(d)' + d.amount <= Float(d)
      BY <1>1, <2>5, <3>1, <3>2 DEF Float, If
    <3>4. QED
      BY <1>1, <1>4, <3>3, CallBooks DEF BooksAt, OthersStay, CallPosts
  <2>6. QED
    BY <2>2, <2>3, <2>4, <2>5
<1>5. QED
  BY <1>2, <1>3, <1>4 DEF Posts

LEMMA CreditTurn ==
  ASSUME BooksAt, SendsOnly', UNCHANGED productVars, NEW d \in Calls,
         Credit(d) \/ Catch(d) \/ CollectionComplete(d) \/ PayOut(d)
  PROVE  BooksInv'
<1>1. /\ LedgerTypeOK /\ CallFacts(d) /\ pc \in [Calls -> Labels]
      /\ d.amount \in Nat /\ d.from \in Accounts /\ d.to \in Accounts
  BY FactsOf
<1>2. order' = order /\ UNCHANGED potVars
  BY DEF Credit, Catch, CollectionComplete, PayOut
<1>3. CASE Credit(d)
  <2>1. pc[d] = "credit" /\ pc'[d] = "done" /\ OthersStay(d) /\ credit(Key(d, "credit"), d.to, d.amount)
    BY <1>1, <1>2, <1>3 DEF Credit, Goto, OthersStay
  <2>2. d.kind \in {"p2p", "swap"} /\ Debited(d)
    BY <1>1, <2>1 DEF CallFacts
  <2>3. Posts(d.id, "credit", d.to, d.amount)
    BY <1>1, <2>1, CreditEffect DEF Key
  <2>4. Debited(d)' /\ (Topped(d)' <=> Topped(d))
    BY <2>2, <2>3, NoneKnown DEF Posts, PostsOne, Debited, Topped
  <2>5. CallFacts(d)'
    BY <1>1, <1>2, <2>1, <2>2, <2>4 DEF CallFacts
  <2>6. QED
    BY <1>1, <1>2, <2>1, <2>2, <2>5, CreditBooks DEF CallSteps, Travels, Holding
<1>4. CASE Catch(d)
  <2>1. /\ pc[d] = "catch" /\ pc'[d] \in {"catchRow", "done"} /\ OthersStay(d)
        /\ credit(Key(d, "reversal"), d.from, d.amount)
    BY <1>1, <1>2, <1>4 DEF Catch, Goto, OthersStay
  <2>2. d \in Payouts /\ d.kind \in {"bank", "bill", "send"}
    BY <1>1, <2>1 DEF CallFacts, Payouts
  <2>3. Debited(d)
    BY <2>1, <2>2, HasDebitKnown DEF BooksAt, IInv, PayoutAt
  <2>4. Posts(d.id, "reversal", d.from, d.amount)
    BY <1>1, <2>1, CreditEffect DEF Key
  <2>5. Debited(d)' /\ (Topped(d)' <=> Topped(d))
    BY <2>3, <2>4, NoneKnown DEF Posts, PostsOne, Debited, Topped
  <2>6. CallFacts(d)'
    BY <1>1, <1>2, <2>1, <2>2, <2>5 DEF CallFacts
  <2>7. QED
    BY <1>1, <1>2, <2>1, <2>2, <2>3, <2>6, CreditBooks DEF CallSteps, Travels, Holding
<1>5. CASE CollectionComplete(d)
  <2>1. /\ pc[d] = "start" /\ pc'[d] = "settle" /\ OthersStay(d) /\ d.kind = "topup" /\ order[d] = "paid"
        /\ credit(Key(d, "inflow"), d.to, d.amount)
    BY <1>1, <1>2, <1>5 DEF CollectionComplete, Goto, OthersStay, TopUps
  <2>2. Posts(d.id, "inflow", d.to, d.amount)
    BY <1>1, <2>1, CreditEffect DEF Key
  <2>3. CallFacts(d)'
    BY <1>1, <1>2, <2>1 DEF CallFacts, Travels
  <2>4. QED
    BY <1>1, <1>2, <2>1, <2>3, CreditBooks DEF CallSteps, Holding
<1>6. CASE PayOut(d)
  <2>1. /\ pc[d] = "payOut" /\ pc'[d] = "done" /\ OthersStay(d)
        /\ credit(Key(d, "payout"), d.to, d.amount)
    BY <1>1, <1>2, <1>6 DEF PayOut, Goto, OthersStay
  <2>2. d.kind = "withdraw"
    BY <1>1, <2>1 DEF CallFacts
  <2>3. Posts(d.id, "payout", d.to, d.amount)
    BY <1>1, <2>1, CreditEffect DEF Key
  <2>4. Topped(d)' <=> Topped(d)
    BY <2>3, NoneKnown DEF Posts, PostsOne, Topped
  <2>5. CallFacts(d)'
    BY <1>1, <1>2, <2>1, <2>2, <2>4 DEF CallFacts, Travels
  <2>6. QED
    BY <1>1, <1>2, <2>1, <2>5, CreditBooks DEF CallSteps, Holding
<1>7. QED
  BY <1>3, <1>4, <1>5, <1>6

\* A failed send is credited back from its row, if it was debited.
LEMMA ReverseTurn ==
  ASSUME BooksAt, SendsOnly', UNCHANGED productVars, NEW d \in Calls,
         HandlerReverses(d) \/ Repair(d)
  PROVE  BooksInv'
<1>1. /\ LedgerTypeOK /\ CallFacts(d) /\ d.amount \in Nat /\ d.from \in Accounts
  BY FactsOf
<1>2. /\ pc' = pc /\ order' = order /\ UNCHANGED potVars /\ Reverse(d) /\ d \in Sends
  BY DEF HandlerReverses, Repair, payVars, BooksAt, BooksInv, Facts, SendsOnly
<1>3. d.kind = "send" /\ pc[d] # "takeFromPot" /\ pc[d] \notin Holding /\ OthersStay(d)
  BY <1>1, <1>2 DEF CallFacts, Sends, Holding, OthersStay
<1>4. CASE UNCHANGED ledgerVars
  <2>1. CallFacts(d)'
    BY <1>1, <1>2, <1>4, NoneKnown DEF CallFacts, Debited, Back, Topped
  <2>2. QED
    BY <1>2, <1>3, <1>4, <2>1, QuietBooks
<1>5. CASE HasDebit(d) /\ credit(Key(d, "reversal"), d.from, d.amount)
  <2>1. Debited(d)
    BY <1>5, HasDebitKnown
  <2>2. Posts(d.id, "reversal", d.from, d.amount)
    BY <1>1, <1>5, CreditEffect DEF Key
  <2>3. Debited(d)' /\ (Topped(d)' <=> Topped(d))
    BY <2>1, <2>2, NoneKnown DEF Posts, PostsOne, Debited, Topped
  <2>4. CallFacts(d)'
    BY <1>1, <1>2, <1>3, <2>3 DEF CallFacts, Payouts
  <2>5. QED
    BY <1>1, <1>2, <1>3, <1>5, <2>1, <2>4, CreditBooks DEF CallSteps, Travels
<1>6. QED
  BY <1>2, <1>4, <1>5 DEF Reverse

\* Steps that post nothing and move no pot.
LEMMA QuietTurn ==
  ASSUME BooksAt, SendsOnly', UNCHANGED productVars, NEW d \in Calls,
         \/ Request(d) \/ Record(d) \/ CatchSkips(d) \/ CatchRow(d)
         \/ CollectionSettled(d) \/ CollectionFailed(d)
         \/ \E outcome \in {"paid", "failed"} : \/ d \in Payouts /\ ProviderEnds(d, outcome)
                                                \/ PayIn(d, outcome)
  PROVE  BooksInv'
<1>1. /\ CallFacts(d) /\ pc \in [Calls -> Labels]
      /\ order \in [Calls -> {"none", "open", "paid", "failed"}]
  BY FactsOf
<1>2. UNCHANGED <<ledgerVars, potVars>>
  BY DEF Request, Record, CatchSkips, CatchRow, CollectionSettled, CollectionFailed, ProviderEnds, PayIn
<1>3. (Debited(d)' <=> Debited(d)) /\ (Back(d)' <=> Back(d)) /\ (Topped(d)' <=> Topped(d))
  BY <1>2, NoneKnown DEF Debited, Back, Topped
\* Where the call is afterwards.
<1>4. ASSUME OthersStay(d), pc'[d] \in {"start", "done", "catch", "catchRow", "record", "recordFailed"},
             pc'[d] = "catch" => d \in Payouts,
             pc'[d] = "start" => d.kind = "topup",
             order'[d] # order[d] => \/ d.kind \in {"bank", "bill", "send"} /\ Debited(d)
                                     \/ d.kind = "topup" /\ order[d] = "none"
      PROVE  BooksInv'
  <2>1. CallFacts(d)'
    BY <1>1, <1>3, <1>4 DEF CallFacts
  <2>2. QED
    BY <1>2, <1>4, <2>1, QuietBooks DEF Holding
<1>5. CASE Request(d)
  <2>1. pc[d] = "request" /\ d \in Payouts /\ d.kind \in {"bank", "bill", "send"}
    BY <1>1, <1>5 DEF Request, CallFacts, Payouts
  <2>2. Debited(d)
    BY <2>1, HasDebitKnown DEF BooksAt, IInv, PayoutAt
  <2>3. PICK answer \in Answers :
          /\ order' = [order EXCEPT ![d] = CASE answer = "refused" -> "none"
                                             [] answer = "failed"  -> "failed"
                                             [] OTHER              -> "open"]
          /\ Goto(d, IF answer \in {"refused", "lost"} THEN "catch"
                     ELSE IF d \notin Sends THEN "done"
                     ELSE IF answer = "failed" THEN "recordFailed" ELSE "record")
    BY <1>5 DEF Request
  <2>4. OthersStay(d) /\ pc'[d] \in {"catch", "done", "recordFailed", "record"}
    BY <1>1, <2>3 DEF Goto, OthersStay
  <2>5. QED
    BY <1>4, <2>1, <2>2, <2>4
<1>6. CASE Record(d) \/ CatchSkips(d) \/ CatchRow(d)
  <2>1. order' = order /\ OthersStay(d) /\ pc'[d] \in {"done", "catchRow"}
    BY <1>1, <1>6 DEF Record, CatchSkips, CatchRow, Goto, OthersStay
  <2>2. QED
    BY <1>4, <2>1
<1>7. CASE CollectionSettled(d) \/ CollectionFailed(d)
  <2>1. order' = order /\ OthersStay(d) /\ pc'[d] = "start"
    BY <1>1, <1>7 DEF CollectionSettled, CollectionFailed, Goto, OthersStay
  <2>2. d.kind = "topup"
    BY <1>1, <1>7 DEF CollectionSettled, CollectionFailed, CallFacts, TopUps
  <2>3. QED
    BY <1>4, <2>1, <2>2
<1>8. ASSUME NEW outcome \in {"paid", "failed"}, d \in Payouts, ProviderEnds(d, outcome)
      PROVE  BooksInv'
  <2>1. pc' = pc /\ order[d] = "open" /\ \A c \in Calls \ {d} : order'[c] = order[c]
    BY <1>1, <1>8 DEF ProviderEnds
  <2>2. d.kind \in {"bank", "bill", "send"} /\ Debited(d)
    BY <1>1, <1>8, <2>1 DEF Payouts, CallFacts
  <2>3. CallFacts(d)'
    BY <1>1, <1>3, <2>1, <2>2 DEF CallFacts
  <2>4. QED
    BY <1>2, <2>1, <2>3, QuietBooks DEF OthersStay
<1>9. ASSUME NEW outcome \in {"paid", "failed"}, PayIn(d, outcome)
      PROVE  BooksInv'
  <2>1. /\ pc' = pc /\ pc[d] = "start" /\ order[d] = "none" /\ d.kind = "topup"
        /\ \A c \in Calls \ {d} : order'[c] = order[c]
    BY <1>1, <1>9 DEF PayIn, TopUps
  <2>2. QED
    BY <1>4, <2>1 DEF OthersStay
<1>10. QED
  BY <1>5, <1>6, <1>7, <1>8, <1>9

\* A call that stops lets go of what it had in hand.
LEMMA StopsTurn ==
  ASSUME BooksAt, SendsOnly', UNCHANGED productVars, NEW d \in Calls, CallStops(d)
  PROVE  BooksInv'
<1>1. CallFacts(d) /\ pc \in [Calls -> Labels]
  BY FactsOf
<1>2. /\ UNCHANGED <<ledgerVars, potVars>> /\ order' = order
      /\ pc'[d] = (IF d \in TopUps THEN "start" ELSE "done") /\ OthersStay(d)
  BY <1>1 DEF CallStops, Goto, OthersStay
<1>3. (Debited(d)' <=> Debited(d)) /\ (Back(d)' <=> Back(d)) /\ (Topped(d)' <=> Topped(d))
  BY <1>2, NoneKnown DEF Debited, Back, Topped
<1>4. CallFacts(d)'
  BY <1>1, <1>2, <1>3 DEF CallFacts, TopUps
<1>5. QED
  BY <1>2, <1>4, QuietBooks DEF Holding

-----------------------------------------------------------------------------
(* Pots. *)

LEMMA AccruedIs ==
  ASSUME NEW x \in PotRow, day \in Nat, x.days <= day
  PROVE  /\ Accrued(x) \in PotRow /\ Accrued(x).days <= day
         /\ PotBalance(Accrued(x)) - Accrued(x).credits = PotBalance(x) - x.credits
         /\ PotBalance(x) <= PotBalance(Accrued(x))
<1>1. /\ x.status \in {"none", "active", "closed"} /\ x.principal \in Int /\ x.interest \in Int
      /\ x.days \in Nat /\ x.credits \in Int
  BY DEF PotRow
<1>2. CASE x.status = "active" /\ PotBalance(x) > 0
  <2>1. PICK n \in Nat : n = day - x.days
    BY <1>1
  <2>2. Accrued(x) = [x EXCEPT !.interest = x.interest + n, !.credits = x.credits + n, !.days = day]
    BY <1>2, <2>1 DEF Accrued
  <2>3. PICK z : z = [x EXCEPT !.interest = x.interest + n, !.credits = x.credits + n, !.days = day]
    OBVIOUS
  <2>4. /\ z \in PotRow /\ z.days = day /\ z.principal = x.principal
        /\ z.interest = x.interest + n /\ z.credits = x.credits + n
    <3>1. PICK i \in Int, j \in Int : i = x.interest + n /\ j = x.credits + n
      BY <1>1
    <3>2. z = [x EXCEPT !.interest = i, !.credits = j, !.days = day]
      BY <2>3, <3>1
    <3>3. z \in PotRow
      BY <3>1, <3>2 DEF PotRow
    <3>4. z.days = day /\ z.principal = x.principal /\ z.interest = i /\ z.credits = j
      BY <3>2 DEF PotRow
    <3>5. QED
      BY <3>1, <3>3, <3>4
  <2>5. Accrued(x) = z
    BY <2>2, <2>3
  <2>6. QED
    BY <1>1, <2>4, <2>5 DEF PotBalance
<1>3. CASE ~(x.status = "active" /\ PotBalance(x) > 0)
  BY <1>1, <1>3 DEF Accrued, PotBalance
<1>4. QED
  BY <1>2, <1>3

\* One pot changes by k, less what the hands of calls change by.
LEMMA PotBooks ==
  ASSUME BooksAt, SendsOnly', UNCHANGED <<ledgerVars, productVars>>,
         NEW x \in Pots, \A y \in Pots \ {x} : pot'[y] = pot[y],
         NEW k \in Int, NEW j \in Int, Moves(Floats, Floats', Calls, j), j + k <= 0,
         PotBalance(pot'[x]) - pot'[x].credits = (PotBalance(pot[x]) - pot[x].credits) + k,
         PotFacts', \A c \in Calls : CallFacts(c)' /\ HeldFacts(c)'
  PROVE  BooksInv'
<1>1. /\ FiniteBooks /\ PocketInv /\ LedgerTypeOK /\ PotFacts /\ Books /\ \A r \in Requests : RequestFacts(r)
  BY DEF BooksAt, TypeOK, BooksInv, Facts
<1>2. Moves(PotsNet, PotsNet', Pots, k)
  <2>1. PotsNet'[x] = PotsNet[x] + k /\ \A y \in Pots \ {x} : PotsNet'[y] = PotsNet[y]
    BY DEF PotsNet, PotBalance
  <2>2. QED
    BY <2>1 DEF Moves
<1>3. /\ Moves(Passes, Passes', Requests, 0) /\ Moves(Deposits, Deposits', Positions, 0)
      /\ \A r \in Requests : RequestFacts(r)'
  BY <1>1, NoneKnown, ProductsRest
<1>4. Moves(Wealth, Wealth', Accounts, 0) /\ claims' = claims
  <2>1. pocket' = pocket /\ claims' = claims
    BY DEF productVars
  <2>2. QED
    BY <1>1, <2>1, WealthMoves
<1>5. Interest * Cardinality(claims') = Interest * Cardinality(claims) + 0
  <2>1. Interest \in Nat /\ Cardinality(claims) \in Nat
    BY RequestsAssumption, FS_CardinalityType DEF BooksAt, PocketInv
  <2>2. QED
    BY <1>4, <2>1
<1>6. 0 + j + 0 + 0 + k <= 0
  OBVIOUS
<1>7. Books'
  BY <1>1, <1>2, <1>3, <1>4, <1>5, <1>6, BooksStep
<1>8. QED
  BY <1>3, <1>7 DEF BooksInv, Facts

\* The same for the pot of a call.
LEMMA CallPotBooks ==
  ASSUME BooksAt, SendsOnly', UNCHANGED <<ledgerVars, productVars>>,
         NEW d \in Calls, OthersStay(d), CallFacts(d)',
         NEW x \in Pots, \A y \in Pots \ {x} : pot'[y] = pot[y],
         NEW k \in Int, Float(d)' + k <= Float(d),
         PotBalance(pot'[x]) - pot'[x].credits = (PotBalance(pot[x]) - pot[x].credits) + k,
         PotFacts', \A c \in Calls : HeldFacts(c)'
  PROVE  BooksInv'
<1>1. \A c \in Calls \ {d} : Float(c)' = Float(c) /\ CallFacts(c)'
  BY NoneKnown, CallRests DEF BooksAt, BooksInv, Facts, OthersStay
<1>2. Moves(Floats, Floats', Calls, Float(d)' - Float(d))
  BY <1>1, FloatsMove
<1>3. Float(d) \in Int /\ Float(d)' \in Int
  <2>1. d.amount \in Nat
    BY CallFields
  <2>2. QED
    BY <2>1 DEF Float, If
<1>4. PICK j \in Int : j = Float(d)' - Float(d)
  BY <1>3
<1>5. j + k <= 0 /\ Moves(Floats, Floats', Calls, j)
  BY <1>2, <1>3, <1>4
<1>6. QED
  BY <1>1, <1>5, PotBooks

\* In a step that posts nothing, a call's float depends on where it is.
LEMMA FloatAt ==
  ASSUME NEW d \in Calls, UNCHANGED ledgerVars
  PROVE  /\ (pc[d] \in Holding <=> pc'[d] \in Holding) => Float(d)' = Float(d)
         /\ pc[d] \in Holding /\ pc'[d] \notin Holding => Float(d)' + d.amount = Float(d)
         /\ pc[d] \notin Holding /\ pc'[d] \in Holding => Float(d)' = Float(d) + d.amount
         /\ Float(d) \in Int
         /\ Debited(d)' <=> Debited(d)
         /\ Back(d)' <=> Back(d)
         /\ Topped(d)' <=> Topped(d)
<1>1. d.amount \in Nat
  BY CallFields
<1>2. (Debited(d)' <=> Debited(d)) /\ (Back(d)' <=> Back(d)) /\ (Topped(d)' <=> Topped(d))
  BY NoneKnown DEF Debited, Back, Topped
<1>3. Travelling(d)' <=> Travelling(d)
  BY <1>2 DEF Travelling
<1>4. QED
  BY <1>1, <1>2, <1>3 DEF Float, If

\* A pot that has grown holds what was read in it.
LEMMA HeldStays ==
  ASSUME BooksAt, NEW x \in Pots, pot' \in [Pots -> PotRow], \A y \in Pots \ {x} : pot'[y] = pot[y],
         PotBalance(pot[x]) <= PotBalance(pot'[x]),
         NEW c \in Calls, pc'[c] = "takeFromPot" => pc[c] = "takeFromPot", held'[c] = held[c]
  PROVE  HeldFacts(c)'
<1>1. SUFFICES ASSUME pc'[c] = "takeFromPot"
               PROVE  PotBalance(held[c]) <= PotBalance(pot'[c.pot])
  BY DEF HeldFacts, PotBalance
<1>2. /\ PotBalance(held[c]) <= PotBalance(pot[c.pot]) /\ CallFacts(c)
      /\ held \in [Calls -> PotRow] /\ pot \in [Pots -> PotRow] /\ pc[c] = "takeFromPot"
  BY <1>1 DEF BooksAt, BooksInv, Facts, HeldFacts, PotFacts
<1>3. c.pot \in Pots
  BY <1>2 DEF CallFacts, BooksAt, FiniteBooks
<1>4. PotBalance(held[c]) \in Int
  <2>1. PICK p \in PotRow : p = held[c]
    BY <1>2
  <2>2. QED
    BY <2>1 DEF PotRow, PotBalance
<1>5. PotBalance(pot[c.pot]) \in Int /\ PotBalance(pot'[c.pot]) \in Int
  <2>1. PICK p \in PotRow, q \in PotRow : p = pot[c.pot] /\ q = pot'[c.pot]
    BY <1>2, <1>3
  <2>2. QED
    BY <2>1 DEF PotRow, PotBalance
<1>6. CASE c.pot = x
  BY <1>2, <1>4, <1>5, <1>6
<1>7. CASE c.pot # x
  BY <1>2, <1>3, <1>7
<1>8. QED
  BY <1>6, <1>7

LEMMA InsertTurn ==
  ASSUME BooksAt, SendsOnly', UNCHANGED productVars, NEW d \in Calls, InsertPot(d)
  PROVE  BooksInv'
<1>1. /\ CallFacts(d) /\ PotFacts /\ pc \in [Calls -> Labels] /\ d.amount \in Nat /\ day \in Nat
  BY FactsOf DEF BooksAt
<1>2. /\ UNCHANGED ledgerVars /\ order' = order /\ held' = held /\ day' = day
      /\ pc[d] = "insertPot" /\ pc'[d] = "done" /\ OthersStay(d)
  BY <1>1 DEF InsertPot, Goto, OthersStay
<1>3. d.kind = "create" /\ d.pot \in Pots
  BY <1>1, <1>2 DEF CallFacts, BooksAt, FiniteBooks
<1>4. PICK x \in Pots : x = d.pot
  BY <1>3
<1>5. PICK p : p = [NoPot EXCEPT !.status = "active", !.principal = d.amount, !.days = day]
  OBVIOUS
<1>6. p = [status |-> "active", principal |-> d.amount, interest |-> 0, days |-> day, credits |-> 0]
  BY <1>5 DEF NoPot
<1>7. p \in PotRow /\ p.days = day /\ PotBalance(p) = d.amount /\ p.credits = 0
  BY <1>1, <1>6 DEF PotRow, PotBalance
<1>8. /\ pot[x] = NoPot /\ pot' = [pot EXCEPT ![x] = p]
  BY <1>4, <1>5 DEF InsertPot
<1>9. PotBalance(pot[x]) = 0 /\ pot[x].credits = 0
  BY <1>8 DEF NoPot, PotBalance
<1>10. /\ pot'[x] = p /\ \A y \in Pots \ {x} : pot'[y] = pot[y]
       /\ pot' \in [Pots -> PotRow]
  BY <1>1, <1>7, <1>8 DEF PotFacts
<1>11. PotFacts'
  BY <1>1, <1>2, <1>7, <1>10 DEF PotFacts
<1>12. PotBalance(pot'[x]) = d.amount /\ pot'[x].credits = 0
  BY <1>7, <1>10
<1>13. \A c \in Calls : HeldFacts(c)'
  BY <1>1, <1>2, <1>9, <1>10, <1>12, HeldStays DEF OthersStay
<1>14. Float(d)' + d.amount <= Float(d)
  BY <1>1, <1>2, FloatAt DEF Holding
<1>15. CallFacts(d)'
  BY <1>1, <1>2, <1>3, FloatAt DEF CallFacts, Travels
<1>16. PotBalance(pot'[x]) - pot'[x].credits = (PotBalance(pot[x]) - pot[x].credits) + d.amount
  BY <1>1, <1>9, <1>12
<1>17. d.amount \in Int
  BY <1>1
<1>18. QED
  BY <1>2, <1>10, <1>11, <1>13, <1>14, <1>15, <1>16, <1>17, CallPotBooks

LEMMA AddTurn ==
  ASSUME BooksAt, SendsOnly', UNCHANGED productVars, NEW d \in Calls, AddToPot(d)
  PROVE  BooksInv'
<1>1. /\ CallFacts(d) /\ PotFacts /\ pc \in [Calls -> Labels] /\ d.amount \in Nat
  BY FactsOf
<1>2. /\ UNCHANGED ledgerVars /\ order' = order /\ held' = held /\ day' = day
      /\ pc[d] = "addToPot" /\ pc'[d] = "done" /\ OthersStay(d)
  BY <1>1 DEF AddToPot, Goto, OthersStay
<1>3. d.kind = "deposit" /\ d.pot \in Pots
  BY <1>1, <1>2 DEF CallFacts, BooksAt, FiniteBooks
<1>4. PICK x \in Pots : x = d.pot
  BY <1>3
<1>5. PICK p \in PotRow : p = pot[x]
  BY <1>1 DEF PotFacts
<1>6. p.principal \in Int /\ p.interest \in Int /\ p.credits \in Int
  BY DEF PotRow
<1>7. PICK n \in Int : n = p.principal + d.amount
  BY <1>1, <1>6
<1>8. PICK q \in PotRow : q = [p EXCEPT !.principal = n]
  BY DEF PotRow
<1>9. q.principal = n /\ q.interest = p.interest /\ q.credits = p.credits /\ q.days = p.days
  BY <1>8 DEF PotRow
<1>10. pot' = pot \/ pot' = [pot EXCEPT ![x] = q]
  BY <1>4, <1>5, <1>7, <1>8 DEF AddToPot
<1>11. PICK k \in {0, d.amount} :
         /\ PotBalance(pot'[x]) = PotBalance(p) + k /\ pot'[x].credits = p.credits
         /\ pot'[x].days = p.days
  <2>1. CASE pot' = pot
    <3>1. PotBalance(p) \in Int
      BY <1>6 DEF PotBalance
    <3>2. PotBalance(pot'[x]) = PotBalance(p) + 0
      BY <1>5, <2>1, <3>1
    <3>3. QED
      BY <1>5, <2>1, <3>2
  <2>2. CASE pot' = [pot EXCEPT ![x] = q]
    <3>1. pot'[x] = q
      BY <1>1, <2>2 DEF PotFacts
    <3>2. PotBalance(q) = PotBalance(p) + d.amount
      BY <1>1, <1>6, <1>7, <1>9 DEF PotBalance
    <3>3. QED
      BY <1>9, <3>1, <3>2
  <2>3. QED
    BY <1>10, <2>1, <2>2
<1>12. /\ \A y \in Pots \ {x} : pot'[y] = pot[y]
       /\ pot' \in [Pots -> PotRow]
  BY <1>1, <1>10 DEF PotFacts
<1>13. PotFacts'
  BY <1>1, <1>2, <1>5, <1>11, <1>12 DEF PotFacts
<1>14. k \in Nat /\ k <= d.amount /\ PotBalance(p) \in Int
  BY <1>1, <1>6 DEF PotBalance
<1>15. PotBalance(pot[x]) <= PotBalance(pot'[x])
  BY <1>5, <1>11, <1>14
<1>16. \A c \in Calls : HeldFacts(c)'
  BY <1>1, <1>2, <1>12, <1>15, HeldStays DEF OthersStay
<1>17. Float(d)' + k <= Float(d)
  <2>1. Float(d)' + d.amount = Float(d) /\ Float(d) \in Int
    BY <1>1, <1>2, FloatAt DEF Holding
  <2>2. Float(d)' \in Int
    BY <1>1 DEF Float, If
  <2>3. QED
    BY <1>1, <1>14, <2>1, <2>2
<1>18. CallFacts(d)'
  BY <1>1, <1>2, <1>3, FloatAt DEF CallFacts, Travels
<1>19. PotBalance(pot'[x]) - pot'[x].credits = (PotBalance(pot[x]) - pot[x].credits) + k
  BY <1>5, <1>6, <1>11, <1>14
<1>20. k \in Int
  BY <1>14
<1>21. QED
  BY <1>2, <1>12, <1>13, <1>16, <1>17, <1>18, <1>19, <1>20, CallPotBooks

\* What is written was read, less what is paid out; alone between the two, nobody else's
\* copy of the pot is older than what is there.
LEMMA TakeTurn ==
  ASSUME BooksAt, PotsAlone, SendsOnly', UNCHANGED productVars, NEW d \in Calls, TakeFromPot(d)
  PROVE  BooksInv'
<1>1. /\ CallFacts(d) /\ HeldFacts(d) /\ PotFacts /\ pc \in [Calls -> Labels] /\ d.amount \in Nat
  BY FactsOf
<1>2. /\ UNCHANGED ledgerVars /\ order' = order /\ held' = held /\ day' = day
      /\ pc[d] = "takeFromPot" /\ pc'[d] = "payOut" /\ OthersStay(d)
  BY <1>1 DEF TakeFromPot, Goto, OthersStay
<1>3. d.kind = "withdraw" /\ d.pot \in Pots
  BY <1>1, <1>2 DEF CallFacts, BooksAt, FiniteBooks
<1>4. PICK x \in Pots : x = d.pot
  BY <1>3
<1>5. PICK p \in PotRow, h \in PotRow : p = pot[x] /\ h = held[d]
  BY <1>1 DEF PotFacts
<1>6. /\ p.principal \in Int /\ p.interest \in Int /\ p.credits \in Int
      /\ h.principal \in Int /\ h.interest \in Int
  BY DEF PotRow
<1>7. PICK f \in Int : f = IF d.amount < h.interest THEN d.amount ELSE h.interest
  BY <1>1, <1>6
<1>8. PICK i \in Int, n \in Int : i = h.interest - f /\ n = h.principal - (d.amount - f)
  BY <1>1, <1>6
<1>9. PICK s \in {"active", "closed"} : s = IF n + i = 0 THEN "closed" ELSE "active"
  OBVIOUS
<1>10. PICK q : q = [p EXCEPT !.principal = n, !.interest = i, !.status = s]
  OBVIOUS
<1>11. q \in PotRow
  BY <1>8, <1>9, <1>10 DEF PotRow
<1>12. q.principal = n /\ q.interest = i /\ q.credits = p.credits /\ q.days = p.days
  BY <1>10 DEF PotRow
<1>13. pot' = [pot EXCEPT ![x] = q]
  BY <1>4, <1>5, <1>7, <1>8, <1>9, <1>10 DEF TakeFromPot
<1>14. /\ pot'[x] = q /\ \A y \in Pots \ {x} : pot'[y] = pot[y]
       /\ pot' \in [Pots -> PotRow]
  BY <1>1, <1>11, <1>13 DEF PotFacts
<1>15. PotFacts'
  BY <1>1, <1>2, <1>5, <1>12, <1>14 DEF PotFacts
<1>16. PICK k \in Int : k = PotBalance(q) - PotBalance(p)
  BY <1>6, <1>8, <1>12 DEF PotBalance
<1>17. k + d.amount <= 0
  <2>1. PotBalance(h) <= PotBalance(p)
    BY <1>1, <1>2, <1>4, <1>5 DEF HeldFacts
  <2>2. PotBalance(q) = PotBalance(h) - d.amount /\ PotBalance(h) \in Int /\ PotBalance(p) \in Int
    BY <1>1, <1>6, <1>8, <1>12 DEF PotBalance
  <2>3. QED
    BY <1>1, <1>16, <2>1, <2>2
<1>18. ASSUME NEW c \in Calls PROVE HeldFacts(c)'
  <2>1. SUFFICES ASSUME pc'[c] = "takeFromPot"
                 PROVE  PotBalance(held[c]) <= PotBalance(pot'[c.pot])
    BY <1>2 DEF HeldFacts, PotBalance
  <2>2. c # d /\ pc[c] = "takeFromPot"
    BY <1>2, <2>1 DEF OthersStay
  <2>3. CallFacts(c) /\ HeldFacts(c)
    BY FactsOf
  <2>4. c.pot \in Pots /\ c.pot # x
    BY <1>2, <1>4, <2>2, <2>3 DEF CallFacts, BooksAt, FiniteBooks, PotsAlone
  <2>5. pot'[c.pot] = pot[c.pot]
    BY <1>14, <2>4
  <2>6. QED
    BY <2>2, <2>3, <2>5 DEF HeldFacts
<1>19. Float(d)' + k <= Float(d)
  <2>1. Float(d)' = Float(d) + d.amount /\ Float(d) \in Int
    BY <1>2, FloatAt DEF Holding
  <2>2. QED
    BY <1>1, <1>17, <2>1
<1>20. CallFacts(d)'
  BY <1>1, <1>2, <1>3, FloatAt DEF CallFacts, Travels
<1>21. PotBalance(pot'[x]) - pot'[x].credits = (PotBalance(pot[x]) - pot[x].credits) + k
  <2>1. PotBalance(q) \in Int /\ PotBalance(p) \in Int
    BY <1>6, <1>8, <1>12 DEF PotBalance
  <2>2. QED
    BY <1>5, <1>6, <1>12, <1>14, <1>16, <2>1
<1>22. QED
  BY <1>2, <1>14, <1>15, <1>18, <1>19, <1>20, <1>21, CallPotBooks

LEMMA AccruedKeeps ==
  ASSUME BooksAt, NEW x \in Pots, pot' = [pot EXCEPT ![x] = Accrued(pot[x])]
  PROVE  /\ pot'[x] = Accrued(pot[x]) /\ \A y \in Pots \ {x} : pot'[y] = pot[y]
         /\ pot' \in [Pots -> PotRow]
         /\ pot'[x].days <= day
         /\ PotBalance(pot[x]) <= PotBalance(pot'[x])
         /\ PotBalance(pot'[x]) - pot'[x].credits = (PotBalance(pot[x]) - pot[x].credits) + 0
<1>1. PotFacts /\ day \in Nat
  BY DEF BooksAt, BooksInv, Facts
<1>2. PICK p \in PotRow : p = pot[x] /\ p.days <= day
  BY <1>1 DEF PotFacts
<1>3. PICK q : q = Accrued(p)
  OBVIOUS
<1>4. /\ q \in PotRow /\ q.days <= day
      /\ PotBalance(q) - q.credits = PotBalance(p) - p.credits
      /\ PotBalance(p) <= PotBalance(q)
  BY <1>1, <1>2, <1>3, AccruedIs
<1>5. /\ pot'[x] = q /\ \A y \in Pots \ {x} : pot'[y] = pot[y] /\ pot' \in [Pots -> PotRow]
  BY <1>1, <1>2, <1>3, <1>4 DEF PotFacts
<1>6. pot' \in [Pots -> PotRow]
  BY <1>1, <1>2, <1>3, <1>4 DEF PotFacts
<1>7. PotBalance(p) - p.credits \in Int
  BY DEF PotRow, PotBalance
<1>8. QED
  BY <1>2, <1>3, <1>4, <1>5, <1>6, <1>7

LEMMA ReadTurn ==
  ASSUME BooksAt, SendsOnly', UNCHANGED productVars, NEW d \in Calls, ReadPot(d)
  PROVE  BooksInv'
<1>1. /\ CallFacts(d) /\ PotFacts /\ pc \in [Calls -> Labels] /\ d.amount \in Nat /\ day \in Nat
  BY FactsOf DEF BooksAt
<1>2. PICK label \in {"done", "pay", "takeFromPot"} :
        /\ Goto(d, label)
        /\ label # "done" => held' = [held EXCEPT ![d] = Accrued(pot[d.pot])]
        /\ label = "done" => held' = held
        /\ label = "pay" => d.kind = "deposit"
        /\ label = "takeFromPot" => d.kind = "withdraw"
  BY DEF ReadPot
<1>3. /\ UNCHANGED ledgerVars /\ order' = order /\ day' = day /\ pc[d] = "start"
      /\ d.kind \in {"deposit", "withdraw"}
      /\ pot' = [pot EXCEPT ![d.pot] = Accrued(pot[d.pot])]
  BY DEF ReadPot
<1>4. pc'[d] = label /\ OthersStay(d)
  BY <1>1, <1>2, <1>3 DEF Goto, OthersStay
<1>5. PICK x \in Pots : x = d.pot
  BY <1>3 DEF BooksAt, FiniteBooks
<1>6. /\ pot'[x] = Accrued(pot[x]) /\ \A y \in Pots \ {x} : pot'[y] = pot[y]
      /\ pot' \in [Pots -> PotRow]
      /\ pot'[x].days <= day
      /\ PotBalance(pot[x]) <= PotBalance(pot'[x])
      /\ PotBalance(pot'[x]) - pot'[x].credits = (PotBalance(pot[x]) - pot[x].credits) + 0
  BY <1>3, <1>5, AccruedKeeps
<1>7. PICK q \in PotRow : q = pot'[x]
  BY <1>6
<1>8. held' \in [Calls -> PotRow] /\ \A c \in Calls \ {d} : held'[c] = held[c]
  BY <1>1, <1>2, <1>5, <1>6, <1>7 DEF PotFacts
<1>9. PotFacts'
  BY <1>1, <1>3, <1>6, <1>8 DEF PotFacts
<1>10. label # "done" => held'[d] = q
  BY <1>1, <1>2, <1>5, <1>6, <1>7 DEF PotFacts
<1>11. PotBalance(q) \in Int
  BY DEF PotRow, PotBalance
<1>12. HeldFacts(d)'
  <2>1. SUFFICES ASSUME pc'[d] = "takeFromPot" PROVE PotBalance(held'[d]) <= PotBalance(pot'[d.pot])
    BY DEF HeldFacts, PotBalance
  <2>2. held'[d] = q /\ pot'[d.pot] = q
    BY <1>4, <1>5, <1>7, <1>10, <2>1
  <2>3. QED
    BY <1>11, <2>2
<1>13. \A c \in Calls \ {d} : HeldFacts(c)'
  BY <1>4, <1>6, <1>8, HeldStays DEF OthersStay
<1>14. Float(d)' + 0 <= Float(d)
  <2>1. Float(d)' = Float(d) /\ Float(d) \in Int
    BY <1>3, <1>4, FloatAt DEF Holding
  <2>2. QED
    BY <2>1
<1>15. CallFacts(d)'
  BY <1>1, <1>2, <1>3, <1>4, FloatAt DEF CallFacts, Travels
<1>16. \A c \in Calls : HeldFacts(c)'
  BY <1>12, <1>13
<1>17. QED
  BY <1>3, <1>4, <1>6, <1>9, <1>14, <1>15, <1>16, CallPotBooks

\* Where calls are, and what they hold, stays.
CallsStay == UNCHANGED <<ledgerVars, pc, order, held>>

LEMMA CallsStayAt ==
  ASSUME BooksAt, CallsStay
  PROVE  /\ Moves(Floats, Floats', Calls, 0)
         /\ \A c \in Calls : CallFacts(c)'
<1>1. pc' = pc /\ order' = order
  BY DEF CallsStay
<1>2. \A c \in Calls : Float(c)' = Float(c) /\ CallFacts(c)'
  BY <1>1, NoneKnown, CallRests DEF BooksAt, BooksInv, Facts, CallsStay
<1>3. QED
  BY <1>2, FloatsRest

LEMMA AccrueTurn ==
  ASSUME BooksAt, SendsOnly', UNCHANGED productVars, NEW x \in Pots, syncPotInterest(x)
  PROVE  BooksInv'
<1>1. /\ CallsStay /\ day' = day /\ pot' = [pot EXCEPT ![x] = Accrued(pot[x])] /\ PotFacts
  BY DEF syncPotInterest, CallsStay, payVars, BooksAt, BooksInv, Facts
<1>2. /\ \A y \in Pots \ {x} : pot'[y] = pot[y]
      /\ pot' \in [Pots -> PotRow]
      /\ pot'[x].days <= day
      /\ PotBalance(pot[x]) <= PotBalance(pot'[x])
      /\ PotBalance(pot'[x]) - pot'[x].credits = (PotBalance(pot[x]) - pot[x].credits) + 0
  BY <1>1, AccruedKeeps
<1>3. PotFacts'
  BY <1>1, <1>2 DEF PotFacts, CallsStay
<1>4. \A c \in Calls : HeldFacts(c)'
  BY <1>1, <1>2, HeldStays DEF CallsStay
<1>5. Moves(Floats, Floats', Calls, 0) /\ \A c \in Calls : CallFacts(c)'
  BY <1>1, CallsStayAt
<1>6. QED
  BY <1>1, <1>2, <1>3, <1>4, <1>5, PotBooks DEF CallsStay

\* Nothing that the books are about moves; a day may pass.
LEMMA RestTurn ==
  ASSUME BooksAt, SendsOnly', UNCHANGED productVars, CallsStay, pot' = pot, day' \in Nat, day <= day'
  PROVE  BooksInv'
<1>1. /\ FiniteBooks /\ PocketInv /\ LedgerTypeOK /\ PotFacts /\ Books
      /\ \A c \in Calls : HeldFacts(c)
      /\ \A r \in Requests : RequestFacts(r)
  BY DEF BooksAt, TypeOK, BooksInv, Facts
<1>2. Moves(Floats, Floats', Calls, 0) /\ \A c \in Calls : CallFacts(c)'
  BY CallsStayAt
<1>3. /\ Moves(Passes, Passes', Requests, 0) /\ Moves(Deposits, Deposits', Positions, 0)
      /\ \A r \in Requests : RequestFacts(r)'
  BY <1>1, NoneKnown, ProductsRest DEF CallsStay
<1>4. Moves(Wealth, Wealth', Accounts, 0) /\ claims' = claims
  <2>1. pocket' = pocket /\ claims' = claims
    BY DEF productVars
  <2>2. QED
    BY <1>1, <2>1, WealthMoves DEF CallsStay
<1>5. Interest * Cardinality(claims') = Interest * Cardinality(claims) + 0
  <2>1. Interest \in Nat /\ Cardinality(claims) \in Nat
    BY RequestsAssumption, FS_CardinalityType DEF BooksAt, PocketInv
  <2>2. QED
    BY <1>4, <2>1
<1>6. Moves(PotsNet, PotsNet', Pots, 0)
  BY DEF Moves, PotsNet, PotBalance
<1>7. PotFacts'
  <2>1. \A x \in Pots : pot[x].days \in Nat
    BY <1>1 DEF PotFacts, PotRow
  <2>2. QED
    BY <1>1, <2>1 DEF PotFacts, CallsStay, BooksAt
<1>8. \A c \in Calls : HeldFacts(c)'
  BY <1>1 DEF HeldFacts, PotBalance, CallsStay
<1>9. 0 + 0 + 0 + 0 + 0 <= 0
  OBVIOUS
<1>10. Books'
  BY <1>1, <1>2, <1>3, <1>4, <1>5, <1>6, <1>9, BooksStep
<1>11. QED
  BY <1>2, <1>3, <1>7, <1>8, <1>10 DEF BooksInv, Facts

\* All payments.
LEMMA NextBooks ==
  ASSUME BooksAt, PotsAlone, UNCHANGED productVars, Next
  PROVE  BooksInv'
<1>1. SendsOnly'
  BY SendsKept DEF BooksAt, BooksInv, Facts
<1>2. ASSUME NEW d \in Calls, Step(d) PROVE BooksInv'
  BY <1>1, <1>2, DebitBooks, CreditTurn, QuietTurn, InsertTurn, ReadTurn, AddTurn, TakeTurn DEF Step
<1>3. ASSUME NEW d \in Calls, CallStops(d) PROVE BooksInv'
  BY <1>1, <1>3, StopsTurn
<1>4. ASSUME NEW d \in Calls, HandlerReverses(d) \/ Repair(d) PROVE BooksInv'
  BY <1>1, <1>4, ReverseTurn
<1>5. day \in Nat /\ day <= day
  BY DEF BooksAt
<1>6. ASSUME NEW d \in Calls, SyncFetch(d) \/ SyncApply(d) \/ HandlerStops(d) PROVE BooksInv'
  <2>1. CallsStay /\ pot' = pot /\ day' = day
    BY <1>6 DEF SyncFetch, SyncApply, HandlerStops, CallsStay, potVars
  <2>2. QED
    BY <1>1, <1>5, <2>1, RestTurn
<1>7. ASSUME NEW d \in Calls, NEW status, StatusWebhook(d, status) PROVE BooksInv'
  <2>1. CallsStay /\ pot' = pot /\ day' = day
    BY <1>7 DEF StatusWebhook, CallsStay, potVars
  <2>2. QED
    BY <1>1, <1>5, <2>1, RestTurn
<1>8. ASSUME NEW outcome \in {"paid", "failed"}, NEW d \in Calls,
             \/ d \in Payouts /\ ProviderEnds(d, outcome)
             \/ PayIn(d, outcome)
      PROVE  BooksInv'
  BY <1>1, <1>8, QuietTurn
<1>9. ASSUME NEW x \in Pots, syncPotInterest(x) PROVE BooksInv'
  BY <1>1, <1>9, AccrueTurn
<1>10. CASE NextDay
  <2>1. CallsStay /\ pot' = pot /\ day' = day + 1
    BY <1>10 DEF NextDay, CallsStay, payVars
  <2>2. day' \in Nat /\ day <= day'
    BY <1>5, <2>1
  <2>3. QED
    BY <1>1, <2>1, <2>2, RestTurn
<1>11. Payouts \subseteq Calls /\ TopUps \subseteq Calls
  BY PayoutsAreCalls
<1>12. QED
  BY <1>2, <1>3, <1>4, <1>6, <1>7, <1>8, <1>9, <1>10, <1>11 DEF Next, Handlers

-----------------------------------------------------------------------------
(* Products: investments, payments on chain, what comes in. *)

\* A step of a product: no call moves, and nothing is posted under a call's key.
ProductMoves ==
  /\ UNCHANGED <<payVars, potVars>>
  /\ \A m \in movements : m \in movements'
  /\ \A x, t : t \in CallSteps => (Knows(x, t)' <=> Knows(x, t))

LEMMA ProductBooks ==
  ASSUME BooksAt, ProductMoves, \A r \in Requests : RequestFacts(r)',
         NEW i \in Int, NEW j \in Int, NEW k \in Int, NEW e \in Int,
         Moves(Wealth, Wealth', Accounts, i), Moves(Passes, Passes', Requests, j),
         Moves(Deposits, Deposits', Positions, k),
         Interest * Cardinality(claims') = Interest * Cardinality(claims) + e,
         i + j + k <= e
  PROVE  BooksInv'
<1>1. /\ FiniteBooks /\ PocketInv /\ LedgerTypeOK /\ PotFacts /\ Books /\ SendsOnly
      /\ \A c \in Calls : CallFacts(c) /\ HeldFacts(c)
  BY DEF BooksAt, TypeOK, BooksInv, Facts
<1>2. /\ pc' = pc /\ order' = order /\ fetched' = fetched /\ reversing' = reversing
      /\ UNCHANGED potVars
      /\ \A x, t : t \in CallSteps => (Knows(x, t)' <=> Knows(x, t))
  BY DEF ProductMoves, payVars
<1>3. \A c \in Calls : Float(c)' = Float(c) /\ CallFacts(c)'
  BY <1>1, <1>2, CallRests
<1>4. Moves(Floats, Floats', Calls, 0)
  BY <1>3, FloatsRest
<1>5. Moves(PotsNet, PotsNet', Pots, 0) /\ PotFacts' /\ \A c \in Calls : HeldFacts(c)'
  BY <1>1, <1>2, PotsRest
<1>6. i + 0 + j + k + 0 <= e
  OBVIOUS
<1>7. Books'
  BY <1>1, <1>4, <1>5, <1>6, BooksStep
<1>8. SendsOnly'
  BY <1>1, <1>2 DEF SendsOnly
<1>9. QED
  BY <1>3, <1>5, <1>7, <1>8 DEF BooksInv, Facts

LEMMA SameClaims ==
  ASSUME BooksAt, claims' = claims
  PROVE  Interest * Cardinality(claims') = Interest * Cardinality(claims) + 0
<1>1. Interest \in Nat /\ Cardinality(claims) \in Nat
  BY RequestsAssumption, FS_CardinalityType DEF BooksAt, PocketInv
<1>2. QED
  BY <1>1

\* A posting under a product's key is none under a call's.
LEMMA ProductPosted ==
  ASSUME UNCHANGED <<payVars, potVars>>, NEW y, NEW t \in RequestTags, NEW w, NEW n,
         UNCHANGED ledgerVars \/ PostsOne(y, t, w, n)
  PROVE  /\ ProductMoves
         /\ \A x, s : (x # y \/ s # t) => (Knows(x, s)' <=> Knows(x, s))
<1>1. t \notin CallSteps
  BY DEF CallSteps, RequestTags
<1>2. CASE UNCHANGED ledgerVars
  BY <1>2, NoneKnown DEF ProductMoves
<1>3. CASE PostsOne(y, t, w, n)
  BY <1>1, <1>3 DEF PostsOne, ProductMoves
<1>4. QED
  BY <1>2, <1>3

LEMMA PassesMove ==
  ASSUME NEW r \in Requests, \A q \in Requests \ {r} : Passing(q)' = Passing(q)
  PROVE  /\ Moves(Passes, Passes', Requests, Passing(r)' - Passing(r))
         /\ Passing(r) \in Int /\ Passing(r)' \in Int
<1>1. r.amount \in Nat
  BY RequestFields
<1>2. Passing(r) \in Int /\ Passing(r)' \in Int
  BY <1>1 DEF Passing, If
<1>3. Passes'[r] = Passes[r] + (Passing(r)' - Passing(r))
  BY <1>2 DEF Passes
<1>4. \A q \in Requests \ {r} : Passes'[q] = Passes[q]
  BY DEF Passes
<1>5. QED
  BY <1>2, <1>3, <1>4 DEF Moves

\* A payment on a chain or to a bank account posts under its hash.
LEMMA ChainTurn ==
  ASSUME BooksAt, UNCHANGED <<payVars, potVars, position, pocket, claims, landed>>,
         NEW r \in Requests, \A q \in Requests \ {r} : at'[q] = at[q],
         NEW t \in ChainTags, NEW w \in Accounts, NEW n \in Int,
         (UNCHANGED ledgerVars /\ n = 0) \/ PostsOne(r.id, t, w, n),
         RequestFacts(r)', Passing(r)' + n <= Passing(r)
  PROVE  BooksInv'
<1>1. t \in RequestTags /\ "investment" \notin ChainTags
  BY DEF ChainTags, RequestTags
<1>2. /\ ProductMoves
      /\ \A x, s : (x # r.id \/ s # t) => (Knows(x, s)' <=> Knows(x, s))
  <2>1. UNCHANGED ledgerVars \/ PostsOne(r.id, t, w, n)
    OBVIOUS
  <2>2. QED
    BY <1>1, <2>1, ProductPosted
<1>3. \A q \in Requests : RequestFacts(q)
  BY DEF BooksAt, BooksInv, Facts
<1>4. \A q \in Requests \ {r} : Passing(q)' = Passing(q) /\ RequestFacts(q)'
  <2>1. \A q \in Requests \ {r} : q.id # r.id
    BY DEF BooksAt, FiniteBooks
  <2>2. QED
    BY <1>2, <1>3, <2>1, RequestsRest DEF ProductMoves
<1>5. /\ Moves(Passes, Passes', Requests, Passing(r)' - Passing(r))
      /\ Passing(r) \in Int /\ Passing(r)' \in Int
  BY <1>4, PassesMove
<1>6. PICK j \in Int : j = Passing(r)' - Passing(r)
  BY <1>5
<1>7. Moves(Deposits, Deposits', Positions, 0)
  <2>1. \A x \in Positions : Deposited(x)' = Deposited(x)
    BY <1>1, <1>2 DEF Deposited, If, DepositOf
  <2>2. QED
    BY <2>1 DEF Moves, Deposits
<1>8. Moves(Wealth, Wealth', Accounts, n)
  BY WealthMoves DEF BooksAt, TypeOK
<1>9. Interest * Cardinality(claims') = Interest * Cardinality(claims) + 0
  BY SameClaims
<1>10. n + j + 0 <= 0 /\ Moves(Passes, Passes', Requests, j)
  BY <1>5, <1>6
<1>11. QED
  BY <1>2, <1>4, <1>7, <1>8, <1>9, <1>10, ProductBooks

LEMMA MirrorTurn ==
  ASSUME BooksAt, ProductTyped, NEW r \in Requests, Mirror(r) \/ MirrorFee(r)
  PROVE  BooksInv'
<1>1. /\ LedgerTypeOK /\ RequestFacts(r) /\ r.amount \in Nat /\ Fee \in Nat
      /\ UNCHANGED <<payVars, potVars, position, pocket, claims, landed>>
  BY RequestFields DEF BooksAt, TypeOK, BooksInv, Facts, Mirror, MirrorFee
<1>2. r.kind = "crypto" /\ r.from \in Accounts
  BY RequestFields DEF ProductTyped, Mirror, MirrorFee
<1>3. /\ \A q \in Requests \ {r} : at'[q] = at[q]
      /\ at'[r] \in {"fee", "done"}
  BY DEF Mirror, MirrorFee, GotoR, ProductTyped
<1>4. InTag(r) = "in"
  BY <1>2 DEF InTag
<1>5. CASE UNCHANGED ledgerVars
  <2>1. (Out(r)' <=> Out(r)) /\ (Arrived(r)' <=> Arrived(r)) /\ (Mirrored(r)' <=> Mirrored(r))
    BY <1>5, NoneKnown DEF Out, Arrived, Mirrored, ledgerVars, Movement
  <2>2. RequestFacts(r)' /\ Passing(r)' = Passing(r)
    BY <1>1, <1>3, <2>1 DEF RequestFacts, Passing, If
  <2>3. Passing(r)' + 0 <= Passing(r)
    BY <1>1, <2>2 DEF Passing, If
  <2>4. "out" \in ChainTags
    BY DEF ChainTags
  <2>5. QED
    BY <1>1, <1>2, <1>3, <1>5, <2>2, <2>3, <2>4, ChainTurn
<1>6. CASE Mirror(r) /\ r.to # r.from /\ debit(<<r.id, "out">>, r.from, r.amount)
  <2>1. /\ Posts(r.id, "out", r.from, 0 - r.amount)
        /\ PostsOne(r.id, "out", r.from, 0 - r.amount)
             => Movement(<<r.id, "out">>, "debit", r.from, r.amount) \in movements'
    BY <1>1, <1>2, <1>6, DebitEffect
  <2>2. CASE PostsOne(r.id, "out", r.from, 0 - r.amount)
    <3>1. ~Out(r) /\ Out(r)' /\ (Arrived(r)' <=> Arrived(r)) /\ Mirrored(r)'
      BY <1>2, <1>4, <2>1, <2>2 DEF PostsOne, Out, Arrived, Mirrored, Movement
    <3>2. r \in landed
      BY <1>1, <1>6 DEF RequestFacts, Mirror
    <3>3. RequestFacts(r)'
      BY <1>1, <1>3, <1>6, <3>1, <3>2 DEF RequestFacts
    <3>4. Passing(r)' + (0 - r.amount) <= Passing(r)
      BY <1>1, <3>1 DEF Passing, If
    <3>5. 0 - r.amount \in Int /\ "out" \in ChainTags
      BY <1>1 DEF ChainTags
    <3>6. QED
      BY <1>1, <1>2, <1>3, <2>2, <3>3, <3>4, <3>5, ChainTurn
  <2>3. QED
    BY <1>5, <2>1, <2>2 DEF Posts
<1>7. CASE MirrorFee(r) /\ debit(<<r.id, "fee">>, r.from, Fee)
  <2>1. Posts(r.id, "fee", r.from, 0 - Fee)
    BY <1>1, <1>2, <1>7, DebitEffect
  <2>2. CASE PostsOne(r.id, "fee", r.from, 0 - Fee)
    <3>1. (Out(r)' <=> Out(r)) /\ (Arrived(r)' <=> Arrived(r)) /\ (Mirrored(r) => Mirrored(r)')
      BY <1>4, <2>2 DEF PostsOne, Out, Arrived, Mirrored, Movement
    <3>2. RequestFacts(r)'
      BY <1>1, <1>3, <3>1 DEF RequestFacts
    <3>3. Passing(r)' + (0 - Fee) <= Passing(r)
      BY <1>1, <3>1 DEF Passing, If
    <3>4. 0 - Fee \in Int /\ "fee" \in ChainTags
      BY <1>1 DEF ChainTags
    <3>5. QED
      BY <1>1, <1>2, <1>3, <2>2, <3>2, <3>3, <3>4, ChainTurn
  <2>3. QED
    BY <1>5, <2>1, <2>2 DEF Posts
<1>8. QED
  BY <1>5, <1>6, <1>7 DEF Mirror, MirrorFee

LEMMA ArrivalTurn ==
  ASSUME BooksAt, UNCHANGED <<payVars, potVars, productVars>>, NEW r \in Requests, PaysIn(r),
         r \in landed, r.to \in Accounts, r.kind = "crypto" => r.from # r.to,
         credit(<<r.id, InTag(r)>>, r.to, r.amount)
  PROVE  BooksInv'
<1>1. /\ LedgerTypeOK /\ RequestFacts(r) /\ r.amount \in Nat
      /\ UNCHANGED <<position, pocket, claims, landed>> /\ at' = at
  BY RequestFields DEF BooksAt, TypeOK, BooksInv, Facts, productVars
<1>2. InTag(r) \in ChainTags /\ InTag(r) # "out"
  BY DEF InTag, ChainTags
<1>3. Posts(r.id, InTag(r), r.to, r.amount)
  BY <1>1, CreditEffect
<1>4. CASE UNCHANGED ledgerVars
  <2>1. (Out(r)' <=> Out(r)) /\ (Arrived(r)' <=> Arrived(r)) /\ (Mirrored(r)' <=> Mirrored(r))
    BY <1>4, NoneKnown DEF Out, Arrived, Mirrored, ledgerVars, Movement
  <2>2. RequestFacts(r)' /\ Passing(r)' = Passing(r)
    BY <1>1, <2>1 DEF RequestFacts, Passing, If
  <2>3. Passing(r)' + 0 <= Passing(r)
    BY <1>1, <2>2 DEF Passing, If
  <2>4. QED
    BY <1>1, <1>2, <1>4, <2>2, <2>3, ChainTurn
<1>5. CASE PostsOne(r.id, InTag(r), r.to, r.amount)
  <2>1. (Out(r)' <=> Out(r)) /\ ~Arrived(r) /\ Arrived(r)' /\ (Mirrored(r) => Mirrored(r)')
    BY <1>2, <1>5 DEF PostsOne, Out, Arrived, Mirrored, Movement
  <2>2. RequestFacts(r)'
    BY <1>1, <2>1 DEF RequestFacts
  <2>3. Passing(r)' + r.amount <= Passing(r)
    BY <1>1, <2>1 DEF Passing, If
  <2>4. QED
    BY <1>1, <1>2, <1>5, <2>2, <2>3, ChainTurn
<1>6. QED
  BY <1>3, <1>4, <1>5 DEF Posts

\* Nothing is posted and no position moves.
LEMMA QuietProduct ==
  ASSUME BooksAt, ProductTyped, NEW r \in Requests,
         \/ InvestLook(r) \/ ClaimLook(r) \/ SendOnChain(r) \/ PaidIn(r) \/ RequestStops(r)
  PROVE  BooksInv'
<1>1. /\ UNCHANGED <<ledgerVars, payVars, potVars, position, pocket, claims>>
      /\ \A q \in landed : q \in landed'
  BY DEF InvestLook, ClaimLook, SendOnChain, PaidIn, RequestStops, vars
<1>2. /\ \A q \in Requests \ {r} : at'[q] = at[q]
      /\ at'[r] # "mirror" \/ r \in landed'
  BY DEF InvestLook, ClaimLook, SendOnChain, PaidIn, RequestStops, GotoR, ProductTyped
<1>3. ProductMoves /\ \A x, s : Knows(x, s)' <=> Knows(x, s)
  BY <1>1, NoneKnown DEF ProductMoves
<1>4. ASSUME NEW q \in Requests PROVE Passing(q)' = Passing(q) /\ RequestFacts(q)'
  <2>1. RequestFacts(q)
    BY DEF BooksAt, BooksInv, Facts
  <2>2. (Out(q)' <=> Out(q)) /\ (Arrived(q)' <=> Arrived(q)) /\ (Mirrored(q) => Mirrored(q)')
    BY <1>1, <1>3 DEF Out, Arrived, Mirrored, ledgerVars, Movement
  <2>3. Passing(q)' = Passing(q)
    BY <2>2 DEF Passing, If
  <2>4. at'[q] = "mirror" => q \in landed'
    BY <1>1, <1>2, <2>1 DEF RequestFacts
  <2>5. QED
    BY <1>1, <2>1, <2>2, <2>3, <2>4 DEF RequestFacts
<1>5. Moves(Passes, Passes', Requests, 0)
  BY <1>4 DEF Moves, Passes
<1>6. Moves(Deposits, Deposits', Positions, 0)
  <2>1. \A x \in Positions : Deposited(x)' = Deposited(x)
    BY <1>1, <1>3 DEF Deposited, If, DepositOf
  <2>2. QED
    BY <2>1 DEF Moves, Deposits
<1>7. Moves(Wealth, Wealth', Accounts, 0)
  BY <1>1, WealthMoves DEF BooksAt, TypeOK
<1>8. Interest * Cardinality(claims') = Interest * Cardinality(claims) + 0
  BY <1>1, SameClaims
<1>9. 0 + 0 + 0 <= 0
  OBVIOUS
<1>10. QED
  BY <1>3, <1>4, <1>5, <1>6, <1>7, <1>8, <1>9, ProductBooks

\* Where nothing is posted under a payment's hash, payments are where they were.
LEMMA ChainRests ==
  ASSUME BooksAt, ProductMoves, landed' = landed,
         \A x, t : t \in ChainTags => (Knows(x, t)' <=> Knows(x, t)),
         NEW r \in Requests, \A q \in Requests \ {r} : at'[q] = at[q], at'[r] # "mirror"
  PROVE  Moves(Passes, Passes', Requests, 0) /\ \A q \in Requests : RequestFacts(q)'
<1>1. \A q \in Requests : RequestFacts(q)
  BY DEF BooksAt, BooksInv, Facts
<1>2. \A q \in Requests : Passing(q)' = Passing(q) /\ RequestFacts(q)'
  BY <1>1, RequestsRest DEF ProductMoves
<1>3. QED
  BY <1>2 DEF Moves, Passes

LEMMA DepositsMove ==
  ASSUME NEW x \in Positions, NEW k \in Int, Deposited(x)' = Deposited(x) + k,
         \A y \in Positions \ {x} : Deposited(y)' = Deposited(y)
  PROVE  Moves(Deposits, Deposits', Positions, k)
<1>1. Deposits'[x] = Deposits[x] + k /\ \A y \in Positions \ {x} : Deposits'[y] = Deposits[y]
  BY DEF Deposits
<1>2. QED
  BY <1>1 DEF Moves

LEMMA InvestTurn ==
  ASSUME BooksAt, ProductTyped, NEW r \in Requests, InvestDebit(r)
  PROVE  BooksInv'
<1>1. /\ r.kind = "invest" /\ r.from \in Accounts /\ r.ref \in Positions /\ r.amount \in Nat /\ LedgerTypeOK
  BY RequestFields DEF InvestDebit, ProductTyped, BooksAt, TypeOK
<1>2. /\ UNCHANGED <<payVars, potVars, position, pocket, claims, landed>>
      /\ \A q \in Requests \ {r} : at'[q] = at[q]
      /\ at'[r] # "mirror"
  BY DEF InvestDebit, GotoR, ProductTyped
<1>3. PICK x \in Positions : x = r.ref
  BY <1>1
<1>4. PICK t : t = "investment"
  OBVIOUS
<1>5. t \in RequestTags /\ t \notin ChainTags
  BY <1>4 DEF RequestTags, ChainTags
<1>6. PICK n \in Int : n = 0 - r.amount
  BY <1>1
<1>7. UNCHANGED ledgerVars \/ PostsOne(x, t, r.from, n)
  BY <1>1, <1>3, <1>4, <1>6, DebitEffect DEF InvestDebit, Posts
<1>8. /\ ProductMoves
      /\ \A y, s : (y # x \/ s # t) => (Knows(y, s)' <=> Knows(y, s))
  BY <1>2, <1>5, <1>7, ProductPosted
<1>9. Moves(Passes, Passes', Requests, 0) /\ \A q \in Requests : RequestFacts(q)'
  BY <1>2, <1>5, <1>8, ChainRests
<1>10. Interest * Cardinality(claims') = Interest * Cardinality(claims) + 0
  BY <1>2, SameClaims
<1>11. \A y \in Positions \ {x} : Deposited(y)' = Deposited(y)
  BY <1>2, <1>8 DEF Deposited, If, DepositOf
<1>12. CASE UNCHANGED ledgerVars
  <2>1. Moves(Wealth, Wealth', Accounts, 0)
    BY <1>2, <1>12, WealthMoves DEF BooksAt, TypeOK
  <2>2. \A y \in Positions : Deposited(y)' = Deposited(y)
    BY <1>2, <1>12, NoneKnown DEF Deposited, If, DepositOf
  <2>3. Moves(Deposits, Deposits', Positions, 0)
    BY <2>2 DEF Moves, Deposits
  <2>4. 0 + 0 + 0 <= 0
    OBVIOUS
  <2>5. QED
    BY <1>8, <1>9, <1>10, <2>1, <2>3, <2>4, ProductBooks
<1>13. CASE PostsOne(x, t, r.from, n)
  <2>1. Moves(Wealth, Wealth', Accounts, n)
    BY <1>1, <1>2, <1>13, WealthMoves DEF BooksAt, TypeOK
  <2>2. ~Knows(x, "investment") /\ Knows(x, "investment")'
    BY <1>4, <1>13 DEF PostsOne
  <2>3. PICK k \in Nat : k = IF position[x] = NoPosition THEN r.amount ELSE 0
    BY <1>1
  <2>4. DepositOf(x) = r.amount
    BY <1>1, <1>3, DepositIs
  <2>5. Deposited(x) = 0 /\ Deposited(x)' = k
    BY <1>2, <2>2, <2>3, <2>4 DEF Deposited, If, DepositOf
  <2>6. Moves(Deposits, Deposits', Positions, k)
    BY <1>11, <2>5, DepositsMove
  <2>7. n + 0 + k <= 0
    BY <1>1, <1>6, <2>3
  <2>8. QED
    BY <1>8, <1>9, <1>10, <2>1, <2>6, <2>7, ProductBooks
<1>14. QED
  BY <1>7, <1>12, <1>13

\* The deposit that was debited becomes a position, of which the pocket holds as much.
LEMMA PlaceTurn ==
  ASSUME BooksAt, ProductTyped, NEW r \in Requests, InvestPlace(r)
  PROVE  BooksInv'
<1>1. /\ r.kind = "invest" /\ r.from \in Accounts /\ r.ref \in Positions /\ r.amount \in Nat
      /\ at[r] = "place" /\ LedgerTypeOK /\ PocketInv
  BY RequestFields DEF InvestPlace, ProductTyped, BooksAt, TypeOK
<1>2. /\ UNCHANGED <<ledgerVars, payVars, potVars, claims, landed>>
      /\ \A q \in Requests \ {r} : at'[q] = at[q]
      /\ at'[r] # "mirror"
  BY DEF InvestPlace, GotoR, ProductTyped, vars
<1>3. PICK x \in Positions : x = r.ref
  BY <1>1
<1>4. ProductMoves /\ \A y, s : Knows(y, s)' <=> Knows(y, s)
  BY <1>2, NoneKnown DEF ProductMoves
<1>5. Moves(Passes, Passes', Requests, 0) /\ \A q \in Requests : RequestFacts(q)'
  BY <1>2, <1>4, ChainRests
<1>6. Interest * Cardinality(claims') = Interest * Cardinality(claims) + 0
  BY <1>2, SameClaims
<1>7. CASE position[x] # NoPosition
  <2>1. position' = position /\ pocket' = pocket
    BY <1>3, <1>7 DEF InvestPlace
  <2>2. Moves(Wealth, Wealth', Accounts, 0)
    BY <1>1, <1>2, <2>1, WealthMoves
  <2>3. \A y \in Positions : Deposited(y)' = Deposited(y)
    BY <1>4, <2>1 DEF Deposited, If, DepositOf
  <2>4. Moves(Deposits, Deposits', Positions, 0)
    BY <2>3 DEF Moves, Deposits
  <2>5. 0 + 0 + 0 <= 0
    OBVIOUS
  <2>6. QED
    BY <1>4, <1>5, <1>6, <2>2, <2>4, <2>5, ProductBooks
<1>8. CASE position[x] = NoPosition
  <2>1. PICK z : z = [status |-> "active", owner |-> r.from, principal |-> r.amount, matures |-> day + 1]
    OBVIOUS
  <2>2. /\ position' = [position EXCEPT ![x] = z]
        /\ pocket' = [pocket EXCEPT ![r.from] = pocket[r.from] + r.amount]
    BY <1>3, <1>8, <2>1 DEF InvestPlace
  <2>3. z # NoPosition
    <3>1. z.status = "active" /\ NoPosition.status = "none"
      BY <2>1 DEF NoPosition
    <3>2. QED
      BY <3>1
  <2>4. position'[x] = z /\ \A y \in Positions \ {x} : position'[y] = position[y]
    BY <2>2 DEF ProductTyped
  <2>5. \A y \in Positions \ {x} : Deposited(y)' = Deposited(y)
    BY <1>4, <2>4 DEF Deposited, If, DepositOf
  <2>6. Knows(x, "investment")
    <3>1. InvestMovement(r) \in movements
      BY <1>1 DEF PocketInv
    <3>2. InvestMovement(r).key = <<x, "investment">>
      BY <1>3 DEF InvestMovement, Movement
    <3>3. QED
      BY <3>1, <3>2 DEF Knows, findMovementByKey
  <2>7. PICK n \in Int : n = 0 - r.amount
    BY <1>1
  <2>8. Deposited(x) = r.amount /\ Deposited(x)' = 0
    BY <1>1, <1>3, <1>8, <2>3, <2>4, <2>6, DepositIs DEF Deposited, If
  <2>9. Moves(Deposits, Deposits', Positions, n)
    <3>1. Deposited(x)' = Deposited(x) + n
      BY <1>1, <2>7, <2>8
    <3>2. QED
      BY <2>5, <3>1, DepositsMove
  <2>10. Moves(Wealth, Wealth', Accounts, r.amount)
    <3>1. balance' = balance /\ pocket \in [Accounts -> Nat] /\ balance \in [Accounts -> Nat]
      BY <1>1, <1>2 DEF ledgerVars, PocketInv, LedgerTypeOK
    <3>2. Wealth'[r.from] = Wealth[r.from] + r.amount
      BY <1>1, <2>2, <3>1 DEF Wealth
    <3>3. \A v \in Accounts \ {r.from} : Wealth'[v] = Wealth[v]
      BY <1>1, <2>2, <3>1 DEF Wealth
    <3>4. QED
      BY <1>1, <3>2, <3>3 DEF Moves
  <2>11. r.amount + 0 + n <= 0 /\ r.amount \in Int
    BY <1>1, <2>7
  <2>12. QED
    BY <1>4, <1>5, <1>6, <2>9, <2>10, <2>11, ProductBooks
<1>9. QED
  BY <1>7, <1>8

\* A claim moves the principal from pocket to wallet, with the interest.
LEMMA ClaimTurn ==
  ASSUME BooksAt, ProductTyped, NEW r \in Requests, ClaimPay(r)
  PROVE  BooksInv'
<1>1. /\ r.kind = "claim" /\ r.from \in Accounts /\ r.position \in Positions /\ Interest \in Nat
      /\ at[r] = "pay" /\ LedgerTypeOK /\ PocketInv
  BY RequestFields DEF ClaimPay, ProductTyped, BooksAt, TypeOK
<1>2. /\ UNCHANGED <<payVars, potVars, landed>>
      /\ \A q \in Requests \ {r} : at'[q] = at[q]
      /\ at'[r] # "mirror"
  BY DEF ClaimPay, GotoR, ProductTyped
<1>3. PICK x \in Positions : x = r.position
  BY <1>1
<1>4. PICK p \in PositionRow : p = position[x]
  BY DEF ProductTyped
<1>5. p.principal \in Nat
  BY DEF PositionRow
<1>6. PICK paid \in Nat : paid = p.principal + Interest
  BY <1>1, <1>5
<1>7. PICK t : t = "yield"
  OBVIOUS
<1>8. t \in RequestTags /\ t \notin ChainTags /\ t # "investment"
  BY <1>7 DEF RequestTags, ChainTags
<1>9. CASE UNCHANGED <<ledgerVars, position, pocket, claims>>
  <2>1. ProductMoves /\ \A y, s : Knows(y, s)' <=> Knows(y, s)
    BY <1>2, <1>9, NoneKnown DEF ProductMoves
  <2>2. Moves(Passes, Passes', Requests, 0) /\ \A q \in Requests : RequestFacts(q)'
    BY <1>2, <2>1, ChainRests
  <2>3. Moves(Wealth, Wealth', Accounts, 0)
    BY <1>1, <1>9, WealthMoves
  <2>4. \A y \in Positions : Deposited(y)' = Deposited(y)
    BY <1>9, <2>1 DEF Deposited, If, DepositOf
  <2>5. Moves(Deposits, Deposits', Positions, 0)
    BY <2>4 DEF Moves, Deposits
  <2>6. Interest * Cardinality(claims') = Interest * Cardinality(claims) + 0
    BY <1>9, SameClaims
  <2>7. 0 + 0 + 0 <= 0
    OBVIOUS
  <2>8. QED
    BY <2>1, <2>2, <2>3, <2>5, <2>6, <2>7, ProductBooks
<1>10. CASE ~UNCHANGED <<ledgerVars, position, pocket, claims>>
  <2>1. /\ r.ref \notin claims /\ ~Knows(r.ref, t)
        /\ position' = [position EXCEPT ![x].status = "claimed"]
        /\ pocket' = [pocket EXCEPT ![r.from] = pocket[r.from] - p.principal]
        /\ credit(<<r.ref, t>>, r.from, paid)
        /\ claims' = claims \cup {r.ref}
    BY <1>3, <1>4, <1>6, <1>7, <1>10 DEF ClaimPay, Knows
  <2>2. PostsOne(r.ref, t, r.from, paid)
    BY <1>1, <2>1, CreditEffect DEF Posts
  <2>3. /\ ProductMoves
        /\ \A y, s : (y # r.ref \/ s # t) => (Knows(y, s)' <=> Knows(y, s))
    BY <1>2, <1>8, <2>2, ProductPosted
  <2>4. Moves(Passes, Passes', Requests, 0) /\ \A q \in Requests : RequestFacts(q)'
    BY <1>2, <1>8, <2>3, ChainRests
  <2>5. position[x] # NoPosition /\ position'[x] # NoPosition
    <3>1. position[x].status = "active"
      BY <1>1, <1>3, <2>1 DEF PocketInv, ClaimHolds
    <3>2. PICK z : z = [p EXCEPT !.status = "claimed"]
      OBVIOUS
    <3>3. position' = [position EXCEPT ![x] = z]
      BY <1>4, <2>1, <3>2
    <3>4. z.status = "claimed"
      BY <3>2 DEF PositionRow
    <3>5. position'[x].status = "claimed"
      BY <3>3, <3>4 DEF ProductTyped
    <3>6. NoPosition.status = "none"
      BY DEF NoPosition
    <3>7. QED
      BY <3>1, <3>5, <3>6
  <2>6. \A y \in Positions \ {x} : position'[y] = position[y]
    BY <2>1 DEF ProductTyped
  <2>7. \A y \in Positions : Deposited(y)' = Deposited(y)
    BY <1>8, <2>3, <2>5, <2>6 DEF Deposited, If, DepositOf
  <2>8. Moves(Deposits, Deposits', Positions, 0)
    BY <2>7 DEF Moves, Deposits
  <2>9. Moves(Wealth, Wealth', Accounts, Interest)
    <3>1. balance \in [Accounts -> Nat] /\ pocket \in [Accounts -> Nat]
      BY <1>1 DEF LedgerTypeOK, PocketInv
    <3>2. /\ pocket'[r.from] = pocket[r.from] - p.principal /\ balance'[r.from] = balance[r.from] + paid
          /\ \A v \in Accounts \ {r.from} : pocket'[v] = pocket[v] /\ balance'[v] = balance[v]
      BY <1>1, <2>1, <2>2, <3>1 DEF PostsOne
    <3>3. Wealth'[r.from] = Wealth[r.from] + Interest
      <4>1. balance[r.from] \in Nat /\ pocket[r.from] \in Nat
        BY <1>1, <3>1
      <4>2. (balance[r.from] + paid) + (pocket[r.from] - p.principal)
              = (balance[r.from] + pocket[r.from]) + Interest
        BY <1>1, <1>5, <1>6, <4>1
      <4>3. QED
        BY <1>1, <3>2, <4>2 DEF Wealth
    <3>4. \A v \in Accounts \ {r.from} : Wealth'[v] = Wealth[v]
      BY <3>2 DEF Wealth
    <3>5. QED
      BY <1>1, <3>3, <3>4 DEF Moves
  <2>10. Interest * Cardinality(claims') = Interest * Cardinality(claims) + Interest
    <3>1. IsFiniteSet(claims)
      BY <1>1 DEF PocketInv
    <3>2. Cardinality(claims') = Cardinality(claims) + 1 /\ Cardinality(claims) \in Nat
      BY <2>1, <3>1, FS_AddElement, FS_CardinalityType
    <3>3. \A n \in Nat : Interest * (n + 1) = Interest * n + Interest
      BY <1>1
    <3>4. QED
      BY <3>2, <3>3
  <2>11. Interest + 0 + 0 <= Interest /\ Interest \in Int
    BY <1>1
  <2>12. QED
    BY <2>3, <2>4, <2>8, <2>9, <2>10, <2>11, ProductBooks
<1>11. QED
  BY <1>9, <1>10

\* All products.
LEMMA ProductsBooks ==
  ASSUME BooksAt, ProductTyped, EarlyEffects = {}, ProductWorks
  PROVE  BooksInv'
<1>1. ASSUME NEW r \in Requests, NEW form \in Forms, InflowSynced(r, form) PROVE BooksInv'
  <2>1. /\ r \in landed /\ r.kind \in {"crypto", "inflow"} /\ r.to \in Accounts
        /\ UNCHANGED <<payVars, potVars, productVars>>
        /\ credit(<<pickInflowIdempotencyRef(RecordId(r, form)), "in">>, r.to, r.amount)
    BY <1>1 DEF InflowSynced
  <2>2. r.from # r.to
    BY <1>1 DEF InflowSynced
  <2>3. pickInflowIdempotencyRef(RecordId(r, form)) = r.id
    BY DEF pickInflowIdempotencyRef, RecordId
  <2>4. InTag(r) = "in" /\ PaysIn(r)
    BY <2>1 DEF InTag, PaysIn
  <2>5. QED
    BY <2>1, <2>2, <2>3, <2>4, ArrivalTurn
<1>2. ASSUME NEW r \in Requests, LogSynced(r) PROVE BooksInv'
  <2>1. /\ r \in landed /\ r.kind \in {"crypto", "inflow"} /\ r.to \in Accounts /\ r.from # r.to
        /\ UNCHANGED <<payVars, potVars, productVars>>
        /\ credit(<<r.id, "in">>, r.to, r.amount)
    BY <1>2 DEF LogSynced
  <2>2. InTag(r) = "in" /\ PaysIn(r)
    BY <2>1 DEF InTag, PaysIn
  <2>3. QED
    BY <2>1, <2>2, ArrivalTurn
<1>3. ASSUME NEW r \in Requests, BankWebhook(r) PROVE BooksInv'
  <2>1. /\ r \in landed /\ r.kind = "bank"
        /\ UNCHANGED <<payVars, potVars, productVars>>
        /\ credit(<<r.id, IF r.rail = "looked up" THEN "flw_ref" ELSE "tx_ref">>, r.to, r.amount)
    BY <1>3 DEF BankWebhook
  <2>2. r.to \in Accounts /\ PaysIn(r)
    BY <2>1, RequestFields DEF PaysIn
  <2>3. InTag(r) = IF r.rail = "looked up" THEN "flw_ref" ELSE "tx_ref"
    BY <2>1 DEF InTag
  <2>4. QED
    BY <2>1, <2>2, <2>3, ArrivalTurn
<1>4. QED
  BY <1>1, <1>2, <1>3, InvestTurn, PlaceTurn, ClaimTurn, MirrorTurn, QuietProduct
     DEF ProductWorks, ProductStep

\* A flow or a conversation starts a call.
LEMMA StartsBooks ==
  ASSUME BooksAt, UNCHANGED productVars, NEW d \in Calls, d.kind \in Travels, StartsOne(d)
  PROVE  BooksInv'
<1>1. CallFacts(d) /\ pc \in [Calls -> Labels]
  BY FactsOf
<1>2. pc'[d] = "start" /\ OthersStay(d) /\ order' = order
  BY <1>1 DEF StartsOne, OthersStay
<1>3. SendsOnly'
  BY SendsStay DEF BooksAt, BooksInv, Facts, StartsOne
<1>4. \A y, s : Knows(y, s)' <=> Knows(y, s)
  BY NoneKnown DEF StartsOne
<1>5. CallFacts(d)'
  BY <1>1, <1>2, <1>4 DEF CallFacts, Debited, Back, Topped, Travels
<1>6. UNCHANGED <<ledgerVars, productVars, potVars>>
  BY DEF StartsOne
<1>7. QED
  BY <1>2, <1>3, <1>5, <1>6, QuietBooks DEF Holding

LEMMA NothingBooks ==
  ASSUME BooksAt, UNCHANGED productVars, NothingMoves
  PROVE  BooksInv'
<1>1. CallsStay /\ pot' = pot /\ day' = day /\ pc' = pc /\ UNCHANGED <<fetched, reversing>>
  BY DEF NothingMoves, CallsStay, payVars, potVars
<1>2. SendsOnly'
  BY <1>1, SendsStay DEF BooksAt, BooksInv, Facts
<1>3. day' \in Nat /\ day <= day'
  BY <1>1 DEF BooksAt
<1>4. QED
  BY <1>1, <1>2, <1>3, RestTurn

\* Every step of the consumer side.
LEMMA NextBooksInv ==
  ASSUME MoneyInv, PocketInv, BooksInv, FiniteBooks, PotsAlone, EarlyEffects = {},
         [AppNext]_everyVar
  PROVE  BooksInv'
<1>1. /\ BooksAt /\ ProductTyped /\ FlowTyped /\ TalkLive /\ LedgerTypeOK
  BY DEF BooksAt, MoneyInv, IInv, TypeOK, FlowTyped
<1>2. CASE Next /\ UNCHANGED <<productVars, flowVars, intentVars>>
  BY <1>1, <1>2, NextBooks
<1>3. CASE ProductWorks /\ UNCHANGED <<flowVars, intentVars>>
  BY <1>1, <1>3, ProductsBooks
<1>4. CASE FlowNext /\ UNCHANGED <<productVars, intentVars>>
  <2>1. NothingMoves \/ \E r \in Runs, i \in DOMAIN Schedules : StartsOne(PaymentOf[r][i])
    BY <1>1, <1>4, FlowKeeps
  <2>2. \A r \in Runs, i \in DOMAIN Schedules :
          PaymentOf[r][i] \in Calls /\ PaymentOf[r][i].kind \in Travels
    BY FlowCalls DEF FlowKinds, Travels
  <2>3. QED
    BY <1>1, <1>4, <2>1, <2>2, NothingBooks, StartsBooks
<1>5. CASE IntentNext /\ UNCHANGED <<productVars, flowVars>>
  <2>1. NothingMoves \/ \E a \in Attempts, name \in Payable : StartsOne(ExecutionOf[a][name])
    BY <1>1, <1>5, IntentsKeep
  <2>2. \A a \in Attempts, name \in Payable :
          ExecutionOf[a][name] \in Calls /\ ExecutionOf[a][name].kind \in Travels
    BY <1>1 DEF BooksAt, FiniteBooks, Payouts, Travels
  <2>3. QED
    BY <1>1, <1>5, <2>1, <2>2, NothingBooks, StartsBooks
<1>6. CASE UNCHANGED everyVar
  <2>1. NothingMoves /\ UNCHANGED productVars
    BY <1>6 DEF everyVar, appVars, vars, NothingMoves
  <2>2. QED
    BY <1>1, <2>1, NothingBooks
<1>7. QED
  BY <1>2, <1>3, <1>4, <1>5, <1>6 DEF AppNext, ProductNext, ProductWorks

-----------------------------------------------------------------------------
(* At the start. *)
LEMMA InitFacts ==
  ASSUME AppInit
  PROVE  /\ \A y, s : ~Knows(y, s)
         /\ \A c \in Calls : pc[c] \in {"start", "done"} /\ order[c] = "none"
         /\ \A r \in Requests : at[r] \in {"start", "done"}
         /\ pot = [x \in Pots |-> IF x \in OpenPots THEN [NoPot EXCEPT !.status = "active",
                                                                      !.principal = 2]
                                  ELSE NoPot]
         /\ held = [c \in Calls |-> NoPot] /\ day = 0
         /\ balance = Opening /\ pocket = [w \in Accounts |-> Cardinality(OpenPositions[w])]
         /\ claims = {} /\ SendsOnly
<1>1. Init /\ movements = {}
  BY DEF AppInit, ProductInit, Init, LedgerInit
<1>2. \A y, s : ~Knows(y, s)
  BY <1>1 DEF Knows, findMovementByKey
<1>3. \A c \in Calls : pc[c] \in {"start", "done"} /\ order[c] = "none"
  BY <1>1 DEF Init
<1>4. \A r \in Requests : at[r] \in {"start", "done"}
  BY DEF AppInit, ProductInit
<1>5. SendsOnly
  BY <1>1 DEF SendsOnly, Init
<1>6. QED
  BY <1>1, <1>2, <1>3, <1>4, <1>5 DEF AppInit, ProductInit, Init, LedgerInit

LEMMA InitPots ==
  ASSUME AppInit
  PROVE  /\ pot \in [Pots -> PotRow] /\ held \in [Calls -> PotRow]
         /\ \A x \in Pots : /\ pot[x].days = 0
                            /\ PotsNet[x] = IF x \in OpenPots THEN 2 ELSE 0
<1>1. NoPot \in PotRow /\ NoPot.days = 0 /\ PotBalance(NoPot) - NoPot.credits = 0
  BY DEF NoPot, PotRow, PotBalance
<1>2. PICK p : p = [NoPot EXCEPT !.status = "active", !.principal = 2]
  OBVIOUS
<1>3. p \in PotRow /\ p.days = 0 /\ PotBalance(p) - p.credits = 2
  <2>1. p = [status |-> "active", principal |-> 2, interest |-> 0, days |-> 0, credits |-> 0]
    BY <1>2 DEF NoPot
  <2>2. QED
    BY <2>1 DEF PotRow, PotBalance
<1>4. pot = [x \in Pots |-> IF x \in OpenPots THEN p ELSE NoPot] /\ held = [c \in Calls |-> NoPot]
  BY <1>2, InitFacts
<1>5. QED
  BY <1>1, <1>3, <1>4 DEF PotsNet

LEMMA InitBooks ==
  ASSUME AppInit, FiniteBooks
  PROVE  BooksInv
<1>1. PICK F : F = [w \in Accounts |-> Opening[w] + Cardinality(OpenPositions[w])]
  OBVIOUS
<1>2. IsFiniteSet(Accounts) /\ IsFiniteSet(Calls) /\ IsFiniteSet(Requests) /\ IsFiniteSet(Pots)
      /\ IsFiniteSet(Positions)
  BY PositionsFinite DEF FiniteBooks
<1>3. SumFunctionOnSet(Wealth, Accounts) = SumFunctionOnSet(F, Accounts)
  <2>1. \A w \in Accounts : Wealth[w] = F[w]
    BY <1>1, InitFacts DEF Wealth
  <2>2. QED
    BY <1>2, <2>1, SumAgrees
<1>4. SumFunctionOnSet(F, Accounts) \in Int
  <2>1. ASSUME NEW w \in Accounts PROVE F[w] \in Int
    <3>1. OpenPositions[w] \in SUBSET Positions
      BY RequestsAssumption
    <3>2. Cardinality(OpenPositions[w]) \in Nat
      BY <1>2, <3>1, FS_Subset, FS_CardinalityType
    <3>3. QED
      BY <1>1, <3>2, AccountsAssumption
  <2>2. QED
    BY <1>2, <2>1, SumInt
<1>5. SumFunctionOnSet(Floats, Calls) = 0
  <2>1. \A c \in Calls : Floats[c] = 0
    BY InitFacts DEF Floats, Float, If, Travelling, Debited, Topped, Holding
  <2>2. QED
    BY <1>2, <2>1, SumZeros
<1>6. SumFunctionOnSet(Passes, Requests) = 0
  <2>1. \A r \in Requests : Passes[r] = 0
    BY InitFacts DEF Passes, Passing, If, Out, Arrived
  <2>2. QED
    BY <1>2, <2>1, SumZeros
<1>7. SumFunctionOnSet(Deposits, Positions) = 0
  <2>1. \A x \in Positions : Deposits[x] = 0
    BY InitFacts DEF Deposits, Deposited, If
  <2>2. QED
    BY <1>2, <2>1, SumZeros
<1>8. PICK n \in Nat : n = Cardinality(OpenPots)
  <2>1. OpenPots \in SUBSET Pots
    BY CallsAssumption
  <2>2. QED
    BY <1>2, <2>1, FS_Subset, FS_CardinalityType
<1>9. PICK N \in Int : N = SumFunctionOnSet(PotsNet, Pots) /\ N <= n + n
  <2>1. OpenPots \in SUBSET Pots /\ IsFiniteSet(OpenPots)
    BY <1>2, CallsAssumption, FS_Subset
  <2>2. \A x \in Pots : PotsNet[x] = IF x \in OpenPots THEN 2 ELSE 0
    BY InitPots
  <2>3. SumFunctionOnSet(PotsNet, OpenPots) = SumFunctionOnSet(PotsNet, Pots)
    <3>1. PICK g : g = PotsNet
      OBVIOUS
    <3>2. (\A y \in OpenPots : g[y] \in Nat) /\ \A y \in Pots \ OpenPots : g[y] = 0
      BY <2>1, <2>2, <3>1
    <3>3. SumFunctionOnSet(g, OpenPots) = SumFunctionOnSet(g, Pots)
      BY <1>2, <2>1, <3>2, SumOfPart
    <3>4. QED
      BY <3>1, <3>3
  <2>4. PICK one : one = [x \in OpenPots |-> 1]
    OBVIOUS
  <2>5. SumFunctionOnSet(one, OpenPots) = n
    BY <1>8, <2>1, <2>4, SumOnes
  <2>6. SumFunctionOnSet(PotsNet, OpenPots)
          <= SumFunctionOnSet(one, OpenPots) + SumFunctionOnSet(one, OpenPots)
    <3>1. \A y \in OpenPots : PotsNet[y] \in Int /\ one[y] \in Int /\ PotsNet[y] <= one[y] + one[y]
      BY <2>1, <2>2, <2>4
    <3>2. QED
      BY <2>1, <3>1, SumBound
  <2>7. SumFunctionOnSet(PotsNet, Pots) \in Int
    <3>1. \A x \in Pots : PotsNet[x] \in Int
      BY <2>2
    <3>2. QED
      BY <1>2, <3>1, SumInt
  <2>8. QED
    BY <2>3, <2>5, <2>6, <2>7
<1>10. Interest * Cardinality(claims) = 0
  <2>1. claims = {} /\ Interest \in Nat
    BY InitFacts, RequestsAssumption
  <2>2. QED
    BY <2>1, FS_EmptySet
<1>11. Books
  <2>1. PICK W \in Int : W = SumFunctionOnSet(F, Accounts)
    BY <1>4
  <2>2. InHands = W + 0 + 0 + 0 + N
    BY <1>3, <1>5, <1>6, <1>7, <1>9, <2>1 DEF InHands
  <2>3. AtFirst = W + 2 * n
    BY <1>1, <1>8, <2>1 DEF AtFirst
  <2>4. W + 0 + 0 + 0 + N <= W + 2 * n + 0
    BY <1>9
  <2>5. QED
    BY <1>10, <2>2, <2>3, <2>4 DEF Books
<1>12. \A c \in Calls : CallFacts(c) /\ HeldFacts(c)
  BY InitFacts DEF CallFacts, HeldFacts, Debited, Back, Topped
<1>13. \A r \in Requests : RequestFacts(r)
  BY InitFacts DEF RequestFacts, Out, Arrived
<1>14. PotFacts
  <2>1. day = 0
    BY InitFacts
  <2>2. QED
    BY <2>1, InitPots DEF PotFacts
<1>15. QED
  BY <1>11, <1>12, <1>13, <1>14, InitFacts DEF BooksInv, Facts

-----------------------------------------------------------------------------
(* From the invariant to the balance. *)
SentCalls == {c \in Payouts : order[c] \in {"open", "paid"}}
CameCalls == {c \in TopUps : order[c] = "paid"}
OnChain == {r \in landed : r.kind = "crypto" /\ r.from # r.to}
Gone == {r \in OnChain : r.to = Outside}
Unmirrored == OnChain \ {r \in OnChain : Mirrored(r)}
BroughtIn == {r \in landed : r.kind # "crypto"}

\* The amounts of part of a set.
AmountsOf(S, P) == [y \in S |-> If(y \in P, y.amount)]

LEMMA AmountsSum ==
  ASSUME NEW S, IsFiniteSet(S), NEW P \in SUBSET S, \A y \in S : y.amount \in Nat
  PROVE  /\ SumFunctionOnSet(AmountsOf(S, P), S) = SumFunctionOnSet([y \in P |-> y.amount], P)
         /\ SumFunctionOnSet(AmountsOf(S, P), S) \in Nat
         /\ \A y \in S : AmountsOf(S, P)[y] \in Nat /\ AmountsOf(S, P)[y] = If(y \in P, y.amount)
<1>1. PICK g : g = AmountsOf(S, P)
  OBVIOUS
<1>2. PICK f : f = [y \in P |-> y.amount]
  OBVIOUS
<1>3. \A y \in S : g[y] = If(y \in P, y.amount) /\ g[y] \in Nat
  BY <1>1 DEF AmountsOf, If
<1>4. (\A y \in P : f[y] \in Nat /\ g[y] = f[y]) /\ \A y \in S \ P : g[y] = 0
  BY <1>2, <1>3 DEF If
<1>5. SumFunctionOnSet(f, P) = SumFunctionOnSet(g, S)
  BY <1>4, SumOfPart
<1>6. SumFunctionOnSet(g, S) \in Nat
  BY <1>3, SumNat
<1>7. QED
  BY <1>1, <1>2, <1>3, <1>5, <1>6

\* What was sent to a bank was taken from a wallet, and what a top-up brought came in.
LEMMA SentIsCovered ==
  ASSUME BooksAt, NEW c \in Calls
  PROVE  If(c \in SentCalls, c.amount) <= Float(c) + If(c \in CameCalls, c.amount)
<1>1. CallFacts(c) /\ c.amount \in Nat /\ order[c] \in {"none", "open", "paid", "failed"}
  BY FactsOf
<1>2. CASE c \in SentCalls
  <2>1. c \in Payouts /\ c.kind \in {"bank", "bill", "send"} /\ order[c] \in {"open", "paid"}
    BY <1>2 DEF SentCalls, Payouts
  <2>2. Debited(c) /\ ~Knows(c.id, "reversal")
    BY <1>1, <2>1, ReversedDebit DEF CallFacts
  <2>3. Travelling(c) /\ ~Topped(c)
    BY <1>1, <2>1, <2>2 DEF Travelling, Travels, Back, CallFacts
  <2>4. QED
    BY <1>1, <2>3 DEF Float, If
<1>3. CASE c \notin SentCalls
  <2>1. Topped(c) => c \in CameCalls
    BY <1>1 DEF CallFacts, CameCalls, TopUps
  <2>2. QED
    BY <1>1, <1>3, <2>1 DEF Float, If
<1>4. QED
  BY <1>2, <1>3

\* What left over a chain was taken from a wallet or is unmirrored, and what was credited
\* for a payment came in or is unmirrored.
LEMMA GoneIsCovered ==
  ASSUME BooksAt, NEW r \in Requests
  PROVE  If(r \in Gone, r.amount)
           <= Passing(r) + (If(r \in BroughtIn, r.amount) + If(r \in Unmirrored, r.amount))
<1>1. RequestFacts(r) /\ r.amount \in Nat
  BY RequestFields DEF BooksAt, BooksInv, Facts
<1>2. r \in OnChain /\ ~Out(r) => r \in Unmirrored
  BY DEF OnChain, Unmirrored, Out, Mirrored, Knows, findMovementByKey, Movement
<1>3. r \in Gone => r \in OnChain /\ ~Arrived(r)
  BY <1>1, RequestsAssumption DEF Gone, RequestFacts
<1>4. Arrived(r) => r \in BroughtIn \/ r \in OnChain
  BY <1>1 DEF RequestFacts, BroughtIn, OnChain
<1>5. QED
  BY <1>1, <1>2, <1>3, <1>4 DEF Passing, If

LEMMA InvBooks ==
  ASSUME BooksAt, landed \subseteq Requests
  PROVE  BooksBalance
<1>1. /\ IsFiniteSet(Accounts) /\ IsFiniteSet(Calls) /\ IsFiniteSet(Requests) /\ IsFiniteSet(Pots)
      /\ IsFiniteSet(Positions) /\ LedgerTypeOK /\ PocketInv /\ PotFacts /\ Books
      /\ pot \in [Pots -> PotRow]
  BY PositionsFinite DEF BooksAt, FiniteBooks, TypeOK, BooksInv, Facts, PotFacts
<1>2. (\A c \in Calls : c.amount \in Nat) /\ \A r \in Requests : r.amount \in Nat
  BY CallFields, RequestFields
<1>3. /\ SentCalls \in SUBSET Calls /\ CameCalls \in SUBSET Calls
      /\ Gone \in SUBSET Requests /\ BroughtIn \in SUBSET Requests /\ Unmirrored \in SUBSET Requests
  BY DEF SentCalls, CameCalls, Payouts, TopUps, Gone, OnChain, BroughtIn, Unmirrored
<1>4. PICK W \in Int, F \in Int, P \in Int, D \in Nat, N \in Int :
        /\ W = SumFunctionOnSet(Wealth, Accounts) /\ F = SumFunctionOnSet(Floats, Calls)
        /\ P = SumFunctionOnSet(Passes, Requests) /\ D = SumFunctionOnSet(Deposits, Positions)
        /\ N = SumFunctionOnSet(PotsNet, Pots)
  <2>1. \A x \in Positions : Deposits[x] \in Nat
    BY <1>1, DepositNat DEF Deposits
  <2>2. SumFunctionOnSet(Deposits, Positions) \in Nat
    BY <1>1, <2>1, SumNat
  <2>3. SumFunctionOnSet(Wealth, Accounts) \in Int
    BY <1>1, TermsInt, SumInt
  <2>4. SumFunctionOnSet(Floats, Calls) \in Int
    BY <1>1, TermsInt, SumInt
  <2>5. SumFunctionOnSet(Passes, Requests) \in Int
    BY <1>1, TermsInt, SumInt
  <2>6. SumFunctionOnSet(PotsNet, Pots) \in Int
    BY <1>1, TermsInt, SumInt
  <2>7. QED
    BY <2>2, <2>3, <2>4, <2>5, <2>6
\* Calls.
<1>5. PICK S \in Nat, C \in Nat :
        /\ S = SumFunctionOnSet([c \in SentCalls |-> c.amount], SentCalls)
        /\ C = SumFunctionOnSet([c \in CameCalls |-> c.amount], CameCalls)
        /\ S <= F + C
  <2>1. PICK s, m : s = AmountsOf(Calls, SentCalls) /\ m = AmountsOf(Calls, CameCalls)
    OBVIOUS
  <2>2. /\ SumFunctionOnSet(s, Calls) = SumFunctionOnSet([c \in SentCalls |-> c.amount], SentCalls)
        /\ SumFunctionOnSet(s, Calls) \in Nat
        /\ \A c \in Calls : s[c] \in Nat /\ s[c] = If(c \in SentCalls, c.amount)
    BY <1>1, <1>2, <1>3, <2>1, AmountsSum
  <2>3. /\ SumFunctionOnSet(m, Calls) = SumFunctionOnSet([c \in CameCalls |-> c.amount], CameCalls)
        /\ SumFunctionOnSet(m, Calls) \in Nat
        /\ \A c \in Calls : m[c] \in Nat /\ m[c] = If(c \in CameCalls, c.amount)
    BY <1>1, <1>2, <1>3, <2>1, AmountsSum
  <2>4. \A c \in Calls : Floats[c] \in Int /\ Floats[c] = Float(c)
    BY <1>1, TermsInt DEF Floats
  <2>5. \A c \in Calls : s[c] \in Int /\ Floats[c] \in Int /\ m[c] \in Int /\ s[c] <= Floats[c] + m[c]
    BY <2>2, <2>3, <2>4, SentIsCovered
  <2>6. SumFunctionOnSet(s, Calls) <= SumFunctionOnSet(Floats, Calls) + SumFunctionOnSet(m, Calls)
    BY <1>1, <2>5, SumBound
  <2>7. QED
    BY <1>4, <2>2, <2>3, <2>6
\* Payments on a chain and to bank accounts.
<1>6. PICK G \in Nat, B \in Nat, U \in Nat :
        /\ G = SumFunctionOnSet([r \in Gone |-> r.amount], Gone)
        /\ B = SumFunctionOnSet([r \in BroughtIn |-> r.amount], BroughtIn)
        /\ U = SumFunctionOnSet([r \in Unmirrored |-> r.amount], Unmirrored)
        /\ G <= P + (B + U)
  <2>1. PICK g, b, u : /\ g = AmountsOf(Requests, Gone) /\ b = AmountsOf(Requests, BroughtIn)
                       /\ u = AmountsOf(Requests, Unmirrored)
    OBVIOUS
  <2>2. /\ SumFunctionOnSet(g, Requests) = SumFunctionOnSet([r \in Gone |-> r.amount], Gone)
        /\ SumFunctionOnSet(g, Requests) \in Nat
        /\ \A r \in Requests : g[r] \in Nat /\ g[r] = If(r \in Gone, r.amount)
    BY <1>1, <1>2, <1>3, <2>1, AmountsSum
  <2>3. /\ SumFunctionOnSet(b, Requests) = SumFunctionOnSet([r \in BroughtIn |-> r.amount], BroughtIn)
        /\ SumFunctionOnSet(b, Requests) \in Nat
        /\ \A r \in Requests : b[r] \in Nat /\ b[r] = If(r \in BroughtIn, r.amount)
    BY <1>1, <1>2, <1>3, <2>1, AmountsSum
  <2>4. /\ SumFunctionOnSet(u, Requests) = SumFunctionOnSet([r \in Unmirrored |-> r.amount], Unmirrored)
        /\ SumFunctionOnSet(u, Requests) \in Nat
        /\ \A r \in Requests : u[r] \in Nat /\ u[r] = If(r \in Unmirrored, r.amount)
    BY <1>1, <1>2, <1>3, <2>1, AmountsSum
  <2>5. \A r \in Requests : Passes[r] \in Int /\ Passes[r] = Passing(r)
    BY <1>1, TermsInt DEF Passes
  <2>6. PICK h : h = [r \in Requests |-> b[r] + u[r]]
    OBVIOUS
  <2>7. \A r \in Requests : h[r] \in Int /\ b[r] \in Int /\ u[r] \in Int /\ h[r] <= b[r] + u[r]
    BY <2>3, <2>4, <2>6
  <2>8. SumFunctionOnSet(h, Requests) <= SumFunctionOnSet(b, Requests) + SumFunctionOnSet(u, Requests)
    BY <1>1, <2>7, SumBound
  <2>9. \A r \in Requests : g[r] \in Int /\ Passes[r] \in Int /\ h[r] \in Int /\ g[r] <= Passes[r] + h[r]
    BY <2>2, <2>3, <2>4, <2>5, <2>6, <2>7, GoneIsCovered
  <2>10. SumFunctionOnSet(g, Requests) <= SumFunctionOnSet(Passes, Requests) + SumFunctionOnSet(h, Requests)
    BY <1>1, <2>9, SumBound
  <2>11. SumFunctionOnSet(h, Requests) \in Int
    BY <1>1, <2>7, SumInt
  <2>12. PICK H \in Int, x \in Nat, y \in Nat, z \in Nat :
           /\ H = SumFunctionOnSet(h, Requests) /\ x = SumFunctionOnSet(g, Requests)
           /\ y = SumFunctionOnSet(b, Requests) /\ z = SumFunctionOnSet(u, Requests)
    BY <2>2, <2>3, <2>4, <2>11
  <2>13. x <= P + (y + z)
    <3>1. x <= P + H /\ H <= y + z
      BY <1>4, <2>8, <2>10, <2>12
    <3>2. QED
      BY <3>1
  <2>14. /\ x = SumFunctionOnSet([r \in Gone |-> r.amount], Gone)
         /\ y = SumFunctionOnSet([r \in BroughtIn |-> r.amount], BroughtIn)
         /\ z = SumFunctionOnSet([r \in Unmirrored |-> r.amount], Unmirrored)
    BY <2>2, <2>3, <2>4, <2>12
  <2>15. QED
    BY <2>13, <2>14
\* Pots.
<1>7. PICK K \in Int, T \in Int :
        /\ K = SumFunctionOnSet([x \in Pots |-> pot[x].credits], Pots)
        /\ T = SumFunctionOnSet([x \in Pots |-> PotBalance(pot[x])], Pots)
        /\ T <= N + K
  <2>1. PICK k, t : k = [x \in Pots |-> pot[x].credits] /\ t = [x \in Pots |-> PotBalance(pot[x])]
    OBVIOUS
  <2>2. \A x \in Pots : t[x] \in Int /\ PotsNet[x] \in Int /\ k[x] \in Int /\ t[x] <= PotsNet[x] + k[x]
    BY <1>1, <2>1, NetInt DEF PotsNet
  <2>3. SumFunctionOnSet(t, Pots) <= SumFunctionOnSet(PotsNet, Pots) + SumFunctionOnSet(k, Pots)
    BY <1>1, <2>2, SumBound
  <2>4. SumFunctionOnSet(t, Pots) \in Int /\ SumFunctionOnSet(k, Pots) \in Int
    BY <1>1, <2>2, SumInt
  <2>5. QED
    BY <1>4, <2>1, <2>3, <2>4
<1>8. PICK A \in Int, n \in Nat, I \in Int :
        /\ A = SumFunctionOnSet([w \in Accounts |-> Opening[w] + Cardinality(OpenPositions[w])], Accounts)
        /\ n = Cardinality(OpenPots) /\ I = Interest * Cardinality(claims)
  <2>1. ASSUME NEW w \in Accounts PROVE Opening[w] + Cardinality(OpenPositions[w]) \in Int
    <3>1. OpenPositions[w] \in SUBSET Positions
      BY RequestsAssumption
    <3>2. Cardinality(OpenPositions[w]) \in Nat
      BY <1>1, <3>1, FS_Subset, FS_CardinalityType
    <3>3. QED
      BY <3>2, AccountsAssumption
  <2>2. PICK f : f = [w \in Accounts |-> Opening[w] + Cardinality(OpenPositions[w])]
    OBVIOUS
  <2>3. SumFunctionOnSet(f, Accounts) \in Int
    BY <1>1, <2>1, <2>2, SumInt
  <2>4. OpenPots \in SUBSET Pots
    BY CallsAssumption
  <2>5. Cardinality(OpenPots) \in Nat
    BY <1>1, <2>4, FS_Subset, FS_CardinalityType
  <2>6. Interest \in Nat /\ Cardinality(claims) \in Nat
    BY <1>1, RequestsAssumption, FS_CardinalityType DEF PocketInv
  <2>7. Interest * Cardinality(claims) \in Int
    BY <2>6
  <2>8. QED
    BY <2>2, <2>3, <2>5, <2>7
<1>9. W + F + P + D + N <= (A + 2 * n) + I
  BY <1>1, <1>4, <1>8 DEF Books, InHands, AtFirst
<1>10. W + T + S + G <= A + 2 * n + I + C + K + B + U
  BY <1>5, <1>6, <1>7, <1>9
<1>11. /\ Total(LAMBDA w : balance[w] + pocket[w], Accounts) = W
       /\ Total(LAMBDA x : PotBalance(pot[x]), Pots) = T
       /\ Total(LAMBDA c : c.amount, SentCalls) = S
       /\ Total(LAMBDA r : r.amount, Gone) = G
       /\ Total(LAMBDA w : Opening[w] + Cardinality(OpenPositions[w]), Accounts) = A
       /\ Total(LAMBDA c : c.amount, CameCalls) = C
       /\ Total(LAMBDA x : pot[x].credits, Pots) = K
       /\ Total(LAMBDA r : r.amount, BroughtIn) = B
       /\ Total(LAMBDA r : r.amount, Unmirrored) = U
  BY <1>4, <1>5, <1>6, <1>7, <1>8 DEF Total, Wealth
<1>12. QED
  BY <1>8, <1>10, <1>11 DEF BooksBalance, SentCalls, CameCalls, OnChain, Gone, BroughtIn, Unmirrored

\* Only requests land.
LEMMA LandedAreRequests ==
  ASSUME landed \subseteq Requests, [AppNext]_everyVar
  PROVE  landed' \subseteq Requests
<1>1. CASE UNCHANGED productVars
  BY <1>1 DEF productVars
<1>2. ASSUME NEW r \in Requests, ProductStep(r) PROVE landed' \subseteq Requests
  BY <1>2 DEF ProductStep, InvestLook, InvestDebit, InvestPlace, ClaimLook, ClaimPay, SendOnChain,
              Mirror, MirrorFee, PaidIn, LogSynced, BankWebhook, RequestStops, productVars
<1>3. ASSUME NEW r \in Requests, NEW form \in Forms, InflowSynced(r, form) PROVE landed' \subseteq Requests
  BY <1>1, <1>3 DEF InflowSynced
<1>4. QED
  BY <1>1, <1>2, <1>3 DEF AppNext, ProductNext, everyVar, appVars

\* Wallets, pots, pockets and what left never exceed what was there, what came in and the
\* interest (creditUsdBalance, debitUsdBalance and everything that calls them): whatever
\* calls, products, flows and conversations run at once and wherever they stop, unless a
\* sync takes a transfer to oneself for an inflow, an order is taken whose answer is lost,
\* or two withdrawals from one pot overlap, of which the second overwrites the first.
THEOREM BooksAddUp ==
  FiniteBooks /\ "lost" \notin Answers /\ EarlyEffects = {} =>
    (AppSpec /\ []PotsAlone => []BooksBalance)
<1>. SUFFICES ASSUME FiniteBooks, "lost" \notin Answers, EarlyEffects = {}
              PROVE  AppSpec /\ []PotsAlone => []BooksBalance
  OBVIOUS
<1>1. AppInit => MoneyInv /\ PocketInv /\ BooksInv /\ landed \subseteq Requests
  BY InitMoney, InitPocket, InitBooks DEF AppInit, ProductInit
<1>2. MoneyInv /\ PocketInv /\ BooksInv /\ landed \subseteq Requests /\ PotsAlone /\ [AppNext]_everyVar
        => (MoneyInv /\ PocketInv /\ BooksInv /\ landed \subseteq Requests)'
  <2>1. MoneyInv => AppSound
    BY DEF MoneyInv, AppSound, IInv
  <2>2. QED
    BY <2>1, StepMoney, NextPocket, NextBooksInv, LandedAreRequests
<1>3. MoneyInv /\ PocketInv /\ BooksInv /\ landed \subseteq Requests => BooksBalance
  <2>1. MoneyInv /\ PocketInv /\ BooksInv => BooksAt
    BY DEF BooksAt, MoneyInv, IInv, FlowTyped
  <2>2. QED
    BY <2>1, InvBooks
<1>4. QED
  BY <1>1, <1>2, <1>3, PTL DEF AppSpec
=============================================================================
