----------------------------- MODULE LedgerLemmas -----------------------------
(***************************************************************************)
(* What the operations of the infrastructure ledger keep, for any wallets, *)
(* keys, references and amounts: the lemmas that the proofs about every    *)
(* module with a ledger rest on.  A posting that is covered leaves natural *)
(* buckets (AfterType); one that is admissible takes a well-formed ledger  *)
(* to a well-formed ledger (PostWell).  The second part is about sums over *)
(* finite sets, in which facts about what a bucket holds are stated, the   *)
(* third about what the network does to payments (StellarAdapter).         *)
(***************************************************************************)
EXTENDS InfraLedgerOps, StellarAdapter, FiniteSetTheorems, SequenceTheorems,
        WellFoundedInduction, TLAPS

\* Types, the audit trail and the two uniqueness facts together.
Well(L) == L \in Ledger /\ Audited(L) /\ KeysOnce(L) /\ SlotsOnce(L)

-----------------------------------------------------------------------------
\* A covered operation leaves no bucket negative.
LEMMA AfterType ==
  ASSUME NEW op \in OpNames, NEW b \in Balance, NEW a \in Nat, Covers(op, b, a)
  PROVE  After(op, b, a) \in Balance
<1>1. CASE op = "credit"
  <2>1. After(op, b, a) = creditOrgWallet(b, a)
    BY <1>1 DEF After
  <2>2. creditOrgWallet(b, a) \in Balance
    BY <1>1 DEF creditOrgWallet, Balance, Covers
  <2>3. QED
    BY <2>1, <2>2
<1>2. CASE op = "creditPending"
  <2>1. After(op, b, a) = creditOrgWalletPending(b, a)
    BY <1>2 DEF After
  <2>2. creditOrgWalletPending(b, a) \in Balance
    BY <1>2 DEF creditOrgWalletPending, Balance, Covers
  <2>3. QED
    BY <2>1, <2>2
<1>3. CASE op = "releasePending"
  <2>1. After(op, b, a) = releasePendingToAvailable(b, a)
    BY <1>3 DEF After
  <2>2. releasePendingToAvailable(b, a) \in Balance
    BY <1>3 DEF releasePendingToAvailable, Balance, Covers
  <2>3. QED
    BY <2>1, <2>2
<1>4. CASE op = "debit"
  <2>1. After(op, b, a) = debitOrgWallet(b, a)
    BY <1>4 DEF After
  <2>2. debitOrgWallet(b, a) \in Balance
    BY <1>4 DEF debitOrgWallet, Balance, Covers
  <2>3. QED
    BY <2>1, <2>2
<1>5. CASE op = "lock"
  <2>1. After(op, b, a) = lockOrgFunds(b, a)
    BY <1>5 DEF After
  <2>2. lockOrgFunds(b, a) \in Balance
    BY <1>5 DEF lockOrgFunds, Balance, Covers
  <2>3. QED
    BY <2>1, <2>2
<1>6. CASE op = "release"
  <2>1. After(op, b, a) = releaseOrgFunds(b, a)
    BY <1>6 DEF After
  <2>2. releaseOrgFunds(b, a) \in Balance
    BY <1>6 DEF releaseOrgFunds, Balance, Covers
  <2>3. QED
    BY <2>1, <2>2
<1>7. CASE op = "finalize"
  <2>1. After(op, b, a) = finalizeLockedDebit(b, a)
    BY <1>7 DEF After
  <2>2. finalizeLockedDebit(b, a) \in Balance
    BY <1>7 DEF finalizeLockedDebit, Balance, Covers
  <2>3. QED
    BY <2>1, <2>2
<1>8. QED
  BY <1>1, <1>2, <1>3, <1>4, <1>5, <1>6, <1>7 DEF OpNames

\* The balance of a row after a leg, and the movement the leg appends.
NewBalance(L, l) == After(l.op, L.rows[l.wallet].bal, l.amount)

NewMovement(L, l) ==
  [key |-> l.key, op |-> l.op, type |-> l.type, ref |-> l.ref,
   amount |-> l.amount, after |-> NewBalance(L, l)]

\* Post in terms of these, field by field.
LEMMA PostFields ==
  ASSUME NEW L \in Ledger, NEW l \in Leg, Covers(l.op, L.rows[l.wallet].bal, l.amount)
  PROVE  /\ Post(L, l).rows = [L.rows EXCEPT ![l.wallet] = [@ EXCEPT !.bal = NewBalance(L, l)]]
         /\ Post(L, l).movements =
              [L.movements EXCEPT ![l.wallet] = Append(@, NewMovement(L, l))]
         /\ NewBalance(L, l) \in Balance
         /\ NewMovement(L, l) \in Movement
         /\ Post(L, l) \in Ledger
<1>1. /\ l.op \in OpNames /\ l.wallet \in Wallets /\ l.amount \in Nat
      /\ l.amount \in Amounts /\ l.key \in Keys /\ l.type \in MovementTypes
      /\ l.ref \in Refs \cup {NoRef}
  BY AmountsAssumption DEF Leg
<1>2. L.rows[l.wallet] \in Row /\ L.rows[l.wallet].bal \in Balance
  BY <1>1 DEF Ledger, Row
<1>3. NewBalance(L, l) \in Balance
  BY <1>1, <1>2, AfterType DEF NewBalance
<1>4. NewMovement(L, l) \in Movement
  BY <1>1, <1>3 DEF NewMovement, Movement
<1>5. /\ Post(L, l).rows = [L.rows EXCEPT ![l.wallet] = [@ EXCEPT !.bal = NewBalance(L, l)]]
      /\ Post(L, l).movements = [L.movements EXCEPT ![l.wallet] = Append(@, NewMovement(L, l))]
      /\ Post(L, l) = [rows |-> Post(L, l).rows, movements |-> Post(L, l).movements]
  BY DEF Post, insertMovement, MovementOf, NewBalance, NewMovement
<1>6. [L.rows[l.wallet] EXCEPT !.bal = NewBalance(L, l)] \in Row
  BY <1>2, <1>3 DEF Row
<1>7. Post(L, l).rows \in [Wallets -> Row]
  BY <1>1, <1>5, <1>6 DEF Ledger
<1>8. Append(L.movements[l.wallet], NewMovement(L, l)) \in Seq(Movement)
  BY <1>1, <1>4 DEF Ledger
<1>9. Post(L, l).movements \in [Wallets -> Seq(Movement)]
  BY <1>1, <1>5, <1>8 DEF Ledger
<1>10. QED
  BY <1>3, <1>4, <1>5, <1>7, <1>9 DEF Ledger

\* The movements of the posted wallet are the old ones and the new one; the
\* other wallets keep theirs.
LEMMA PostMovements ==
  ASSUME NEW L \in Ledger, NEW l \in Leg, Covers(l.op, L.rows[l.wallet].bal, l.amount),
         NEW w \in Wallets
  PROVE  LET old == L.movements[w]
             new == Post(L, l).movements[w]
         IN /\ w # l.wallet => new = old /\ Post(L, l).rows[w] = L.rows[w]
            /\ w = l.wallet => /\ Len(new) = Len(old) + 1
                               /\ new[Len(new)] = NewMovement(L, l)
                               /\ Post(L, l).rows[w].bal = NewBalance(L, l)
                               /\ Post(L, l).rows[w].status = L.rows[w].status
            /\ Len(old) \in Nat
            /\ \A i \in 1..Len(old) : new[i] = old[i]
<1>1. l.wallet \in Wallets
  BY DEF Leg
<1>2. L.movements \in [Wallets -> Seq(Movement)] /\ L.rows \in [Wallets -> Row]
  BY DEF Ledger
<1>3. /\ Post(L, l).rows = [L.rows EXCEPT ![l.wallet] = [@ EXCEPT !.bal = NewBalance(L, l)]]
      /\ Post(L, l).movements =
              [L.movements EXCEPT ![l.wallet] = Append(@, NewMovement(L, l))]
      /\ NewMovement(L, l) \in Movement
  BY PostFields
<1>4. CASE w # l.wallet
  <2>1. Post(L, l).movements[w] = L.movements[w] /\ Post(L, l).rows[w] = L.rows[w]
    BY <1>1, <1>2, <1>3, <1>4
  <2>2. L.movements[w] \in Seq(Movement)
    BY <1>2
  <2>3. QED
    BY <1>4, <2>1, <2>2
<1>5. CASE w = l.wallet
  <2>1. Post(L, l).movements[w] = Append(L.movements[w], NewMovement(L, l))
    BY <1>1, <1>2, <1>3, <1>5
  <2>2. Post(L, l).rows[w] = [L.rows[w] EXCEPT !.bal = NewBalance(L, l)]
    BY <1>1, <1>2, <1>3, <1>5
  <2>3. L.movements[w] \in Seq(Movement) /\ L.rows[w] \in Row
    BY <1>2
  <2>4. QED
    BY <1>3, <1>5, <2>1, <2>2, <2>3 DEF Row
<1>6. QED
  BY <1>4, <1>5

\* One more link keeps the chain unbroken.
LEMMA PostAudited ==
  ASSUME NEW L \in Ledger, NEW l \in Leg, Admissible(L, l), Audited(L)
  PROVE  Audited(Post(L, l))
<1>. SUFFICES ASSUME NEW w \in Wallets
              PROVE  /\ ChainOK(Post(L, l).movements[w])
                     /\ Post(L, l).rows[w].bal = Current(Post(L, l).movements[w])
  BY DEF Audited
<1>. DEFINE old == L.movements[w]
            new == Post(L, l).movements[w]
<1>1. ChainOK(old) /\ L.rows[w].bal = Current(old)
  BY DEF Audited
<1>2. CASE w # l.wallet
  BY <1>1, <1>2, PostMovements DEF Admissible
<1>3. CASE w = l.wallet
  <2>1. /\ Len(old) \in Nat /\ Len(new) = Len(old) + 1
        /\ new[Len(new)] = NewMovement(L, l)
        /\ Post(L, l).rows[w].bal = NewBalance(L, l)
        /\ \A i \in 1..Len(old) : new[i] = old[i]
    BY <1>3, PostMovements DEF Admissible
  <2>2. old \in Seq(Movement) /\ new \in Seq(Movement)
    <3>1. Post(L, l) \in Ledger
      BY PostFields DEF Admissible
    <3>2. QED
      BY <3>1 DEF Ledger
  <2>3. ASSUME NEW i \in 1..Len(old)
        PROVE  Before(new, i) = Before(old, i)
    <3>1. CASE i = 1
      BY <3>1 DEF Before
    <3>2. CASE i # 1
      <4>1. i - 1 \in 1..Len(old)
        BY <2>1, <3>2
      <4>2. QED
        BY <2>1, <3>2, <4>1 DEF Before
    <3>3. QED
      BY <3>1, <3>2
  <2>4. Before(new, Len(new)) = L.rows[w].bal
    BY <1>1, <2>1, <2>2 DEF Before, Current
  <2>5. ASSUME NEW i \in 1..Len(new)
        PROVE  /\ Covers(new[i].op, Before(new, i), new[i].amount)
               /\ new[i].after = After(new[i].op, Before(new, i), new[i].amount)
    <3>1. CASE i \in 1..Len(old)
      BY <1>1, <2>1, <2>3, <3>1 DEF ChainOK
    <3>2. CASE i = Len(new)
      <4>1. new[i].op = l.op /\ new[i].amount = l.amount /\ new[i].after = NewBalance(L, l)
        BY <2>1, <3>2 DEF NewMovement
      <4>2. QED
        BY <1>3, <2>4, <3>2, <4>1 DEF Admissible, NewBalance
    <3>3. QED
      BY <2>1, <3>1, <3>2
  <2>6. ChainOK(new)
    BY <2>5 DEF ChainOK
  <2>7. new # <<>> /\ Current(new) = NewBalance(L, l)
    BY <2>1, <2>2 DEF Current, NewMovement
  <2>8. QED
    BY <2>1, <2>6, <2>7
<1>4. QED
  BY <1>2, <1>3

\* The key of an admissible leg is new, so keys stay unique over all wallets.
LEMMA PostKeysOnce ==
  ASSUME NEW L \in Ledger, NEW l \in Leg, Admissible(L, l), KeysOnce(L)
  PROVE  KeysOnce(Post(L, l))
<1>. DEFINE old(w) == L.movements[w]
            new(w) == Post(L, l).movements[w]
<1>. SUFFICES ASSUME NEW v \in Wallets, NEW w \in Wallets,
                     NEW i \in 1..Len(new(v)), NEW j \in 1..Len(new(w)),
                     new(v)[i].key = new(w)[j].key
              PROVE  v = w /\ i = j
  BY DEF KeysOnce
<1>1. ASSUME NEW u \in Wallets, NEW n \in 1..Len(new(u))
      PROVE  \/ n \in 1..Len(old(u)) /\ new(u)[n] = old(u)[n] /\ new(u)[n].key # l.key
             \/ u = l.wallet /\ n = Len(old(u)) + 1 /\ new(u)[n].key = l.key
  <2>1. /\ u # l.wallet => new(u) = old(u)
        /\ u = l.wallet => /\ Len(new(u)) = Len(old(u)) + 1
                           /\ new(u)[Len(new(u))] = NewMovement(L, l)
        /\ Len(old(u)) \in Nat
        /\ \A k \in 1..Len(old(u)) : new(u)[k] = old(u)[k]
    BY PostMovements DEF Admissible
  <2>2. \A k \in 1..Len(old(u)) : old(u)[k].key # l.key
    BY DEF Admissible, Posted
  <2>3. NewMovement(L, l).key = l.key
    BY DEF NewMovement
  <2>4. CASE n \in 1..Len(old(u))
    BY <2>1, <2>2, <2>4
  <2>5. CASE n \notin 1..Len(old(u))
    <3>1. u = l.wallet /\ n = Len(old(u)) + 1 /\ n = Len(new(u))
      BY <2>1, <2>5
    <3>2. QED
      BY <2>1, <2>3, <3>1
  <2>6. QED
    BY <2>4, <2>5
<1>2. CASE new(v)[i].key = l.key
  <2>1. v = l.wallet /\ i = Len(old(v)) + 1
    BY <1>1, <1>2
  <2>2. w = l.wallet /\ j = Len(old(w)) + 1
    BY <1>1, <1>2
  <2>3. QED
    BY <2>1, <2>2
<1>3. CASE new(v)[i].key # l.key
  <2>1. i \in 1..Len(old(v)) /\ new(v)[i] = old(v)[i]
    BY <1>1, <1>3
  <2>2. j \in 1..Len(old(w)) /\ new(w)[j] = old(w)[j]
    BY <1>1, <1>3
  <2>3. QED
    BY <2>1, <2>2 DEF KeysOnce
<1>4. QED
  BY <1>2, <1>3

\* The slot of an admissible leg is free, so slots stay unique within a wallet.
LEMMA PostSlotsOnce ==
  ASSUME NEW L \in Ledger, NEW l \in Leg, Admissible(L, l), SlotsOnce(L)
  PROVE  SlotsOnce(Post(L, l))
<1>. SUFFICES ASSUME NEW w \in Wallets,
                     NEW i \in 1..Len(Post(L, l).movements[w]),
                     NEW j \in 1..Len(Post(L, l).movements[w]),
                     Post(L, l).movements[w][i].ref # NoRef,
                     Post(L, l).movements[w][i].ref = Post(L, l).movements[w][j].ref,
                     Post(L, l).movements[w][i].type = Post(L, l).movements[w][j].type
              PROVE  i = j
  BY DEF SlotsOnce
<1>. DEFINE old == L.movements[w]
            new == Post(L, l).movements[w]
<1>1. /\ w # l.wallet => new = old
      /\ w = l.wallet => /\ Len(new) = Len(old) + 1
                         /\ new[Len(new)] = NewMovement(L, l)
      /\ Len(old) \in Nat
      /\ \A k \in 1..Len(old) : new[k] = old[k]
  BY PostMovements DEF Admissible
<1>2. CASE i \in 1..Len(old) /\ j \in 1..Len(old)
  BY <1>1, <1>2 DEF SlotsOnce
<1>3. CASE ~(i \in 1..Len(old) /\ j \in 1..Len(old))
  <2>1. w = l.wallet
    BY <1>1, <1>3
  <2>2. NewMovement(L, l).ref = l.ref /\ NewMovement(L, l).type = l.type
    BY DEF NewMovement
  <2>3. \A k \in 1..Len(old) :
           l.ref # NoRef => ~(old[k].ref = l.ref /\ old[k].type = l.type)
    BY <2>1 DEF Admissible, SlotTaken
  <2>4. CASE i \in 1..Len(old)
    <3>1. j = Len(new)
      BY <1>1, <1>3, <2>1, <2>4
    <3>2. old[i].ref = l.ref /\ old[i].type = l.type /\ l.ref # NoRef
      BY <1>1, <2>1, <2>2, <2>4, <3>1
    <3>3. QED
      BY <2>3, <2>4, <3>2
  <2>5. CASE j \in 1..Len(old)
    <3>1. i = Len(new)
      BY <1>1, <1>3, <2>1, <2>5
    <3>2. old[j].ref = l.ref /\ old[j].type = l.type /\ l.ref # NoRef
      BY <1>1, <2>1, <2>2, <2>5, <3>1
    <3>3. QED
      BY <2>3, <2>5, <3>2
  <2>6. CASE i \notin 1..Len(old) /\ j \notin 1..Len(old)
    <3>1. Len(new) = Len(old) + 1 /\ Len(old) \in Nat
      BY <1>1, <2>1
    <3>2. i = Len(new)
      BY <2>6, <3>1
    <3>3. j = Len(new)
      BY <2>6, <3>1
    <3>4. QED
      BY <3>2, <3>3
  <2>7. QED
    BY <2>4, <2>5, <2>6
<1>4. QED
  BY <1>2, <1>3

\* One admissible posting keeps a ledger well formed.
LEMMA PostWell ==
  ASSUME NEW L, Well(L), NEW l \in Leg, Admissible(L, l)
  PROVE  Well(Post(L, l))
<1>1. L \in Ledger /\ Audited(L) /\ KeysOnce(L) /\ SlotsOnce(L)
  BY DEF Well
<1>2. Post(L, l) \in Ledger
  BY <1>1, PostFields DEF Admissible
<1>3. Audited(Post(L, l))
  BY <1>1, PostAudited
<1>4. KeysOnce(Post(L, l))
  BY <1>1, PostKeysOnce
<1>5. SlotsOnce(Post(L, l))
  BY <1>1, PostSlotsOnce
<1>6. QED
  BY <1>2, <1>3, <1>4, <1>5 DEF Well

\* A change of statuses alone keeps a ledger well formed.
LEMMA StatusWell ==
  ASSUME NEW L, Well(L), NEW w \in Wallets, NEW s \in Statuses
  PROVE  Well([L EXCEPT !.rows[w].status = s])
<1>. DEFINE M == [L EXCEPT !.rows[w].status = s]
<1>1. L \in Ledger /\ Audited(L) /\ KeysOnce(L) /\ SlotsOnce(L)
  BY DEF Well
<1>2. M.movements = L.movements
  BY <1>1 DEF Ledger
<1>3. /\ M \in Ledger
      /\ \A v \in Wallets : M.rows[v].bal = L.rows[v].bal
  BY <1>1 DEF Ledger, Row
<1>4. Audited(M)
  BY <1>1, <1>2, <1>3 DEF Audited
<1>5. KeysOnce(M) /\ SlotsOnce(M)
  BY <1>1, <1>2 DEF KeysOnce, SlotsOnce
<1>6. QED
  BY <1>3, <1>4, <1>5 DEF Well

\* Creating a wallet row, which is empty, keeps a ledger well formed.
LEMMA EnsureWell ==
  ASSUME NEW L, Well(L), NEW w \in Wallets
  PROVE  Well(ensureWalletAccount(L, w))
  BY StatusWell DEF ensureWalletAccount, Statuses

\* Posting on one wallet leaves a leg on another wallet with another key
\* admissible: the two halves of a pair do not disturb each other.
LEMMA OtherLegAdmissible ==
  ASSUME NEW L \in Ledger, NEW d \in Leg, NEW c \in Leg,
         Admissible(L, d), Admissible(L, c), d.wallet # c.wallet, d.key # c.key
  PROVE  Admissible(Post(L, d), c)
<1>1. c.wallet \in Wallets
  BY DEF Leg
<1>2. /\ Post(L, d).movements[c.wallet] = L.movements[c.wallet]
      /\ Post(L, d).rows[c.wallet] = L.rows[c.wallet]
  BY <1>1, PostMovements DEF Admissible
<1>3. ~SlotTaken(Post(L, d), c)
  BY <1>2 DEF Admissible, SlotTaken
<1>4. ~Posted(Post(L, d), c.key)
  <2>. SUFFICES ASSUME NEW w \in Wallets, NEW i \in 1..Len(Post(L, d).movements[w])
                PROVE  Post(L, d).movements[w][i].key # c.key
    BY DEF Posted
  <2>. DEFINE old == L.movements[w]
              new == Post(L, d).movements[w]
  <2>1. /\ w # d.wallet => new = old
        /\ w = d.wallet => /\ Len(new) = Len(old) + 1
                           /\ new[Len(new)] = NewMovement(L, d)
        /\ Len(old) \in Nat
        /\ \A k \in 1..Len(old) : new[k] = old[k]
    BY PostMovements DEF Admissible
  <2>2. \A k \in 1..Len(old) : old[k].key # c.key
    BY DEF Admissible, Posted
  <2>3. NewMovement(L, d).key = d.key
    BY DEF NewMovement
  <2>4. CASE i \in 1..Len(old)
    BY <2>1, <2>2, <2>4
  <2>5. CASE i \notin 1..Len(old)
    <3>1. i = Len(new) /\ w = d.wallet
      BY <2>1, <2>5
    <3>2. QED
      BY <2>1, <2>3, <3>1
  <2>6. QED
    BY <2>4, <2>5
<1>5. QED
  BY <1>2, <1>3, <1>4 DEF Admissible

\* The keys posted after a covered posting: those before, and the leg's own.
LEMMA PostPosted ==
  ASSUME NEW L \in Ledger, NEW l \in Leg, Covers(l.op, L.rows[l.wallet].bal, l.amount), NEW k
  PROVE  Posted(Post(L, l), k) <=> Posted(L, k) \/ k = l.key
<1>. DEFINE M == Post(L, l)
<1>0. l.wallet \in Wallets /\ NewMovement(L, l).key = l.key
  BY DEF Leg, NewMovement
<1>1. \A w \in Wallets :
        /\ w # l.wallet => M.movements[w] = L.movements[w]
        /\ w = l.wallet => /\ Len(M.movements[w]) = Len(L.movements[w]) + 1
                           /\ M.movements[w][Len(M.movements[w])] = NewMovement(L, l)
        /\ Len(L.movements[w]) \in Nat
        /\ \A i \in 1..Len(L.movements[w]) : M.movements[w][i] = L.movements[w][i]
  BY PostMovements
<1>. HIDE DEF M
<1>2. ASSUME Posted(M, k) PROVE Posted(L, k) \/ k = l.key
  <2>1. PICK w \in Wallets : \E i \in 1..Len(M.movements[w]) : M.movements[w][i].key = k
    BY <1>2 DEF Posted
  <2>2. PICK i \in 1..Len(M.movements[w]) : M.movements[w][i].key = k
    BY <2>1
  <2>3. CASE i \in 1..Len(L.movements[w])
    BY <1>1, <2>2, <2>3 DEF Posted
  <2>4. CASE i \notin 1..Len(L.movements[w])
    <3>1. w = l.wallet /\ i = Len(M.movements[w])
      BY <1>1, <2>4
    <3>2. QED
      BY <1>0, <1>1, <2>2, <3>1
  <2>5. QED
    BY <2>3, <2>4
<1>3. ASSUME Posted(L, k) PROVE Posted(M, k)
  <2>1. PICK w \in Wallets : \E i \in 1..Len(L.movements[w]) : L.movements[w][i].key = k
    BY <1>3 DEF Posted
  <2>2. PICK i \in 1..Len(L.movements[w]) : L.movements[w][i].key = k
    BY <2>1
  <2>3. i \in 1..Len(M.movements[w]) /\ M.movements[w][i] = L.movements[w][i]
    BY <1>1, <2>2
  <2>4. QED
    BY <2>2, <2>3 DEF Posted
<1>4. ASSUME k = l.key PROVE Posted(M, k)
  <2>1. Len(M.movements[l.wallet]) \in 1..Len(M.movements[l.wallet])
    BY <1>0, <1>1
  <2>2. QED
    BY <1>0, <1>1, <1>4, <2>1 DEF Posted
<1>5. QED
  BY <1>2, <1>3, <1>4 DEF M

\* An empty ledger is well formed: empty rows and no movements.
LEMMA EmptyWell == Well(EmptyLedger)
<1>0. PICK L : L = EmptyLedger
  OBVIOUS
<1>1. L.movements = [w \in Wallets |-> <<>>]
  BY <1>0 DEF EmptyLedger
<1>2. L.rows = [w \in Wallets |->
        [status |-> IF w \in Opened THEN "active" ELSE "absent", bal |-> ZeroBalance]]
  BY <1>0 DEF EmptyLedger
<1>3. L \in Ledger
  <2>1. L.rows \in [Wallets -> Row]
    BY <1>2 DEF Row, Statuses, Balance, ZeroBalance
  <2>2. L.movements \in [Wallets -> Seq(Movement)]
    BY <1>1
  <2>3. L = [rows |-> L.rows, movements |-> L.movements]
    BY <1>0 DEF EmptyLedger
  <2>4. QED
    BY <2>1, <2>2, <2>3 DEF Ledger
<1>4. Audited(L)
  <2>1. ASSUME NEW w \in Wallets
        PROVE  /\ L.movements[w] = <<>> /\ Len(L.movements[w]) = 0
               /\ L.rows[w].bal = ZeroBalance
    BY <1>1, <1>2
  <2>2. ASSUME NEW w \in Wallets
        PROVE  ChainOK(L.movements[w])
    BY <2>1 DEF ChainOK
  <2>3. ASSUME NEW w \in Wallets
        PROVE  L.rows[w].bal = Current(L.movements[w])
    BY <2>1 DEF Current
  <2>4. QED
    BY <2>2, <2>3 DEF Audited
<1>5. KeysOnce(L) /\ SlotsOnce(L)
  BY <1>1 DEF KeysOnce, SlotsOnce
<1>6. QED
  BY <1>0, <1>3, <1>4, <1>5 DEF Well
\* The amount posted under a key.
AmountOf(L, w, k) ==
  LET ms == L.movements[w]
  IN ms[CHOOSE i \in 1..Len(ms) : ms[i].key = k].amount

PostedIn(L, w, k) == \E i \in 1..Len(L.movements[w]) : L.movements[w][i].key = k

OnlyIn(L, w) == \A v \in Wallets \ {w} : L.movements[v] = <<>>

\* It is the amount of the one movement that has the key, ...
LEMMA AmountAt ==
  ASSUME NEW L, KeysOnce(L), NEW w \in Wallets, NEW i \in 1..Len(L.movements[w])
  PROVE  AmountOf(L, w, L.movements[w][i].key) = L.movements[w][i].amount
<1>1. PICK ms : ms = L.movements[w]
  OBVIOUS
<1>2. \A j \in 1..Len(ms) : ms[j].key = ms[i].key => j = i
  BY <1>1 DEF KeysOnce
<1>3. (CHOOSE j \in 1..Len(ms) : ms[j].key = ms[i].key) = i
  BY <1>1, <1>2
<1>4. QED
  BY <1>1, <1>3 DEF AmountOf

\* ... so a posting says what was posted under its key, and changes no other amount.
LEMMA PostAmounts ==
  ASSUME NEW L, Well(L), NEW l \in Leg, Admissible(L, l)
  PROVE  /\ AmountOf(Post(L, l), l.wallet, l.key) = l.amount
         /\ \A w \in Wallets : \A k :
              PostedIn(L, w, k) => AmountOf(Post(L, l), w, k) = AmountOf(L, w, k)
<1>1. L \in Ledger /\ KeysOnce(L) /\ KeysOnce(Post(L, l)) /\ l.wallet \in Wallets
  BY PostWell DEF Well, Leg
<1>2. Covers(l.op, L.rows[l.wallet].bal, l.amount)
  BY DEF Admissible
<1>. DEFINE old(w) == L.movements[w]
            new(w) == Post(L, l).movements[w]
<1>3. AmountOf(Post(L, l), l.wallet, l.key) = l.amount
  <2>1. PICK n : n = Len(new(l.wallet))
    OBVIOUS
  <2>2. n \in 1..Len(new(l.wallet)) /\ new(l.wallet)[n] = NewMovement(L, l)
    BY <1>1, <1>2, <2>1, PostMovements
  <2>3. new(l.wallet)[n].key = l.key /\ new(l.wallet)[n].amount = l.amount
    BY <2>2 DEF NewMovement
  <2>4. AmountOf(Post(L, l), l.wallet, new(l.wallet)[n].key) = new(l.wallet)[n].amount
    BY <1>1, <2>2, AmountAt
  <2>5. QED
    BY <2>3, <2>4
<1>4. ASSUME NEW w \in Wallets, NEW k, PostedIn(L, w, k)
      PROVE  AmountOf(Post(L, l), w, k) = AmountOf(L, w, k)
  <2>1. PICK i \in 1..Len(old(w)) : old(w)[i].key = k
    BY <1>4 DEF PostedIn
  <2>2. i \in 1..Len(new(w)) /\ new(w)[i] = old(w)[i]
    BY <1>1, <1>2, <2>1, PostMovements
  <2>3. AmountOf(L, w, old(w)[i].key) = old(w)[i].amount
    BY <1>1, AmountAt
  <2>4. AmountOf(Post(L, l), w, new(w)[i].key) = new(w)[i].amount
    BY <1>1, <2>2, AmountAt
  <2>5. QED
    BY <2>1, <2>2, <2>3, <2>4
<1>5. QED
  BY <1>3, <1>4

LEMMA AmountTyped ==
  ASSUME NEW L, Well(L), NEW w \in Wallets, NEW k, PostedIn(L, w, k)
  PROVE  AmountOf(L, w, k) \in Amounts
<1>1. PICK i \in 1..Len(L.movements[w]) : L.movements[w][i].key = k
  BY DEF PostedIn
<1>2. AmountOf(L, w, k) = L.movements[w][i].amount
  BY <1>1, AmountAt DEF Well
<1>3. L.movements[w] \in Seq(Movement)
  BY DEF Well, Ledger
<1>4. L.movements[w][i] \in Movement
  BY <1>3
<1>5. QED
  BY <1>2, <1>4 DEF Movement

\* Where one wallet has all the movements, it keeps them all.
LEMMA OnlyInStays ==
  ASSUME NEW L \in Ledger, NEW l \in Leg, Covers(l.op, L.rows[l.wallet].bal, l.amount),
         OnlyIn(L, l.wallet)
  PROVE  OnlyIn(Post(L, l), l.wallet)
BY PostMovements DEF OnlyIn

LEMMA OnlyInPosted ==
  ASSUME NEW L, NEW w \in Wallets, OnlyIn(L, w), NEW k
  PROVE  Posted(L, k) <=> PostedIn(L, w, k)
<1>1. ASSUME NEW v \in Wallets, NEW i \in 1..Len(L.movements[v]) PROVE v = w
  BY DEF OnlyIn
<1>2. QED
  BY <1>1 DEF Posted, PostedIn

\* Finitely many keys have been posted.
LEMMA PostedFinite ==
  ASSUME NEW L \in Ledger, NEW w \in Wallets, OnlyIn(L, w), NEW S, NEW op
  PROVE  IsFiniteSet({x \in S : Posted(L, <<x, op>>)})
<1>1. PICK ms \in Seq(Movement) : ms = L.movements[w]
  BY DEF Ledger
<1>2. IsFiniteSet(1..Len(ms))
  BY FS_Interval
<1>3. PICK f : f = [i \in 1..Len(ms) |-> ms[i].key[1]]
  OBVIOUS
<1>4. IsFiniteSet({f[i] : i \in 1..Len(ms)})
  <2>1. PICK T : T = {f[i] : i \in 1..Len(ms)}
    OBVIOUS
  <2>2. f \in Surjection(1..Len(ms), T)
    BY <1>3, <2>1 DEF Surjection
  <2>3. QED
    BY <1>2, <2>1, <2>2, FS_Surjection
<1>5. ASSUME NEW x \in S, Posted(L, <<x, op>>)
      PROVE  x \in {f[i] : i \in 1..Len(ms)}
  <2>1. PICK i \in 1..Len(ms) : ms[i].key = <<x, op>>
    BY <1>1, <1>5, OnlyInPosted DEF PostedIn
  <2>2. f[i] = x
    BY <1>3, <2>1
  <2>3. QED
    BY <2>2
<1>6. {x \in S : Posted(L, <<x, op>>)} \subseteq {f[i] : i \in 1..Len(ms)}
  BY <1>5
<1>7. QED
  BY <1>4, <1>6, FS_Subset

-----------------------------------------------------------------------------
(* Sums over finite sets.  Strict inclusion of finite sets is well founded: from that *)
(* follows induction over a finite set, the set itself as the family of the subsets of *)
(* which a fact holds, and from induction that the recursion a sum is defined by has a *)
(* solution and that the order of the terms does not matter.                           *)

\* A set of subsets of a finite set has a least element, in the order of inclusion.
LEMMA LeastSet ==
  ASSUME NEW S, IsFiniteSet(S), NEW F, F \subseteq SUBSET S, F # {}
  PROVE  \E T \in F : \A U \in F : U \subseteq T => U = T
<1>1. F \subseteq FiniteSubsetsOf(S)
  BY FS_Subset DEF FiniteSubsetsOf
<1>2. IsWellFoundedOn(StrictSubsetOrdering(S), FiniteSubsetsOf(S))
  BY FS_StrictSubsetOrderingWellFounded
<1>3. \E T \in F : \A U \in F : ~ (<<U, T>> \in StrictSubsetOrdering(S))
  BY <1>1, <1>2, WFMin
<1>4. QED
  BY <1>3 DEF StrictSubsetOrdering

\* What holds of the empty set, and of a set with one more element if it holds of the
\* set, holds of every finite set.  F is the family of the subsets of which it holds.
LEMMA SetInduction ==
  ASSUME NEW S, IsFiniteSet(S), NEW F,
         {} \in F, \A T \in SUBSET S : T # {} /\ (\A x \in T : T \ {x} \in F) => T \in F
  PROVE  S \in F
<1>. SUFFICES ASSUME S \notin F PROVE FALSE
  OBVIOUS
<1>0. PICK B : B = {T \in SUBSET S : T \notin F}
  OBVIOUS
<1>1. PICK T \in B : \A U \in B : U \subseteq T => U = T
  <2>1. B # {} /\ B \subseteq SUBSET S
    BY <1>0
  <2>2. QED
    BY <2>1, LeastSet
<1>2. T \in SUBSET S /\ T \notin F /\ T # {}
  BY <1>0, <1>1
<1>3. ASSUME NEW x \in T PROVE T \ {x} \in F
  <2>1. T \ {x} \in SUBSET S /\ T \ {x} \subseteq T /\ T \ {x} # T
    BY <1>2
  <2>2. QED
    BY <1>0, <1>1, <2>1
<1>4. QED
  BY <1>2, <1>3

Pick(s) == CHOOSE x \in s : TRUE

\* The recursion by which a sum is defined.
Adds(f, h, s) == IF s = {} THEN 0 ELSE f[Pick(s)] + h[s \ {Pick(s)}]

Summation(f, S) == CHOOSE h : h = [s \in SUBSET S |-> Adds(f, h, s)]

SolvesUpTo(f, h, S, n) ==
  /\ h = [s \in SUBSET S |-> h[s]]
  /\ \A s \in SUBSET S : Cardinality(s) <= n => h[s] = Adds(f, h, s)

LEMMA SumAsRecursion ==
  ASSUME NEW f, NEW S
  PROVE  SumFunctionOnSet(f, S) = Summation(f, S)[S]
BY DEF SumFunctionOnSet, FoldFunctionOnSet, MapThenFoldSet, Pick, Summation, Adds

\* For sets of up to n elements the recursion has a solution, for every n.
LEMMA SolvedUpTo ==
  ASSUME NEW f, NEW S, IsFiniteSet(S), NEW n \in Nat
  PROVE  \E h : SolvesUpTo(f, h, S, n)
<1>. DEFINE Solved(T) == \E h : SolvesUpTo(f, h, S, Cardinality(T))
            F == {T \in SUBSET (1..n) : Solved(T)}
<1>1. IsFiniteSet(1..n) /\ Cardinality(1..n) = n
  BY FS_Interval
<1>2. \A s \in SUBSET S : IsFiniteSet(s) /\ Cardinality(s) \in Nat /\ (Cardinality(s) = 0 <=> s = {})
  BY FS_Subset, FS_CardinalityType, FS_EmptySet
<1>3. \A s : s # {} => Pick(s) \in s
  BY DEF Pick
<1>4. {} \in F
  <2>1. PICK h : h = [s \in SUBSET S |-> 0]
    OBVIOUS
  <2>2. Cardinality({}) = 0
    BY FS_EmptySet
  <2>3. \A s \in SUBSET S : Cardinality(s) <= 0 => h[s] = Adds(f, h, s)
    BY <1>2, <2>1 DEF Adds
  <2>4. h = [s \in SUBSET S |-> h[s]]
    BY <2>1
  <2>5. Solved({})
    BY <2>2, <2>3, <2>4 DEF SolvesUpTo
  <2>6. QED
    BY <2>5
<1>5. ASSUME NEW T \in SUBSET (1..n), T # {}, \A x \in T : T \ {x} \in F
      PROVE  T \in F
  <2>0. PICK x \in T : T \ {x} \in F
    BY <1>5
  <2>1. PICK k : k = Cardinality(T \ {x})
    OBVIOUS
  <2>2. k \in Nat /\ Cardinality(T) = k + 1
    <3>1. IsFiniteSet(T)
      BY <1>1, FS_Subset
    <3>2. Cardinality(T) \in Nat /\ Cardinality(T \ {x}) = Cardinality(T) - 1 /\ IsFiniteSet(T \ {x})
      BY <2>0, <3>1, FS_CardinalityType, FS_RemoveElement
    <3>3. Cardinality(T \ {x}) \in Nat
      BY <3>2, FS_CardinalityType
    <3>4. QED
      BY <2>1, <3>2, <3>3
  <2>3. PICK h : /\ h = [s \in SUBSET S |-> h[s]]
                 /\ \A s \in SUBSET S : Cardinality(s) <= k => h[s] = Adds(f, h, s)
    BY <2>0, <2>1 DEF SolvesUpTo
  <2>4. PICK g : g = [s \in SUBSET S |-> Adds(f, h, s)]
    OBVIOUS
  <2>5. \A s \in SUBSET S : Cardinality(s) <= k => g[s] = h[s]
    BY <2>3, <2>4
  <2>6. ASSUME NEW s \in SUBSET S, Cardinality(s) <= k + 1
        PROVE  g[s] = Adds(f, g, s)
    <3>1. CASE s = {}
      BY <2>4, <3>1 DEF Adds
    <3>2. CASE s # {}
      <4>1. PICK r : r = s \ {Pick(s)}
        OBVIOUS
      <4>2. Pick(s) \in s /\ r \in SUBSET S
        BY <1>3, <3>2, <4>1
      <4>3. Cardinality(r) = Cardinality(s) - 1 /\ Cardinality(s) \in Nat
        BY <1>2, <4>1, <4>2, FS_RemoveElement
      <4>4. Cardinality(r) <= k
        BY <2>2, <2>6, <4>3
      <4>5. g[r] = h[r]
        BY <2>5, <4>2, <4>4
      <4>6. g[s] = f[Pick(s)] + h[r]
        BY <2>4, <3>2, <4>1 DEF Adds
      <4>7. QED
        BY <3>2, <4>1, <4>5, <4>6 DEF Adds
    <3>3. QED
      BY <3>1, <3>2
  <2>7. g = [s \in SUBSET S |-> g[s]]
    BY <2>4
  <2>8. Solved(T)
    BY <2>2, <2>6, <2>7 DEF SolvesUpTo
  <2>9. QED
    BY <2>8
<1>6. \A T \in SUBSET (1..n) : T # {} /\ (\A x \in T : T \ {x} \in F) => T \in F
  BY <1>5
<1>7. (1..n) \in F
  <2>. HIDE DEF F
  <2>1. QED
    BY <1>1, <1>4, <1>6, SetInduction
<1>8. QED
  BY <1>1, <1>7

\* The recursion has a solution.
LEMMA SummationSolves ==
  ASSUME NEW f, NEW S, IsFiniteSet(S)
  PROVE  \A s \in SUBSET S : Summation(f, S)[s] = Adds(f, Summation(f, S), s)
<1>1. PICK n \in Nat : n = Cardinality(S)
  BY FS_CardinalityType
<1>2. PICK h : SolvesUpTo(f, h, S, n)
  BY SolvedUpTo
<1>3. \A s \in SUBSET S : h[s] = Adds(f, h, s)
  BY <1>1, <1>2, FS_Subset DEF SolvesUpTo
<1>4. h = [s \in SUBSET S |-> Adds(f, h, s)]
  BY <1>2, <1>3 DEF SolvesUpTo
<1>5. PICK g : g = Summation(f, S)
  OBVIOUS
<1>6. g = [s \in SUBSET S |-> Adds(f, g, s)]
  BY <1>4, <1>5 DEF Summation
<1>7. \A s \in SUBSET S : g[s] = Adds(f, g, s)
  BY <1>6
<1>8. QED
  BY <1>5, <1>7

-----------------------------------------------------------------------------
\* One solution serves all subsets.
LEMMA SumOfSubset ==
  ASSUME NEW f, NEW S, IsFiniteSet(S), NEW T \in SUBSET S
  PROVE  SumFunctionOnSet(f, T) = Summation(f, S)[T]
<1>1. PICK h : h = Summation(f, S)
  OBVIOUS
<1>2. \A s \in SUBSET S : h[s] = Adds(f, h, s)
  BY <1>1, SummationSolves
<1>3. IsFiniteSet(T)
  BY FS_Subset
<1>4. PICK g : g = Summation(f, T)
  OBVIOUS
<1>5. \A s \in SUBSET T : g[s] = Adds(f, g, s)
  BY <1>3, <1>4, SummationSolves
<1>6. PICK F : F = {s \in SUBSET T : g[s] = h[s]}
  OBVIOUS
<1>7. {} \in F
  BY <1>2, <1>5, <1>6 DEF Adds
<1>8. ASSUME NEW s \in SUBSET T, s # {}, \A x \in s : s \ {x} \in F
      PROVE  s \in F
  <2>1. Pick(s) \in s
    BY <1>8 DEF Pick
  <2>2. s \ {Pick(s)} \in F
    BY <1>8, <2>1
  <2>3. g[s \ {Pick(s)}] = h[s \ {Pick(s)}]
    BY <1>6, <2>2
  <2>4. g[s] = h[s]
    BY <1>2, <1>5, <1>8, <2>3 DEF Adds
  <2>5. QED
    BY <1>6, <2>4
<1>9. T \in F
  BY <1>3, <1>7, <1>8, SetInduction
<1>10. QED
  BY <1>1, <1>4, <1>6, <1>9, SumAsRecursion

\* The empty sum, and a sum without one of its terms: it does not matter which.
LEMMA SumEmpty == ASSUME NEW f PROVE SumFunctionOnSet(f, {}) = 0
<1>1. IsFiniteSet({})
  BY FS_EmptySet
<1>2. Summation(f, {})[{}] = Adds(f, Summation(f, {}), {})
  BY <1>1, SummationSolves
<1>3. QED
  BY <1>2, SumAsRecursion DEF Adds

LEMMA SumPick ==
  ASSUME NEW f, NEW S, IsFiniteSet(S), S # {}
  PROVE  SumFunctionOnSet(f, S) = f[Pick(S)] + SumFunctionOnSet(f, S \ {Pick(S)})
<1>1. PICK h : h = Summation(f, S)
  OBVIOUS
<1>2. h[S] = Adds(f, h, S)
  BY <1>1, SummationSolves
<1>3. SumFunctionOnSet(f, S) = h[S]
  BY <1>1, SumOfSubset
<1>4. SumFunctionOnSet(f, S \ {Pick(S)}) = h[S \ {Pick(S)}]
  BY <1>1, SumOfSubset
<1>5. QED
  BY <1>2, <1>3, <1>4 DEF Adds

\* Sums of natural numbers are natural numbers.
LEMMA SumType ==
  ASSUME NEW f, NEW S, IsFiniteSet(S), \A x \in S : f[x] \in Nat
  PROVE  SumFunctionOnSet(f, S) \in Nat
<1>1. PICK F : F = {T \in SUBSET S : SumFunctionOnSet(f, T) \in Nat}
  OBVIOUS
<1>2. {} \in F
  BY <1>1, SumEmpty
<1>3. ASSUME NEW T \in SUBSET S, T # {}, \A x \in T : T \ {x} \in F
      PROVE  T \in F
  <2>1. Pick(T) \in T
    BY <1>3 DEF Pick
  <2>2. SumFunctionOnSet(f, T \ {Pick(T)}) \in Nat
    BY <1>1, <1>3, <2>1
  <2>3. SumFunctionOnSet(f, T) = f[Pick(T)] + SumFunctionOnSet(f, T \ {Pick(T)})
    BY <1>3, SumPick, FS_Subset
  <2>4. QED
    BY <1>1, <2>1, <2>2, <2>3
<1>4. QED
  BY <1>1, <1>2, <1>3, SetInduction

LEMMA SumRemove ==
  ASSUME NEW f, NEW S, IsFiniteSet(S), \A x \in S : f[x] \in Nat, NEW x \in S
  PROVE  SumFunctionOnSet(f, S) = f[x] + SumFunctionOnSet(f, S \ {x})
<1>1. PICK F : F = {T \in SUBSET S : \A y \in T :
                     SumFunctionOnSet(f, T) = f[y] + SumFunctionOnSet(f, T \ {y})}
  OBVIOUS
<1>2. {} \in F
  BY <1>1
<1>3. ASSUME NEW T \in SUBSET S, T # {}, \A y \in T : T \ {y} \in F
      PROVE  T \in F
  <2>1. PICK z : z = Pick(T)
    OBVIOUS
  <2>2. z \in T
    BY <1>3, <2>1 DEF Pick
  <2>3. SumFunctionOnSet(f, T) = f[z] + SumFunctionOnSet(f, T \ {z})
    BY <1>3, <2>1, SumPick, FS_Subset
  <2>4. ASSUME NEW y \in T, y # z
        PROVE  SumFunctionOnSet(f, T) = f[y] + SumFunctionOnSet(f, T \ {y})
    <3>1. SumFunctionOnSet(f, T \ {z}) = f[y] + SumFunctionOnSet(f, (T \ {z}) \ {y})
      BY <1>1, <1>3, <2>2, <2>4
    <3>2. SumFunctionOnSet(f, T \ {y}) = f[z] + SumFunctionOnSet(f, (T \ {y}) \ {z})
      BY <1>1, <1>3, <2>2, <2>4
    <3>3. (T \ {z}) \ {y} = (T \ {y}) \ {z}
      OBVIOUS
    <3>4. SumFunctionOnSet(f, (T \ {y}) \ {z}) \in Nat
      BY SumType, FS_Subset
    <3>5. f[y] \in Nat /\ f[z] \in Nat
      BY <2>2
    <3>6. QED
      BY <2>3, <3>1, <3>2, <3>3, <3>4, <3>5
  <2>5. QED
    BY <1>1, <2>3, <2>4
<1>4. \A T \in SUBSET S : T # {} /\ (\A y \in T : T \ {y} \in F) => T \in F
  BY <1>3
<1>5. S \in F
  BY <1>2, <1>4, SetInduction
<1>6. QED
  BY <1>1, <1>5

\* Sums over one set of functions that agree on it are equal.
LEMMA SumSame ==
  ASSUME NEW f, NEW g, NEW S, IsFiniteSet(S), \A x \in S : f[x] = g[x]
  PROVE  SumFunctionOnSet(f, S) = SumFunctionOnSet(g, S)
<1>1. PICK F : F = {T \in SUBSET S : SumFunctionOnSet(f, T) = SumFunctionOnSet(g, T)}
  OBVIOUS
<1>2. {} \in F
  BY <1>1, SumEmpty
<1>3. ASSUME NEW T \in SUBSET S, T # {}, \A y \in T : T \ {y} \in F
      PROVE  T \in F
  <2>1. Pick(T) \in T /\ IsFiniteSet(T)
    BY <1>3, FS_Subset DEF Pick
  <2>2. SumFunctionOnSet(f, T \ {Pick(T)}) = SumFunctionOnSet(g, T \ {Pick(T)})
    BY <1>1, <1>3, <2>1
  <2>3. /\ SumFunctionOnSet(f, T) = f[Pick(T)] + SumFunctionOnSet(f, T \ {Pick(T)})
        /\ SumFunctionOnSet(g, T) = g[Pick(T)] + SumFunctionOnSet(g, T \ {Pick(T)})
    BY <1>3, <2>1, SumPick
  <2>4. QED
    BY <1>1, <2>1, <2>2, <2>3
<1>4. \A T \in SUBSET S : T # {} /\ (\A y \in T : T \ {y} \in F) => T \in F
  BY <1>3
<1>5. S \in F
  BY <1>2, <1>4, SetInduction
<1>6. QED
  BY <1>1, <1>5

\* A sum with one more term, the others unchanged.
LEMMA SumAdd ==
  ASSUME NEW f, NEW g, NEW S, IsFiniteSet(S), NEW x, x \notin S, g[x] \in Nat,
         \A y \in S : f[y] \in Nat /\ g[y] = f[y]
  PROVE  SumFunctionOnSet(g, S \cup {x}) = SumFunctionOnSet(f, S) + g[x]
<1>1. PICK T : T = S \cup {x}
  OBVIOUS
<1>2. IsFiniteSet(T) /\ x \in T /\ T \ {x} = S
  BY <1>1, FS_AddElement
<1>3. \A y \in T : g[y] \in Nat
  BY <1>1
<1>4. SumFunctionOnSet(g, T) = g[x] + SumFunctionOnSet(g, S)
  BY <1>2, <1>3, SumRemove
<1>5. SumFunctionOnSet(g, S) = SumFunctionOnSet(f, S)
  BY SumSame
<1>6. SumFunctionOnSet(f, S) \in Nat
  BY SumType
<1>7. QED
  BY <1>1, <1>4, <1>5, <1>6

-----------------------------------------------------------------------------
(* Chains of payments: they are added and resolved, and what is resolved stays. *)

\* Payments of any amounts, with any sequence numbers.
PaymentIn(A, B) ==
  [amount : A, state : {"signed", "sent", "landed", "failed"}, seq : B, doubt : BOOLEAN]

IsChain(ch) == \E A, B : ch \in Seq(PaymentIn(A, B))

\* A payment is added at the end.
LEMMA ChainAppend ==
  ASSUME NEW ch, IsChain(ch), NEW a, NEW u, NEW s \in {"signed", "sent", "landed", "failed"}
  PROVE  LET new == submitUsdcPayment(ch, a, s, u)
         IN /\ IsChain(new)
            /\ Len(ch) \in Nat /\ Len(new) = Len(ch) + 1
            /\ new[Len(ch) + 1].state = s /\ ~new[Len(ch) + 1].doubt
            /\ \A i \in 1..Len(ch) : new[i] = ch[i]
            /\ Landed(ch) \subseteq Landed(new)
            /\ s = "landed" => Len(ch) + 1 \in Landed(new)
<1>1. PICK A, B : ch \in Seq(PaymentIn(A, B))
  BY DEF IsChain
<1>. DEFINE e == [amount |-> a, state |-> s, seq |-> u + 1, doubt |-> FALSE]
<1>2. ch \in Seq(PaymentIn(A \cup {a}, B \cup {u + 1}))
  <2>1. PaymentIn(A, B) \subseteq PaymentIn(A \cup {a}, B \cup {u + 1})
    BY DEF PaymentIn
  <2>2. QED
    BY <1>1, <2>1, SeqMonotonic
<1>3. e \in PaymentIn(A \cup {a}, B \cup {u + 1}) /\ e.state = s /\ ~e.doubt
  BY DEF PaymentIn
<1>4. submitUsdcPayment(ch, a, s, u) = Append(ch, e)
  BY DEF submitUsdcPayment
<1>5. PICK new : new = Append(ch, e)
  OBVIOUS
<1>6. /\ new \in Seq(PaymentIn(A \cup {a}, B \cup {u + 1}))
      /\ Len(ch) \in Nat /\ Len(new) = Len(ch) + 1
      /\ new[Len(ch) + 1] = e
      /\ \A i \in 1..Len(ch) : new[i] = ch[i]
  <2>. HIDE DEF e
  <2>1. QED
    BY <1>2, <1>3, <1>5
<1>7. IsChain(new)
  BY <1>6 DEF IsChain
<1>8. Landed(ch) \subseteq Landed(new)
  BY <1>6 DEF Landed
<1>9. s = "landed" => Len(ch) + 1 \in Landed(new)
  BY <1>6 DEF Landed
<1>10. QED
  BY <1>3, <1>4, <1>5, <1>6, <1>7, <1>8, <1>9

\* A signed envelope is one more payment.
LEMMA SignChain ==
  ASSUME NEW ch, IsChain(ch), NEW a, NEW u
  PROVE  LET new == prepareSponsoredUsdcPayment(ch, a, u)
         IN /\ IsChain(new)
            /\ Len(ch) \in Nat /\ Len(new) = Len(ch) + 1
            /\ new[Len(ch) + 1].state = "signed" /\ ~new[Len(ch) + 1].doubt
            /\ \A i \in 1..Len(ch) : new[i] = ch[i]
<1>1. prepareSponsoredUsdcPayment(ch, a, u) = submitUsdcPayment(ch, a, "signed", u)
  BY DEF prepareSponsoredUsdcPayment, submitUsdcPayment
<1>2. QED
  BY <1>1, ChainAppend

\* Another element in one place of a sequence.
LEMMA SeqPlace ==
  ASSUME NEW P, NEW ch \in Seq(P), NEW i \in 1..Len(ch), NEW e \in P
  PROVE  LET new == [ch EXCEPT ![i] = e]
         IN /\ new \in Seq(P) /\ Len(new) = Len(ch) /\ Len(ch) \in Nat /\ new[i] = e
            /\ \A j \in 1..Len(ch) : j # i => new[j] = ch[j]
OBVIOUS

\* The parts of the payments of a chain.
LEMMA ChainParts ==
  ASSUME NEW ch, IsChain(ch), NEW i \in 1..Len(ch)
  PROVE  ch[i].state \in {"signed", "sent", "landed", "failed"} /\ ch[i].doubt \in BOOLEAN
<1>1. PICK A, B : ch \in Seq(PaymentIn(A, B))
  BY DEF IsChain
<1>2. ch[i] \in PaymentIn(A, B)
  BY <1>1, ElementOfSeq
<1>3. QED
  BY <1>2 DEF PaymentIn

\* A new state of one envelope.
LEMMA StateChain ==
  ASSUME NEW ch, IsChain(ch), NEW i \in 1..Len(ch),
         NEW s \in {"signed", "sent", "landed", "failed"}, NEW new, new = [ch EXCEPT ![i].state = s]
  PROVE  /\ IsChain(new) /\ Len(ch) \in Nat /\ Len(new) = Len(ch)
         /\ new[i].state = s /\ new[i].doubt = ch[i].doubt /\ new[i].amount = ch[i].amount
         /\ \A j \in 1..Len(ch) : j # i => new[j] = ch[j]
<1>1. PICK A, B : ch \in Seq(PaymentIn(A, B))
  BY DEF IsChain
<1>2. ch[i] \in PaymentIn(A, B)
  BY <1>1, ElementOfSeq
<1>3. PICK e : e = [ch[i] EXCEPT !.state = s]
  OBVIOUS
<1>4. /\ e \in PaymentIn(A, B) /\ e.state = s
      /\ e.doubt = ch[i].doubt /\ e.amount = ch[i].amount
  BY <1>2, <1>3 DEF PaymentIn
<1>5. new = [ch EXCEPT ![i] = e]
  BY <1>3
<1>6. /\ IsChain(new) /\ Len(ch) \in Nat /\ Len(new) = Len(ch) /\ new[i] = e
      /\ \A j \in 1..Len(ch) : j # i => new[j] = ch[j]
  <2>1. PICK out : out = [ch EXCEPT ![i] = e]
    OBVIOUS
  <2>2. PICK P : P = PaymentIn(A, B)
    OBVIOUS
  <2>3. /\ out \in Seq(P) /\ Len(ch) \in Nat /\ Len(out) = Len(ch) /\ out[i] = e
        /\ \A j \in 1..Len(ch) : j # i => out[j] = ch[j]
    BY ONLY <1>1, <1>4, <2>1, <2>2, SeqPlace, i \in 1..Len(ch)
  <2>4. QED
    BY <1>5, <2>1, <2>2, <2>3 DEF IsChain
<1>7. QED
  BY <1>4, <1>6

LEMMA StateIsChain ==
  ASSUME NEW ch, IsChain(ch), NEW i \in 1..Len(ch), NEW s \in {"signed", "sent", "landed", "failed"}
  PROVE  IsChain([ch EXCEPT ![i].state = s])
<1>1. PICK new : new = [ch EXCEPT ![i].state = s]
  OBVIOUS
<1>2. PICK A, B : ch \in Seq(PaymentIn(A, B))
  BY DEF IsChain
<1>3. ch[i] \in PaymentIn(A, B)
  BY <1>2, ElementOfSeq
<1>4. PICK e : e = [ch[i] EXCEPT !.state = s]
  OBVIOUS
<1>5. e \in PaymentIn(A, B)
  BY <1>3, <1>4 DEF PaymentIn
<1>6. new = [ch EXCEPT ![i] = e]
  BY <1>1, <1>4
<1>7. PICK P : P = PaymentIn(A, B)
  OBVIOUS
<1>8. new \in Seq(P)
  BY ONLY <1>2, <1>5, <1>6, <1>7, SeqPlace, i \in 1..Len(ch)
<1>9. QED
  BY <1>1, <1>7, <1>8 DEF IsChain

\* One envelope after a submission.
LEMMA SubmissionChain ==
  ASSUME NEW ch, IsChain(ch), NEW i \in 1..Len(ch),
         NEW s \in {"signed", "sent", "landed", "failed"}, NEW reply, NEW r,
         r = Submission(ch, i, s, reply)
  PROVE  /\ r.reply = reply /\ IsChain(r.chain) /\ Len(r.chain) = Len(ch)
         /\ r.chain[i].state = s /\ r.chain[i].amount = ch[i].amount
         /\ r.chain[i].doubt = (ch[i].doubt \/ (reply = "error" /\ s # "failed"))
         /\ \A j \in 1..Len(ch) : j # i => r.chain[j] = ch[j]
<1>1. PICK A, B : ch \in Seq(PaymentIn(A, B))
  BY DEF IsChain
<1>2. ch[i] \in PaymentIn(A, B)
  BY <1>1, ElementOfSeq
<1>3. PICK d \in BOOLEAN : d = (ch[i].doubt \/ (reply = "error" /\ s # "failed"))
  OBVIOUS
<1>4. PICK e : e = [ch[i] EXCEPT !.state = s, !.doubt = d]
  OBVIOUS
<1>5. e \in PaymentIn(A, B) /\ e.state = s /\ e.doubt = d /\ e.amount = ch[i].amount
  BY <1>2, <1>4 DEF PaymentIn
<1>6. [ch EXCEPT ![i].state = s, ![i].doubt = d] = [ch EXCEPT ![i] = e]
  <2>1. PICK mid : mid = [ch EXCEPT ![i].state = s]
    OBVIOUS
  <2>2. PICK f : f = [ch[i] EXCEPT !.state = s]
    OBVIOUS
  <2>3. mid = [ch EXCEPT ![i] = f] /\ f \in PaymentIn(A, B)
    BY <1>2, <2>1, <2>2 DEF PaymentIn
  <2>4. e = [f EXCEPT !.doubt = d]
    BY <1>4, <2>2
  <2>5. [ch EXCEPT ![i].state = s, ![i].doubt = d] = [mid EXCEPT ![i].doubt = d]
    BY <2>1
  <2>6. [mid EXCEPT ![i].doubt = d] = [mid EXCEPT ![i] = e]
    <3>1. mid[i] = f
      BY ONLY <1>1, <2>3, SeqPlace, i \in 1..Len(ch)
    <3>2. QED
      BY <2>4, <3>1
  <2>7. [mid EXCEPT ![i] = e] = [ch EXCEPT ![i] = e]
    BY <2>3
  <2>. QED
    BY <2>5, <2>6, <2>7
<1>7. r = [chain |-> [ch EXCEPT ![i] = e], reply |-> reply]
  BY <1>3, <1>6 DEF Submission
<1>8. PICK out : out = [ch EXCEPT ![i] = e]
  OBVIOUS
<1>9. /\ IsChain(out) /\ Len(out) = Len(ch) /\ out[i] = e
      /\ \A j \in 1..Len(ch) : j # i => out[j] = ch[j]
  <2>1. PICK P : P = PaymentIn(A, B)
    OBVIOUS
  <2>2. /\ out \in Seq(P) /\ Len(out) = Len(ch) /\ out[i] = e
        /\ \A j \in 1..Len(ch) : j # i => out[j] = ch[j]
    BY ONLY <1>1, <1>5, <1>8, <2>1, SeqPlace, i \in 1..Len(ch)
  <2>3. QED
    BY <2>1, <2>2 DEF IsChain
<1>10. r.chain = out /\ r.reply = reply
  BY <1>7, <1>8
<1>11. QED
  BY <1>3, <1>5, <1>9, <1>10

\* A submission decides the envelope or leaves it as it was or sent; what is decided stays.
\* If it throws, the envelope is dead or in doubt, for ever.
LEMMA SendChain ==
  ASSUME NEW ch, IsChain(ch), NEW i \in 1..Len(ch), NEW u, NEW names,
         NEW r \in submitPreparedSponsoredPayment(ch, i, u, names)
  PROVE  /\ IsChain(r.chain) /\ Len(r.chain) = Len(ch)
         /\ \A j \in 1..Len(ch) : j # i => r.chain[j] = ch[j]
         /\ r.chain[i].amount = ch[i].amount
         /\ r.chain[i].state \in {"signed", "sent", "landed", "failed"}
         /\ r.chain[i].state = "signed" => r.reply = "error"
         /\ ch[i].state = "landed" => r.chain[i].state = "landed"
         /\ ch[i].state = "failed" => r.chain[i].state = "failed"
         /\ ch[i].doubt => r.chain[i].doubt
         /\ r.reply \in {"error", "submitted", "confirmed"}
         /\ r.reply = "error" => r.chain[i].state = "failed" \/ r.chain[i].doubt
         /\ r.chain[i].doubt => ch[i].doubt \/ r.reply = "error"
         /\ {"lost", "refused"} \cap names = {} =>
              /\ r.reply = "error" => r.chain[i].state = "failed"
              /\ r.chain[i].doubt => ch[i].doubt
         /\ r.reply = "confirmed" => r.chain[i].state = "landed"
<1>. DEFINE States == {"signed", "sent", "landed", "failed"}
<1>1. PICK s \in States, reply \in {"error", "submitted", "confirmed"} :
        /\ r = Submission(ch, i, s, reply)
        /\ s = "signed" => reply = "error"
        /\ ch[i].state = "landed" => s = "landed"
        /\ ch[i].state = "failed" => s = "failed"
        /\ {"lost", "refused"} \cap names = {} /\ reply = "error" => s = "failed"
        /\ reply = "confirmed" => s = "landed"
  <2>0. ch[i].state \in States
    BY ChainParts
  <2>1. CASE "refused" \in names /\ r = Submission(ch, i, ch[i].state, "error")
    BY <2>0, <2>1
  <2>2. CASE ch[i].state = "landed" /\ ~("refused" \in names /\ r = Submission(ch, i, ch[i].state, "error"))
    <3>1. r \in {Submission(ch, i, "landed", x) : x \in {"confirmed", "submitted"}}
      BY <2>2 DEF submitPreparedSponsoredPayment
    <3>2. PICK reply \in {"confirmed", "submitted"} : r = Submission(ch, i, "landed", reply)
      BY <3>1
    <3>3. QED
      BY <2>2, <3>2
  <2>3. CASE /\ ch[i].state # "landed"
             /\ ch[i].state = "failed" \/ (ch[i].state # "landed" /\ ch[i].seq <= u)
             /\ ~("refused" \in names /\ r = Submission(ch, i, ch[i].state, "error"))
    <3>1. r = Submission(ch, i, "failed", "error")
      BY <2>3 DEF submitPreparedSponsoredPayment
    <3>2. QED
      BY <2>3, <3>1
  <2>4. CASE /\ ~(/\ ch[i].state # "landed"
                  /\ ch[i].state = "failed" \/ (ch[i].state # "landed" /\ ch[i].seq <= u))
             /\ ch[i].state # "landed"
             /\ ~("refused" \in names /\ r = Submission(ch, i, ch[i].state, "error"))
    <3>1. r \in {Submission(ch, i, o.state, o.reply) : o \in {x \in SubmitOutcomes : x.name \in names}}
      BY <2>4 DEF submitPreparedSponsoredPayment
    <3>2. PICK o \in SubmitOutcomes : o.name \in names /\ r = Submission(ch, i, o.state, o.reply)
      BY <3>1
    <3>3. /\ o.state \in {"landed", "sent", "failed"}
          /\ o.reply \in {"error", "submitted", "confirmed"}
          /\ o.reply = "error" /\ o.name # "lost" => o.state = "failed"
          /\ o.reply = "confirmed" => o.state = "landed"
      BY <3>2 DEF SubmitOutcomes
    <3>4. QED
      BY <2>0, <2>4, <3>2, <3>3
  <2>5. QED
    BY <2>1, <2>2, <2>3, <2>4
<1>2. /\ r.reply = reply /\ IsChain(r.chain) /\ Len(r.chain) = Len(ch)
      /\ r.chain[i].state = s /\ r.chain[i].amount = ch[i].amount
      /\ r.chain[i].doubt = (ch[i].doubt \/ (reply = "error" /\ s # "failed"))
      /\ \A j \in 1..Len(ch) : j # i => r.chain[j] = ch[j]
  BY <1>1, SubmissionChain
<1>3. QED
  BY <1>1, <1>2

\* The network decides a payment that was sent.
LEMMA ChainResolve ==
  ASSUME NEW ch, IsChain(ch), NEW i \in 1..Len(ch), ch[i].state = "sent", NEW u,
         NEW new \in Resolutions(ch, i, u)
  PROVE  /\ IsChain(new) /\ Len(ch) \in Nat /\ Len(new) = Len(ch)
         /\ \A j \in 1..Len(ch) : j # i => new[j] = ch[j]
         /\ new[i].state \in {"landed", "failed"} /\ new[i].doubt = ch[i].doubt
         /\ new[i].amount = ch[i].amount
         /\ Landed(ch) \subseteq Landed(new)
<1>1. PICK s \in {"signed", "sent", "landed", "failed"} :
        s \in {"landed", "failed"} /\ new = [ch EXCEPT ![i].state = s]
  BY DEF Resolutions
<1>2. \A j \in 1..Len(ch) : j # i => new[j] = ch[j]
  BY ONLY <1>1, StateChain, IsChain(ch), i \in 1..Len(ch)
<1>3. IsChain(new)
  BY <1>1, StateIsChain
<1>4. Len(ch) \in Nat /\ Len(new) = Len(ch) /\ new[i].state = s
  BY ONLY <1>1, StateChain, IsChain(ch), i \in 1..Len(ch)
<1>5. new[i].doubt = ch[i].doubt
  BY ONLY <1>1, StateChain, IsChain(ch), i \in 1..Len(ch)
<1>6. new[i].amount = ch[i].amount
  BY ONLY <1>1, StateChain, IsChain(ch), i \in 1..Len(ch)
<1>7. QED
  BY <1>1, <1>2, <1>3, <1>4, <1>5, <1>6 DEF Landed

\* What a look-up tells.
LEMMA VerifyTells ==
  ASSUME NEW ch, IsChain(ch), NEW i \in 1..Len(ch), NEW answer \in verifyUsdcPayment(ch, i)
  PROVE  /\ answer = "SUCCESS" => ch[i].state = "landed"
         /\ answer = "FAILED" => ch[i].state = "failed"
<1>1. ch[i].state \in {"signed", "sent", "landed", "failed"}
  BY ChainParts
<1>2. QED
  BY <1>1 DEF verifyUsdcPayment
=============================================================================
