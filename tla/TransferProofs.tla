---------------------------- MODULE TransferProofs ----------------------------
(***************************************************************************)
(* Machine-checked proofs about transfers between organisations and        *)
(* deposits from outside, on one ledger, for any organisations, requests,  *)
(* processes, deposits and amounts.                                        *)
(*                                                                         *)
(* First, what a step may do to the ledger: it grows by the movements of   *)
(* certain legs (Grown).  Then the inductive invariant, TransferInv: every *)
(* movement is that of a leg of some transfer, deposit or seed; what an    *)
(* on-chain transfer has posted agrees with the one envelope that may have *)
(* been sent for it (Sound); each call stands on what it has done so far   *)
(* (Working); and a wallet has locked what its transfers in progress hold  *)
(* (LockedFits), if no submission throws for less than a dead envelope.    *)
(***************************************************************************)
EXTENDS InfraStellarDeposit, LedgerLemmas, SequenceTheorems

-----------------------------------------------------------------------------
(* Ledgers that grow *)

\* The movement m on wallet w is that of leg l.
Records(m, w, l) ==
  /\ l.wallet = w /\ m.key = l.key /\ m.op = l.op
  /\ m.type = l.type /\ m.ref = l.ref /\ m.amount = l.amount

\* A wallet without a row has no movements.
Bare(L) == \A w \in Wallets : L.rows[w].status = "absent" => L.movements[w] = <<>>

MovesLocks(l) == l.op \in {"lock", "release", "finalize"}

\* M has the movements of L, and after them movements of legs of S.
Grown(L, M, S) ==
  /\ Well(M) /\ Bare(M)
  /\ \A w \in Wallets :
       /\ Len(L.movements[w]) <= Len(M.movements[w])
       /\ \A i \in 1..Len(L.movements[w]) : M.movements[w][i] = L.movements[w][i]
       /\ \A i \in 1..Len(M.movements[w]) :
            i > Len(L.movements[w]) => \E l \in S : Records(M.movements[w][i], w, l)
  /\ (\A l \in S : ~MovesLocks(l)) =>
       \A w \in Wallets : M.rows[w].bal.locked = L.rows[w].bal.locked

\* Every movement is that of a leg of S.
Explained(L, S) ==
  \A w \in Wallets : \A i \in 1..Len(L.movements[w]) : \E l \in S : Records(L.movements[w][i], w, l)

MovedIn(L, w, type, ref, amount) ==
  \E i \in 1..Len(L.movements[w]) :
    /\ L.movements[w][i].type = type /\ L.movements[w][i].ref = ref
    /\ L.movements[w][i].amount = amount

LEMMA MovementsTyped ==
  ASSUME NEW L, Well(L), NEW w \in Wallets
  PROVE  L.movements[w] \in Seq(Movement) /\ Len(L.movements[w]) \in Nat
BY DEF Well, Ledger

LEMMA GrownSame ==
  ASSUME NEW L, Well(L), Bare(L), NEW S
  PROVE  Grown(L, L, S)
BY MovementsTyped DEF Grown

LEMMA GrownMore ==
  ASSUME NEW L, NEW M, NEW S, Grown(L, M, S), NEW T, S \subseteq T
  PROVE  Grown(L, M, T)
BY DEF Grown

\* Growth after growth.
LEMMA GrownTwice ==
  ASSUME NEW L, Well(L), NEW M, NEW N, NEW S, Grown(L, M, S), Grown(M, N, S)
  PROVE  Grown(L, N, S)
<1>1. Well(N) /\ Bare(N) /\ Well(M)
  BY DEF Grown
<1>2. ASSUME NEW w \in Wallets
      PROVE  /\ Len(L.movements[w]) <= Len(N.movements[w])
             /\ \A i \in 1..Len(L.movements[w]) : N.movements[w][i] = L.movements[w][i]
             /\ \A i \in 1..Len(N.movements[w]) :
                  i > Len(L.movements[w]) => \E l \in S : Records(N.movements[w][i], w, l)
  <2>1. /\ Len(L.movements[w]) \in Nat /\ Len(M.movements[w]) \in Nat
        /\ Len(N.movements[w]) \in Nat
    BY <1>1, MovementsTyped
  <2>2. Len(L.movements[w]) <= Len(M.movements[w]) /\ Len(M.movements[w]) <= Len(N.movements[w])
    BY DEF Grown
  <2>3. \A i \in 1..Len(L.movements[w]) : M.movements[w][i] = L.movements[w][i]
    BY DEF Grown
  <2>4. \A i \in 1..Len(M.movements[w]) : N.movements[w][i] = M.movements[w][i]
    BY DEF Grown
  <2>5. ASSUME NEW i \in 1..Len(N.movements[w]), i > Len(L.movements[w])
        PROVE  \E l \in S : Records(N.movements[w][i], w, l)
    <3>1. CASE i \in 1..Len(M.movements[w])
      <4>1. \E l \in S : Records(M.movements[w][i], w, l)
        BY <2>5, <3>1 DEF Grown
      <4>2. QED
        BY <2>4, <3>1, <4>1
    <3>2. CASE i > Len(M.movements[w])
      BY <3>2 DEF Grown
    <3>3. QED
      BY <2>1, <3>1, <3>2
  <2>6. ASSUME NEW i \in 1..Len(L.movements[w])
        PROVE  N.movements[w][i] = L.movements[w][i]
    <3>1. i \in 1..Len(M.movements[w])
      BY <2>1, <2>2
    <3>2. QED
      BY <2>3, <2>4, <3>1
  <2>7. Len(L.movements[w]) <= Len(N.movements[w])
    BY <2>1, <2>2
  <2>8. QED
    BY <2>5, <2>6, <2>7
<1>3. ASSUME \A l \in S : ~MovesLocks(l), NEW w \in Wallets
      PROVE  N.rows[w].bal.locked = L.rows[w].bal.locked
  <2>1. M.rows[w].bal.locked = L.rows[w].bal.locked
    BY <1>3 DEF Grown
  <2>2. N.rows[w].bal.locked = M.rows[w].bal.locked
    BY <1>3 DEF Grown
  <2>3. QED
    BY <2>1, <2>2
<1>4. QED
  BY <1>1, <1>2, <1>3 DEF Grown

LEMMA EnsureFields ==
  ASSUME NEW L, Well(L), NEW w \in Wallets
  PROVE  /\ Well(ensureWalletAccount(L, w))
         /\ ensureWalletAccount(L, w).movements = L.movements
         /\ ensureWalletAccount(L, w).rows[w].status # "absent"
         /\ \A v \in Wallets :
              /\ ensureWalletAccount(L, w).rows[v].bal = L.rows[v].bal
              /\ L.rows[v].status # "absent" =>
                   ensureWalletAccount(L, w).rows[v].status = L.rows[v].status
              /\ ensureWalletAccount(L, w).rows[v].status = "absent" =>
                   L.rows[v].status = "absent"
<1>1. L.rows \in [Wallets -> Row] /\ L = [rows |-> L.rows, movements |-> L.movements]
  BY DEF Well, Ledger
<1>2. \A v \in Wallets : L.rows[v] \in Row
  BY <1>1
<1>3. Well(ensureWalletAccount(L, w))
  BY EnsureWell
<1>4. CASE L.rows[w].status = "absent"
  <2>1. PICK M : M = [L EXCEPT !.rows[w].status = "active"]
    OBVIOUS
  <2>2. /\ M.movements = L.movements
        /\ M.rows = [L.rows EXCEPT ![w] = [L.rows[w] EXCEPT !.status = "active"]]
    BY <1>1, <2>1
  <2>3. M.rows[w].status = "active" /\ M.rows[w].bal = L.rows[w].bal
    BY <1>1, <1>2, <2>2 DEF Row
  <2>4. \A v \in Wallets : v # w => M.rows[v] = L.rows[v]
    BY <1>1, <2>2
  <2>5. ensureWalletAccount(L, w) = M
    BY <1>4, <2>1 DEF ensureWalletAccount
  <2>6. QED
    BY <1>3, <1>4, <2>2, <2>3, <2>4, <2>5
<1>5. CASE L.rows[w].status # "absent"
  BY <1>3, <1>5 DEF ensureWalletAccount
<1>6. QED
  BY <1>4, <1>5

LEMMA GrownEnsure ==
  ASSUME NEW L, Well(L), Bare(L), NEW w \in Wallets, NEW S
  PROVE  Grown(L, ensureWalletAccount(L, w), S)
<1>1. PICK M : M = ensureWalletAccount(L, w)
  OBVIOUS
<1>2. Well(M) /\ M.movements = L.movements
  BY <1>1, EnsureFields
<1>3. \A v \in Wallets : M.rows[v].bal = L.rows[v].bal
  BY <1>1, EnsureFields
<1>4. Bare(M)
  BY <1>1, <1>2, EnsureFields DEF Bare
<1>5. QED
  BY <1>1, <1>2, <1>3, <1>4, MovementsTyped DEF Grown

\* A covered operation that is not about locks leaves them.
LEMMA LocksStay ==
  ASSUME NEW l \in Leg, ~MovesLocks(l), NEW b \in Balance
  PROVE  After(l.op, b, l.amount).locked = b.locked
<1>1. l.op \in {"credit", "creditPending", "releasePending", "debit"}
  BY DEF Leg, OpNames, MovesLocks
<1>2. QED
  BY <1>1 DEF After, creditOrgWallet, creditOrgWalletPending, releasePendingToAvailable,
              debitOrgWallet, Balance

LEMMA GrownPost ==
  ASSUME NEW L, Well(L), Bare(L), NEW l \in Leg, Admissible(L, l), NEW S, l \in S
  PROVE  Grown(L, Post(L, l), S)
<1>0. L \in Ledger /\ l.wallet \in Wallets /\ Covers(l.op, L.rows[l.wallet].bal, l.amount)
  BY DEF Well, Leg, Admissible
<1>1. Well(Post(L, l))
  BY PostWell
<1>2. ASSUME NEW w \in Wallets
      PROVE  /\ w # l.wallet => Post(L, l).movements[w] = L.movements[w] /\ Post(L, l).rows[w] = L.rows[w]
             /\ w = l.wallet =>
                  /\ Len(Post(L, l).movements[w]) = Len(L.movements[w]) + 1
                  /\ Post(L, l).movements[w][Len(Post(L, l).movements[w])] = NewMovement(L, l)
                  /\ Post(L, l).rows[w].bal = NewBalance(L, l)
                  /\ Post(L, l).rows[w].status = L.rows[w].status
             /\ Len(L.movements[w]) \in Nat
             /\ \A i \in 1..Len(L.movements[w]) : Post(L, l).movements[w][i] = L.movements[w][i]
  BY <1>0, PostMovements
<1>3. Bare(Post(L, l))
  <2>1. L.rows[l.wallet].status # "absent"
    BY DEF Admissible
  <2>2. QED
    BY <1>2, <2>1 DEF Bare
<1>4. Records(NewMovement(L, l), l.wallet, l)
  BY DEF Records, NewMovement
<1>5. ASSUME NEW w \in Wallets
      PROVE  /\ Len(L.movements[w]) <= Len(Post(L, l).movements[w])
             /\ \A i \in 1..Len(Post(L, l).movements[w]) :
                  i > Len(L.movements[w]) =>
                    \E x \in S : Records(Post(L, l).movements[w][i], w, x)
  <2>1. CASE w # l.wallet
    BY <1>2, <2>1
  <2>2. CASE w = l.wallet
    <3>1. ASSUME NEW i \in 1..Len(Post(L, l).movements[w]), i > Len(L.movements[w])
          PROVE  i = Len(Post(L, l).movements[w])
      BY <1>2, <2>2, <3>1
    <3>2. Post(L, l).movements[w][Len(Post(L, l).movements[w])] = NewMovement(L, l)
      BY <1>2, <2>2
    <3>3. Len(L.movements[w]) <= Len(Post(L, l).movements[w])
      BY <1>2, <2>2
    <3>4. QED
      BY <1>4, <2>2, <3>1, <3>2, <3>3
  <2>3. QED
    BY <2>1, <2>2
<1>6. ASSUME \A x \in S : ~MovesLocks(x), NEW w \in Wallets
      PROVE  Post(L, l).rows[w].bal.locked = L.rows[w].bal.locked
  <2>1. L.rows[l.wallet].bal \in Balance
    BY <1>0 DEF Ledger, Row
  <2>2. ~MovesLocks(l)
    BY <1>6
  <2>3. NewBalance(L, l).locked = L.rows[l.wallet].bal.locked
    BY <2>1, <2>2, LocksStay DEF NewBalance
  <2>4. CASE w = l.wallet
    BY <1>2, <2>3, <2>4
  <2>5. CASE w # l.wallet
    BY <1>2, <2>5
  <2>6. QED
    BY <2>4, <2>5
<1>7. QED
  BY <1>1, <1>2, <1>3, <1>5, <1>6 DEF Grown

\* A pair is its debit followed by its credit.
LEMMA PairInTurn ==
  ASSUME NEW L, Well(L), NEW d \in Leg, NEW c \in Leg, Admissible(L, d), Admissible(L, c),
         d.wallet # c.wallet, d.key # c.key
  PROVE  Admissible(Post(L, d), c) /\ PostPair(L, d, c) = Post(Post(L, d), c)
<1>1. L \in Ledger
  BY DEF Well
<1>2. Admissible(Post(L, d), c)
  BY <1>1, OtherLegAdmissible
<1>3. c.wallet \in Wallets
  BY DEF Leg
<1>4. Post(L, d).rows[c.wallet] = L.rows[c.wallet]
  BY <1>1, <1>3, PostMovements DEF Admissible
<1>5. QED
  BY <1>2, <1>4 DEF PostPair, Post

LEMMA GrownPair ==
  ASSUME NEW L, Well(L), Bare(L), NEW d \in Leg, NEW c \in Leg, Admissible(L, d),
         Admissible(L, c), d.wallet # c.wallet, d.key # c.key, NEW S, d \in S, c \in S
  PROVE  Grown(L, PostPair(L, d, c), S)
<1>1. Grown(L, Post(L, d), S)
  BY GrownPost
<1>2. Well(Post(L, d)) /\ Bare(Post(L, d))
  BY <1>1 DEF Grown
<1>3. Grown(Post(L, d), Post(Post(L, d), c), S)
  BY <1>2, GrownPost, PairInTurn
<1>4. QED
  BY <1>1, <1>3, GrownTwice, PairInTurn

-----------------------------------------------------------------------------
\* Keys stay posted, and a key that is new is that of a new leg.
LEMMA GrownPosted ==
  ASSUME NEW L, Well(L), NEW M, NEW S, Grown(L, M, S), NEW k
  PROVE  /\ Posted(L, k) => Posted(M, k)
         /\ Posted(M, k) => Posted(L, k) \/ \E l \in S : l.key = k
<1>1. Well(M)
  BY DEF Grown
<1>2. ASSUME Posted(L, k) PROVE Posted(M, k)
  <2>1. PICK w \in Wallets : \E i \in 1..Len(L.movements[w]) : L.movements[w][i].key = k
    BY <1>2 DEF Posted
  <2>2. PICK i \in 1..Len(L.movements[w]) : L.movements[w][i].key = k
    BY <2>1
  <2>3. i \in 1..Len(M.movements[w]) /\ M.movements[w][i].key = k
    <3>1. /\ Len(L.movements[w]) <= Len(M.movements[w])
          /\ M.movements[w][i] = L.movements[w][i]
      BY DEF Grown
    <3>2. QED
      BY <1>1, <2>2, <3>1, MovementsTyped
  <2>4. QED
    BY <2>3 DEF Posted
<1>3. ASSUME Posted(M, k), ~Posted(L, k) PROVE \E l \in S : l.key = k
  <2>1. PICK w \in Wallets : \E i \in 1..Len(M.movements[w]) : M.movements[w][i].key = k
    BY <1>3 DEF Posted
  <2>2. PICK i \in 1..Len(M.movements[w]) : M.movements[w][i].key = k
    BY <2>1
  <2>3. i \notin 1..Len(L.movements[w])
    <3>1. i \in 1..Len(L.movements[w]) => M.movements[w][i] = L.movements[w][i]
      BY DEF Grown
    <3>2. QED
      BY <1>3, <2>2, <3>1 DEF Posted
  <2>4. i > Len(L.movements[w])
    BY <1>1, <2>3, MovementsTyped
  <2>5. \E l \in S : Records(M.movements[w][i], w, l)
    BY <2>4 DEF Grown
  <2>6. QED
    BY <2>2, <2>5 DEF Records
<1>4. QED
  BY <1>2, <1>3

LEMMA GrownExplained ==
  ASSUME NEW L, Well(L), NEW M, NEW S, Explained(L, S), NEW T, Grown(L, M, T), NEW U,
         S \subseteq U, T \subseteq U
  PROVE  Explained(M, U)
<1>. SUFFICES ASSUME NEW w \in Wallets, NEW i \in 1..Len(M.movements[w])
              PROVE  \E l \in U : Records(M.movements[w][i], w, l)
  BY DEF Explained
<1>1. CASE i \in 1..Len(L.movements[w])
  <2>1. M.movements[w][i] = L.movements[w][i]
    BY <1>1 DEF Grown
  <2>2. \E l \in S : Records(L.movements[w][i], w, l)
    BY <1>1 DEF Explained
  <2>3. QED
    BY <2>1, <2>2
<1>2. CASE i > Len(L.movements[w])
  BY <1>2 DEF Grown
<1>3. QED
  BY <1>1, <1>2, MovementsTyped DEF Grown

LEMMA GrownMoved ==
  ASSUME NEW L, Well(L), NEW M, NEW S, Grown(L, M, S), NEW w \in Wallets,
         NEW type, NEW ref, NEW amount, MovedIn(L, w, type, ref, amount)
  PROVE  MovedIn(M, w, type, ref, amount)
<1>1. PICK i \in 1..Len(L.movements[w]) :
        /\ L.movements[w][i].type = type /\ L.movements[w][i].ref = ref
        /\ L.movements[w][i].amount = amount
  BY DEF MovedIn
<1>2. /\ Len(L.movements[w]) <= Len(M.movements[w])
      /\ M.movements[w][i] = L.movements[w][i]
  BY DEF Grown
<1>3. i \in 1..Len(M.movements[w])
  BY <1>1, <1>2, MovementsTyped DEF Grown
<1>4. QED
  BY <1>1, <1>2, <1>3 DEF MovedIn
-----------------------------------------------------------------------------
(* The legs there may be, and what has been posted *)

\* "fee": the fee legs are those of a transfer that is charged for.
PlainLegs(q) ==
  {DebitLeg(q), CreditLeg(q)} \cup {l \in {FeeDebitLeg(q), FeeRevenueLeg(q)} : Fee > 0}

DepositLegs(d) == {DepositLeg("dep.pending", d), DepositLeg("dep.available", d)}

SeedLeg(w) ==
  [wallet |-> w, op |-> "credit", type |-> "adjustment", key |-> <<w, "seed">>, ref |-> NoRef,
   amount |-> Funds]

IsLegOf(l, ts) ==
  \/ \E q \in OnchainRequests, on \in PostingLabels : q \in ts /\ l = LegAt(on, q)
  \/ \E q \in Requests : q \in ts /\ q.mode = "ledger" /\ l \in PlainLegs(q)
  \/ \E d \in Payments : l \in DepositLegs(d)
  \/ \E w \in Funded : l = SeedLeg(w)

LegsOf(ts) == {l \in Leg : IsLegOf(l, ts)}

\* A posting of an on-chain transfer was made.
Made(on, q) == Posted(ledger, LegAt(on, q).key)

\* One caller at a time for an on-chain transfer; a submission throws only when its envelope
\* is dead; the fee is not paid to its payer; no two senders use one key.
OneCall == \A q \in OnchainRequests : \A p, r \in Callers[q] : p = r
NoLost == {"lost", "refused"} \cap OutcomeNames = {}
FeeApart == Fee > 0 => \A q \in Requests : q.mode = "ledger" => q.from # Revenue
OneSender ==
  \A q, x \in Requests : q.mode = "ledger" /\ x.mode = "ledger" /\ q.key = x.key => q.from = x.from

-----------------------------------------------------------------------------
(* The inductive invariant *)

LedgerLabels == {"canPay", "find", "tx"}
EarlyLabels == {"on.check", "on.insert"}
LockLabels == {"on.read", "on.lock", "on.feeLock"}
SendLabels ==
  {"on.recheck", "on.confirm", "on.prepare", "on.save", "on.send", "on.sent", "on.landed",
   "on.sentRow", "on.landedRow", "on.verify"}
FinLabels ==
  {"fin.debit", "fin.credit", "fin.feeDebit", "fin.revenue", "fin.fee", "fin.settlement", "fin.row"}
FailLabels == {"fail.settlement", "fail.release", "fail.feeRelease", "fail.row"}
LateLabels == LockLabels \cup SendLabels \cup FinLabels \cup FailLabels
OnchainLabels == EarlyLabels \cup LateLabels
DepLabels == {"dep.insert", "dep.mark", "dep.pending", "dep.pended", "dep.available", "dep.confirm"}
Labels == {"idle"} \cup LedgerLabels \cup OnchainLabels \cup DepLabels

SettlementRow ==
  [status : {"none", "pending", "submitted", "confirmed", "failed"}, ref : Nat]

DepositRow == [status : {"none", "verified", "pending_ledger", "confirmed"}, tx : BOOLEAN]

\* The ledger and the rows ...
RowsTyped ==
  /\ Well(ledger) /\ Bare(ledger)
  /\ transfers \subseteq Requests
  /\ onrow \in [OnchainRequests -> {"none", "processing", "submitted", "completed", "failed"}]
  /\ settle \in [OnchainRequests -> SettlementRow]
  /\ pays = [q \in OnchainRequests |-> pays[q]]
  /\ \A q \in OnchainRequests : IsChain(pays[q])
  /\ dep \in [Hashes -> DepositRow]

\* ... and what the calls hold.
CallsTyped ==
  /\ pc \in [Procs -> Labels]
  /\ req \in [Procs -> Requests \cup {NoRequest}]
  /\ snap \in [Procs -> SettlementRow]
  /\ hash \in [Procs -> Nat]
  /\ doc = [p \in Procs |-> doc[p]]
  /\ drow \in [Procs -> DepositRow]

Typed == RowsTyped /\ CallsTyped

\* The settlement row points at one envelope, and that one has landed; or it has failed, or
\* a submission threw for less than that.
StateIs(q, s) == settle[q].ref # 0 /\ pays[q][settle[q].ref].state = s
Paid(q) == StateIs(q, "landed")
Lost(q) == StateIs(q, "failed") \/ (settle[q].ref # 0 /\ pays[q][settle[q].ref].doubt)

Unique == \A x, y \in transfers : SameClientKey(x, y) => x = y

\* What an on-chain transfer has posted agrees with what became of its envelope.
Agrees(q) ==
  /\ Made("fin.debit", q) \/ Made("fin.credit", q) \/ Made("fin.feeDebit", q)
       \/ Made("fin.revenue", q) => Paid(q)
  /\ Made("fail.release", q) \/ Made("fail.feeRelease", q) => Lost(q)
  /\ Made("fin.debit", q) \/ Made("fail.release", q) => Made("on.lock", q)
  /\ Made("fin.feeDebit", q) \/ Made("fail.feeRelease", q) => Made("on.feeLock", q)
  /\ Made("fin.credit", q) => Made("fin.debit", q)
  /\ Made("fin.revenue", q) => Made("fin.feeDebit", q)

Sound(q) ==
  /\ settle[q].ref \in 0..Len(pays[q]) /\ Len(pays[q]) <= MaxSends
  /\ \A i \in 1..Len(pays[q]) : pays[q][i].state # "signed" => i = settle[q].ref
  /\ q \in transfers => Agrees(q)
  /\ onrow[q] # "none" => q \in transfers
  /\ onrow[q] = "failed" => Lost(q)
  /\ NoLost => ~Doubtful(pays[q])
  /\ onrow[q] = "completed" =>
       /\ Made("fin.debit", q) /\ Made("fin.credit", q)
       /\ Made("fin.feeDebit", q) /\ Made("fin.revenue", q)

\* What the calls stand on, label by label.
Holding(p) ==
  LET q == req[p]
  IN /\ pc[p] \in {"on.lock", "on.feeLock", "on.recheck", "on.prepare", "on.confirm"} =>
          snap[p].ref = settle[q].ref
     /\ pc[p] = "on.confirm" => settle[q].ref # 0
     /\ pc[p] = "on.save" => hash[p] \in 1..Len(pays[q]) /\ settle[q].ref = 0
     /\ pc[p] \in {"on.send", "on.sent", "on.landed", "on.sentRow", "on.landedRow", "on.verify"} =>
          hash[p] = settle[q].ref /\ hash[p] # 0
     /\ pc[p] \in {"on.landed", "on.landedRow"} \cup FinLabels => Paid(q)
     /\ pc[p] \in FailLabels => Lost(q)

Done(p) ==
  LET q == req[p]
  IN /\ pc[p] \in {"on.feeLock"} \cup SendLabels \cup FinLabels \cup FailLabels => Made("on.lock", q)
     /\ pc[p] \in SendLabels \cup FinLabels \cup FailLabels => Made("on.feeLock", q)
     /\ pc[p] \in FinLabels \ {"fin.debit"} => Made("fin.debit", q)
     /\ pc[p] \in {"fin.feeDebit", "fin.revenue", "fin.fee", "fin.settlement", "fin.row"} =>
          Made("fin.credit", q)
     /\ pc[p] \in {"fin.revenue", "fin.fee", "fin.settlement", "fin.row"} => Made("fin.feeDebit", q)
     /\ pc[p] \in {"fin.fee", "fin.settlement", "fin.row"} => Made("fin.revenue", q)

Working(p) ==
  /\ pc[p] \in LedgerLabels => req[p] \in Requests /\ req[p].mode = "ledger"
  /\ pc[p] \in OnchainLabels => req[p] \in OnchainRequests /\ p \in Callers[req[p]]
  /\ pc[p] \in LateLabels => req[p] \in transfers
  /\ pc[p] \in DepLabels => doc[p] \in Payments
  /\ pc[p] = "dep.confirm" => Posted(ledger, <<doc[p].id, "available">>)
  /\ Holding(p)
  /\ Done(p)

\* The locks of the transfers in progress are what their wallets have locked.
Locks == OnchainRequests \X {"on.lock", "on.feeLock"}
LockedAmount == [x \in Locks |-> LegAt(x[2], x[1]).amount]
LockOver(x) ==
  IF x[2] = "on.lock" THEN Made("fin.debit", x[1]) \/ Made("fail.release", x[1])
  ELSE Made("fin.feeDebit", x[1]) \/ Made("fail.feeRelease", x[1])
HeldLocks(w) ==
  {x \in Locks : x[1].from = w /\ x[1] \in transfers /\ Made(x[2], x[1]) /\ ~LockOver(x)}
LocksFit(w) ==
  /\ IsFiniteSet(HeldLocks(w))
  /\ ledger.rows[w].bal.locked = SumFunctionOnSet(LockedAmount, HeldLocks(w))
LockedFits == \A w \in Wallets : LocksFit(w)
Fitting == NoLost => LockedFits

\* A recorded transfer inside the ledger has moved its amount.
PlainMoved ==
  \A q \in transfers :
    q.mode = "ledger" =>
      /\ MovedIn(ledger, q.from, "internal_transfer_debit", <<"out", q.from, q.key>>, q.amount)
      /\ MovedIn(ledger, q.to, "internal_transfer_credit", <<"in", q.from, q.key>>, q.amount)

DepositsPosted ==
  \A h \in Hashes : dep[h].status = "confirmed" => Posted(ledger, <<h, "available">>)

TransferInv ==
  /\ Typed
  /\ Explained(ledger, LegsOf(transfers))
  /\ Unique
  /\ Fitting
  /\ OneSender => PlainMoved
  /\ DepositsPosted
  /\ \A x \in OnchainRequests : Sound(x)
  /\ \A r \in Procs : Working(r)

-----------------------------------------------------------------------------
(* Keys tell legs apart *)

\* The keys of the legs of an on-chain transfer.
LEMMA LegKeys ==
  ASSUME NEW q
  PROVE  /\ LegAt("on.lock", q).key = <<SenderTx(q), "lock">>
         /\ LegAt("on.feeLock", q).key = <<SenderTx(q), "fee_lock">>
         /\ LegAt("fin.debit", q).key = <<SenderTx(q), "finalize">>
         /\ LegAt("fin.credit", q).key = <<RecipientTx(q), "credit">>
         /\ LegAt("fin.feeDebit", q).key = <<SenderTx(q), "fee_finalize">>
         /\ LegAt("fin.revenue", q).key = <<SenderTx(q), "fee_revenue">>
         /\ LegAt("fail.release", q).key = <<SenderTx(q), "release">>
         /\ LegAt("fail.feeRelease", q).key = <<SenderTx(q), "fee_release">>
BY DEF LegAt, LegOf

LEMMA OnchainKeys ==
  ASSUME NEW q, NEW x, NEW a \in PostingLabels, NEW b \in PostingLabels,
         LegAt(a, q).key = LegAt(b, x).key
  PROVE  a = b /\ q.from = x.from /\ q.key = x.key
<1>. DEFINE T(on, y) == IF on = "fin.credit" THEN RecipientTx(y) ELSE SenderTx(y)
<1>1. PICK step : step = [on \in PostingLabels |->
        CASE on = "on.lock" -> "lock"
          [] on = "on.feeLock" -> "fee_lock"
          [] on = "fin.debit" -> "finalize"
          [] on = "fin.credit" -> "credit"
          [] on = "fin.feeDebit" -> "fee_finalize"
          [] on = "fin.revenue" -> "fee_revenue"
          [] on = "fail.release" -> "release"
          [] on = "fail.feeRelease" -> "fee_release"]
  OBVIOUS
<1>2. ASSUME NEW on \in PostingLabels, NEW y
      PROVE  LegAt(on, y).key = <<T(on, y), step[on]>>
  BY <1>1, LegKeys DEF PostingLabels
<1>3. step[a] = step[b] => a = b
  BY <1>1 DEF PostingLabels
<1>4. step[a] = step[b] /\ T(a, q) = T(b, x)
  <2>1. PICK t, u : t = T(a, q) /\ u = T(b, x)
    OBVIOUS
  <2>2. LegAt(a, q).key = <<t, step[a]>> /\ LegAt(b, x).key = <<u, step[b]>>
    BY <1>2, <2>1
  <2>3. <<t, step[a]>> = <<u, step[b]>>
    BY <2>2
  <2>4. t = u /\ step[a] = step[b]
    BY <2>3
  <2>5. QED
    BY <2>1, <2>4
<1>5. QED
  BY <1>3, <1>4 DEF SenderTx, RecipientTx

\* No other posting has the key of one of an on-chain transfer.
LEMMA OtherKeys ==
  ASSUME NEW q \in OnchainRequests, NEW on \in PostingLabels
  PROVE  /\ \A x \in Requests : \A l \in PlainLegs(x) : l.key # LegAt(on, q).key
         /\ \A d : \A l \in DepositLegs(d) : l.key # LegAt(on, q).key
         /\ \A w : SeedLeg(w).key # LegAt(on, q).key
<1>1. PICK k : k = LegAt(on, q).key
  OBVIOUS
<1>2. \/ \E t, s : k = <<t, s>> /\ s \in {"lock", "fee_lock", "finalize", "fee_finalize",
                                          "fee_revenue", "release", "fee_release"}
      \/ k = <<RecipientTx(q), "credit">>
  BY <1>1, LegKeys DEF PostingLabels
<1>3. ASSUME NEW x \in Requests, NEW l \in PlainLegs(x)
      PROVE  l.key # k
  <2>1. x.key # RecipientTx(q)
    BY OnchainLegsAssumption DEF OnchainRequests
  <2>2. \/ l.key = <<x.key, "credit">>
        \/ l.key = <<x.key, "debit">> \/ l.key = <<x.key, "fee">> \/ l.key = <<x.key, "revenue">>
    BY DEF PlainLegs, DebitLeg, CreditLeg, FeeDebitLeg, FeeRevenueLeg
  <2>3. QED
    BY <1>2, <2>1, <2>2
<1>4. ASSUME NEW d, NEW l \in DepositLegs(d)
      PROVE  l.key # k
  <2>1. l.key = <<d.id, "pending">> \/ l.key = <<d.id, "available">>
    BY DEF DepositLegs, DepositLeg
  <2>2. QED
    BY <1>2, <2>1
<1>5. ASSUME NEW w
      PROVE  SeedLeg(w).key # k
  <2>1. SeedLeg(w).key = <<w, "seed">>
    BY DEF SeedLeg
  <2>2. QED
    BY <1>2, <2>1
<1>6. QED
  BY <1>1, <1>3, <1>4, <1>5

LEMMA LegsTyped ==
  /\ \A q \in OnchainRequests, on \in PostingLabels : LegAt(on, q) \in Leg
  /\ \A q \in Requests : q.mode = "ledger" => \A l \in PlainLegs(q) : l \in Leg
  /\ \A d \in Payments : \A l \in DepositLegs(d) : l \in Leg
  /\ \A w \in Funded : SeedLeg(w) \in Leg
<1>1. \A q \in OnchainRequests, on \in PostingLabels : LegAt(on, q) \in Leg
  BY OnchainLegsAssumption
<1>2. \A q \in Requests : q.mode = "ledger" => \A l \in PlainLegs(q) : l \in Leg
  BY LedgerLegsAssumption DEF PlainLegs
<1>3. \A d \in Payments : \A l \in DepositLegs(d) : l \in Leg
  BY DepositLegsAssumption DEF DepositLegs
<1>4. ASSUME NEW w \in Funded PROVE SeedLeg(w) \in Leg
  <2>1. SeedMovement(w) \in Movement /\ w \in Wallets
    BY LedgerLegsAssumption
  <2>2. <<w, "seed">> \in Keys /\ NoRef \in Refs \cup {NoRef} /\ Funds \in Amounts
    BY <2>1 DEF SeedMovement, Movement
  <2>3. QED
    BY <2>1, <2>2 DEF SeedLeg, Leg, OpNames, MovementTypes
<1>5. QED
  BY <1>1, <1>2, <1>3, <1>4

LEMMA LegsMore ==
  ASSUME NEW ts, NEW us, ts \subseteq us
  PROVE  LegsOf(ts) \subseteq LegsOf(us)
BY DEF LegsOf, IsLegOf

-----------------------------------------------------------------------------
(* What an explained ledger says of an on-chain transfer *)

\* What has the key of a leg of a recorded transfer is the movement of that leg.
LEMMA KeyIsLeg ==
  ASSUME Explained(ledger, LegsOf(transfers)), Unique,
         NEW q \in OnchainRequests, q \in transfers, NEW on \in PostingLabels,
         NEW w \in Wallets, NEW i \in 1..Len(ledger.movements[w]),
         ledger.movements[w][i].key = LegAt(on, q).key
  PROVE  Records(ledger.movements[w][i], w, LegAt(on, q))
<1>1. PICK l \in LegsOf(transfers) : Records(ledger.movements[w][i], w, l)
  BY DEF Explained
<1>2. l.key = LegAt(on, q).key /\ IsLegOf(l, transfers)
  BY <1>1 DEF Records, LegsOf
<1>3. PICK x \in OnchainRequests, a \in PostingLabels : x \in transfers /\ l = LegAt(a, x)
  BY <1>2, OtherKeys DEF IsLegOf
<1>4. a = on /\ x.from = q.from /\ x.key = q.key
  BY <1>2, <1>3, OnchainKeys
<1>5. x = q
  BY <1>3, <1>4 DEF Unique, SameClientKey
<1>6. QED
  BY <1>1, <1>3, <1>4, <1>5

LEMMA MadeMoved ==
  ASSUME Explained(ledger, LegsOf(transfers)), Unique,
         NEW q \in OnchainRequests, q \in transfers, NEW on \in PostingLabels, Made(on, q)
  PROVE  LET l == LegAt(on, q)
         IN MovedIn(ledger, l.wallet, l.type, l.ref, l.amount)
<1>1. PICK w \in Wallets : \E i \in 1..Len(ledger.movements[w]) :
        ledger.movements[w][i].key = LegAt(on, q).key
  BY DEF Made, Posted
<1>2. PICK i \in 1..Len(ledger.movements[w]) : ledger.movements[w][i].key = LegAt(on, q).key
  BY <1>1
<1>3. Records(ledger.movements[w][i], w, LegAt(on, q))
  BY <1>2, KeyIsLeg
<1>4. QED
  BY <1>3 DEF Records, MovedIn

\* A request of which no row was written has posted nothing.
LEMMA FreshNotMade ==
  ASSUME Explained(ledger, LegsOf(transfers)), NEW q \in OnchainRequests,
         \A x \in transfers : ~SameClientKey(q, x), NEW on \in PostingLabels
  PROVE  ~Made(on, q)
<1>. SUFFICES ASSUME Made(on, q) PROVE FALSE
  OBVIOUS
<1>1. PICK w \in Wallets : \E i \in 1..Len(ledger.movements[w]) :
        ledger.movements[w][i].key = LegAt(on, q).key
  BY DEF Made, Posted
<1>2. PICK i \in 1..Len(ledger.movements[w]) : ledger.movements[w][i].key = LegAt(on, q).key
  BY <1>1
<1>3. PICK l \in LegsOf(transfers) : Records(ledger.movements[w][i], w, l)
  BY DEF Explained
<1>4. l.key = LegAt(on, q).key /\ IsLegOf(l, transfers)
  BY <1>2, <1>3 DEF Records, LegsOf
<1>5. PICK x \in OnchainRequests, a \in PostingLabels : x \in transfers /\ l = LegAt(a, x)
  BY <1>4, OtherKeys DEF IsLegOf
<1>6. x.from = q.from /\ x.key = q.key
  BY <1>4, <1>5, OnchainKeys
<1>7. QED
  BY <1>5, <1>6 DEF SameClientKey

-----------------------------------------------------------------------------
(* What a step does to the ledger, as far as the invariant reads it.  X holds the *)
(* postings of recorded on-chain transfers that the step makes.                   *)

Moves(X) ==
  /\ Well(ledger') /\ Bare(ledger')
  /\ Explained(ledger', LegsOf(transfers'))
  /\ \A q \in OnchainRequests, on \in PostingLabels :
       /\ Made(on, q) => Made(on, q)'
       /\ q \in transfers /\ Made(on, q)' => Made(on, q) \/ <<on, q>> \in X
       /\ <<on, q>> \in X => Made(on, q)'
  /\ \A k : Posted(ledger, k) => Posted(ledger', k)
  /\ \A w \in Wallets : \A type, ref, amount :
       MovedIn(ledger, w, type, ref, amount) => MovedIn(ledger', w, type, ref, amount)

LocksSame == \A w \in Wallets : ledger'.rows[w].bal.locked = ledger.rows[w].bal.locked

LEMMA StillMoves ==
  ASSUME TransferInv, UNCHANGED ledger, transfers \subseteq transfers'
  PROVE  Moves({}) /\ LocksSame
<1>1. Explained(ledger, LegsOf(transfers'))
  <2>1. LegsOf(transfers) \subseteq LegsOf(transfers')
    BY LegsMore
  <2>2. QED
    BY <2>1 DEF TransferInv, Explained
<1>2. Well(ledger) /\ Bare(ledger)
  BY DEF TransferInv, Typed, RowsTyped, CallsTyped
<1>3. \A q, on : Made(on, q)' <=> Made(on, q)
  BY DEF Made
<1>4. QED
  BY <1>1, <1>2, <1>3 DEF Moves, LocksSame

\* Growth by legs of no on-chain transfer.
LEMMA QuietMoves ==
  ASSUME TransferInv, transfers \subseteq transfers', NEW S, S \subseteq LegsOf(transfers'),
         Grown(ledger, ledger', S), \A l \in S : ~MovesLocks(l),
         \A l \in S : \A q \in OnchainRequests, on \in PostingLabels : l.key # LegAt(on, q).key
  PROVE  Moves({}) /\ LocksSame
<1>1. Well(ledger) /\ Explained(ledger, LegsOf(transfers))
  BY DEF TransferInv, Typed, RowsTyped, CallsTyped
<1>2. LegsOf(transfers) \subseteq LegsOf(transfers')
  BY LegsMore
<1>3. Explained(ledger', LegsOf(transfers'))
  BY <1>1, <1>2, GrownExplained
<1>4. Well(ledger') /\ Bare(ledger') /\ LocksSame
  BY DEF Grown, LocksSame
<1>5. ASSUME NEW k PROVE /\ Posted(ledger, k) => Posted(ledger', k)
                         /\ Posted(ledger', k) => Posted(ledger, k) \/ \E l \in S : l.key = k
  BY <1>1, GrownPosted
<1>6. ASSUME NEW q \in OnchainRequests, NEW on \in PostingLabels
      PROVE  /\ Made(on, q) => Made(on, q)'
             /\ Made(on, q)' => Made(on, q)
  BY <1>5 DEF Made
<1>7. ASSUME NEW w \in Wallets, NEW type, NEW ref, NEW amount,
             MovedIn(ledger, w, type, ref, amount)
      PROVE  MovedIn(ledger', w, type, ref, amount)
  BY <1>1, <1>7, GrownMoved
<1>8. QED
  BY <1>3, <1>4, <1>5, <1>6, <1>7 DEF Moves

\* The posting of one leg of a recorded on-chain transfer.
LEMMA PostMoves ==
  ASSUME TransferInv, UNCHANGED transfers, NEW q \in OnchainRequests, q \in transfers,
         NEW on \in PostingLabels, Admissible(ledger, LegAt(on, q)),
         ledger' = Post(ledger, LegAt(on, q))
  PROVE  Moves({<<on, q>>})
<1>. DEFINE l == LegAt(on, q)
<1>0. l \in Leg
  BY LegsTyped
<1>1. Well(ledger) /\ Bare(ledger) /\ Explained(ledger, LegsOf(transfers))
  BY DEF TransferInv, Typed, RowsTyped, CallsTyped
<1>2. Grown(ledger, ledger', {l})
  BY <1>0, <1>1, GrownPost
<1>3. {l} \subseteq LegsOf(transfers)
  BY <1>0 DEF LegsOf, IsLegOf
<1>4. Explained(ledger', LegsOf(transfers'))
  <2>. HIDE DEF l
  <2>1. QED
    BY <1>1, <1>2, <1>3, GrownExplained
<1>5. Well(ledger') /\ Bare(ledger')
  BY <1>2 DEF Grown
<1>6. ASSUME NEW k PROVE /\ Posted(ledger, k) => Posted(ledger', k)
                         /\ Posted(ledger', k) => Posted(ledger, k) \/ l.key = k
                         /\ Posted(ledger', l.key)
  <2>1. /\ Posted(ledger, k) => Posted(ledger', k)
        /\ Posted(ledger', k) => Posted(ledger, k) \/ \E x \in {l} : x.key = k
    BY <1>1, <1>2, GrownPosted
  <2>2. Posted(ledger', l.key)
    BY <1>0, <1>1, PostPosted DEF Well, Admissible
  <2>3. QED
    BY <2>1, <2>2
<1>7. ASSUME NEW x \in OnchainRequests, NEW a \in PostingLabels
      PROVE  /\ Made(a, x) => Made(a, x)'
             /\ x \in transfers /\ Made(a, x)' => Made(a, x) \/ <<a, x>> \in {<<on, q>>}
             /\ <<a, x>> \in {<<on, q>>} => Made(a, x)'
  <2>1. Made(a, x) => Made(a, x)'
    BY <1>6 DEF Made
  <2>2. ASSUME x \in transfers, Made(a, x)', ~Made(a, x)
        PROVE  a = on /\ x = q
    <3>1. LegAt(on, q).key = LegAt(a, x).key
      BY <1>6, <2>2 DEF Made
    <3>2. a = on /\ q.from = x.from /\ q.key = x.key
      BY <3>1, OnchainKeys
    <3>3. QED
      BY <2>2, <3>2 DEF TransferInv, Unique, SameClientKey
  <2>3. Made(on, q)'
    BY <1>6 DEF Made
  <2>4. QED
    BY <2>1, <2>2, <2>3
<1>8. ASSUME NEW w \in Wallets, NEW type, NEW ref, NEW amount,
             MovedIn(ledger, w, type, ref, amount)
      PROVE  MovedIn(ledger', w, type, ref, amount)
  BY <1>1, <1>2, <1>8, GrownMoved
<1>9. QED
  BY <1>4, <1>5, <1>6, <1>7, <1>8 DEF Moves

-----------------------------------------------------------------------------
(* What a step leaves alone *)

\* The envelope of q is where it was, or was decided just now.
Steady(q) ==
  /\ settle'[q] = settle[q]
  /\ Len(pays'[q]) = Len(pays[q])
  /\ Paid(q) => Paid(q)'
  /\ Lost(q) => Lost(q)'

\* What a call stands on remains when other calls move.
LEMMA WorkStays ==
  ASSUME TransferInv, NEW X, Moves(X), transfers \subseteq transfers', NEW r \in Procs,
         pc'[r] = pc[r], req'[r] = req[r], snap'[r] = snap[r], hash'[r] = hash[r],
         doc'[r] = doc[r], pc[r] \in OnchainLabels => Steady(req[r])
  PROVE  Working(r)'
<1>1. Working(r) /\ pc[r] \in Labels
  BY DEF TransferInv, Typed, RowsTyped, CallsTyped
<1>2. CASE pc[r] \in OnchainLabels
  <2>1. PICK q \in OnchainRequests : q = req[r]
    BY <1>1, <1>2 DEF Working
  <2>2. Steady(q)
    BY <1>2, <2>1
  <2>3. \A on \in PostingLabels : Made(on, q) => Made(on, q)'
    BY DEF Moves
  <2>4. Holding(r)'
    BY <1>1, <2>1, <2>2 DEF Working, Holding, Steady
  <2>5. Done(r)'
    BY <1>1, <2>1, <2>3 DEF Working, Done, PostingLabels
  <2>6. pc[r] \notin LedgerLabels /\ pc[r] \notin DepLabels /\ pc[r] # "dep.confirm"
    BY <1>2 DEF OnchainLabels, EarlyLabels, LateLabels, LockLabels, SendLabels, FinLabels,
                FailLabels, LedgerLabels, DepLabels
  <2>7. QED
    BY <1>1, <2>4, <2>5, <2>6 DEF Working
<1>3. CASE pc[r] \notin OnchainLabels
  <2>1. pc[r] \in {"idle"} \cup LedgerLabels \cup DepLabels
    BY <1>1, <1>3 DEF Labels
  <2>2. Holding(r)' /\ Done(r)'
    BY <2>1 DEF Holding, Done, FinLabels, FailLabels, SendLabels, LedgerLabels, DepLabels
  <2>3. pc[r] \notin LateLabels
    BY <1>3 DEF OnchainLabels
  <2>4. \A k : Posted(ledger, k) => Posted(ledger', k)
    BY DEF Moves
  <2>5. QED
    BY <1>1, <1>3, <2>2, <2>3, <2>4 DEF Working
<1>4. QED
  BY <1>2, <1>3

\* An on-chain transfer that a step is not about stays as it is.
LEMMA SoundStays ==
  ASSUME TransferInv, NEW X, Moves(X), NEW q \in OnchainRequests,
         \A on : <<on, q>> \notin X, settle'[q] = settle[q], pays'[q] = pays[q],
         onrow'[q] = onrow[q], q \in transfers' <=> q \in transfers
  PROVE  Sound(q)'
<1>1. Sound(q)
  BY DEF TransferInv
<1>2. Paid(q)' = Paid(q) /\ Lost(q)' = Lost(q)
  BY DEF Paid, Lost, StateIs
<1>3. \A on \in PostingLabels : q \in transfers => (Made(on, q)' <=> Made(on, q))
  BY DEF Moves
<1>4. q \in transfers => Agrees(q)'
  BY <1>1, <1>2, <1>3 DEF Sound, Agrees, PostingLabels
<1>5. QED
  BY <1>1, <1>2, <1>3, <1>4 DEF Sound, PostingLabels

\* No lock is taken and none is given back.
LEMMA LocksStill ==
  ASSUME TransferInv, Moves({}), LocksSame, transfers \subseteq transfers',
         \A q \in OnchainRequests : q \in transfers' \ transfers =>
           \A on \in PostingLabels : ~Made(on, q)'
  PROVE  Fitting'
<1>1. ASSUME NEW w \in Wallets
      PROVE  HeldLocks(w)' = HeldLocks(w)
  <2>1. ASSUME NEW x \in Locks
        PROVE  /\ x[1] \in transfers' /\ Made(x[2], x[1])' => x[1] \in transfers /\ Made(x[2], x[1])
               /\ x[1] \in transfers /\ Made(x[2], x[1]) => x[1] \in transfers' /\ Made(x[2], x[1])'
               /\ x[1] \in transfers => (LockOver(x)' <=> LockOver(x))
    <3>1. x[1] \in OnchainRequests /\ x[2] \in PostingLabels
      BY DEF Locks, PostingLabels
    <3>2. \A on \in PostingLabels : x[1] \in transfers => (Made(on, x[1])' <=> Made(on, x[1]))
      BY <3>1 DEF Moves
    <3>3. QED
      BY <3>1, <3>2 DEF LockOver, PostingLabels
  <2>2. QED
    BY <2>1 DEF HeldLocks
<1>2. QED
  BY <1>1 DEF TransferInv, Fitting, LockedFits, LocksFit, LocksSame

-----------------------------------------------------------------------------
(* The locks, when a transfer posts *)

\* The lock that a posting ends.
LockOf(on) == IF on \in {"fin.debit", "fail.release"} THEN "on.lock" ELSE "on.feeLock"

Ends == {"fin.debit", "fail.release", "fin.feeDebit", "fail.feeRelease"}

LEMMA LegFields ==
  ASSUME NEW q \in OnchainRequests, NEW on \in PostingLabels
  PROVE  LET l == LegAt(on, q)
         IN /\ l \in Leg
            /\ on \in {"on.lock", "on.feeLock"} => l.op = "lock" /\ l.wallet = q.from
            /\ on \in {"fin.credit", "fin.revenue"} => l.op = "credit"
            /\ on \in Ends => /\ l.op \in {"release", "finalize"} /\ l.wallet = q.from
                              /\ l.amount = LegAt(LockOf(on), q).amount
<1>1. LegAt(on, q) \in Leg
  BY LegsTyped
<1>2. QED
  BY <1>1 DEF LegAt, LegOf, LockOf, Ends, PostingLabels

LEMMA LockedAmounts == \A x \in Locks : LockedAmount[x] \in Nat
<1>1. ASSUME NEW x \in Locks PROVE LockedAmount[x] \in Nat
  <2>1. x[1] \in OnchainRequests /\ x[2] \in PostingLabels
    BY DEF Locks, PostingLabels
  <2>2. LegAt(x[2], x[1]) \in Leg
    BY <2>1, LegsTyped
  <2>3. QED
    BY <2>2, AmountsAssumption DEF LockedAmount, Leg
<1>2. QED
  BY <1>1

\* Only the locks of the transfer that posts may change.
LEMMA OtherLocks ==
  ASSUME TransferInv, UNCHANGED transfers, NEW q \in OnchainRequests, NEW on \in PostingLabels,
         Moves({<<on, q>>}), NEW x \in Locks
  PROVE  /\ x[1] \in transfers =>
              /\ Made(x[2], x[1])' <=> Made(x[2], x[1]) \/ (x[2] = on /\ x[1] = q)
              /\ LockOver(x)' <=> LockOver(x) \/ (x[1] = q /\ on \in Ends /\ x[2] = LockOf(on))
<1>1. x[1] \in OnchainRequests /\ x[2] \in {"on.lock", "on.feeLock"}
  BY DEF Locks
<1>2. ASSUME x[1] \in transfers, NEW a \in PostingLabels
      PROVE  Made(a, x[1])' <=> Made(a, x[1]) \/ (a = on /\ x[1] = q)
  <2>1. PICK y \in OnchainRequests : y = x[1]
    BY <1>1
  <2>2. /\ Made(a, y) => Made(a, y)'
        /\ y \in transfers /\ Made(a, y)' => Made(a, y) \/ <<a, y>> \in {<<on, q>>}
        /\ <<a, y>> \in {<<on, q>>} => Made(a, y)'
    BY DEF Moves
  <2>3. Made(a, y)' <=> Made(a, y) \/ (a = on /\ y = q)
    BY <1>2, <2>1, <2>2
  <2>4. QED
    BY <2>1, <2>3
<1>3. CASE x[2] = "on.lock"
  BY <1>1, <1>2, <1>3 DEF LockOver, LockOf, Ends, PostingLabels
<1>4. CASE x[2] = "on.feeLock"
  BY <1>1, <1>2, <1>4 DEF LockOver, LockOf, Ends, PostingLabels
<1>5. QED
  BY <1>1, <1>3, <1>4

\* The locked balances after a posting.
LEMMA LockedAfter ==
  ASSUME Typed, NEW q \in OnchainRequests, NEW on \in PostingLabels,
         Admissible(ledger, LegAt(on, q)), ledger' = Post(ledger, LegAt(on, q)), NEW w \in Wallets
  PROVE  /\ ledger.rows[w].bal.locked \in Nat
         /\ w # q.from => ledger'.rows[w].bal.locked = ledger.rows[w].bal.locked
         /\ on \in {"fin.credit", "fin.revenue"} =>
              ledger'.rows[w].bal.locked = ledger.rows[w].bal.locked
         /\ w = q.from /\ on \in {"on.lock", "on.feeLock"} =>
              ledger'.rows[w].bal.locked = ledger.rows[w].bal.locked + LegAt(on, q).amount
         /\ w = q.from /\ on \in Ends =>
              ledger'.rows[w].bal.locked = ledger.rows[w].bal.locked - LegAt(on, q).amount
<1>1. PICK l \in Leg : l = LegAt(on, q)
  BY LegFields
<1>2. ledger \in Ledger /\ ledger.rows[w] \in Row /\ ledger.rows[w].bal \in Balance
  BY DEF Typed, RowsTyped, CallsTyped, Well, Ledger, Row
<1>3. Covers(l.op, ledger.rows[l.wallet].bal, l.amount)
  BY <1>1 DEF Admissible
<1>4. /\ w # l.wallet => ledger'.rows[w] = ledger.rows[w]
      /\ w = l.wallet => ledger'.rows[w].bal = NewBalance(ledger, l)
  BY <1>1, <1>2, <1>3, PostMovements
<1>5. /\ on \in {"on.lock", "on.feeLock"} => l.op = "lock" /\ l.wallet = q.from
      /\ on \in {"fin.credit", "fin.revenue"} => l.op = "credit"
      /\ on \in Ends => l.op \in {"release", "finalize"} /\ l.wallet = q.from
  BY <1>1, LegFields
<1>6. on \in {"on.lock", "on.feeLock"} \/ on \in {"fin.credit", "fin.revenue"} \/ on \in Ends
  BY DEF PostingLabels, Ends
<1>7. ASSUME w = l.wallet
      PROVE  /\ l.op = "lock" => NewBalance(ledger, l).locked = ledger.rows[w].bal.locked + l.amount
             /\ l.op = "credit" => NewBalance(ledger, l).locked = ledger.rows[w].bal.locked
             /\ l.op \in {"release", "finalize"} =>
                  NewBalance(ledger, l).locked = ledger.rows[w].bal.locked - l.amount
  BY <1>2, <1>7 DEF NewBalance, After, lockOrgFunds, creditOrgWallet, releaseOrgFunds,
                    finalizeLockedDebit, Balance
<1>8. ledger.rows[w].bal.locked \in Nat
  BY <1>2 DEF Balance
<1>9. QED
  BY <1>1, <1>4, <1>5, <1>6, <1>7, <1>8

LEMMA LockTaken ==
  ASSUME NoLost, TransferInv, UNCHANGED transfers, NEW q \in OnchainRequests, q \in transfers,
         NEW on \in {"on.lock", "on.feeLock"}, ~Made(on, q), Admissible(ledger, LegAt(on, q)),
         ledger' = Post(ledger, LegAt(on, q))
  PROVE  LockedFits'
<1>0. on \in PostingLabels /\ on \notin Ends /\ q.from \in Wallets
  BY RequestsAssumption DEF PostingLabels, Ends, OnchainRequests
<1>1. Moves({<<on, q>>})
  BY <1>0, PostMoves
<1>2. PICK z \in Locks : z = <<q, on>>
  BY DEF Locks
<1>3. ~LockOver(z)
  <2>1. Agrees(q)
    BY DEF TransferInv, Sound
  <2>2. QED
    BY <1>2, <2>1 DEF LockOver, Agrees
<1>4. ASSUME NEW w \in Wallets
      PROVE  HeldLocks(w)' = IF w = q.from THEN HeldLocks(w) \cup {z} ELSE HeldLocks(w)
  <2>1. ASSUME NEW x \in Locks, x[1] \in transfers
        PROVE  /\ Made(x[2], x[1])' <=> Made(x[2], x[1]) \/ x = z
               /\ LockOver(x)' <=> LockOver(x)
    <3>1. x = z <=> x[2] = on /\ x[1] = q
      BY <1>2 DEF Locks
    <3>2. QED
      BY <1>0, <1>1, <2>1, <3>1, OtherLocks
  <2>2. z[1] = q /\ z[1] \in transfers
    BY <1>2
  <2>3. QED
    BY <1>3, <2>1, <2>2 DEF HeldLocks
<1>5. z \notin HeldLocks(q.from)
  BY <1>2 DEF HeldLocks
<1>6. ASSUME NEW w \in Wallets PROVE LocksFit(w)'
  <2>1. LocksFit(w) /\ Typed
    BY DEF TransferInv, Fitting, LockedFits
  <2>2. CASE w # q.from
    BY <1>0, <1>4, <2>1, <2>2, LockedAfter DEF LocksFit
  <2>3. CASE w = q.from
    <3>1. HeldLocks(w)' = HeldLocks(w) \cup {z}
      BY <1>4, <2>3
    <3>2. IsFiniteSet(HeldLocks(w)')
      BY <2>1, <3>1, FS_AddElement DEF LocksFit
    <3>3. \A x \in HeldLocks(w) : LockedAmount[x] \in Nat
      BY LockedAmounts DEF HeldLocks
    <3>4. LockedAmount[z] = LegAt(on, q).amount /\ LockedAmount[z] \in Nat
      BY <1>2, LockedAmounts DEF LockedAmount
    <3>5. SumFunctionOnSet(LockedAmount, HeldLocks(w) \cup {z}) =
            SumFunctionOnSet(LockedAmount, HeldLocks(w)) + LockedAmount[z]
      BY <1>5, <2>1, <2>3, <3>3, <3>4, SumAdd DEF LocksFit
    <3>6. ledger'.rows[w].bal.locked = ledger.rows[w].bal.locked + LegAt(on, q).amount
      BY <1>0, <2>1, <2>3, LockedAfter
    <3>7. LockedAmount' = LockedAmount
      BY DEF LockedAmount, Locks
    <3>8. QED
      BY <2>1, <3>1, <3>2, <3>4, <3>5, <3>6, <3>7 DEF LocksFit
  <2>4. QED
    BY <2>2, <2>3
<1>7. QED
  BY <1>6 DEF LockedFits

LEMMA LockEnded ==
  ASSUME NoLost, TransferInv, UNCHANGED transfers, NEW q \in OnchainRequests, q \in transfers,
         NEW on \in Ends, Made(LockOf(on), q), ~LockOver(<<q, LockOf(on)>>),
         Admissible(ledger, LegAt(on, q)), ledger' = Post(ledger, LegAt(on, q))
  PROVE  LockedFits'
<1>0. on \in PostingLabels /\ on \notin {"on.lock", "on.feeLock"} /\ q.from \in Wallets
  BY RequestsAssumption DEF PostingLabels, Ends, OnchainRequests
<1>1. Moves({<<on, q>>})
  BY <1>0, PostMoves
<1>2. PICK z \in Locks : z = <<q, LockOf(on)>>
  BY DEF Locks, LockOf
<1>3. z \in HeldLocks(q.from)
  BY <1>2 DEF HeldLocks
<1>4. ASSUME NEW w \in Wallets
      PROVE  HeldLocks(w)' = IF w = q.from THEN HeldLocks(w) \ {z} ELSE HeldLocks(w)
  <2>1. ASSUME NEW x \in Locks, x[1] \in transfers
        PROVE  /\ Made(x[2], x[1])' <=> Made(x[2], x[1])
               /\ LockOver(x)' <=> LockOver(x) \/ x = z
    <3>1. x[2] # on /\ (x = z <=> x[2] = LockOf(on) /\ x[1] = q)
      BY <1>0, <1>2 DEF Locks
    <3>2. QED
      BY <1>0, <1>1, <2>1, <3>1, OtherLocks
  <2>2. z[1] = q
    BY <1>2
  <2>3. QED
    BY <2>1, <2>2 DEF HeldLocks
<1>5. ASSUME NEW w \in Wallets PROVE LocksFit(w)'
  <2>1. LocksFit(w) /\ Typed
    BY DEF TransferInv, Fitting, LockedFits
  <2>2. CASE w # q.from
    BY <1>0, <1>4, <2>1, <2>2, LockedAfter DEF LocksFit
  <2>3. CASE w = q.from
    <3>1. HeldLocks(w)' = HeldLocks(w) \ {z}
      BY <1>4, <2>3
    <3>2. IsFiniteSet(HeldLocks(w)) /\ IsFiniteSet(HeldLocks(w) \ {z})
      BY <2>1, FS_RemoveElement DEF LocksFit
    <3>3. \A x \in HeldLocks(w) : LockedAmount[x] \in Nat
      BY LockedAmounts DEF HeldLocks
    <3>4. LockedAmount[z] = LegAt(on, q).amount /\ LockedAmount[z] \in Nat
      BY <1>0, <1>2, LegFields, LockedAmounts DEF LockedAmount
    <3>5. SumFunctionOnSet(LockedAmount, HeldLocks(w)) =
            LockedAmount[z] + SumFunctionOnSet(LockedAmount, HeldLocks(w) \ {z})
      BY <1>3, <2>3, <3>2, <3>3, SumRemove
    <3>6. SumFunctionOnSet(LockedAmount, HeldLocks(w) \ {z}) \in Nat
      BY <3>2, <3>3, SumType
    <3>7. ledger'.rows[w].bal.locked = ledger.rows[w].bal.locked - LegAt(on, q).amount
      BY <1>0, <2>1, <2>3, LockedAfter
    <3>8. LockedAmount' = LockedAmount
      BY DEF LockedAmount, Locks
    <3>9. QED
      BY <2>1, <3>1, <3>2, <3>4, <3>5, <3>6, <3>7, <3>8 DEF LocksFit
  <2>4. QED
    BY <2>2, <2>3
<1>6. QED
  BY <1>5 DEF LockedFits

\* The credits touch no lock.
LEMMA LockKept ==
  ASSUME NoLost, TransferInv, UNCHANGED transfers, NEW q \in OnchainRequests, q \in transfers,
         NEW on \in {"fin.credit", "fin.revenue"}, Admissible(ledger, LegAt(on, q)),
         ledger' = Post(ledger, LegAt(on, q))
  PROVE  LockedFits'
<1>0. on \in PostingLabels /\ on \notin Ends /\ on \notin {"on.lock", "on.feeLock"}
  BY DEF PostingLabels, Ends
<1>1. Moves({<<on, q>>})
  BY <1>0, PostMoves
<1>2. ASSUME NEW w \in Wallets PROVE LocksFit(w)'
  <2>1. LocksFit(w) /\ Typed
    BY DEF TransferInv, Fitting, LockedFits
  <2>2. ASSUME NEW x \in Locks, x[1] \in transfers
        PROVE  /\ Made(x[2], x[1])' <=> Made(x[2], x[1])
               /\ LockOver(x)' <=> LockOver(x)
    <3>1. x[2] # on
      BY <1>0 DEF Locks
    <3>2. QED
      BY <1>0, <1>1, <2>2, <3>1, OtherLocks
  <2>3. HeldLocks(w)' = HeldLocks(w)
    BY <2>2 DEF HeldLocks
  <2>4. ledger'.rows[w].bal.locked = ledger.rows[w].bal.locked
    BY <1>0, <2>1, LockedAfter
  <2>5. QED
    BY <2>1, <2>3, <2>4 DEF LocksFit
<1>3. QED
  BY <1>2 DEF LockedFits

-----------------------------------------------------------------------------
(* Frames: what is left to show of a step *)

OthersStay(p) ==
  \A r \in Procs :
    r # p => /\ pc'[r] = pc[r] /\ req'[r] = req[r] /\ snap'[r] = snap[r]
             /\ hash'[r] = hash[r] /\ doc'[r] = doc[r]

\* A call that is at rest stands on nothing.
LEMMA IdleWorks ==
  ASSUME NEW p \in Procs, pc'[p] = "idle"
  PROVE  Working(p)'
BY DEF Working, Holding, Done, LedgerLabels, OnchainLabels, EarlyLabels, LateLabels, LockLabels,
       SendLabels, FinLabels, FailLabels, DepLabels

LEMMA StopCalls ==
  ASSUME Typed, NEW p \in Procs, Stop(p), UNCHANGED <<doc, drow>>
  PROVE  CallsTyped' /\ OthersStay(p) /\ Working(p)'
<1>1. pc'[p] = "idle" /\ OthersStay(p)
  BY DEF Typed, CallsTyped, Stop, Finish, Goto, OthersStay
<1>2. NoSettlement \in SettlementRow /\ "idle" \in Labels
  BY DEF NoSettlement, SettlementRow, Labels
<1>3. CallsTyped'
  BY <1>2 DEF Typed, CallsTyped, Stop, Finish, Goto
<1>4. QED
  BY <1>1, <1>3, IdleWorks

LEMMA OnwardCalls ==
  ASSUME Typed, NEW p \in Procs, NEW label \in Labels, Onward(p, label), UNCHANGED <<doc, drow>>
  PROVE  /\ CallsTyped' /\ OthersStay(p)
         /\ pc'[p] = label /\ req'[p] = req[p] /\ snap'[p] = snap[p] /\ hash'[p] = hash[p]
BY DEF Typed, CallsTyped, Onward, Goto, OthersStay

\* A step of an on-chain call: it changes the rows of its own request at most.
LEMMA StepFrame ==
  ASSUME OneCall, TransferInv, NEW p \in Procs, NEW q \in OnchainRequests,
         pc[p] \in OnchainLabels, req[p] = q, NEW X, Moves(X), \A on, x : <<on, x>> \in X => x = q,
         transfers \subseteq transfers', transfers' \subseteq transfers \cup {q},
         OthersStay(p),
         \A x \in OnchainRequests :
           x # q => settle'[x] = settle[x] /\ pays'[x] = pays[x] /\ onrow'[x] = onrow[x],
         UNCHANGED dep, Typed', Unique', Fitting', Sound(q)', Working(p)'
  PROVE  TransferInv'
<1>1. Explained(ledger, LegsOf(transfers))'
  BY DEF Moves
<1>2. ASSUME NEW x \in OnchainRequests, x # q PROVE Sound(x)'
  BY <1>2, SoundStays
<1>3. ASSUME NEW r \in Procs, r # p PROVE Working(r)'
  <2>1. ASSUME pc[r] \in OnchainLabels PROVE Steady(req[r])
    <3>1. Working(r) /\ Working(p)
      BY DEF TransferInv
    <3>2. req[r] \in OnchainRequests /\ r \in Callers[req[r]] /\ p \in Callers[q]
      BY <2>1, <3>1 DEF Working
    <3>3. req[r] # q
      BY <1>3, <3>2 DEF OneCall
    <3>4. req'[r] = req[r]
      BY <1>3 DEF OthersStay
    <3>5. QED
      BY <3>2, <3>3, <3>4 DEF Steady, Paid, Lost, StateIs
  <2>2. QED
    BY <1>3, <2>1, WorkStays DEF OthersStay
<1>4. OneSender => PlainMoved'
  <2>1. ASSUME OneSender, NEW x \in transfers', x.mode = "ledger"
        PROVE  /\ MovedIn(ledger', x.from, "internal_transfer_debit", <<"out", x.from, x.key>>, x.amount)
               /\ MovedIn(ledger', x.to, "internal_transfer_credit", <<"in", x.from, x.key>>, x.amount)
    <3>1. x \in transfers
      BY <2>1 DEF OnchainRequests
    <3>2. x.from \in Wallets /\ x.to \in Wallets
      BY <3>1, RequestsAssumption DEF TransferInv, Typed, RowsTyped
    <3>3. QED
      BY <2>1, <3>1, <3>2 DEF Moves, TransferInv, PlainMoved
  <2>2. QED
    BY <2>1 DEF PlainMoved
<1>5. DepositsPosted'
  <2>1. Hashes' = Hashes
    BY DEF Hashes, Payments, PaymentOf, OnchainRequests
  <2>2. QED
    BY <2>1 DEF Moves, TransferInv, DepositsPosted
<1>6. QED
  BY <1>1, <1>2, <1>3, <1>4, <1>5 DEF TransferInv

\* A step that writes no row: only the caller moves.
LEMMA StillFrame ==
  ASSUME TransferInv, NEW p \in Procs, UNCHANGED <<ledger, transfers, onrow, settle, pays, dep>>,
         OthersStay(p), CallsTyped', Working(p)'
  PROVE  TransferInv'
<1>1. Moves({}) /\ LocksSame
  BY StillMoves
<1>2. Fitting'
  BY <1>1, LocksStill
<1>3. Typed'
  <2>1. RowsTyped'
    BY DEF TransferInv, Typed, RowsTyped
  <2>2. QED
    BY <2>1 DEF Typed
<1>4. ASSUME NEW x \in OnchainRequests PROVE Sound(x)'
  BY <1>1, SoundStays
<1>5. ASSUME NEW r \in Procs, r # p PROVE Working(r)'
  <2>1. req'[r] = req[r]
    BY <1>5 DEF OthersStay
  <2>2. Steady(req[r])
    BY <2>1 DEF Steady, Paid, Lost, StateIs
  <2>3. QED
    BY <1>1, <1>5, <2>2, WorkStays DEF OthersStay
<1>6. Explained(ledger, LegsOf(transfers))'
  BY <1>1 DEF Moves
<1>7. Unique' /\ (OneSender => PlainMoved') /\ DepositsPosted'
  BY DEF TransferInv, Unique, PlainMoved, DepositsPosted, Hashes, Payments, PaymentOf,
         OnchainRequests
<1>8. QED
  BY <1>2, <1>3, <1>4, <1>5, <1>6, <1>7 DEF TransferInv

LEMMA StopInv ==
  ASSUME TransferInv, NEW p \in Procs, Stop(p),
         UNCHANGED <<ledger, transfers, onrow, settle, pays, dep, doc, drow>>
  PROVE  TransferInv'
<1>1. CallsTyped' /\ OthersStay(p) /\ Working(p)'
  BY StopCalls DEF TransferInv
<1>2. QED
  BY <1>1, StillFrame

-----------------------------------------------------------------------------
(* Steps of on-chain calls that write no row *)

LEMMA CallFacts ==
  ASSUME TransferInv, NEW p \in Procs, pc[p] \in OnchainLabels
  PROVE  /\ req[p] \in OnchainRequests /\ Working(p) /\ Sound(req[p]) /\ Typed
         /\ pc[p] \in LateLabels => req[p] \in transfers /\ Agrees(req[p])
BY DEF TransferInv, Working, Sound

LEMMA CreateOnchainInv ==
  ASSUME TransferInv, NEW p \in Procs, NEW q \in OnchainRequests, createOnchainTransfer(p, q),
         UNCHANGED depVars
  PROVE  TransferInv'
<1>1. /\ pc' = [pc EXCEPT ![p] = "on.check"] /\ req' = [req EXCEPT ![p] = q]
      /\ p \in Callers[q] /\ UNCHANGED <<ledger, transfers, onrow, settle, pays, snap, hash>>
      /\ UNCHANGED <<dep, doc, drow>>
  BY DEF createOnchainTransfer, Goto, rows, depVars
<1>2. CallsTyped /\ q \in Requests /\ "on.check" \in Labels
  BY DEF TransferInv, Typed, OnchainRequests, Labels, OnchainLabels, EarlyLabels
<1>3. CallsTyped' /\ OthersStay(p) /\ pc'[p] = "on.check" /\ req'[p] = q
  BY <1>1, <1>2 DEF CallsTyped, OthersStay
<1>4. Working(p)'
  BY <1>1, <1>3 DEF Working, Holding, Done, LedgerLabels, OnchainLabels, EarlyLabels, LateLabels,
                    LockLabels, SendLabels, FinLabels, FailLabels, DepLabels
<1>5. QED
  BY <1>1, <1>3, <1>4, StillFrame

\* To another label, on what the call stands on already.
LEMMA OnwardInv ==
  ASSUME TransferInv, NEW p \in Procs, pc[p] \in OnchainLabels,
         NEW label \in OnchainLabels, Onward(p, label),
         UNCHANGED <<ledger, transfers, onrow, settle, pays, dep, doc, drow>>,
         label \in LateLabels => req[p] \in transfers,
         (label = pc'[p] /\ UNCHANGED <<ledger, settle, pays, req, snap, hash>>) =>
            Holding(p)' /\ Done(p)'
  PROVE  TransferInv'
<1>1. label \in Labels
  BY DEF Labels
<1>2. /\ CallsTyped' /\ OthersStay(p) /\ pc'[p] = label
      /\ req'[p] = req[p] /\ UNCHANGED <<req, snap, hash>>
  BY <1>1, OnwardCalls DEF TransferInv, Onward
<1>3. Working(p)
  BY DEF TransferInv
<1>4. label \notin LedgerLabels \cup DepLabels /\ label # "dep.confirm"
  BY DEF OnchainLabels, EarlyLabels, LateLabels, LockLabels, SendLabels, FinLabels, FailLabels,
         LedgerLabels, DepLabels
<1>5. Working(p)'
  BY <1>2, <1>3, <1>4 DEF Working
<1>6. QED
  BY <1>2, <1>5, StillFrame

LEMMA RecheckInv ==
  ASSUME TransferInv, NEW p \in Procs, OnRecheck(p), UNCHANGED depVars
  PROVE  TransferInv'
<1>. USE DEF OnchainLabels, EarlyLabels, LateLabels, LockLabels, SendLabels, FinLabels, FailLabels
<1>1. /\ pc[p] = "on.recheck"
      /\ UNCHANGED <<ledger, transfers, onrow, settle, pays, dep, doc, drow>>
  BY DEF OnRecheck, rows, depVars
<1>2. PICK label \in {"on.confirm", "on.prepare"} :
        Onward(p, label) /\ (label = "on.confirm" => snap[p].ref # 0)
  BY DEF OnRecheck
<1>3. Working(p) /\ req[p] \in transfers
  BY <1>1, CallFacts
<1>4. ASSUME label = pc'[p], UNCHANGED <<ledger, settle, pays, req, snap, hash>>
      PROVE  Holding(p)' /\ Done(p)'
  BY <1>1, <1>2, <1>3, <1>4 DEF Working, Holding, Done, Made
<1>5. QED
  BY <1>1, <1>2, <1>3, <1>4, OnwardInv

LEMMA CheckInv ==
  ASSUME TransferInv, NEW p \in Procs, OnCheck(p), UNCHANGED depVars
  PROVE  TransferInv'
<1>. USE DEF OnchainLabels, EarlyLabels, LateLabels, LockLabels, SendLabels, FinLabels, FailLabels
<1>1. /\ pc[p] = "on.check" /\ (Onward(p, "on.insert") \/ Stop(p))
      /\ UNCHANGED <<ledger, transfers, onrow, settle, pays, dep, doc, drow>>
  BY DEF OnCheck, rows, depVars
<1>2. CASE Stop(p)
  BY <1>1, <1>2, StopInv
<1>3. CASE Onward(p, "on.insert")
  <2>1. ASSUME "on.insert" = pc'[p] PROVE Holding(p)' /\ Done(p)'
    BY <2>1 DEF Holding, Done
  <2>2. QED
    BY <1>1, <1>3, <2>1, OnwardInv
<1>4. QED
  BY <1>1, <1>2, <1>3

LEMMA ReadInv ==
  ASSUME TransferInv, NEW p \in Procs, OnRead(p), UNCHANGED depVars
  PROVE  TransferInv'
<1>. USE DEF OnchainLabels, EarlyLabels, LateLabels, LockLabels, SendLabels, FinLabels, FailLabels
<1>1. /\ pc[p] = "on.read" /\ pc' = [pc EXCEPT ![p] = "on.lock"]
      /\ snap' = [snap EXCEPT ![p] = settle[req[p]]]
      /\ UNCHANGED <<ledger, transfers, onrow, settle, pays, req, hash, dep, doc, drow>>
  BY DEF OnRead, Goto, rows, depVars
<1>2. Working(p) /\ req[p] \in OnchainRequests /\ req[p] \in transfers /\ Typed
  BY <1>1, CallFacts
<1>3. settle[req[p]] \in SettlementRow /\ "on.lock" \in Labels
  BY <1>2 DEF Typed, RowsTyped, Labels
<1>4. /\ CallsTyped' /\ OthersStay(p) /\ pc'[p] = "on.lock" /\ req'[p] = req[p]
      /\ snap'[p] = settle[req[p]]
  BY <1>1, <1>2, <1>3 DEF Typed, CallsTyped, OthersStay
<1>5. Working(p)'
  BY <1>1, <1>2, <1>4 DEF Working, Holding, Done, LedgerLabels, DepLabels
<1>6. QED
  BY <1>1, <1>4, <1>5, StillFrame

\* A call that has looked its envelope up finalizes or fails the transfer, or stops.
LEMMA DecideInv ==
  ASSUME TransferInv, NEW p \in Procs, pc[p] \in {"on.confirm", "on.verify"},
         NEW h, h = settle[req[p]].ref, h # 0,
         \E answer \in verifyUsdcPayment(pays[req[p]], h) :
            \/ answer = "SUCCESS" /\ Onward(p, "fin.debit")
            \/ answer = "FAILED" /\ Onward(p, "fail.settlement")
            \/ Stop(p),
         UNCHANGED <<ledger, transfers, onrow, settle, pays, dep, doc, drow>>
  PROVE  TransferInv'
<1>. USE DEF OnchainLabels, EarlyLabels, LateLabels, LockLabels, SendLabels, FinLabels, FailLabels
<1>1. PICK q \in OnchainRequests : q = req[p] /\ q \in transfers
  BY CallFacts
<1>2. Working(p) /\ Sound(q) /\ IsChain(pays[q])
  BY <1>1, CallFacts DEF Typed, RowsTyped
<1>3. h \in 1..Len(pays[q])
  BY <1>1, <1>2 DEF Sound
<1>4. PICK answer \in verifyUsdcPayment(pays[q], h) :
            \/ answer = "SUCCESS" /\ Onward(p, "fin.debit")
            \/ answer = "FAILED" /\ Onward(p, "fail.settlement")
            \/ Stop(p)
  BY <1>1
<1>5. /\ answer = "SUCCESS" => Paid(q)
      /\ answer = "FAILED" => Lost(q)
  BY <1>1, <1>2, <1>3, <1>4, VerifyTells DEF Paid, Lost, StateIs
<1>6. CASE answer = "SUCCESS" /\ Onward(p, "fin.debit")
  <2>1. ASSUME "fin.debit" = pc'[p], UNCHANGED <<ledger, settle, pays, req, snap, hash>>
        PROVE  Holding(p)' /\ Done(p)'
    BY <1>1, <1>2, <1>5, <1>6, <2>1 DEF Working, Holding, Done, Made, Paid, StateIs
  <2>2. QED
    BY <1>1, <1>6, <2>1, OnwardInv
<1>7. CASE answer = "FAILED" /\ Onward(p, "fail.settlement")
  <2>1. ASSUME "fail.settlement" = pc'[p], UNCHANGED <<ledger, settle, pays, req, snap, hash>>
        PROVE  Holding(p)' /\ Done(p)'
    BY <1>1, <1>2, <1>5, <1>7, <2>1 DEF Working, Holding, Done, Made, Lost, StateIs
  <2>2. QED
    BY <1>1, <1>7, <2>1, OnwardInv
<1>8. CASE Stop(p)
  BY <1>8, StopInv
<1>9. QED
  BY <1>4, <1>6, <1>7, <1>8

LEMMA ConfirmInv ==
  ASSUME TransferInv, NEW p \in Procs, OnConfirm(p), UNCHANGED depVars
  PROVE  TransferInv'
<1>1. PICK h : h = settle[req[p]].ref
  OBVIOUS
<1>2. /\ pc[p] = "on.confirm"
      /\ UNCHANGED <<ledger, transfers, onrow, settle, pays, dep, doc, drow>>
      /\ \E answer \in verifyUsdcPayment(pays[req[p]], h) :
            \/ answer = "SUCCESS" /\ Onward(p, "fin.debit")
            \/ answer = "FAILED" /\ Onward(p, "fail.settlement")
            \/ Stop(p)
  BY <1>1 DEF OnConfirm, rows, depVars
<1>3. h # 0
  BY <1>1, <1>2 DEF TransferInv, Working, Holding
<1>4. QED
  BY <1>1, <1>2, <1>3, DecideInv

LEMMA VerifyInv ==
  ASSUME TransferInv, NEW p \in Procs, OnVerify(p), UNCHANGED depVars
  PROVE  TransferInv'
<1>1. PICK h : h = hash[p]
  OBVIOUS
<1>2. /\ pc[p] = "on.verify"
      /\ UNCHANGED <<ledger, transfers, onrow, settle, pays, dep, doc, drow>>
      /\ \E answer \in verifyUsdcPayment(pays[req[p]], h) :
            \/ answer = "SUCCESS" /\ Onward(p, "fin.debit")
            \/ answer = "FAILED" /\ Onward(p, "fail.settlement")
            \/ Stop(p)
  BY <1>1 DEF OnVerify, rows, depVars
<1>3. h = settle[req[p]].ref /\ h # 0
  BY <1>1, <1>2 DEF TransferInv, Working, Holding
<1>4. QED
  BY <1>2, <1>3, DecideInv

LEMMA OnchainStopInv ==
  ASSUME TransferInv, NEW p \in Procs, OnchainStop(p), UNCHANGED depVars
  PROVE  TransferInv'
BY StopInv DEF OnchainStop, rows, depVars

-----------------------------------------------------------------------------
(* Steps of on-chain calls that write rows *)

LEMMA RowFrame ==
  ASSUME OneCall, TransferInv, NEW p \in Procs, NEW q \in OnchainRequests,
         pc[p] \in OnchainLabels, req[p] = q,
         UNCHANGED <<ledger, transfers, dep>>, OthersStay(p),
         \A x \in OnchainRequests :
           x # q => settle'[x] = settle[x] /\ pays'[x] = pays[x] /\ onrow'[x] = onrow[x],
         onrow' \in [OnchainRequests -> {"none", "processing", "submitted", "completed", "failed"}],
         settle' \in [OnchainRequests -> SettlementRow],
         pays' = [x \in OnchainRequests |-> pays'[x]], IsChain(pays'[q]),
         CallsTyped', Sound(q)', Working(p)'
  PROVE  TransferInv'
<1>1. Moves({}) /\ LocksSame
  BY StillMoves
<1>2. Fitting'
  BY <1>1, LocksStill
<1>3. RowsTyped'
  BY DEF TransferInv, Typed, RowsTyped
<1>4. Unique'
  BY DEF TransferInv, Unique
<1>5. Typed'
  BY <1>3 DEF Typed
<1>6. QED
  BY <1>1, <1>2, <1>4, <1>5, StepFrame

\* The labels of a new status of the settlement row.
AfterStatus(from, to) ==
  \/ from = "on.sent" /\ to = "on.sentRow"
  \/ from = "on.landed" /\ to = "on.landedRow"
  \/ from = "fin.settlement" /\ to = "fin.row"
  \/ from = "fail.settlement" /\ to = "fail.release"

LEMMA SettleInv ==
  ASSUME OneCall, TransferInv, NEW p \in Procs, NEW label,
         AfterStatus(pc[p], label),
         NEW row \in SettlementRow, row.ref = settle[req[p]].ref,
         settle' = [settle EXCEPT ![req[p]] = row], Onward(p, label),
         UNCHANGED <<ledger, transfers, onrow, pays, dep, doc, drow>>
  PROVE  TransferInv'
<1>. USE DEF OnchainLabels, EarlyLabels, LateLabels, LockLabels, SendLabels, FinLabels, FailLabels
<1>. USE DEF AfterStatus
<1>0. /\ label \in Labels /\ label \in LateLabels /\ pc[p] \in LateLabels
      /\ label \notin LedgerLabels \cup DepLabels
  BY DEF Labels, LedgerLabels, DepLabels
<1>1. PICK q \in OnchainRequests : q = req[p] /\ q \in transfers
  BY <1>0, CallFacts
<1>2. Working(p) /\ Sound(q) /\ Typed
  BY <1>0, <1>1, CallFacts
<1>3. /\ CallsTyped' /\ OthersStay(p)
      /\ pc'[p] = label /\ req'[p] = q /\ snap'[p] = snap[p] /\ hash'[p] = hash[p]
  BY <1>0, <1>1, <1>2, OnwardCalls
<1>4. settle'[q] = row /\ settle' \in [OnchainRequests -> SettlementRow]
      /\ \A x \in OnchainRequests : x # q => settle'[x] = settle[x]
  BY <1>1, <1>2 DEF Typed, RowsTyped
<1>5. /\ Paid(q)' <=> Paid(q)
      /\ Lost(q)' <=> Lost(q)
      /\ \A on : Made(on, q)' <=> Made(on, q)
  BY <1>1, <1>4 DEF Paid, Lost, StateIs, Made
<1>6. Sound(q)'
  BY <1>1, <1>2, <1>4, <1>5 DEF Sound, Agrees
<1>7. Holding(p)' /\ Done(p)'
  BY <1>1, <1>2, <1>3, <1>4, <1>5 DEF Working, Holding, Done
<1>8. Working(p)'
  BY <1>0, <1>1, <1>2, <1>3, <1>7 DEF Working
<1>9. pays' = [x \in OnchainRequests |-> pays'[x]] /\ IsChain(pays'[q])
  BY <1>2 DEF Typed, RowsTyped
<1>10. onrow' \in [OnchainRequests -> {"none", "processing", "submitted", "completed", "failed"}]
  BY <1>2 DEF Typed, RowsTyped
<1>11. QED
  BY <1>0, <1>1, <1>3, <1>4, <1>6, <1>8, <1>9, <1>10, RowFrame

LEMMA SentInv ==
  ASSUME OneCall, TransferInv, NEW p \in Procs, OnSent(p), UNCHANGED depVars
  PROVE  TransferInv'
<1>1. PICK row, label :
        /\ row = [status |-> "submitted", ref |-> hash[p]]
        /\ label = IF pc[p] = "on.sent" THEN "on.sentRow" ELSE "on.landedRow"
  OBVIOUS
<1>2. /\ pc[p] \in {"on.sent", "on.landed"} /\ settle' = [settle EXCEPT ![req[p]] = row]
      /\ Onward(p, label)
      /\ UNCHANGED <<ledger, transfers, onrow, pays, dep, doc, drow>>
  BY <1>1 DEF OnSent, depVars
<1>3. hash[p] = settle[req[p]].ref
  BY <1>2 DEF TransferInv, Working, Holding
<1>4. hash[p] \in Nat
  BY DEF TransferInv, Typed, CallsTyped
<1>5. row \in SettlementRow /\ row.ref = settle[req[p]].ref
  BY <1>1, <1>3, <1>4 DEF SettlementRow
<1>6. AfterStatus(pc[p], label)
  BY <1>1, <1>2 DEF AfterStatus
<1>7. QED
  BY <1>2, <1>5, <1>6, SettleInv

\* The settlement row of a call with one more status.
LEMMA StatusRow ==
  ASSUME TransferInv, NEW p \in Procs, pc[p] \in OnchainLabels,
         NEW st \in {"confirmed", "failed"}, settle' = [settle EXCEPT ![req[p]].status = st]
  PROVE  \E row \in SettlementRow :
           row.ref = settle[req[p]].ref /\ settle' = [settle EXCEPT ![req[p]] = row]
<1>1. settle \in [OnchainRequests -> SettlementRow] /\ req[p] \in OnchainRequests
  BY CallFacts DEF Typed, RowsTyped
<1>2. PICK row : row = [settle[req[p]] EXCEPT !.status = st]
  OBVIOUS
<1>3. row \in SettlementRow /\ row.ref = settle[req[p]].ref
  BY <1>1, <1>2 DEF SettlementRow
<1>4. settle' = [settle EXCEPT ![req[p]] = row]
  BY <1>1, <1>2
<1>5. QED
  BY <1>3, <1>4

LEMMA EndSettlementInv ==
  ASSUME OneCall, TransferInv, NEW p \in Procs, FinSettlement(p) \/ FailSettlement(p),
         UNCHANGED depVars
  PROVE  TransferInv'
<1>1. PICK label : label = IF pc[p] = "fin.settlement" THEN "fin.row" ELSE "fail.release"
  OBVIOUS
<1>2. /\ pc[p] \in {"fin.settlement", "fail.settlement"} /\ Onward(p, label)
      /\ \E st \in {"confirmed", "failed"} : settle' = [settle EXCEPT ![req[p]].status = st]
      /\ UNCHANGED <<ledger, transfers, onrow, pays, dep, doc, drow>>
  BY <1>1 DEF FinSettlement, FailSettlement, depVars
<1>3. pc[p] \in OnchainLabels
  BY <1>2 DEF OnchainLabels, LateLabels, FinLabels, FailLabels
<1>4. PICK row \in SettlementRow :
        row.ref = settle[req[p]].ref /\ settle' = [settle EXCEPT ![req[p]] = row]
  BY <1>2, <1>3, StatusRow
<1>5. AfterStatus(pc[p], label)
  BY <1>1, <1>2 DEF AfterStatus
<1>6. QED
  BY <1>2, <1>4, <1>5, SettleInv

LEMMA FinFeeInv ==
  ASSUME TransferInv, NEW p \in Procs, FinFee(p), UNCHANGED depVars
  PROVE  TransferInv'
<1>. USE DEF OnchainLabels, EarlyLabels, LateLabels, LockLabels, SendLabels, FinLabels, FailLabels
<1>1. /\ pc[p] = "fin.fee" /\ Onward(p, "fin.settlement")
      /\ UNCHANGED <<ledger, transfers, onrow, settle, pays, dep, doc, drow>>
  BY DEF FinFee, depVars
<1>2. Working(p) /\ req[p] \in transfers
  BY <1>1, CallFacts
<1>3. ASSUME "fin.settlement" = pc'[p], UNCHANGED <<ledger, settle, pays, req, snap, hash>>
      PROVE  Holding(p)' /\ Done(p)'
  BY <1>1, <1>2, <1>3 DEF Working, Holding, Done, Made, Paid, StateIs
<1>4. QED
  BY <1>1, <1>2, <1>3, OnwardInv

\* The status of the transfer row.
LEMMA TransferRowInv ==
  ASSUME OneCall, TransferInv, NEW p \in Procs, NEW q \in OnchainRequests, q = req[p],
         NEW st \in {"submitted", "completed", "failed"}, onrow' = [onrow EXCEPT ![q] = st],
         pc[p] \in LateLabels,
         st = "failed" => Lost(q),
         st = "completed" => /\ Made("fin.debit", q) /\ Made("fin.credit", q)
                             /\ Made("fin.feeDebit", q) /\ Made("fin.revenue", q),
         UNCHANGED <<ledger, transfers, settle, pays, dep>>,
         CallsTyped', OthersStay(p), Working(p)'
  PROVE  TransferInv'
<1>1. pc[p] \in OnchainLabels
  BY DEF OnchainLabels
<1>2. q \in transfers /\ Sound(q) /\ Typed
  BY <1>1, CallFacts
<1>3. /\ onrow'[q] = st /\ \A x \in OnchainRequests : x # q => onrow'[x] = onrow[x]
      /\ onrow' \in [OnchainRequests -> {"none", "processing", "submitted", "completed", "failed"}]
  BY <1>2 DEF Typed, RowsTyped
<1>4. /\ Paid(q)' <=> Paid(q)
      /\ Lost(q)' <=> Lost(q)
      /\ \A on : Made(on, q)' <=> Made(on, q)
  BY DEF Paid, Lost, StateIs, Made
<1>5. Sound(q)'
  BY <1>2, <1>3, <1>4 DEF Sound, Agrees
<1>6. /\ settle' \in [OnchainRequests -> SettlementRow]
      /\ pays' = [x \in OnchainRequests |-> pays'[x]] /\ IsChain(pays'[q])
  BY <1>2 DEF Typed, RowsTyped
<1>7. QED
  BY <1>1, <1>3, <1>5, <1>6, RowFrame

LEMMA EndRowInv ==
  ASSUME OneCall, TransferInv, NEW p \in Procs, FinRow(p) \/ FailRow(p), UNCHANGED depVars
  PROVE  TransferInv'
<1>. USE DEF OnchainLabels, EarlyLabels, LateLabels, LockLabels, SendLabels, FinLabels, FailLabels
<1>1. /\ pc[p] \in {"fin.row", "fail.row"} /\ Stop(p)
      /\ onrow' = [onrow EXCEPT ![req[p]] = IF pc[p] = "fin.row" THEN "completed" ELSE "failed"]
      /\ UNCHANGED <<ledger, transfers, settle, pays, dep, doc, drow>>
  BY DEF FinRow, FailRow, depVars
<1>2. PICK q \in OnchainRequests : q = req[p]
  BY <1>1, CallFacts
<1>3. Working(p) /\ Typed
  BY <1>1, CallFacts
<1>4. CallsTyped' /\ OthersStay(p) /\ Working(p)'
  BY <1>1, <1>3, StopCalls
<1>5. CASE pc[p] = "fin.row"
  <2>1. /\ Made("fin.debit", q) /\ Made("fin.credit", q)
        /\ Made("fin.feeDebit", q) /\ Made("fin.revenue", q)
    BY <1>2, <1>3, <1>5 DEF Working, Done
  <2>2. QED
    BY <1>1, <1>2, <1>4, <1>5, <2>1, TransferRowInv
<1>6. CASE pc[p] = "fail.row"
  <2>1. Lost(q)
    BY <1>2, <1>3, <1>6 DEF Working, Holding
  <2>2. QED
    BY <1>1, <1>2, <1>4, <1>6, <2>1, TransferRowInv
<1>7. QED
  BY <1>1, <1>5, <1>6

LEMMA SentRowInv ==
  ASSUME OneCall, TransferInv, NEW p \in Procs, OnSentRow(p), UNCHANGED depVars
  PROVE  TransferInv'
<1>. USE DEF OnchainLabels, EarlyLabels, LateLabels, LockLabels, SendLabels, FinLabels, FailLabels
<1>1. PICK label : label = IF pc[p] = "on.sentRow" THEN "on.verify" ELSE "fin.debit"
  OBVIOUS
<1>2. /\ pc[p] \in {"on.sentRow", "on.landedRow"} /\ Onward(p, label)
      /\ onrow' = [onrow EXCEPT ![req[p]] = "submitted"]
      /\ UNCHANGED <<ledger, transfers, settle, pays, dep, doc, drow>>
  BY <1>1 DEF OnSentRow, depVars
<1>3. label \in Labels /\ label \in LateLabels /\ label \notin LedgerLabels \cup DepLabels
  BY <1>1 DEF Labels, LedgerLabels, DepLabels
<1>4. PICK q \in OnchainRequests : q = req[p] /\ q \in transfers
  BY <1>2, CallFacts
<1>5. Working(p) /\ Typed
  BY <1>2, CallFacts
<1>6. /\ CallsTyped' /\ OthersStay(p)
      /\ pc'[p] = label /\ req'[p] = q /\ snap'[p] = snap[p] /\ hash'[p] = hash[p]
  BY <1>2, <1>3, <1>4, <1>5, OnwardCalls
<1>7. Holding(p)' /\ Done(p)'
  BY <1>1, <1>2, <1>4, <1>5, <1>6 DEF Working, Holding, Done, Made, Paid, StateIs
<1>8. Working(p)'
  BY <1>2, <1>3, <1>4, <1>5, <1>6, <1>7 DEF Working
<1>9. QED
  BY <1>2, <1>4, <1>6, <1>8, TransferRowInv
-----------------------------------------------------------------------------
(* What the submission does to the envelopes *)

-----------------------------------------------------------------------------
\* Signing, saving and sending the envelope.

LEMMA PrepareInv ==
  ASSUME OneCall, TransferInv, NEW p \in Procs, OnPrepare(p), UNCHANGED depVars
  PROVE  TransferInv'
<1>. USE DEF OnchainLabels, EarlyLabels, LateLabels, LockLabels, SendLabels, FinLabels, FailLabels
<1>1. pc[p] = "on.prepare" /\ pc[p] \in LateLabels /\ pc[p] \in OnchainLabels
  BY DEF OnPrepare
<1>2. PICK q \in OnchainRequests : q = req[p] /\ q \in transfers
  BY <1>1, CallFacts
<1>3. Working(p) /\ Sound(q) /\ Typed /\ IsChain(pays[q]) /\ snap[p].ref = settle[q].ref
  BY <1>1, <1>2, CallFacts DEF Typed, RowsTyped, Working, Holding
<1>4. /\ UNCHANGED <<ledger, transfers, onrow, settle, req, snap, dep, doc, drow>>
  BY DEF OnPrepare, depVars
<1>5. CASE snap[p].ref # 0
  <2>1. /\ hash' = [hash EXCEPT ![p] = snap[p].ref] /\ pc' = [pc EXCEPT ![p] = "on.send"]
        /\ UNCHANGED pays
    BY <1>5 DEF OnPrepare, Goto
  <2>2. "on.send" \in Labels /\ snap[p].ref \in Nat
    BY <1>3 DEF Labels, Typed, CallsTyped, SettlementRow
  <2>3. /\ CallsTyped' /\ OthersStay(p) /\ pc'[p] = "on.send" /\ hash'[p] = snap[p].ref
    BY <1>3, <1>4, <2>1, <2>2 DEF Typed, CallsTyped, OthersStay
  <2>4. Holding(p)' /\ Done(p)'
    BY <1>1, <1>2, <1>3, <1>4, <1>5, <2>1, <2>3 DEF Working, Holding, Done, Made
  <2>5. Working(p)'
    BY <1>1, <1>2, <1>3, <1>4, <2>3, <2>4 DEF Working, LedgerLabels, DepLabels
  <2>6. QED
    BY <1>4, <2>1, <2>3, <2>5, StillFrame
<1>6. CASE snap[p].ref = 0
  <2>1. PICK new : new = prepareSponsoredUsdcPayment(pays[q], q.amount, Sent(q.from))
    OBVIOUS
  <2>2. /\ Len(pays[q]) < MaxSends
        /\ pays' = [pays EXCEPT ![q] = new]
        /\ hash' = [hash EXCEPT ![p] = Len(pays[q]) + 1]
        /\ pc' = [pc EXCEPT ![p] = "on.save"]
    BY <1>2, <1>6, <2>1 DEF OnPrepare, Goto
  <2>3. /\ IsChain(new) /\ Len(pays[q]) \in Nat /\ Len(new) = Len(pays[q]) + 1
        /\ new[Len(pays[q]) + 1].state = "signed" /\ ~new[Len(pays[q]) + 1].doubt
        /\ \A i \in 1..Len(pays[q]) : new[i] = pays[q][i]
    BY <1>3, <2>1, SignChain
  <2>4. pays'[q] = new /\ \A x \in OnchainRequests : x # q => pays'[x] = pays[x]
    BY <1>3, <2>2 DEF Typed, RowsTyped
  <2>5. pays' = [x \in OnchainRequests |-> pays'[x]]
    BY <1>3, <2>2 DEF Typed, RowsTyped
  <2>6. "on.save" \in Labels
    BY DEF Labels
  <2>7. /\ CallsTyped' /\ OthersStay(p) /\ pc'[p] = "on.save"
        /\ hash'[p] = Len(pays[q]) + 1
    BY <1>3, <1>4, <2>2, <2>3, <2>6 DEF Typed, CallsTyped, OthersStay
  <2>8. settle[q].ref = 0 /\ settle' = settle
    BY <1>3, <1>4, <1>6
  <2>9. Sound(q)'
    <3>1. Len(pays'[q]) <= MaxSends
      BY <2>2, <2>3, <2>4, MaxSendsAssumption
    <3>2. settle'[q].ref \in 0..Len(pays'[q])
      BY <2>3, <2>4, <2>8
    <3>3. \A i \in 1..Len(pays'[q]) : pays'[q][i].state # "signed" => i = settle'[q].ref
      <4>1. ASSUME NEW i \in 1..Len(pays'[q]), pays'[q][i].state # "signed"
            PROVE  i = settle'[q].ref
        <5>1. i \in 1..Len(pays[q]) \/ i = Len(pays[q]) + 1
          BY <2>3, <2>4
        <5>2. i \in 1..Len(pays[q]) /\ pays[q][i].state # "signed"
          BY <2>3, <2>4, <4>1, <5>1
        <5>3. QED
          BY <1>3, <2>8, <5>2 DEF Sound
      <4>2. QED
        BY <4>1
    <3>4. ~Paid(q) /\ ~Lost(q) /\ ~Paid(q)' /\ ~Lost(q)'
      BY <2>8 DEF Paid, Lost, StateIs
    <3>5. \A on : Made(on, q)' <=> Made(on, q)
      BY <1>4 DEF Made
    <3>6. ASSUME NoLost, NEW i \in 1..Len(pays'[q]) PROVE ~pays'[q][i].doubt
      <4>1. i \in 1..Len(pays[q]) \/ i = Len(pays[q]) + 1
        BY <2>3, <2>4
      <4>2. ASSUME i \in 1..Len(pays[q]) PROVE ~pays[q][i].doubt
        BY <1>3, <3>6, <4>2 DEF Sound, Doubtful
      <4>3. QED
        BY <2>3, <2>4, <4>1, <4>2
    <3>7. NoLost => ~Doubtful(pays[q])'
      BY <3>6 DEF Doubtful
    <3>8. QED
      BY <1>2, <1>3, <1>4, <3>1, <3>2, <3>3, <3>4, <3>5, <3>7 DEF Sound, Agrees
  <2>10. Holding(p)' /\ Done(p)'
    BY <1>1, <1>2, <1>3, <1>4, <2>3, <2>4, <2>7, <2>8 DEF Working, Holding, Done, Made
  <2>11. Working(p)'
    BY <1>1, <1>2, <1>3, <1>4, <2>7, <2>10 DEF Working, LedgerLabels, DepLabels
  <2>12. /\ onrow' \in [OnchainRequests -> {"none", "processing", "submitted", "completed", "failed"}]
         /\ settle' \in [OnchainRequests -> SettlementRow]
    BY <1>3, <1>4 DEF Typed, RowsTyped
  <2>13. QED
    BY <1>1, <1>2, <1>4, <2>3, <2>4, <2>5, <2>7, <2>9, <2>11, <2>12, RowFrame
<1>7. QED
  BY <1>5, <1>6

LEMMA SaveInv ==
  ASSUME OneCall, TransferInv, NEW p \in Procs, OnSave(p), UNCHANGED depVars
  PROVE  TransferInv'
<1>. USE DEF OnchainLabels, EarlyLabels, LateLabels, LockLabels, SendLabels, FinLabels, FailLabels
<1>1. /\ pc[p] = "on.save" /\ pc[p] \in LateLabels /\ pc[p] \in OnchainLabels
      /\ Onward(p, "on.send") /\ settle' = [settle EXCEPT ![req[p]].ref = hash[p]]
      /\ UNCHANGED <<ledger, transfers, onrow, pays, dep, doc, drow>>
  BY DEF OnSave, depVars
<1>2. PICK q \in OnchainRequests : q = req[p] /\ q \in transfers
  BY <1>1, CallFacts
<1>3. /\ Working(p) /\ Sound(q) /\ Typed /\ settle[q].ref = 0 /\ hash[p] \in 1..Len(pays[q])
      /\ settle \in [OnchainRequests -> SettlementRow]
  BY <1>1, <1>2, CallFacts DEF Typed, RowsTyped, Working, Holding
<1>4. /\ settle'[q].ref = hash[p] /\ settle' \in [OnchainRequests -> SettlementRow]
      /\ \A x \in OnchainRequests : x # q => settle'[x] = settle[x]
  <2>1. PICK row : row = [settle[q] EXCEPT !.ref = hash[p]]
    OBVIOUS
  <2>2. row \in SettlementRow /\ row.ref = hash[p]
    BY <1>3, <2>1 DEF SettlementRow
  <2>3. settle' = [settle EXCEPT ![q] = row]
    BY <1>1, <1>2, <2>1
  <2>4. QED
    BY <1>3, <2>2, <2>3
<1>5. "on.send" \in Labels
  BY DEF Labels
<1>6. /\ CallsTyped' /\ OthersStay(p)
      /\ pc'[p] = "on.send" /\ req'[p] = q /\ snap'[p] = snap[p] /\ hash'[p] = hash[p]
  BY <1>1, <1>2, <1>3, <1>5, OnwardCalls
<1>7. ~Paid(q) /\ ~Lost(q) /\ \A on : Made(on, q)' <=> Made(on, q)
  BY <1>1, <1>3 DEF Paid, Lost, StateIs, Made
<1>8. Sound(q)'
  BY <1>1, <1>2, <1>3, <1>4, <1>7 DEF Sound, Agrees
<1>9. Holding(p)' /\ Done(p)'
  BY <1>1, <1>2, <1>3, <1>4, <1>6, <1>7 DEF Working, Holding, Done
<1>10. Working(p)'
  BY <1>1, <1>2, <1>3, <1>6, <1>9 DEF Working, LedgerLabels, DepLabels
<1>11. /\ pays' = [x \in OnchainRequests |-> pays'[x]] /\ IsChain(pays'[q])
       /\ onrow' \in [OnchainRequests -> {"none", "processing", "submitted", "completed", "failed"}]
  BY <1>1, <1>3 DEF Typed, RowsTyped
<1>12. QED
  BY <1>1, <1>2, <1>4, <1>6, <1>8, <1>10, <1>11, RowFrame

LEMMA SendInv ==
  ASSUME OneCall, TransferInv, NEW p \in Procs, OnSend(p), UNCHANGED depVars
  PROVE  TransferInv'
<1>. USE DEF OnchainLabels, EarlyLabels, LateLabels, LockLabels, SendLabels, FinLabels, FailLabels
<1>1. pc[p] = "on.send" /\ pc[p] \in LateLabels /\ pc[p] \in OnchainLabels
  BY DEF OnSend
<1>2. PICK q \in OnchainRequests : q = req[p] /\ q \in transfers
  BY <1>1, CallFacts
<1>3. /\ Working(p) /\ Sound(q) /\ Typed /\ settle[q].ref = hash[p] /\ hash[p] # 0
      /\ IsChain(pays[q])
  BY <1>1, <1>2, CallFacts DEF Typed, RowsTyped, Working, Holding
<1>4. PICK h : h = hash[p]
  OBVIOUS
<1>5. h \in 1..Len(pays[q])
  BY <1>3, <1>4 DEF Sound
<1>6. PICK u : u = Sent(q.from)
  OBVIOUS
<1>7. PICK r \in submitPreparedSponsoredPayment(pays[q], h, u, OutcomeNames) :
        /\ pays' = [pays EXCEPT ![q] = r.chain]
        /\ Onward(p, CASE r.reply = "error"     -> "fail.settlement"
                       [] r.reply = "submitted" -> "on.sent"
                       [] r.reply = "confirmed" -> "on.landed")
  BY <1>2, <1>4, <1>6 DEF OnSend
<1>8. UNCHANGED <<ledger, transfers, onrow, settle, dep, doc, drow>>
  BY DEF OnSend, depVars
<1>9. /\ IsChain(r.chain) /\ Len(r.chain) = Len(pays[q])
      /\ \A j \in 1..Len(pays[q]) : j # h => r.chain[j] = pays[q][j]
      /\ pays[q][h].state = "landed" => r.chain[h].state = "landed"
      /\ pays[q][h].state = "failed" => r.chain[h].state = "failed"
      /\ pays[q][h].doubt => r.chain[h].doubt
      /\ NoLost => (r.chain[h].doubt => pays[q][h].doubt)
      /\ r.reply \in {"error", "submitted", "confirmed"}
      /\ r.reply = "error" => r.chain[h].state = "failed" \/ r.chain[h].doubt
      /\ r.reply = "confirmed" => r.chain[h].state = "landed"
  BY <1>3, <1>5, <1>7, SendChain DEF NoLost
<1>10. /\ pays'[q] = r.chain /\ \A x \in OnchainRequests : x # q => pays'[x] = pays[x]
       /\ pays' = [x \in OnchainRequests |-> pays'[x]]
  BY <1>3, <1>7 DEF Typed, RowsTyped
<1>11. PICK label :
         label = CASE r.reply = "error"     -> "fail.settlement"
                   [] r.reply = "submitted" -> "on.sent"
                   [] r.reply = "confirmed" -> "on.landed"
  OBVIOUS
<1>12. /\ label \in {"fail.settlement", "on.sent", "on.landed"} /\ Onward(p, label)
       /\ label = "fail.settlement" => r.chain[h].state = "failed" \/ r.chain[h].doubt
       /\ label = "on.landed" => r.chain[h].state = "landed"
  BY <1>7, <1>9, <1>11
<1>13. label \in Labels
  BY <1>12 DEF Labels
<1>14. /\ CallsTyped' /\ OthersStay(p)
       /\ pc'[p] = label /\ req'[p] = q /\ snap'[p] = snap[p] /\ hash'[p] = hash[p]
  BY <1>2, <1>3, <1>8, <1>12, <1>13, OnwardCalls
<1>15. settle'[q].ref = h /\ h # 0 /\ settle[q].ref = h /\ settle' = settle
  BY <1>3, <1>4, <1>8
<1>16. /\ Paid(q) => Paid(q)'
       /\ Lost(q) => Lost(q)'
       /\ label = "fail.settlement" => Lost(q)'
       /\ label = "on.landed" => Paid(q)'
  BY <1>9, <1>10, <1>12, <1>15 DEF Paid, Lost, StateIs
<1>17. \A on : Made(on, q)' <=> Made(on, q)
  BY <1>8 DEF Made
<1>18. Sound(q)'
  <2>1. ASSUME NEW i \in 1..Len(pays'[q]), pays'[q][i].state # "signed"
        PROVE  i = settle'[q].ref
    BY <1>3, <1>9, <1>10, <1>15, <2>1 DEF Sound
  <2>2. settle'[q].ref \in 0..Len(pays'[q]) /\ Len(pays'[q]) <= MaxSends
    BY <1>3, <1>9, <1>10, <1>15 DEF Sound
  <2>3. NoLost => ~Doubtful(pays[q])'
    BY <1>3, <1>9, <1>10 DEF Sound, Doubtful
  <2>4. QED
    BY <1>2, <1>3, <1>8, <1>16, <1>17, <2>1, <2>2, <2>3 DEF Sound, Agrees
<1>19. Holding(p)' /\ Done(p)'
  BY <1>1, <1>2, <1>3, <1>4, <1>12, <1>14, <1>15, <1>16, <1>17 DEF Working, Holding, Done
<1>20. Working(p)'
  BY <1>1, <1>2, <1>3, <1>8, <1>12, <1>14, <1>19 DEF Working, LedgerLabels, DepLabels
<1>21. /\ settle' \in [OnchainRequests -> SettlementRow]
       /\ onrow' \in [OnchainRequests -> {"none", "processing", "submitted", "completed", "failed"}]
  BY <1>3, <1>8 DEF Typed, RowsTyped
<1>22. QED
  BY <1>1, <1>2, <1>8, <1>9, <1>10, <1>14, <1>18, <1>20, <1>21, RowFrame
-----------------------------------------------------------------------------
LEMMA InsertInv ==
  ASSUME OneCall, TransferInv, NEW p \in Procs, OnInsert(p), UNCHANGED depVars
  PROVE  TransferInv'
<1>. USE DEF OnchainLabels, EarlyLabels, LateLabels, LockLabels, SendLabels, FinLabels, FailLabels
<1>1. pc[p] = "on.insert" /\ pc[p] \in OnchainLabels
  BY DEF OnInsert
<1>2. PICK q \in OnchainRequests : q = req[p]
  BY <1>1, CallFacts
<1>3. Working(p) /\ Sound(q) /\ Typed
  BY <1>1, <1>2, CallFacts
<1>4. UNCHANGED <<ledger, pays, dep, doc, drow>>
  BY DEF OnInsert, depVars
<1>5. CASE Stop(p) /\ UNCHANGED <<transfers, onrow, settle>>
  BY <1>4, <1>5, StopInv
<1>6. CASE q \in transfers /\ Onward(p, "on.read") /\ UNCHANGED <<transfers, onrow, settle>>
  <2>1. ("on.read" = pc'[p] /\ UNCHANGED <<ledger, settle, pays, req, snap, hash>>) =>
          Holding(p)' /\ Done(p)'
    BY DEF Holding, Done
  <2>2. QED
    BY <1>1, <1>2, <1>4, <1>6, <2>1, OnwardInv
<1>7. CASE /\ ~RowConflict(q)
           /\ transfers' = transfers \cup {q}
           /\ onrow' = [onrow EXCEPT ![q] = "processing"]
           /\ settle' = [settle EXCEPT ![q].status = "pending"]
           /\ Onward(p, "on.read")
  <2>1. \A x \in transfers : ~SameClientKey(q, x)
    BY <1>7 DEF RowConflict
  <2>2. q \notin transfers
    BY <2>1 DEF SameClientKey
  <2>3. Explained(ledger, LegsOf(transfers))
    BY DEF TransferInv
  <2>4. \A on \in PostingLabels : ~Made(on, q)
    BY <2>1, <2>3, FreshNotMade
  <2>5. \A on : Made(on, q)' <=> Made(on, q)
    BY <1>4 DEF Made
  <2>6. Moves({}) /\ LocksSame
    BY <1>4, <1>7, StillMoves
  <2>7. transfers \subseteq transfers'
    BY <1>7
  <2>8. Fitting'
    <3>1. ASSUME NEW x \in OnchainRequests, x \in transfers' \ transfers
          PROVE  \A on \in PostingLabels : ~Made(on, x)'
      BY <1>7, <2>4, <2>5, <3>1
    <3>2. QED
      BY <2>6, <2>7, <3>1, LocksStill
  <2>9. /\ settle'[q].ref = settle[q].ref /\ settle' \in [OnchainRequests -> SettlementRow]
        /\ \A x \in OnchainRequests : x # q => settle'[x] = settle[x]
    <3>1. settle \in [OnchainRequests -> SettlementRow]
      BY <1>3 DEF Typed, RowsTyped
    <3>2. PICK row : row = [settle[q] EXCEPT !.status = "pending"]
      OBVIOUS
    <3>3. row \in SettlementRow /\ row.ref = settle[q].ref
      BY <3>1, <3>2 DEF SettlementRow
    <3>4. settle' = [settle EXCEPT ![q] = row]
      BY <1>7, <3>2
    <3>5. QED
      BY <3>1, <3>3, <3>4
  <2>10. /\ onrow'[q] = "processing"
         /\ \A x \in OnchainRequests : x # q => onrow'[x] = onrow[x]
         /\ onrow' \in [OnchainRequests -> {"none", "processing", "submitted", "completed", "failed"}]
    BY <1>3, <1>7 DEF Typed, RowsTyped
  <2>11. "on.read" \in Labels
    BY DEF Labels
  <2>12. /\ CallsTyped' /\ OthersStay(p) /\ pc'[p] = "on.read" /\ req'[p] = q
    BY <1>2, <1>3, <1>4, <1>7, <2>11, OnwardCalls
  <2>13. q \in Requests /\ q \in transfers'
    BY <1>7 DEF OnchainRequests
  <2>14. RowsTyped'
    BY <1>3, <1>4, <1>7, <2>9, <2>10, <2>13 DEF Typed, RowsTyped, Hashes, Payments
  <2>15. Unique'
    BY <1>7, <2>1 DEF TransferInv, Unique, SameClientKey
  <2>16. Sound(q)'
    <3>1. ~Made("fin.debit", q)' /\ ~Made("fin.credit", q)' /\ ~Made("fin.feeDebit", q)'
          /\ ~Made("fin.revenue", q)' /\ ~Made("fail.release", q)' /\ ~Made("fail.feeRelease", q)'
      BY <2>4, <2>5 DEF PostingLabels
    <3>2. Agrees(q)'
      BY <3>1 DEF Agrees
    <3>3. QED
      BY <1>3, <1>4, <2>9, <2>10, <2>13, <3>2 DEF Sound
  <2>17. Holding(p)' /\ Done(p)'
    BY <2>12 DEF Holding, Done
  <2>18. Working(p)'
    BY <1>1, <1>3, <1>4, <1>2, <2>12, <2>13, <2>17 DEF Working, LedgerLabels, DepLabels
  <2>19. Typed'
    BY <2>12, <2>14 DEF Typed
  <2>20. QED
    BY <1>1, <1>2, <1>4, <1>7, <2>6, <2>7, <2>8, <2>9, <2>10, <2>12, <2>15, <2>16, <2>18,
       <2>19, StepFrame
<1>8. QED
  BY <1>2, <1>5, <1>6, <1>7 DEF OnInsert

-----------------------------------------------------------------------------
\* A call goes on to the next posting.
LEMMA PostedOn ==
  ASSUME TransferInv, NEW p \in Procs, NEW at \in PostingLabels, at = pc[p],
         NEW q \in OnchainRequests, q = req[p], Onward(p, AfterPosting[at]),
         UNCHANGED <<transfers, onrow, settle, pays, dep, doc, drow>>,
         \A on \in PostingLabels : Made(on, q) => Made(on, q)',
         at \notin {"fail.release", "fail.feeRelease"} => Made(at, q)'
  PROVE  CallsTyped' /\ OthersStay(p) /\ Working(p)'
<1>. USE DEF OnchainLabels, EarlyLabels, LateLabels, LockLabels, SendLabels, FinLabels, FailLabels
<1>1. PICK label : label = AfterPosting[at]
  OBVIOUS
<1>2. /\ at = "on.lock" => label = "on.feeLock"
      /\ at = "on.feeLock" => label = "on.recheck"
      /\ at = "fin.debit" => label = "fin.credit"
      /\ at = "fin.credit" => label = "fin.feeDebit"
      /\ at = "fin.feeDebit" => label = "fin.revenue"
      /\ at = "fin.revenue" => label = "fin.fee"
      /\ at = "fail.release" => label = "fail.feeRelease"
      /\ at = "fail.feeRelease" => label = "fail.row"
  BY <1>1 DEF AfterPosting, PostingLabels
<1>3. /\ pc[p] \in LateLabels /\ pc[p] \in OnchainLabels
      /\ label \in LateLabels /\ label \in Labels /\ label \notin LedgerLabels \cup DepLabels
  BY <1>2 DEF PostingLabels, Labels, LedgerLabels, DepLabels
<1>4. Working(p) /\ Typed /\ q \in transfers
  BY <1>3, CallFacts
<1>5. /\ CallsTyped' /\ OthersStay(p)
      /\ pc'[p] = label /\ req'[p] = q /\ snap'[p] = snap[p] /\ hash'[p] = hash[p]
  BY <1>1, <1>3, <1>4, OnwardCalls
<1>6. Paid(q)' = Paid(q) /\ Lost(q)' = Lost(q)
  BY DEF Paid, Lost, StateIs
<1>7. Holding(p)'
  BY <1>2, <1>4, <1>5, <1>6 DEF Working, Holding, PostingLabels
<1>8. Done(p)'
  BY <1>2, <1>4, <1>5 DEF Working, Done, PostingLabels
<1>9. Working(p)'
  BY <1>3, <1>4, <1>5, <1>7, <1>8 DEF Working
<1>10. QED
  BY <1>5, <1>9

\* A posting that is made.
LEMMA PostingMade ==
  ASSUME OneCall, TransferInv, NEW p \in Procs, pc[p] \in PostingLabels,
         NEW q \in OnchainRequests, q = req[p], Admissible(ledger, LegAt(pc[p], q)),
         ledger' = Post(ledger, LegAt(pc[p], q)), Onward(p, AfterPosting[pc[p]]),
         UNCHANGED <<transfers, onrow, settle, pays, dep, doc, drow>>
  PROVE  TransferInv'
<1>. USE DEF OnchainLabels, LateLabels, LockLabels, FinLabels, FailLabels
<1>0. PICK on \in PostingLabels : on = pc[p]
  OBVIOUS
<1>1. on \in LateLabels /\ on \in OnchainLabels
  BY DEF PostingLabels
<1>2. Working(p) /\ Typed /\ q \in transfers /\ Sound(q) /\ Agrees(q)
  BY <1>0, <1>1, CallFacts
<1>3. Moves({<<on, q>>})
  BY <1>0, <1>2, PostMoves
<1>4. /\ \A a \in PostingLabels : Made(a, q) => Made(a, q)'
      /\ \A a \in PostingLabels : Made(a, q)' => Made(a, q) \/ a = on
      /\ Made(on, q)' /\ ~Made(on, q)
  <2>1. ~Made(on, q)
    BY <1>0 DEF Made, Admissible
  <2>2. QED
    BY <1>2, <1>3, <2>1 DEF Moves
<1>5. CallsTyped' /\ OthersStay(p) /\ Working(p)'
  BY <1>0, <1>4, PostedOn
<1>6. /\ Paid(q)' = Paid(q) /\ Lost(q)' = Lost(q)
      /\ NoLost => ~(Paid(q) /\ Lost(q))
  BY <1>2 DEF Paid, Lost, StateIs, Sound, Doubtful
<1>7. /\ on \in {"fin.debit", "fin.credit", "fin.feeDebit", "fin.revenue"} =>
           Paid(q) /\ Made("on.lock", q) /\ Made("on.feeLock", q)
      /\ on \in {"fail.release", "fail.feeRelease"} =>
           Lost(q) /\ Made("on.lock", q) /\ Made("on.feeLock", q)
      /\ on \in {"fin.credit", "fin.feeDebit", "fin.revenue"} => Made("fin.debit", q)
      /\ on = "fin.revenue" => Made("fin.feeDebit", q)
  BY <1>0, <1>2 DEF Working, Holding, Done
<1>8. Sound(q)'
  <2>1. Agrees(q)'
    BY <1>2, <1>4, <1>6, <1>7 DEF Agrees, PostingLabels
  <2>2. /\ settle' = settle /\ pays' = pays /\ onrow' = onrow /\ transfers' = transfers
    OBVIOUS
  <2>3. QED
    BY <1>2, <1>4, <1>6, <2>1, <2>2 DEF Sound, PostingLabels
<1>9. Fitting'
  <2>. SUFFICES ASSUME NoLost PROVE LockedFits'
    BY DEF Fitting
  <2>1. CASE on \in {"on.lock", "on.feeLock"}
    BY <1>0, <1>2, <1>4, <2>1, LockTaken
  <2>2. CASE on \in {"fin.credit", "fin.revenue"}
    BY <1>0, <1>2, <2>2, LockKept
  <2>3. CASE on \in Ends
    <3>1. Made(LockOf(on), q) /\ ~LockOver(<<q, LockOf(on)>>)
      BY <1>2, <1>4, <1>6, <1>7, <2>3 DEF Ends, LockOf, LockOver, Agrees
    <3>2. QED
      BY <1>0, <1>2, <2>3, <3>1, LockEnded
  <2>4. QED
    BY <2>1, <2>2, <2>3 DEF PostingLabels, Ends
<1>10. RowsTyped'
  BY <1>2, <1>3 DEF Moves, Typed, RowsTyped
<1>11. Typed' /\ Unique'
  BY <1>5, <1>10 DEF Typed, TransferInv, Unique
<1>12. \A a, x : <<a, x>> \in {<<on, q>>} => x = q
  OBVIOUS
<1>13. QED
  BY <1>0, <1>1, <1>3, <1>5, <1>8, <1>9, <1>11, <1>12, StepFrame

LEMMA PostingInv ==
  ASSUME OneCall, TransferInv, NEW p \in Procs, Posting(p), UNCHANGED depVars
  PROVE  TransferInv'
<1>. USE DEF OnchainLabels, LateLabels, LockLabels, FinLabels, FailLabels
<1>1. /\ pc[p] \in PostingLabels /\ UNCHANGED <<transfers, onrow, settle, pays, dep, doc, drow>>
      /\ pc[p] \in LateLabels /\ pc[p] \in OnchainLabels
  BY DEF Posting, depVars, PostingLabels
<1>2. PICK q \in OnchainRequests : q = req[p] /\ q \in transfers
  BY <1>1, CallFacts
<1>3. Working(p)
  BY <1>1, CallFacts
<1>4. PICK l : l = LegAt(pc[p], q)
  OBVIOUS
<1>5. CASE Posted(ledger, l.key) /\ Onward(p, AfterPosting[pc[p]]) /\ UNCHANGED ledger
  <2>0. PICK at \in PostingLabels : at = pc[p]
    BY <1>1
  <2>1. /\ Made(at, q)'
        /\ \A on \in PostingLabels : Made(on, q) => Made(on, q)'
    BY <1>4, <1>5, <2>0 DEF Made
  <2>2. CallsTyped' /\ OthersStay(p) /\ Working(p)'
    BY <1>1, <1>2, <1>5, <2>0, <2>1, PostedOn
  <2>3. QED
    BY <1>1, <1>5, <2>2, StillFrame
<1>6. CASE Admissible(ledger, l) /\ ledger' = Post(ledger, l) /\ Onward(p, AfterPosting[pc[p]])
  BY <1>1, <1>2, <1>4, <1>6, PostingMade
<1>7. CASE l.op = "release" /\ Onward(p, AfterPosting[pc[p]]) /\ UNCHANGED ledger
  <2>0. PICK at \in PostingLabels : at = pc[p]
    BY <1>1
  <2>1. at \in {"fail.release", "fail.feeRelease"}
    BY <1>4, <1>7, <2>0 DEF PostingLabels, LegAt, LegOf
  <2>2. \A on \in PostingLabels : Made(on, q) => Made(on, q)'
    BY <1>7 DEF Made
  <2>3. CallsTyped' /\ OthersStay(p) /\ Working(p)'
    BY <1>1, <1>2, <1>7, <2>0, <2>1, <2>2, PostedOn
  <2>4. QED
    BY <1>1, <1>7, <2>3, StillFrame
<1>8. CASE Stop(p) /\ UNCHANGED ledger
  BY <1>1, <1>8, StopInv
<1>9. QED
  BY <1>2, <1>4, <1>5, <1>6, <1>7, <1>8 DEF Posting
-----------------------------------------------------------------------------
(* Steps of no on-chain call *)

LEMMA PlainStays ==
  ASSUME TransferInv, NEW X, Moves(X), \A q \in transfers' : q.mode = "ledger" => q \in transfers
  PROVE  OneSender => PlainMoved'
<1>1. ASSUME OneSender, NEW q \in transfers', q.mode = "ledger"
      PROVE  /\ MovedIn(ledger', q.from, "internal_transfer_debit", <<"out", q.from, q.key>>, q.amount)
             /\ MovedIn(ledger', q.to, "internal_transfer_credit", <<"in", q.from, q.key>>, q.amount)
  <2>1. q \in transfers
    BY <1>1
  <2>2. q.from \in Wallets /\ q.to \in Wallets
    BY <2>1, RequestsAssumption DEF TransferInv, Typed, RowsTyped
  <2>3. QED
    BY <1>1, <2>1, <2>2 DEF Moves, TransferInv, PlainMoved
<1>2. QED
  BY <1>1 DEF PlainMoved

LEMMA HashesSame == Hashes' = Hashes /\ Payments' = Payments
BY DEF Hashes, Payments, PaymentOf, OnchainRequests

LEMMA DepositsStay ==
  ASSUME TransferInv, NEW X, Moves(X),
         \A h \in Hashes : dep'[h].status = "confirmed" => dep[h].status = "confirmed"
  PROVE  DepositsPosted'
BY HashesSame DEF Moves, TransferInv, DepositsPosted

\* No on-chain transfer is recorded, and none of its rows changes.
LEMMA QuietSound ==
  ASSUME TransferInv, Moves({}), LocksSame, transfers \subseteq transfers',
         \A x \in OnchainRequests : x \in transfers' => x \in transfers,
         UNCHANGED <<onrow, settle, pays>>
  PROVE  Fitting' /\ \A x \in OnchainRequests : Sound(x)'
<1>1. Fitting'
  BY LocksStill
<1>2. ASSUME NEW x \in OnchainRequests PROVE Sound(x)'
  BY SoundStays
<1>3. QED
  BY <1>1, <1>2

LEMMA QuietFrame ==
  ASSUME TransferInv, Moves({}), LocksSame, transfers \subseteq transfers',
         \A x \in OnchainRequests : x \in transfers' => x \in transfers,
         UNCHANGED <<onrow, settle, pays>>, NEW p \in Procs, OthersStay(p),
         Typed', Unique', OneSender => PlainMoved', DepositsPosted', Working(p)'
  PROVE  TransferInv'
<1>1. Fitting' /\ \A x \in OnchainRequests : Sound(x)'
  BY QuietSound
<1>2. ASSUME NEW r \in Procs, r # p PROVE Working(r)'
  <2>1. req'[r] = req[r]
    BY <1>2 DEF OthersStay
  <2>2. Steady(req[r])
    BY <2>1 DEF Steady, Paid, Lost, StateIs
  <2>3. QED
    BY <1>2, <2>2, WorkStays DEF OthersStay
<1>3. Explained(ledger, LegsOf(transfers))'
  BY DEF Moves
<1>4. QED
  BY <1>1, <1>2, <1>3 DEF TransferInv

LEMMA ArrivesInv ==
  ASSUME TransferInv, NEW d, Arrives(d)
  PROVE  TransferInv'
<1>1. /\ UNCHANGED <<ledger, transfers, pc, req, onrow, settle, pays, snap, hash, dep, doc, drow>>
  BY DEF Arrives, walletVars, vars, onVars
<1>2. Moves({}) /\ LocksSame
  BY <1>1, StillMoves
<1>3. Fitting' /\ \A x \in OnchainRequests : Sound(x)'
  BY <1>1, <1>2, QuietSound
<1>4. ASSUME NEW r \in Procs PROVE Working(r)'
  <2>1. Steady(req[r]) /\ req'[r] = req[r]
    BY <1>1 DEF Steady, Paid, Lost, StateIs
  <2>2. QED
    BY <1>1, <1>2, <2>1, WorkStays
<1>5. Typed' /\ Unique'
  BY <1>1, HashesSame DEF TransferInv, Typed, RowsTyped, CallsTyped, Unique
<1>6. (OneSender => PlainMoved') /\ DepositsPosted'
  BY <1>1, <1>2, PlainStays, DepositsStay
<1>7. QED
  BY <1>2, <1>3, <1>4, <1>5, <1>6 DEF Moves, TransferInv

LEMMA ResolvesInv ==
  ASSUME TransferInv, NEW q \in OnchainRequests, NEW i \in 1..Len(pays[q]),
         PaymentResolves(q, i), UNCHANGED depVars
  PROVE  TransferInv'
<1>1. /\ UNCHANGED <<ledger, transfers, pc, req, onrow, settle, snap, hash, dep, doc, drow>>
      /\ pays[q][i].state = "sent"
  BY DEF PaymentResolves, vars, depVars
<1>2. PICK ch \in Resolutions(pays[q], i, Sent(q.from)) : pays' = [pays EXCEPT ![q] = ch]
  BY DEF PaymentResolves
<1>3. PICK s \in {"landed", "failed"} : ch = [pays[q] EXCEPT ![i].state = s]
  BY <1>2 DEF Resolutions
<1>4. Typed /\ Sound(q) /\ IsChain(pays[q])
  BY DEF TransferInv, Typed, RowsTyped
<1>5. /\ IsChain(ch) /\ Len(ch) = Len(pays[q]) /\ ch[i].state = s /\ Len(pays[q]) \in Nat
      /\ ch[i].doubt = pays[q][i].doubt
      /\ \A j \in 1..Len(pays[q]) : j # i => ch[j] = pays[q][j]
  BY <1>3, <1>4, StateChain
<1>6. /\ pays'[q] = ch /\ \A x \in OnchainRequests : x # q => pays'[x] = pays[x]
      /\ pays' = [x \in OnchainRequests |-> pays'[x]]
  BY <1>2, <1>4 DEF Typed, RowsTyped
<1>7. i = settle[q].ref
  BY <1>1, <1>4 DEF Sound
<1>8. ASSUME NEW x \in OnchainRequests
      PROVE  /\ Paid(x) => Paid(x)'
             /\ Lost(x) => Lost(x)'
             /\ Len(pays'[x]) = Len(pays[x])
  <2>1. CASE x = q
    BY <1>1, <1>5, <1>6, <1>7, <2>1 DEF Paid, Lost, StateIs
  <2>2. CASE x # q
    BY <1>1, <1>6, <2>2 DEF Paid, Lost, StateIs
  <2>3. QED
    BY <2>1, <2>2
<1>9. Moves({}) /\ LocksSame
  BY <1>1, StillMoves
<1>10. Fitting'
  BY <1>1, <1>9, LocksStill
<1>11. ASSUME NEW x \in OnchainRequests PROVE Sound(x)'
  <2>1. CASE x = q
    <3>1. \A on : Made(on, q)' <=> Made(on, q)
      BY <1>1 DEF Made
    <3>2. ASSUME NEW j \in 1..Len(pays'[q]), pays'[q][j].state # "signed"
          PROVE  j = settle'[q].ref
      BY <1>1, <1>4, <1>5, <1>6, <1>7, <3>2 DEF Sound
    <3>3. NoLost => ~Doubtful(pays[q])'
      BY <1>4, <1>5, <1>6 DEF Sound, Doubtful
    <3>4. Sound(q)'
      BY <1>1, <1>4, <1>8, <3>1, <3>2, <3>3 DEF Sound, Agrees
    <3>5. QED
      BY <2>1, <3>4
  <2>2. CASE x # q
    BY <1>1, <1>6, <1>9, <2>2, SoundStays
  <2>3. QED
    BY <2>1, <2>2
<1>12. ASSUME NEW r \in Procs PROVE Working(r)'
  <2>1. ASSUME pc[r] \in OnchainLabels PROVE Steady(req[r])
    <3>1. PICK x \in OnchainRequests : x = req[r]
      BY <2>1 DEF TransferInv, Working
    <3>2. Steady(x)
      BY <1>1, <1>8 DEF Steady
    <3>3. x = req'[r]
      BY <1>1, <3>1
    <3>4. QED
      BY <3>1, <3>2, <3>3 DEF Steady, Paid, Lost, StateIs
  <2>2. QED
    BY <1>1, <1>9, <2>1, WorkStays
<1>13. Typed' /\ Unique'
  <2>1. \A x \in OnchainRequests : IsChain(pays'[x])
    <3>1. ASSUME NEW x \in OnchainRequests PROVE IsChain(pays'[x])
      BY <1>4, <1>5, <1>6 DEF Typed, RowsTyped
    <3>2. QED
      BY <3>1
  <2>2. Typed'
    BY <1>1, <1>4, <1>6, <2>1, HashesSame DEF Typed, RowsTyped, CallsTyped
  <2>3. QED
    BY <1>1, <2>2 DEF TransferInv, Unique
<1>14. (OneSender => PlainMoved') /\ DepositsPosted'
  BY <1>1, <1>9, PlainStays, DepositsStay
<1>15. QED
  BY <1>9, <1>10, <1>11, <1>12, <1>13, <1>14 DEF Moves, TransferInv

-----------------------------------------------------------------------------
(* Transfers inside the ledger *)

\* The labels of a ledger call say nothing but what it serves.
LEMMA LedgerWorks ==
  ASSUME NEW p \in Procs, pc'[p] \in LedgerLabels, req'[p] \in Requests, req'[p].mode = "ledger"
  PROVE  Working(p)'
BY DEF Working, Holding, Done, LedgerLabels, OnchainLabels, EarlyLabels, LateLabels, LockLabels,
       SendLabels, FinLabels, FailLabels, DepLabels

\* A step of a ledger call that writes no row but that of its wallet.
LEMMA LedgerFrame ==
  ASSUME TransferInv, NEW p \in Procs, Moves({}), LocksSame,
         UNCHANGED <<transfers, onVars, depVars>>, NEW label \in {"idle"} \cup LedgerLabels,
         pc' = [pc EXCEPT ![p] = label], NEW q \in Requests \cup {NoRequest},
         req' = [req EXCEPT ![p] = q],
         label # "idle" => q \in Requests /\ q.mode = "ledger"
  PROVE  TransferInv'
<1>1. UNCHANGED <<onrow, settle, pays, snap, hash, dep, doc, drow>>
  BY DEF onVars, depVars
<1>2. label \in Labels /\ Typed
  BY DEF Labels, TransferInv
<1>3. CallsTyped' /\ OthersStay(p) /\ pc'[p] = label /\ req'[p] = q
  BY <1>1, <1>2 DEF Typed, CallsTyped, OthersStay
<1>4. Working(p)'
  BY <1>3, IdleWorks, LedgerWorks
<1>5. RowsTyped'
  BY <1>1, <1>2, HashesSame DEF Moves, Typed, RowsTyped
<1>6. Typed' /\ Unique'
  BY <1>3, <1>5 DEF Typed, TransferInv, Unique
<1>7. (OneSender => PlainMoved') /\ DepositsPosted'
  BY <1>1, PlainStays, DepositsStay
<1>8. QED
  BY <1>1, <1>3, <1>4, <1>6, <1>7, QuietFrame

LEMMA CreateLedgerInv ==
  ASSUME TransferInv, NEW p \in Procs, NEW q \in Requests, createInternalTransfer(p, q),
         UNCHANGED <<onVars, depVars>>
  PROVE  TransferInv'
<1>1. PICK label : label = IF Fee > 0 THEN "canPay" ELSE "find"
  OBVIOUS
<1>2. /\ pc' = [pc EXCEPT ![p] = label] /\ req' = [req EXCEPT ![p] = q] /\ q.mode = "ledger"
      /\ UNCHANGED <<ledger, transfers>> /\ label \in LedgerLabels
  BY <1>1 DEF createInternalTransfer, Goto, LedgerLabels
<1>3. Moves({}) /\ LocksSame
  BY <1>2, StillMoves
<1>4. QED
  BY <1>2, <1>3, LedgerFrame

\* The request that a ledger call serves.
LEMMA LedgerFacts ==
  ASSUME TransferInv, NEW p \in Procs, pc[p] \in LedgerLabels
  PROVE  /\ req[p] \in Requests /\ req[p].mode = "ledger" /\ req = [req EXCEPT ![p] = req[p]]
         /\ pc \in [Procs -> Labels]
         /\ Well(ledger) /\ Bare(ledger)
BY DEF TransferInv, Working, Typed, RowsTyped, CallsTyped

LEMMA CanPayInv ==
  ASSUME TransferInv, NEW p \in Procs, assertCustomerCanPay(p), UNCHANGED <<onVars, depVars>>
  PROVE  TransferInv'
<1>1. pc[p] \in LedgerLabels /\ UNCHANGED transfers
  BY DEF assertCustomerCanPay, LedgerLabels
<1>2. PICK q \in Requests : q = req[p] /\ q.mode = "ledger"
  BY <1>1, LedgerFacts
<1>3. ledger' = ensureWalletAccount(ledger, q.from) /\ q.from \in Wallets
  BY <1>2, RequestsAssumption DEF assertCustomerCanPay
<1>4. Grown(ledger, ledger', {})
  BY <1>1, <1>3, LedgerFacts, GrownEnsure
<1>5. Moves({}) /\ LocksSame
  BY <1>1, <1>4, QuietMoves
<1>6. CASE pc' = [pc EXCEPT ![p] = "find"] /\ UNCHANGED req
  <2>1. req' = [req EXCEPT ![p] = q]
    BY <1>1, <1>2, <1>6, LedgerFacts
  <2>2. QED
    BY <1>1, <1>2, <1>5, <1>6, <2>1, LedgerFrame DEF LedgerLabels
<1>7. CASE Finish(p)
  <2>1. pc' = [pc EXCEPT ![p] = "idle"] /\ req' = [req EXCEPT ![p] = NoRequest]
    BY <1>7 DEF Finish, Goto
  <2>2. QED
    BY <1>1, <1>5, <2>1, LedgerFrame
<1>8. QED
  BY <1>6, <1>7 DEF assertCustomerCanPay, Goto

LEMMA FindInv ==
  ASSUME TransferInv, NEW p \in Procs, FindTransfer(p), UNCHANGED <<onVars, depVars>>
  PROVE  TransferInv'
<1>1. pc[p] \in LedgerLabels /\ UNCHANGED <<ledger, transfers>>
  BY DEF FindTransfer, LedgerLabels
<1>2. Moves({}) /\ LocksSame
  BY <1>1, StillMoves
<1>3. CASE pc' = [pc EXCEPT ![p] = "tx"] /\ UNCHANGED req
  <2>1. req' = [req EXCEPT ![p] = req[p]] /\ req[p] \in Requests /\ req[p].mode = "ledger"
    BY <1>1, <1>3, LedgerFacts
  <2>2. QED
    BY <1>1, <1>2, <1>3, <2>1, LedgerFrame DEF LedgerLabels
<1>4. CASE Finish(p)
  <2>1. pc' = [pc EXCEPT ![p] = "idle"] /\ req' = [req EXCEPT ![p] = NoRequest]
    BY <1>4 DEF Finish, Goto
  <2>2. QED
    BY <1>1, <1>2, <2>1, LedgerFrame
<1>5. QED
  BY <1>3, <1>4 DEF FindTransfer, Goto
\* A posting is in the ledger from then on.
LEMMA PostMoved ==
  ASSUME NEW L, Well(L), NEW l \in Leg, Admissible(L, l)
  PROVE  MovedIn(Post(L, l), l.wallet, l.type, l.ref, l.amount)
<1>1. L \in Ledger /\ l.wallet \in Wallets /\ Covers(l.op, L.rows[l.wallet].bal, l.amount)
  BY DEF Well, Leg, Admissible
<1>2. /\ Len(L.movements[l.wallet]) \in Nat
      /\ Len(Post(L, l).movements[l.wallet]) = Len(L.movements[l.wallet]) + 1
      /\ Post(L, l).movements[l.wallet][Len(Post(L, l).movements[l.wallet])] = NewMovement(L, l)
  BY <1>1, PostMovements
<1>3. /\ NewMovement(L, l).type = l.type /\ NewMovement(L, l).ref = l.ref
      /\ NewMovement(L, l).amount = l.amount
  BY DEF NewMovement
<1>4. PICK M, n : M = Post(L, l) /\ n = Len(M.movements[l.wallet])
  OBVIOUS
<1>5. n \in 1..Len(M.movements[l.wallet]) /\ M.movements[l.wallet][n] = NewMovement(L, l)
  BY <1>2, <1>4
<1>6. MovedIn(M, l.wallet, l.type, l.ref, l.amount)
  BY <1>3, <1>5 DEF MovedIn
<1>7. QED
  BY <1>4, <1>6

\* What a pair of legs does to a ledger.
LEMMA PairGrows ==
  ASSUME NEW L, Well(L), Bare(L), NEW d \in Leg, NEW c \in Leg, d.wallet # c.wallet,
         d.key # c.key, NEW M \in PairResults(L, d, c)
  PROVE  /\ Grown(L, M, {d, c})
         /\ \/ BothPosted(L, d, c)
            \/ /\ MovedIn(M, d.wallet, d.type, d.ref, d.amount)
               /\ MovedIn(M, c.wallet, c.type, c.ref, c.amount)
<1>1. CASE BothPosted(L, d, c)
  <2>1. M = L
    BY <1>1 DEF PairResults
  <2>2. QED
    BY <1>1, <2>1, GrownSame
<1>2. CASE ~BothPosted(L, d, c)
  <2>1. PICK R : R = Ready(L, d, c)
    OBVIOUS
  <2>2. PairAdmissible(R, d, c) /\ M = PostPair(R, d, c)
    BY <1>2, <2>1 DEF PairResults
  <2>3. d.wallet \in Wallets /\ c.wallet \in Wallets
    BY DEF Leg
  <2>4. Grown(L, R, {d, c})
    <3>1. PICK E : E = ensureWalletAccount(L, d.wallet)
      OBVIOUS
    <3>2. Grown(L, E, {d, c})
      BY <2>3, <3>1, GrownEnsure
    <3>3. Well(E) /\ Bare(E)
      BY <3>2 DEF Grown
    <3>4. Grown(E, ensureWalletAccount(E, c.wallet), {d, c})
      BY <2>3, <3>3, GrownEnsure
    <3>5. R = ensureWalletAccount(E, c.wallet)
      BY <2>1, <3>1 DEF Ready
    <3>6. QED
      BY <3>2, <3>4, <3>5, GrownTwice
  <2>5. Well(R) /\ Bare(R) /\ Admissible(R, d) /\ Admissible(R, c)
    BY <2>2, <2>4 DEF Grown, PairAdmissible
  <2>6. Grown(R, M, {d, c})
    BY <2>2, <2>5, GrownPair
  <2>7. Grown(L, M, {d, c})
    BY <2>4, <2>6, GrownTwice
  <2>8. PICK E : E = Post(R, d)
    OBVIOUS
  <2>9. Well(E) /\ Admissible(E, c) /\ M = Post(E, c)
    BY <2>2, <2>5, <2>8, PairInTurn, PostWell
  <2>10. MovedIn(M, c.wallet, c.type, c.ref, c.amount)
    BY <2>9, PostMoved
  <2>11. MovedIn(M, d.wallet, d.type, d.ref, d.amount)
    <3>1. MovedIn(E, d.wallet, d.type, d.ref, d.amount)
      BY <2>5, <2>8, PostMoved
    <3>2. Grown(E, M, {c})
      <4>1. Bare(E)
        BY <2>5, <2>8, GrownPost DEF Grown
      <4>2. QED
        BY <2>9, <4>1, GrownPost
    <3>3. QED
      BY <2>3, <2>9, <3>1, <3>2, GrownMoved
  <2>12. QED
    BY <2>7, <2>10, <2>11
<1>3. QED
  BY <1>1, <1>2

\* No two senders use one key: a transfer whose legs are posted already has a row.
LEMMA PostedHasRow ==
  ASSUME TransferInv, OneSender, NEW q \in Requests, q.mode = "ledger",
         Posted(ledger, DebitLeg(q).key)
  PROVE  RowConflict(q)
<1>1. PICK w \in Wallets : \E i \in 1..Len(ledger.movements[w]) :
        ledger.movements[w][i].key = DebitLeg(q).key
  BY DEF Posted
<1>2. PICK i \in 1..Len(ledger.movements[w]) : ledger.movements[w][i].key = DebitLeg(q).key
  BY <1>1
<1>3. PICK l \in LegsOf(transfers) : Records(ledger.movements[w][i], w, l)
  BY DEF TransferInv, Explained
<1>4. l.key = DebitLeg(q).key /\ IsLegOf(l, transfers) /\ l.key = <<q.key, "debit">>
  BY <1>2, <1>3 DEF Records, LegsOf, DebitLeg
<1>5. PICK x \in Requests : x \in transfers /\ x.mode = "ledger" /\ l \in PlainLegs(x)
  <2>1. \A y \in OnchainRequests, on \in PostingLabels : l # LegAt(on, y)
    BY <1>4, OtherKeys DEF PlainLegs
  <2>2. \A d : l \notin DepositLegs(d)
    BY <1>4 DEF DepositLegs, DepositLeg
  <2>3. \A v : l # SeedLeg(v)
    BY <1>4 DEF SeedLeg
  <2>4. QED
    BY <1>4, <2>1, <2>2, <2>3 DEF IsLegOf
<1>6. x.key = q.key
  <2>1. \/ l.key = <<x.key, "credit">>
        \/ l.key = <<x.key, "debit">> \/ l.key = <<x.key, "fee">> \/ l.key = <<x.key, "revenue">>
    BY <1>5 DEF PlainLegs, DebitLeg, CreditLeg, FeeDebitLeg, FeeRevenueLeg
  <2>2. QED
    BY <1>4, <2>1
<1>7. x.from = q.from
  BY <1>5, <1>6 DEF OneSender
<1>8. QED
  BY <1>5, <1>6, <1>7 DEF RowConflict, SameClientKey

\* The database transaction of a transfer, as far as the ledger goes.
LEMMA OutcomeGrows ==
  ASSUME FeeApart, TransferInv, NEW q \in Requests, q.mode = "ledger", NEW M \in Outcomes(q)
  PROVE  /\ ~RowConflict(q)
         /\ Grown(ledger, M, PlainLegs(q))
         /\ OneSender =>
              /\ MovedIn(M, q.from, "internal_transfer_debit", <<"out", q.from, q.key>>, q.amount)
              /\ MovedIn(M, q.to, "internal_transfer_credit", <<"in", q.from, q.key>>, q.amount)
<1>1. ~RowConflict(q)
  BY DEF Outcomes
<1>2. PICK L \in PairResults(ledger, DebitLeg(q), CreditLeg(q)) : M \in FeeResults(L, q)
  BY <1>1 DEF Outcomes
<1>3. Well(ledger) /\ Bare(ledger)
  BY DEF TransferInv, Typed, RowsTyped
<1>4. PICK d \in Leg, c \in Leg : d = DebitLeg(q) /\ c = CreditLeg(q)
  BY LedgerLegsAssumption
<1>5. /\ d.wallet = q.from /\ c.wallet = q.to /\ d.key = <<q.key, "debit">>
      /\ c.key = <<q.key, "credit">> /\ q.from # q.to
      /\ d.type = "internal_transfer_debit" /\ d.ref = <<"out", q.from, q.key>>
      /\ c.type = "internal_transfer_credit" /\ c.ref = <<"in", q.from, q.key>>
      /\ d.amount = q.amount /\ c.amount = q.amount /\ q.from \in Wallets /\ q.to \in Wallets
  BY <1>4, RequestsAssumption DEF DebitLeg, CreditLeg
<1>6. /\ Grown(ledger, L, {d, c})
      /\ \/ BothPosted(ledger, d, c)
         \/ /\ MovedIn(L, d.wallet, d.type, d.ref, d.amount)
            /\ MovedIn(L, c.wallet, c.type, c.ref, c.amount)
  <2>1. d.key # c.key /\ d.wallet # c.wallet
    BY <1>5
  <2>2. QED
    BY <1>2, <1>3, <1>4, <2>1, PairGrows
<1>7. Well(L) /\ Bare(L) /\ Grown(ledger, L, PlainLegs(q))
  <2>1. {d, c} \subseteq PlainLegs(q)
    BY <1>4 DEF PlainLegs
  <2>2. QED
    BY <1>6, <2>1, GrownMore DEF Grown
<1>8. Grown(L, M, PlainLegs(q))
  <2>1. CASE ~ChargesFee(q)
    BY <1>2, <1>7, <2>1, GrownSame DEF FeeResults
  <2>2. CASE ChargesFee(q)
    <3>1. Fee > 0 /\ M \in PairResults(L, FeeDebitLeg(q), FeeRevenueLeg(q))
      BY <1>2, <2>2 DEF FeeResults, ChargesFee
    <3>2. PICK e \in Leg, r \in Leg : e = FeeDebitLeg(q) /\ r = FeeRevenueLeg(q)
      BY <3>1, LedgerLegsAssumption
    <3>3. e.wallet # r.wallet /\ e.key # r.key
      BY <3>1, <3>2 DEF FeeDebitLeg, FeeRevenueLeg, FeeApart
    <3>4. Grown(L, M, {e, r})
      BY <1>7, <3>1, <3>2, <3>3, PairGrows
    <3>5. {e, r} \subseteq PlainLegs(q)
      BY <3>1, <3>2 DEF PlainLegs
    <3>6. QED
      BY <3>4, <3>5, GrownMore
  <2>3. QED
    BY <2>1, <2>2
<1>9. Grown(ledger, M, PlainLegs(q))
  BY <1>3, <1>7, <1>8, GrownTwice
<1>10. ASSUME OneSender
       PROVE  /\ MovedIn(M, d.wallet, d.type, d.ref, d.amount)
              /\ MovedIn(M, c.wallet, c.type, c.ref, c.amount)
  <2>1. ~BothPosted(ledger, d, c)
    BY <1>1, <1>4, <1>10, PostedHasRow DEF BothPosted
  <2>2. QED
    BY <1>5, <1>6, <1>7, <1>8, <2>1, GrownMoved
<1>11. QED
  BY <1>1, <1>5, <1>9, <1>10

LEMMA TxInv ==
  ASSUME FeeApart, TransferInv, NEW p \in Procs, TransferTx(p), UNCHANGED <<onVars, depVars>>
  PROVE  TransferInv'
<1>1. /\ pc[p] \in LedgerLabels /\ pc' = [pc EXCEPT ![p] = "idle"]
      /\ req' = [req EXCEPT ![p] = NoRequest]
      /\ UNCHANGED <<onrow, settle, pays, snap, hash, dep, doc, drow>>
  BY DEF TransferTx, LedgerLabels, Finish, Goto, onVars, depVars
<1>2. PICK q \in Requests : q = req[p] /\ q.mode = "ledger"
  BY <1>1, LedgerFacts
<1>3. ledger' \in Outcomes(q) /\ transfers' = transfers \cup {q}
  BY <1>2 DEF TransferTx
<1>4. /\ ~RowConflict(q)
      /\ Grown(ledger, ledger', PlainLegs(q))
      /\ OneSender =>
           /\ MovedIn(ledger', q.from, "internal_transfer_debit", <<"out", q.from, q.key>>, q.amount)
           /\ MovedIn(ledger', q.to, "internal_transfer_credit", <<"in", q.from, q.key>>, q.amount)
  BY <1>2, <1>3, OutcomeGrows
<1>5. Moves({}) /\ LocksSame
  <2>1. PlainLegs(q) \subseteq LegsOf(transfers')
    BY <1>2, <1>3, LegsTyped DEF LegsOf, IsLegOf
  <2>2. \A l \in PlainLegs(q) : ~MovesLocks(l)
    BY DEF PlainLegs, MovesLocks, DebitLeg, CreditLeg, FeeDebitLeg, FeeRevenueLeg
  <2>3. \A l \in PlainLegs(q) : \A x \in OnchainRequests, on \in PostingLabels :
          l.key # LegAt(on, x).key
    BY <1>2, OtherKeys
  <2>4. transfers \subseteq transfers'
    BY <1>3
  <2>5. QED
    BY <1>4, <2>1, <2>2, <2>3, <2>4, QuietMoves
<1>6. Typed /\ "idle" \in Labels
  BY DEF TransferInv, Labels
<1>7. CallsTyped' /\ OthersStay(p) /\ pc'[p] = "idle"
  BY <1>1, <1>6 DEF Typed, CallsTyped, OthersStay
<1>8. RowsTyped'
  BY <1>1, <1>3, <1>5, <1>6, HashesSame DEF Moves, Typed, RowsTyped
<1>9. Unique'
  BY <1>3, <1>4 DEF TransferInv, Unique, RowConflict, SameClientKey
<1>10. OneSender => PlainMoved'
  <2>1. ASSUME OneSender, NEW x \in transfers', x.mode = "ledger"
        PROVE  /\ MovedIn(ledger', x.from, "internal_transfer_debit", <<"out", x.from, x.key>>, x.amount)
               /\ MovedIn(ledger', x.to, "internal_transfer_credit", <<"in", x.from, x.key>>, x.amount)
    <3>1. CASE x = q
      BY <1>4, <2>1, <3>1
    <3>2. CASE x \in transfers
      <4>1. x.from \in Wallets /\ x.to \in Wallets
        BY <1>6, <3>2, RequestsAssumption DEF Typed, RowsTyped
      <4>2. QED
        BY <1>5, <2>1, <3>2, <4>1 DEF Moves, TransferInv, PlainMoved
    <3>3. QED
      BY <1>3, <3>1, <3>2
  <2>2. QED
    BY <2>1 DEF PlainMoved
<1>11. DepositsPosted'
  BY <1>1, <1>5, DepositsStay
<1>12. Working(p)' /\ Typed'
  BY <1>7, <1>8, IdleWorks DEF Typed
<1>13. \A x \in OnchainRequests : x \in transfers' => x \in transfers
  BY <1>2, <1>3 DEF OnchainRequests
<1>14. transfers \subseteq transfers'
  BY <1>3
<1>15. QED
  BY <1>1, <1>5, <1>7, <1>9, <1>10, <1>11, <1>12, <1>13, <1>14, QuietFrame
-----------------------------------------------------------------------------
(* Deposits *)

\* What lands on Stellar is known beforehand; its rows are, by hash.
ArrivedKnown == arrived \subseteq Deposits

LEMMA PaymentsKnown ==
  ASSUME TransferInv, ArrivedKnown, NEW d \in OnStellar
  PROVE  d \in Payments /\ d.id \in Hashes
<1>1. d \in Payments
  <2>1. CASE d \in arrived
    BY <2>1 DEF ArrivedKnown, Payments
  <2>2. CASE d \notin arrived
    <3>1. PICK q \in OnchainRequests : d \in {PaymentOf(q, i) : i \in Landed(pays[q])}
      BY <2>2 DEF OnStellar
    <3>2. PICK i \in 1..Len(pays[q]) : d = PaymentOf(q, i)
      BY <3>1 DEF Landed
    <3>3. Sound(q) /\ IsChain(pays[q])
      BY DEF TransferInv, Typed, RowsTyped
    <3>4. Len(pays[q]) \in Nat /\ Len(pays[q]) <= MaxSends
      BY <3>3, StateChain, SignChain DEF Sound
    <3>5. i \in 1..MaxSends
      BY <3>4, MaxSendsAssumption
    <3>6. QED
      BY <3>2, <3>5 DEF Payments
  <2>3. QED
    BY <2>1, <2>2
<1>2. QED
  BY <1>1 DEF Hashes

LEMMA DepositFacts ==
  ASSUME TransferInv, NEW p \in Procs, pc[p] \in DepLabels
  PROVE  /\ doc[p] \in Payments /\ doc[p].id \in Hashes /\ Typed
         /\ dep \in [Hashes -> DepositRow] /\ drow \in [Procs -> DepositRow]
         /\ pc[p] = "dep.confirm" => Posted(ledger, <<doc[p].id, "available">>)
<1>1. Working(p) /\ Typed
  BY DEF TransferInv
<1>2. QED
  BY <1>1 DEF Working, Typed, RowsTyped, CallsTyped, Hashes

\* The labels of a deposit say what payment it processes.
LEMMA DepositWorks ==
  ASSUME NEW p \in Procs, pc'[p] \in DepLabels, doc'[p] \in Payments,
         pc'[p] = "dep.confirm" => Posted(ledger', <<doc'[p].id, "available">>)
  PROVE  Working(p)'
<1>1. doc'[p] \in Payments'
  BY HashesSame
<1>2. QED
  BY <1>1 DEF Working, Holding, Done, LedgerLabels, OnchainLabels, EarlyLabels, LateLabels,
              LockLabels, SendLabels, FinLabels, FailLabels, DepLabels

\* A step of a deposit.
LEMMA DepositFrame ==
  ASSUME TransferInv, NEW p \in Procs, Moves({}), LocksSame, OthersUnchanged,
         NEW label \in {"idle"} \cup DepLabels, pc' = [pc EXCEPT ![p] = label],
         NEW d, doc' = [doc EXCEPT ![p] = d], NEW row \in DepositRow,
         drow' = [drow EXCEPT ![p] = row], dep' \in [Hashes -> DepositRow],
         \A h \in Hashes : dep'[h].status = "confirmed" =>
            dep[h].status = "confirmed" \/ Posted(ledger, <<h, "available">>),
         label # "idle" => d \in Payments,
         label = "dep.confirm" => Posted(ledger', <<d.id, "available">>)
  PROVE  TransferInv'
<1>1. UNCHANGED <<transfers, req, onrow, settle, pays, snap, hash>>
  BY DEF OthersUnchanged, onVars
<1>2. label \in Labels /\ Typed
  BY DEF Labels, TransferInv
<1>3. CallsTyped' /\ OthersStay(p) /\ pc'[p] = label /\ doc'[p] = d
  BY <1>1, <1>2 DEF Typed, CallsTyped, OthersStay
<1>4. Working(p)'
  <2>1. CASE label = "idle"
    BY <1>3, <2>1, IdleWorks
  <2>2. CASE label # "idle"
    <3>1. pc'[p] = "dep.confirm" => Posted(ledger', <<doc'[p].id, "available">>)
      BY <1>3
    <3>2. QED
      BY <1>3, <2>2, <3>1, DepositWorks
  <2>3. QED
    BY <2>1, <2>2
<1>5. RowsTyped'
  BY <1>1, <1>2, HashesSame DEF Moves, Typed, RowsTyped
<1>6. Typed' /\ Unique'
  BY <1>1, <1>3, <1>5 DEF Typed, TransferInv, Unique
<1>7. OneSender => PlainMoved'
  BY <1>1, PlainStays
<1>8. DepositsPosted'
  BY HashesSame DEF Moves, TransferInv, DepositsPosted
<1>9. QED
  BY <1>1, <1>3, <1>4, <1>6, <1>7, <1>8, QuietFrame

\* The same of a step that posts nothing.
LEMMA DepositStill ==
  ASSUME TransferInv, NEW p \in Procs, UNCHANGED ledger, OthersUnchanged
  PROVE  Moves({}) /\ LocksSame
BY StillMoves DEF OthersUnchanged

\* A step to another label that posts nothing.
LEMMA DepositGoes ==
  ASSUME TransferInv, NEW p \in Procs, UNCHANGED ledger, OthersUnchanged,
         NEW label \in DepLabels, label # "dep.confirm", pc' = [pc EXCEPT ![p] = label],
         NEW d \in Payments, doc' = [doc EXCEPT ![p] = d], NEW row \in DepositRow,
         drow' = [drow EXCEPT ![p] = row], dep' \in [Hashes -> DepositRow],
         \A h \in Hashes : dep'[h].status = "confirmed" => dep[h].status = "confirmed"
  PROVE  TransferInv'
<1>1. Moves({}) /\ LocksSame
  BY DepositStill
<1>2. label \in {"idle"} \cup DepLabels
  OBVIOUS
<1>3. QED
  BY <1>1, <1>2, DepositFrame

LEMMA ProcessInv ==
  ASSUME TransferInv, ArrivedKnown, NEW p \in Procs, NEW d \in OnStellar, processDeposit(p, d)
  PROVE  TransferInv'
<1>1. /\ doc' = [doc EXCEPT ![p] = d] /\ drow' = [drow EXCEPT ![p] = dep[d.id]]
      /\ pc' = [pc EXCEPT ![p] = "dep.insert"] /\ UNCHANGED <<ledger, dep>> /\ OthersUnchanged
  BY DEF processDeposit, Goto
<1>2. d \in Payments /\ d.id \in Hashes /\ dep \in [Hashes -> DepositRow]
  BY PaymentsKnown DEF TransferInv, Typed, RowsTyped
<1>3. PICK row \in DepositRow, label \in DepLabels :
        row = dep[d.id] /\ label = "dep.insert" /\ label # "dep.confirm"
  BY <1>2 DEF DepLabels
<1>4. dep' \in [Hashes -> DepositRow]
      /\ \A h \in Hashes : dep'[h].status = "confirmed" => dep[h].status = "confirmed"
  BY <1>1, <1>2
<1>5. QED
  BY <1>1, <1>2, <1>3, <1>4, DepositGoes

\* A row of a hash, of another status.
LEMMA DepRowStep ==
  ASSUME TransferInv, NEW h \in Hashes, NEW row \in DepositRow, dep' = [dep EXCEPT ![h] = row],
         row.status = "confirmed" => dep[h].status = "confirmed"
  PROVE  /\ dep' \in [Hashes -> DepositRow] /\ dep'[h] = row
         /\ \A x \in Hashes : dep'[x].status = "confirmed" => dep[x].status = "confirmed"
<1>1. dep \in [Hashes -> DepositRow]
  BY DEF TransferInv, Typed, RowsTyped
<1>2. /\ dep' \in [Hashes -> DepositRow] /\ dep'[h] = row
      /\ \A x \in Hashes : x # h => dep'[x] = dep[x]
  BY <1>1
<1>3. QED
  BY <1>2

LEMMA DepInsertInv ==
  ASSUME TransferInv, NEW p \in Procs, DepInsert(p)
  PROVE  TransferInv'
<1>1. /\ pc[p] = "dep.insert" /\ pc' = [pc EXCEPT ![p] = "dep.mark"] /\ UNCHANGED <<ledger, doc>>
      /\ OthersUnchanged
  BY DEF DepInsert, Goto
<1>2. pc[p] \in DepLabels /\ "dep.mark" \in DepLabels
  BY <1>1 DEF DepLabels
<1>3. PICK h \in Hashes : h = doc[p].id
  BY <1>2, DepositFacts
<1>4. /\ doc[p] \in Payments /\ Typed /\ dep \in [Hashes -> DepositRow]
      /\ drow \in [Procs -> DepositRow]
  BY <1>2, DepositFacts
<1>5. PICK row : row = [NoDeposit EXCEPT !.status = "verified"]
  OBVIOUS
<1>6. row \in DepositRow /\ row.status = "verified"
  BY <1>5 DEF DepositRow, NoDeposit
<1>7. PICK label \in DepLabels, d \in Payments :
        /\ label # "dep.confirm" /\ pc' = [pc EXCEPT ![p] = label]
        /\ doc' = [doc EXCEPT ![p] = d]
  BY <1>1, <1>2, <1>4 DEF Typed, CallsTyped
<1>8. CASE UNCHANGED <<dep, drow>>
  <2>1. PICK r \in DepositRow : drow' = [drow EXCEPT ![p] = r]
    BY <1>4, <1>8
  <2>2. /\ dep' \in [Hashes -> DepositRow]
        /\ \A x \in Hashes : dep'[x].status = "confirmed" => dep[x].status = "confirmed"
    BY <1>4, <1>8
  <2>3. QED
    BY <1>1, <1>7, <2>1, <2>2, DepositGoes
<1>9. CASE /\ dep' = IF dep[h] = NoDeposit THEN [dep EXCEPT ![h] = row] ELSE dep
           /\ drow' = [drow EXCEPT ![p] = dep'[h]]
  <2>1. /\ dep' \in [Hashes -> DepositRow]
        /\ \A x \in Hashes : dep'[x].status = "confirmed" => dep[x].status = "confirmed"
    <3>1. CASE dep' = [dep EXCEPT ![h] = row]
      BY <1>6, <3>1, DepRowStep
    <3>2. CASE dep' = dep
      BY <1>4, <3>2
    <3>3. QED
      BY <1>9, <3>1, <3>2
  <2>2. dep'[h] \in DepositRow
    BY <2>1
  <2>3. QED
    BY <1>1, <1>2, <1>4, <1>7, <1>9, <2>1, <2>2, DepositGoes
<1>10. QED
  BY <1>3, <1>5, <1>8, <1>9 DEF DepInsert

LEMMA DepMarkInv ==
  ASSUME TransferInv, NEW p \in Procs, DepMark(p)
  PROVE  TransferInv'
<1>1. /\ pc[p] = "dep.mark" /\ pc' = [pc EXCEPT ![p] = "dep.pending"]
      /\ UNCHANGED <<ledger, doc, drow>> /\ OthersUnchanged
  BY DEF DepMark, DepOnward, Goto
<1>2. pc[p] \in DepLabels /\ "dep.pending" \in DepLabels
  BY <1>1 DEF DepLabels
<1>3. PICK h \in Hashes : h = doc[p].id
  BY <1>2, DepositFacts
<1>4. /\ doc[p] \in Payments /\ Typed /\ dep \in [Hashes -> DepositRow]
      /\ drow \in [Procs -> DepositRow]
  BY <1>2, DepositFacts
<1>5. PICK row \in DepositRow : row = [status |-> "pending_ledger", tx |-> TRUE]
  BY DEF DepositRow
<1>6. dep' = dep \/ dep' = [dep EXCEPT ![h] = row]
  BY <1>3, <1>5 DEF DepMark
<1>7. /\ dep' \in [Hashes -> DepositRow]
      /\ \A x \in Hashes : dep'[x].status = "confirmed" => dep[x].status = "confirmed"
  BY <1>4, <1>5, <1>6, DepRowStep
<1>8. PICK label \in DepLabels, d \in Payments, r \in DepositRow :
        /\ label # "dep.confirm" /\ pc' = [pc EXCEPT ![p] = label]
        /\ doc' = [doc EXCEPT ![p] = d] /\ drow' = [drow EXCEPT ![p] = r]
  <2>1. /\ doc' = [doc EXCEPT ![p] = doc[p]] /\ drow' = [drow EXCEPT ![p] = drow[p]]
        /\ drow[p] \in DepositRow
    BY <1>1, <1>4 DEF Typed, CallsTyped
  <2>2. QED
    BY <1>1, <1>2, <1>4, <2>1
<1>9. QED
  BY <1>1, <1>2, <1>4, <1>7, <1>8, DepositGoes

\* A call that gives up.
LEMMA DepStopInv ==
  ASSUME TransferInv, NEW p \in Procs, DepStop(p), Moves({}), LocksSame, OthersUnchanged,
         dep' \in [Hashes -> DepositRow],
         \A h \in Hashes : dep'[h].status = "confirmed" =>
            dep[h].status = "confirmed" \/ Posted(ledger, <<h, "available">>)
  PROVE  TransferInv'
<1>1. /\ pc' = [pc EXCEPT ![p] = "idle"] /\ doc' = [doc EXCEPT ![p] = NoRequest]
      /\ drow' = [drow EXCEPT ![p] = NoDeposit]
  BY DEF DepStop, Goto
<1>2. NoDeposit \in DepositRow
  BY DEF NoDeposit, DepositRow
<1>3. QED
  BY <1>1, <1>2, DepositFrame

LEMMA DepPendedInv ==
  ASSUME TransferInv, NEW p \in Procs, DepPended(p)
  PROVE  TransferInv'
<1>1. /\ pc[p] = "dep.pended" /\ UNCHANGED ledger /\ OthersUnchanged
      /\ DepOnward(p, "dep.available") \/ DepStop(p)
  BY DEF DepPended
<1>2. pc[p] \in DepLabels /\ "dep.available" \in DepLabels
  BY <1>1 DEF DepLabels
<1>3. PICK h \in Hashes : h = doc[p].id
  BY <1>2, DepositFacts
<1>4. /\ doc[p] \in Payments /\ Typed /\ dep \in [Hashes -> DepositRow]
      /\ drow \in [Procs -> DepositRow] /\ dep[h] \in DepositRow
  BY <1>2, DepositFacts
<1>5. PICK row : row = [status |-> IF dep[h].status = "confirmed" THEN dep[h].status
                                   ELSE "pending_ledger", tx |-> TRUE]
  OBVIOUS
<1>6. row \in DepositRow /\ (row.status = "confirmed" => dep[h].status = "confirmed")
  BY <1>4, <1>5 DEF DepositRow
<1>7. dep' = [dep EXCEPT ![h] = row]
  BY <1>3, <1>4, <1>5 DEF DepPended
<1>8. /\ dep' \in [Hashes -> DepositRow]
      /\ \A x \in Hashes : dep'[x].status = "confirmed" => dep[x].status = "confirmed"
  BY <1>6, <1>7, DepRowStep
<1>9. CASE DepOnward(p, "dep.available")
  <2>1. PICK label \in DepLabels, d \in Payments, r \in DepositRow :
          /\ label # "dep.confirm" /\ pc' = [pc EXCEPT ![p] = label]
          /\ doc' = [doc EXCEPT ![p] = d] /\ drow' = [drow EXCEPT ![p] = r]
    <3>1. /\ doc' = [doc EXCEPT ![p] = doc[p]] /\ drow' = [drow EXCEPT ![p] = drow[p]]
          /\ drow[p] \in DepositRow /\ pc' = [pc EXCEPT ![p] = "dep.available"]
      BY <1>4, <1>9 DEF DepOnward, Goto, Typed, CallsTyped
    <3>2. QED
      BY <1>2, <1>4, <3>1
  <2>2. QED
    BY <1>1, <1>2, <1>4, <1>8, <2>1, DepositGoes
<1>10. CASE DepStop(p)
  BY <1>1, <1>8, <1>10, DepositStill, DepStopInv
<1>11. QED
  BY <1>1, <1>9, <1>10

LEMMA DepConfirmInv ==
  ASSUME TransferInv, NEW p \in Procs, DepConfirm(p)
  PROVE  TransferInv'
<1>1. pc[p] = "dep.confirm" /\ UNCHANGED ledger /\ OthersUnchanged /\ DepStop(p)
  BY DEF DepConfirm
<1>2. pc[p] \in DepLabels
  BY <1>1 DEF DepLabels
<1>3. PICK h \in Hashes : h = doc[p].id
  BY <1>2, DepositFacts
<1>4. dep \in [Hashes -> DepositRow] /\ dep[h] \in DepositRow /\ Posted(ledger, <<h, "available">>)
  BY <1>1, <1>2, <1>3, DepositFacts
<1>5. PICK row : row = [dep[h] EXCEPT !.status = "confirmed"]
  OBVIOUS
<1>6. row \in DepositRow
  BY <1>4, <1>5 DEF DepositRow
<1>7. dep' = [dep EXCEPT ![h] = row]
  BY <1>3, <1>5 DEF DepConfirm
<1>8. /\ dep' \in [Hashes -> DepositRow]
      /\ \A x \in Hashes : x # h => dep'[x] = dep[x]
  BY <1>4, <1>6, <1>7
<1>9. \A x \in Hashes : dep'[x].status = "confirmed" =>
        dep[x].status = "confirmed" \/ Posted(ledger, <<x, "available">>)
  BY <1>4, <1>8
<1>10. Moves({}) /\ LocksSame
  BY <1>1, DepositStill
<1>11. QED
  BY <1>1, <1>8, <1>9, <1>10, DepStopInv

LEMMA DepCrashInv ==
  ASSUME TransferInv, NEW p \in Procs, DepCrash(p)
  PROVE  TransferInv'
<1>1. DepStop(p) /\ UNCHANGED <<ledger, dep>> /\ OthersUnchanged
  BY DEF DepCrash
<1>2. dep' \in [Hashes -> DepositRow]
  BY <1>1 DEF TransferInv, Typed, RowsTyped
<1>3. QED
  BY <1>1, <1>2, DepositStill, DepStopInv

LEMMA DepPostingInv ==
  ASSUME TransferInv, NEW p \in Procs, DepPosting(p)
  PROVE  TransferInv'
<1>1. pc[p] \in {"dep.pending", "dep.available"} /\ UNCHANGED dep /\ OthersUnchanged
  BY DEF DepPosting
<1>2. pc[p] \in DepLabels
  BY <1>1 DEF DepLabels
<1>3. PICK d \in Payments : d = doc[p]
  BY <1>2, DepositFacts
<1>4. PICK l : l = DepositLeg(pc[p], d)
  OBVIOUS
<1>5. PICK L : L = ensureWalletAccount(ledger, l.wallet)
  OBVIOUS
<1>6. PICK after : after = IF pc[p] = "dep.pending" THEN "dep.pended" ELSE "dep.confirm"
  OBVIOUS
<1>7. /\ Typed /\ dep' \in [Hashes -> DepositRow] /\ drow \in [Procs -> DepositRow]
      /\ Well(ledger) /\ Bare(ledger)
  BY <1>1, <1>2, DepositFacts DEF Typed, RowsTyped
<1>8. /\ l \in Leg /\ l \in DepositLegs(d) /\ l.wallet \in Wallets
      /\ pc[p] = "dep.available" => l.key = <<d.id, "available">>
  BY <1>1, <1>4, LegsTyped DEF DepositLegs, DepositLeg, Leg
<1>9. Grown(ledger, L, {l}) /\ Well(L) /\ Bare(L)
  <2>1. Grown(ledger, L, {l})
    BY <1>5, <1>7, <1>8, GrownEnsure
  <2>2. QED
    BY <2>1 DEF Grown
<1>10. ASSUME NEW M, Grown(ledger, M, {l}), ledger' = M
       PROVE  Moves({}) /\ LocksSame
  <2>1. {l} \subseteq LegsOf(transfers')
    BY <1>1, <1>8 DEF LegsOf, IsLegOf, OthersUnchanged
  <2>2. \A x \in {l} : ~MovesLocks(x)
    BY <1>1, <1>4 DEF MovesLocks, DepositLeg
  <2>3. \A x \in {l} : \A q \in OnchainRequests, on \in PostingLabels : x.key # LegAt(on, q).key
    BY <1>8, OtherKeys
  <2>4. transfers \subseteq transfers'
    BY <1>1 DEF OthersUnchanged
  <2>5. QED
    BY <1>10, <2>1, <2>2, <2>3, <2>4, QuietMoves
<1>11. ASSUME DepOnward(p, after), Moves({}), LocksSame, Posted(ledger', l.key)
       PROVE  TransferInv'
  <2>1. /\ pc' = [pc EXCEPT ![p] = after] /\ doc' = [doc EXCEPT ![p] = d]
        /\ drow' = [drow EXCEPT ![p] = drow[p]] /\ drow[p] \in DepositRow
    BY <1>3, <1>7, <1>11 DEF DepOnward, Goto, Typed, CallsTyped
  <2>2. after = "dep.confirm" => Posted(ledger', <<d.id, "available">>)
    BY <1>1, <1>6, <1>8, <1>11
  <2>3. after \in DepLabels
    BY <1>6 DEF DepLabels
  <2>4. QED
    BY <1>1, <1>7, <1>11, <2>1, <2>2, <2>3, DepositFrame
<1>12. CASE Posted(ledger, l.key) /\ DepOnward(p, after) /\ UNCHANGED ledger
  BY <1>1, <1>11, <1>12, DepositStill
<1>13. CASE Admissible(L, l) /\ ledger' = Post(L, l) /\ DepOnward(p, after)
  <2>1. Grown(L, Post(L, l), {l})
    BY <1>8, <1>9, <1>13, GrownPost
  <2>2. Grown(ledger, Post(L, l), {l})
    BY <1>7, <1>9, <2>1, GrownTwice
  <2>3. Posted(ledger', l.key)
    BY <1>8, <1>9, <1>13, PostPosted DEF Well, Admissible
  <2>4. QED
    BY <1>10, <1>11, <1>13, <2>2, <2>3
<1>14. CASE ~Posted(ledger, l.key) /\ ~Admissible(L, l) /\ ledger' = L /\ DepStop(p)
  <2>1. Moves({}) /\ LocksSame
    BY <1>9, <1>10, <1>14
  <2>2. QED
    BY <1>1, <1>7, <1>14, <2>1, DepStopInv
<1>15. QED
  BY <1>3, <1>4, <1>5, <1>6, <1>12, <1>13, <1>14 DEF DepPosting
-----------------------------------------------------------------------------
(* The start *)

LEMMA SeedTyped ==
  ASSUME NEW w \in Funded
  PROVE  /\ w \in Wallets /\ SeedMovement(w) \in Movement /\ Funds \in Nat
         /\ SeedMovement(w).key = <<w, "seed">> /\ SeedMovement(w).op = "credit"
         /\ SeedMovement(w).amount = Funds
         /\ SeedMovement(w).after = [ZeroBalance EXCEPT !.available = Funds]
         /\ SeedMovement(w).after \in Balance
         /\ Records(SeedMovement(w), w, SeedLeg(w))
<1>1. w \in Wallets /\ SeedMovement(w) \in Movement
  BY LedgerLegsAssumption
<1>2. Funds \in Amounts
  BY <1>1 DEF SeedMovement, Movement
<1>3. QED
  BY <1>1, <1>2, AmountsAssumption DEF SeedMovement, Movement, SeedLeg, Records, ZeroBalance,
                                       Balance

\* What a wallet starts with.
LEMMA SeededWallet ==
  ASSUME Init, NEW w \in Wallets
  PROVE  /\ ledger.rows[w] \in Row /\ ledger.movements[w] \in Seq(Movement)
         /\ ledger.rows[w].bal.locked = 0
         /\ w \in Funded =>
              /\ ledger.movements[w] = <<SeedMovement(w)>>
              /\ ledger.rows[w].status # "absent" /\ ledger.rows[w].bal = SeedMovement(w).after
         /\ w \notin Funded => ledger.movements[w] = <<>> /\ ledger.rows[w].bal = ZeroBalance
<1>1. CASE w \in Funded
  <2>1. /\ ledger.movements[w] = <<SeedMovement(w)>>
        /\ ledger.rows[w] = [status |-> "active", bal |-> SeedMovement(w).after]
    BY <1>1 DEF Init
  <2>2. SeedMovement(w).after.locked = 0
    BY <1>1, SeedTyped DEF ZeroBalance
  <2>3. QED
    BY <1>1, <2>1, <2>2, SeedTyped DEF Row, Statuses
<1>2. CASE w \notin Funded
  <2>1. ledger.movements[w] = <<>> /\ ledger.rows[w] = EmptyLedger.rows[w]
    BY <1>2 DEF Init
  <2>2. EmptyLedger.rows[w] =
          [status |-> IF w \in Opened THEN "active" ELSE "absent", bal |-> ZeroBalance]
    BY DEF EmptyLedger
  <2>3. QED
    BY <1>2, <2>1, <2>2 DEF Row, Statuses, Balance, ZeroBalance
<1>3. QED
  BY <1>1, <1>2

LEMMA SeededWell ==
  ASSUME Init
  PROVE  Well(ledger) /\ Bare(ledger) /\ \A ts : Explained(ledger, LegsOf(ts))
<1>1. ledger \in Ledger
  <2>1. ledger = [rows |-> ledger.rows, movements |-> ledger.movements]
    BY DEF Init
  <2>2. /\ ledger.rows = [w \in Wallets |-> ledger.rows[w]]
        /\ ledger.movements = [w \in Wallets |-> ledger.movements[w]]
    BY DEF Init
  <2>3. ledger.rows \in [Wallets -> Row] /\ ledger.movements \in [Wallets -> Seq(Movement)]
    BY <2>2, SeededWallet
  <2>4. QED
    BY <2>1, <2>3 DEF Ledger
<1>2. Bare(ledger)
  BY SeededWallet DEF Bare
<1>3. ASSUME NEW w \in Wallets, NEW i \in 1..Len(ledger.movements[w])
      PROVE  /\ w \in Funded /\ i = 1 /\ ledger.movements[w][i] = SeedMovement(w)
             /\ ledger.movements[w][i].key = <<w, "seed">>
  <2>1. w \in Funded
    BY <1>3, SeededWallet
  <2>2. ledger.movements[w] = <<SeedMovement(w)>>
    BY <2>1, SeededWallet
  <2>3. QED
    BY <1>3, <2>1, <2>2, SeedTyped
<1>4. Audited(ledger)
  <2>1. ASSUME NEW w \in Wallets
        PROVE  ChainOK(ledger.movements[w]) /\ ledger.rows[w].bal = Current(ledger.movements[w])
    <3>1. CASE w \in Funded
      <4>1. PICK m \in Movement : m = SeedMovement(w) /\ ledger.movements[w] = <<m>>
        BY <3>1, SeedTyped, SeededWallet
      <4>2. /\ m.op = "credit" /\ m.after = [ZeroBalance EXCEPT !.available = m.amount]
            /\ m.amount \in Nat
        BY <3>1, <4>1, SeedTyped
      <4>3. Covers(m.op, ZeroBalance, m.amount)
        BY <4>2 DEF Covers
      <4>4. m.after = After(m.op, ZeroBalance, m.amount)
        BY <4>2 DEF After, creditOrgWallet, ZeroBalance
      <4>5. Len(<<m>>) = 1 /\ <<m>>[1] = m /\ <<m>> # <<>>
        OBVIOUS
      <4>6. ChainOK(<<m>>)
        BY <4>3, <4>4, <4>5 DEF ChainOK, Before
      <4>7. Current(<<m>>) = m.after
        BY <4>5 DEF Current
      <4>8. QED
        BY <3>1, <4>1, <4>6, <4>7, SeededWallet
    <3>2. CASE w \notin Funded
      <4>1. ledger.movements[w] = <<>> /\ ledger.rows[w].bal = ZeroBalance
        BY <3>2, SeededWallet
      <4>2. QED
        BY <4>1 DEF ChainOK, Current
    <3>3. QED
      BY <3>1, <3>2
  <2>2. QED
    BY <2>1 DEF Audited
<1>5. KeysOnce(ledger)
  <2>1. ASSUME NEW v \in Wallets, NEW w \in Wallets, NEW i \in 1..Len(ledger.movements[v]),
               NEW j \in 1..Len(ledger.movements[w]),
               ledger.movements[v][i].key = ledger.movements[w][j].key
        PROVE  v = w /\ i = j
    <3>1. <<v, "seed">> = <<w, "seed">> /\ i = 1 /\ j = 1
      BY <1>3, <2>1
    <3>2. QED
      BY <3>1
  <2>2. QED
    BY <2>1 DEF KeysOnce
<1>6. SlotsOnce(ledger)
  BY <1>3 DEF SlotsOnce
<1>7. ASSUME NEW ts PROVE Explained(ledger, LegsOf(ts))
  <2>1. ASSUME NEW w \in Wallets, NEW i \in 1..Len(ledger.movements[w])
        PROVE  \E l \in LegsOf(ts) : Records(ledger.movements[w][i], w, l)
    <3>1. w \in Funded /\ ledger.movements[w][i] = SeedMovement(w)
      BY <1>3, <2>1
    <3>2. SeedLeg(w) \in LegsOf(ts)
      BY <3>1, LegsTyped DEF LegsOf, IsLegOf
    <3>3. QED
      BY <3>1, <3>2, SeedTyped
  <2>2. QED
    BY <2>1 DEF Explained
<1>8. QED
  BY <1>1, <1>2, <1>4, <1>5, <1>6, <1>7 DEF Well

LEMMA StartInv ==
  ASSUME DepositInit
  PROVE  TransferInv /\ ArrivedKnown
<1>1. /\ Init /\ transfers = {} /\ pc = [p \in Procs |-> "idle"]
      /\ req = [p \in Procs |-> NoRequest]
      /\ onrow = [q \in OnchainRequests |-> "none"]
      /\ settle = [q \in OnchainRequests |-> NoSettlement]
      /\ pays = [q \in OnchainRequests |-> <<>>]
      /\ snap = [p \in Procs |-> NoSettlement] /\ hash = [p \in Procs |-> 0]
      /\ dep = [h \in Hashes |-> NoDeposit] /\ doc = [p \in Procs |-> NoRequest]
      /\ drow = [p \in Procs |-> NoDeposit] /\ arrived = {}
  BY DEF DepositInit, OnchainInit, Init
<1>2. Well(ledger) /\ Bare(ledger) /\ Explained(ledger, LegsOf(transfers))
  BY <1>1, SeededWell
<1>3. NoSettlement \in SettlementRow /\ NoDeposit \in DepositRow /\ "idle" \in Labels
  BY DEF NoSettlement, SettlementRow, NoDeposit, DepositRow, Labels
<1>4. Typed
  <2>1. ASSUME NEW q \in OnchainRequests PROVE IsChain(pays[q])
    <3>1. <<>> \in Seq(PaymentIn({}, {}))
      OBVIOUS
    <3>2. QED
      BY <1>1, <3>1 DEF IsChain
  <2>2. RowsTyped
    BY <1>1, <1>2, <1>3, <2>1 DEF RowsTyped
  <2>3. CallsTyped
    BY <1>1, <1>3 DEF CallsTyped
  <2>4. QED
    BY <2>2, <2>3 DEF Typed
<1>5. Unique /\ PlainMoved
  BY <1>1 DEF Unique, PlainMoved
<1>6. Fitting
  <2>1. ASSUME NEW w \in Wallets PROVE LocksFit(w)
    <3>1. HeldLocks(w) = {}
      BY <1>1 DEF HeldLocks
    <3>2. ledger.rows[w].bal.locked = 0
      BY <1>1, SeededWallet
    <3>3. QED
      BY <3>1, <3>2, SumEmpty, FS_EmptySet DEF LocksFit
  <2>2. QED
    BY <2>1 DEF Fitting, LockedFits
<1>7. DepositsPosted
  BY <1>1 DEF DepositsPosted, NoDeposit
<1>8. ASSUME NEW q \in OnchainRequests PROVE Sound(q)
  <2>1. settle[q].ref = 0 /\ pays[q] = <<>> /\ onrow[q] = "none" /\ q \notin transfers
    BY <1>1 DEF NoSettlement
  <2>2. Len(pays[q]) = 0
    BY <2>1
  <2>3. QED
    BY <2>1, <2>2, MaxSendsAssumption DEF Sound, Doubtful
<1>9. ASSUME NEW p \in Procs PROVE Working(p)
  BY <1>1 DEF Working, Holding, Done, LedgerLabels, OnchainLabels, EarlyLabels, LateLabels,
              LockLabels, SendLabels, FinLabels, FailLabels, DepLabels
<1>10. QED
  BY <1>1, <1>2, <1>4, <1>5, <1>6, <1>7, <1>8, <1>9 DEF TransferInv, ArrivedKnown

-----------------------------------------------------------------------------
(* Every step *)

LEMMA OnchainStepInv ==
  ASSUME OneCall, TransferInv, NEW p \in Procs, OnchainStep(p), UNCHANGED depVars
  PROVE  TransferInv'
<1>1. CASE OnCheck(p) \/ OnInsert(p) \/ OnRead(p) \/ Posting(p) \/ OnRecheck(p) \/ OnConfirm(p)
  BY <1>1, CheckInv, InsertInv, ReadInv, PostingInv, RecheckInv, ConfirmInv
<1>2. CASE OnPrepare(p) \/ OnSave(p) \/ OnSend(p) \/ OnSent(p) \/ OnSentRow(p) \/ OnVerify(p)
  BY <1>2, PrepareInv, SaveInv, SendInv, SentInv, SentRowInv, VerifyInv
<1>3. CASE FinFee(p) \/ FinSettlement(p) \/ FinRow(p) \/ FailSettlement(p) \/ FailRow(p)
  BY <1>3, FinFeeInv, EndSettlementInv, EndRowInv
<1>4. QED
  BY <1>1, <1>2, <1>3 DEF OnchainStep

LEMMA LedgerStepInv ==
  ASSUME FeeApart, TransferInv, LedgerTransferNext, UNCHANGED <<onVars, depVars>>
  PROVE  TransferInv'
BY CreateLedgerInv, CanPayInv, FindInv, TxInv DEF LedgerTransferNext

LEMMA DepositStepInv ==
  ASSUME TransferInv, NEW p \in Procs, DepositStep(p)
  PROVE  TransferInv'
BY DepInsertInv, DepMarkInv, DepPostingInv, DepPendedInv, DepConfirmInv DEF DepositStep

LEMMA NextInv ==
  ASSUME OneCall, FeeApart, TransferInv, ArrivedKnown, DepositNext
  PROVE  TransferInv' /\ ArrivedKnown'
<1>1. TransferInv'
  <2>1. CASE LedgerTransferNext /\ UNCHANGED <<onVars, depVars>>
    BY <2>1, LedgerStepInv
  <2>2. CASE UNCHANGED depVars /\ \E p \in Procs, q \in OnchainRequests : createOnchainTransfer(p, q)
    BY <2>2, CreateOnchainInv
  <2>3. CASE UNCHANGED depVars /\ \E p \in Procs : OnchainStep(p)
    BY <2>3, OnchainStepInv
  <2>4. CASE UNCHANGED depVars /\ \E p \in Procs : OnchainStop(p)
    BY <2>4, OnchainStopInv
  <2>5. CASE /\ UNCHANGED depVars
             /\ \E q \in OnchainRequests : \E i \in 1..Len(pays[q]) : PaymentResolves(q, i)
    BY <2>5, ResolvesInv
  <2>6. CASE \E d \in Deposits : Arrives(d)
    BY <2>6, ArrivesInv
  <2>7. CASE \E p \in Procs, d \in OnStellar : processDeposit(p, d)
    BY <2>7, ProcessInv
  <2>8. CASE \E p \in Procs : DepositStep(p)
    BY <2>8, DepositStepInv
  <2>9. CASE \E p \in Procs : DepCrash(p)
    BY <2>9, DepCrashInv
  <2>10. QED
    BY <2>1, <2>2, <2>3, <2>4, <2>5, <2>6, <2>7, <2>8, <2>9 DEF DepositNext, OnchainNext
<1>2. ArrivedKnown'
  <2>1. CASE \E d \in Deposits : Arrives(d)
    BY <2>1 DEF Arrives, ArrivedKnown
  <2>2. CASE UNCHANGED arrived
    BY <2>2 DEF ArrivedKnown
  <2>3. QED
    BY <2>1, <2>2 DEF DepositNext, depVars, processDeposit, DepositStep, DepInsert, DepMark,
                      DepPosting, DepPended, DepConfirm, DepCrash, OthersUnchanged
<1>3. QED
  BY <1>1, <1>2

\* Nothing the invariant speaks of changes.
LEMMA IdleInv ==
  ASSUME TransferInv, ArrivedKnown, UNCHANGED everyVar
  PROVE  TransferInv' /\ ArrivedKnown'
<1>1. UNCHANGED <<ledger, transfers, pc, req, onrow, settle, pays, snap, hash, arrived, dep, doc, drow>>
  BY DEF everyVar, walletVars, vars, onVars, depVars
<1>2. Moves({}) /\ LocksSame
  BY <1>1, StillMoves
<1>3. Fitting' /\ \A x \in OnchainRequests : Sound(x)'
  BY <1>1, <1>2, QuietSound
<1>4. ASSUME NEW r \in Procs PROVE Working(r)'
  <2>1. Steady(req[r]) /\ req'[r] = req[r]
    BY <1>1 DEF Steady, Paid, Lost, StateIs
  <2>2. QED
    BY <1>1, <1>2, <2>1, WorkStays
<1>5. Typed' /\ Unique'
  BY <1>1, HashesSame DEF TransferInv, Typed, RowsTyped, CallsTyped, Unique
<1>6. (OneSender => PlainMoved') /\ DepositsPosted'
  BY <1>1, <1>2, PlainStays, DepositsStay
<1>7. QED
  BY <1>1, <1>2, <1>3, <1>4, <1>5, <1>6 DEF Moves, TransferInv, ArrivedKnown
-----------------------------------------------------------------------------
THEOREM TransfersInvariant ==
  OneCall /\ FeeApart => (DepositSpec => [](TransferInv /\ ArrivedKnown))
<1>. SUFFICES ASSUME OneCall, FeeApart
              PROVE  DepositSpec => [](TransferInv /\ ArrivedKnown)
  OBVIOUS
<1>1. DepositInit => TransferInv /\ ArrivedKnown
  BY StartInv
<1>2. TransferInv /\ ArrivedKnown /\ [DepositNext]_everyVar => (TransferInv /\ ArrivedKnown)'
  BY NextInv, IdleInv
<1>3. QED
  BY <1>1, <1>2, PTL DEF DepositSpec

\* At most one envelope of a transfer lands.
LEMMA LandedOnce ==
  ASSUME TransferInv, NEW q \in OnchainRequests
  PROVE  /\ Cardinality(Landed(pays[q])) <= 1
         /\ Paid(q) => Landed(pays[q]) # {}
<1>1. Sound(q)
  BY DEF TransferInv
<1>2. PICK h : h = settle[q].ref
  OBVIOUS
<1>3. Landed(pays[q]) \subseteq {h}
  BY <1>1, <1>2 DEF Sound, Landed
<1>4. Landed(pays[q]) = {} \/ Landed(pays[q]) = {h}
  BY <1>3
<1>5. Cardinality(Landed(pays[q])) <= 1
  <2>1. Cardinality({}) = 0 /\ Cardinality({h}) = 1
    BY FS_EmptySet, FS_Singleton
  <2>2. QED
    BY <1>4, <2>1
<1>6. Paid(q) => Landed(pays[q]) # {}
  <2>1. ASSUME Paid(q) PROVE h \in Landed(pays[q])
    BY <1>1, <1>2, <2>1 DEF Sound, Paid, StateIs, Landed
  <2>2. QED
    BY <2>1
<1>7. QED
  BY <1>5, <1>6

\* Between organisations on Stellar, whatever calls stop where and whatever a submission or
\* a release throws: the recipient is credited and the sender debited only for a payment
\* that landed, and only one lands; a transfer recorded as failed consumed neither of its
\* locks, and what was signed for it stays unsent, and no lock is consumed and given back,
\* unless a submission threw for less than a dead envelope (executeOnchainInternalTransfer,
\* finalizeConfirmed, failTransfer).
THEOREM TransfersAllOrNothing == OneCall /\ FeeApart => (DepositSpec => []AllOrNothing)
<1>. SUFFICES ASSUME OneCall, FeeApart PROVE DepositSpec => []AllOrNothing
  OBVIOUS
<1>1. TransferInv => AllOrNothing
  <2>. SUFFICES ASSUME TransferInv PROVE AllOrNothing
    OBVIOUS
  <2>1. ASSUME NEW q \in OnchainRequests
        PROVE  /\ HasKey(SenderTx(q), "finalize") <=> Made("fin.debit", q)
               /\ HasKey(SenderTx(q), "fee_finalize") <=> Made("fin.feeDebit", q)
               /\ HasKey(RecipientTx(q), "credit") <=> Made("fin.credit", q)
               /\ HasKey(SenderTx(q), "release") <=> Made("fail.release", q)
               /\ HasKey(SenderTx(q), "fee_release") <=> Made("fail.feeRelease", q)
    BY LegKeys DEF HasKey, Made
  <2>2. CreditedIsLanded
    <3>1. ASSUME NEW q \in OnchainRequests
          PROVE  /\ q \in transfers
                      /\ (HasKey(RecipientTx(q), "credit") \/ HasKey(SenderTx(q), "finalize"))
                      => Landed(pays[q]) # {}
                 /\ Cardinality(Landed(pays[q])) <= 1
      <4>1. Sound(q)
        BY DEF TransferInv
      <4>2. QED
        BY <2>1, <4>1, LandedOnce DEF Sound, Agrees
    <3>2. QED
      BY <3>1 DEF CreditedIsLanded
  <2>3. ASSUME NEW q \in OnchainRequests, ~Doubtful(pays[q])
        PROVE  /\ Sound(q) /\ ~(Paid(q) /\ Lost(q))
               /\ Lost(q) => StateIs(q, "failed")
    <3>1. Sound(q)
      BY DEF TransferInv
    <3>2. settle[q].ref # 0 => ~pays[q][settle[q].ref].doubt
      BY <2>3, <3>1 DEF Sound, Doubtful
    <3>3. QED
      BY <3>1, <3>2 DEF Paid, Lost, StateIs
  <2>4. FailedMovedNothing
    <3>1. ASSUME NEW q \in OnchainRequests, onrow[q] = "failed", ~Doubtful(pays[q])
          PROVE  /\ ~HasKey(SenderTx(q), "finalize") /\ ~HasKey(SenderTx(q), "fee_finalize")
                 /\ ~HasKey(RecipientTx(q), "credit")
                 /\ \A i \in 1..Len(pays[q]) :
                      \/ pays[q][i].state = "failed"
                      \/ pays[q][i].state = "signed" /\ i # settle[q].ref
      <4>1. Sound(q) /\ Agrees(q) /\ Lost(q) /\ ~Paid(q) /\ StateIs(q, "failed")
        BY <2>3, <3>1 DEF Sound
      <4>2. \A i \in 1..Len(pays[q]) :
               \/ pays[q][i].state = "failed"
               \/ pays[q][i].state = "signed" /\ i # settle[q].ref
        BY <4>1 DEF Sound, StateIs
      <4>3. QED
        BY <2>1, <4>1, <4>2 DEF Agrees
    <3>2. QED
      BY <3>1 DEF FailedMovedNothing
  <2>5. LocksEndOnce
    <3>1. ASSUME NEW q \in OnchainRequests, q \in transfers, ~Doubtful(pays[q])
          PROVE  /\ ~(HasKey(SenderTx(q), "finalize") /\ HasKey(SenderTx(q), "release"))
                 /\ ~(HasKey(SenderTx(q), "fee_finalize") /\ HasKey(SenderTx(q), "fee_release"))
      BY <2>1, <2>3, <3>1 DEF Sound, Agrees
    <3>2. QED
      BY <3>1 DEF LocksEndOnce
  <2>6. QED
    BY <2>2, <2>4, <2>5 DEF AllOrNothing
<1>2. QED
  BY <1>1, TransfersInvariant, PTL

\* What says that it is done has moved its money: a completed transfer, in the ledger or on
\* Stellar, debited its sender and credited its recipient for this very transfer, and a
\* deposit says 'confirmed' only once it is available.
THEOREM DoneTransfersMoved ==
  OneCall /\ FeeApart /\ OneSender => (DepositSpec => []DoneIsMoved)
<1>. SUFFICES ASSUME OneCall, FeeApart, OneSender PROVE DepositSpec => []DoneIsMoved
  OBVIOUS
<1>1. TransferInv /\ ArrivedKnown => DoneIsMoved
  <2>. SUFFICES ASSUME TransferInv, ArrivedKnown PROVE DoneIsMoved
    OBVIOUS
  <2>1. \A w, type, ref, amount :
          MovedIn(ledger, w, type, ref, amount) => HasMovement(w, type, ref, amount)
    BY DEF MovedIn, HasMovement
  <2>2. CompletedIsMoved
    <3>1. PlainMoved
      BY DEF TransferInv
    <3>2. SUFFICES
            ASSUME NEW q \in {x \in transfers : x.mode = "ledger"}
            PROVE  /\ HasMovement(q.from, "internal_transfer_debit", <<"out", q.from, q.key>>, q.amount)
                   /\ HasMovement(q.to, "internal_transfer_credit", <<"in", q.from, q.key>>, q.amount)
      BY DEF CompletedIsMoved
    <3>3. q \in transfers /\ q.mode = "ledger"
      OBVIOUS
    <3>4. QED
      BY <2>1, <3>1, <3>3 DEF PlainMoved
  <2>3. ASSUME NEW q \in OnchainRequests, onrow[q] = "completed"
        PROVE  /\ HasMovement(q.from, "internal_transfer_debit", SenderTx(q), q.amount)
               /\ HasMovement(q.to, "internal_transfer_credit", RecipientTx(q), q.amount)
               /\ HasMovement(q.from, "fee_debit", <<"fee", q.from, q.key>>, OnchainFee)
               /\ HasMovement(Revenue, "fee_revenue", <<"fee", q.from, q.key>>, OnchainFee)
    <3>1. /\ q \in transfers /\ Made("fin.debit", q) /\ Made("fin.credit", q)
          /\ Made("fin.feeDebit", q) /\ Made("fin.revenue", q)
      BY <2>3 DEF TransferInv, Sound
    <3>2. ASSUME NEW on \in PostingLabels, Made(on, q)
          PROVE  LET l == LegAt(on, q)
                 IN HasMovement(l.wallet, l.type, l.ref, l.amount)
      BY <2>1, <3>1, <3>2, MadeMoved DEF TransferInv
    <3>3. /\ "fin.debit" \in PostingLabels /\ "fin.credit" \in PostingLabels
          /\ "fin.feeDebit" \in PostingLabels /\ "fin.revenue" \in PostingLabels
      BY DEF PostingLabels
    <3>4. QED
      BY <3>1, <3>2, <3>3 DEF LegAt, LegOf
  <2>4. ASSUME NEW d \in OnStellar, dep[d.id].status = "confirmed"
        PROVE  Posted(ledger, <<d.id, "available">>)
    BY <2>4, PaymentsKnown DEF TransferInv, DepositsPosted
  <2>5. QED
    BY <2>2, <2>3, <2>4 DEF DoneIsMoved, EveryCompletedIsMoved
<1>2. QED
  BY <1>1, TransfersInvariant, PTL

\* What a wallet has locked is, at all times, the amounts and fees of its transfers that
\* have neither been finalized nor released, those whose release failed included, if a
\* submission throws only when its envelope is dead (releaseLocks, finalizeConfirmed): no
\* call finalizes what another has released.
THEOREM LockedAsTransfers ==
  NoLost /\ OneCall /\ FeeApart => (DepositSpec => []LockedFits)
<1>. SUFFICES ASSUME NoLost, OneCall, FeeApart PROVE DepositSpec => []LockedFits
  OBVIOUS
<1>1. TransferInv => LockedFits
  BY DEF TransferInv, Fitting
<1>2. QED
  BY <1>1, TransfersInvariant, PTL
-----------------------------------------------------------------------------
(* What the wallets hold together *)

\* On-chain transfers pay nobody whose payments are taken for deposits.
WatchedApart == \A q \in OnchainRequests : q.to \notin Watched

Held(b) == b.available + b.pending + b.locked
HeldIn(L) == [w \in Wallets |-> Held(L.rows[w].bal)]
Total(L) == SumFunctionOnSet(HeldIn(L), Wallets)

Brings(l) == l.op \in {"credit", "creditPending"}
Takes(l) == l.op \in {"debit", "finalize"}

LEMMA HeldTyped ==
  ASSUME NEW L \in Ledger
  PROVE  \A w \in Wallets : /\ L.rows[w].bal \in Balance /\ Held(L.rows[w].bal) \in Nat
                            /\ HeldIn(L)[w] = Held(L.rows[w].bal)
<1>. SUFFICES ASSUME NEW w \in Wallets
              PROVE  /\ L.rows[w].bal \in Balance /\ Held(L.rows[w].bal) \in Nat
                     /\ HeldIn(L)[w] = Held(L.rows[w].bal)
  OBVIOUS
<1>1. L.rows[w].bal \in Balance
  BY DEF Ledger, Row
<1>2. Held(L.rows[w].bal) \in Nat
  BY <1>1 DEF Balance, Held
<1>3. QED
  BY <1>1, <1>2 DEF HeldIn

\* What a posting does to the wallet of its leg.
LEMMA HeldAfter ==
  ASSUME NEW b \in Balance, NEW l \in Leg, Covers(l.op, b, l.amount)
  PROVE  LET c == After(l.op, b, l.amount)
         IN /\ l.amount \in Nat
            /\ Brings(l) => Held(c) = Held(b) + l.amount
            /\ Takes(l) => Held(b) = Held(c) + l.amount
            /\ ~Brings(l) /\ ~Takes(l) => Held(c) = Held(b)
<1>1. l.amount \in Nat /\ l.op \in OpNames
  BY AmountsAssumption DEF Leg
<1>2. b.available \in Nat /\ b.pending \in Nat /\ b.locked \in Nat
  BY DEF Balance
<1>3. CASE l.op = "credit"
  BY <1>1, <1>2, <1>3 DEF After, creditOrgWallet, Held, Brings, Takes, Balance
<1>4. CASE l.op = "creditPending"
  BY <1>1, <1>2, <1>4 DEF After, creditOrgWalletPending, Held, Brings, Takes, Balance
<1>5. CASE l.op = "releasePending"
  BY <1>1, <1>2, <1>5 DEF After, releasePendingToAvailable, Held, Brings, Takes, Balance
<1>6. CASE l.op = "debit"
  BY <1>1, <1>2, <1>6 DEF After, debitOrgWallet, Held, Brings, Takes, Balance, Covers
<1>7. CASE l.op = "lock"
  BY <1>1, <1>2, <1>7 DEF After, lockOrgFunds, Held, Brings, Takes, Balance, Covers
<1>8. CASE l.op = "release"
  BY <1>1, <1>2, <1>8 DEF After, releaseOrgFunds, Held, Brings, Takes, Balance, Covers
<1>9. CASE l.op = "finalize"
  BY <1>1, <1>2, <1>9 DEF After, finalizeLockedDebit, Held, Brings, Takes, Balance, Covers
<1>10. QED
  BY <1>1, <1>3, <1>4, <1>5, <1>6, <1>7, <1>8, <1>9 DEF OpNames

\* What it does to all wallets together.
LEMMA TotalPost ==
  ASSUME IsFiniteSet(Wallets), NEW L, Well(L), NEW l \in Leg, Admissible(L, l)
  PROVE  /\ l.amount \in Nat /\ Total(L) \in Nat /\ Total(Post(L, l)) \in Nat
         /\ Brings(l) => Total(Post(L, l)) = Total(L) + l.amount
         /\ Takes(l) => Total(L) = Total(Post(L, l)) + l.amount
         /\ ~Brings(l) /\ ~Takes(l) => Total(Post(L, l)) = Total(L)
<1>1. PICK M : M = Post(L, l)
  OBVIOUS
<1>2. PICK v \in Wallets : v = l.wallet
  BY DEF Leg
<1>3. L \in Ledger /\ M \in Ledger /\ Covers(l.op, L.rows[v].bal, l.amount)
  BY <1>1, <1>2, PostWell DEF Well, Admissible
<1>4. /\ \A w \in Wallets : w # v => M.rows[w] = L.rows[w]
      /\ M.rows[v].bal = After(l.op, L.rows[v].bal, l.amount)
  BY <1>1, <1>2, <1>3, PostMovements DEF NewBalance
<1>5. PICK f, g : f = HeldIn(L) /\ g = HeldIn(M)
  OBVIOUS
<1>6. /\ \A w \in Wallets : f[w] \in Nat /\ g[w] \in Nat
      /\ \A w \in Wallets \ {v} : f[w] = g[w]
      /\ f[v] = Held(L.rows[v].bal) /\ g[v] = Held(M.rows[v].bal)
  BY <1>3, <1>4, <1>5, HeldTyped
<1>7. L.rows[v].bal \in Balance
  BY <1>3, HeldTyped
<1>8. /\ l.amount \in Nat
      /\ Brings(l) => g[v] = f[v] + l.amount
      /\ Takes(l) => f[v] = g[v] + l.amount
      /\ ~Brings(l) /\ ~Takes(l) => g[v] = f[v]
  BY <1>3, <1>4, <1>6, <1>7, HeldAfter
<1>9. PICK s : s = SumFunctionOnSet(f, Wallets \ {v})
  OBVIOUS
<1>10. SumFunctionOnSet(f, Wallets) = f[v] + s
  BY <1>6, <1>9, SumRemove
<1>11. SumFunctionOnSet(g, Wallets) = g[v] + s
  <2>1. IsFiniteSet(Wallets \ {v})
    BY FS_RemoveElement
  <2>2. SumFunctionOnSet(f, Wallets \ {v}) = SumFunctionOnSet(g, Wallets \ {v})
    BY <1>6, <2>1, SumSame
  <2>3. QED
    BY <1>6, <1>9, <2>2, SumRemove
<1>12. s \in Nat
  <2>1. IsFiniteSet(Wallets \ {v})
    BY FS_RemoveElement
  <2>2. QED
    BY <1>6, <1>9, <2>1, SumType
<1>13. Total(L) = f[v] + s /\ Total(M) = g[v] + s
  BY <1>5, <1>10, <1>11 DEF Total
<1>14. QED
  BY <1>1, <1>6, <1>8, <1>12, <1>13

\* Ledgers whose wallets hold the same hold the same together.
LEMMA TotalSame ==
  ASSUME IsFiniteSet(Wallets), NEW L, NEW M, \A w \in Wallets : M.rows[w].bal = L.rows[w].bal
  PROVE  Total(M) = Total(L)
<1>1. PICK f, g : f = HeldIn(L) /\ g = HeldIn(M)
  OBVIOUS
<1>2. \A w \in Wallets : f[w] = g[w]
  BY <1>1 DEF HeldIn
<1>3. SumFunctionOnSet(f, Wallets) = SumFunctionOnSet(g, Wallets)
  BY <1>2, SumSame
<1>4. QED
  BY <1>1, <1>3 DEF Total

\* A debit and a credit of one amount change nothing.
LEMMA TotalPair ==
  ASSUME IsFiniteSet(Wallets), NEW L, Well(L), NEW d \in Leg, NEW c \in Leg, IsPair(d, c),
         NEW M \in PairResults(L, d, c)
  PROVE  Total(M) = Total(L)
<1>1. CASE BothPosted(L, d, c)
  BY <1>1 DEF PairResults
<1>2. CASE ~BothPosted(L, d, c)
  <2>1. PICK E : E = ensureWalletAccount(L, d.wallet)
    OBVIOUS
  <2>2. PICK R : R = ensureWalletAccount(E, c.wallet)
    OBVIOUS
  <2>3. d.wallet \in Wallets /\ c.wallet \in Wallets
    BY DEF Leg
  <2>4. Well(E) /\ \A w \in Wallets : E.rows[w].bal = L.rows[w].bal
    BY <2>1, <2>3, EnsureFields
  <2>5. Well(R) /\ \A w \in Wallets : R.rows[w].bal = E.rows[w].bal
    BY <2>2, <2>3, <2>4, EnsureFields
  <2>6. Total(R) = Total(L)
    BY <2>4, <2>5, TotalSame
  <2>7. PairAdmissible(R, d, c) /\ M = PostPair(R, d, c)
    BY <1>2, <2>1, <2>2 DEF PairResults, Ready
  <2>8. Admissible(R, d) /\ Admissible(R, c) /\ d.wallet # c.wallet /\ d.key # c.key
    BY <2>7 DEF PairAdmissible, IsPair
  <2>9. PICK P : P = Post(R, d)
    OBVIOUS
  <2>10. Well(P) /\ Admissible(P, c) /\ M = Post(P, c)
    BY <2>5, <2>7, <2>8, <2>9, PairInTurn, PostWell
  <2>11. /\ Takes(d) /\ ~Brings(d) /\ Brings(c) /\ ~Takes(c) /\ d.amount = c.amount
    BY DEF IsPair, Takes, Brings
  <2>12. Total(R) = Total(P) + d.amount /\ Total(P) \in Nat /\ d.amount \in Nat
    BY <2>5, <2>8, <2>9, <2>11, TotalPost
  <2>13. Total(M) = Total(P) + c.amount
    BY <2>10, <2>11, TotalPost
  <2>14. QED
    BY <2>6, <2>11, <2>12, <2>13
<1>3. QED
  BY <1>1, <1>2
-----------------------------------------------------------------------------
(* What is under way *)

\* The second halves of the postings that finalize a transfer, and the first half of each.
Halves == OnchainRequests \X {"fin.credit", "fin.revenue"}
FirstHalf(on) == IF on = "fin.credit" THEN "fin.debit" ELSE "fin.feeDebit"
HalfAmount == [x \in Halves |-> LegAt(x[2], x[1]).amount]
Underway ==
  {x \in Halves : x[1] \in transfers /\ Made(FirstHalf(x[2]), x[1]) /\ ~Made(x[2], x[1])}

Credited == {d \in Deposits : Posted(ledger, <<d.id, "pending">>)}

Seeds == Cardinality(Funded) * Funds

\* All that is in the wallets or on its way between two of them was there at the start or
\* was brought by a deposit that is credited.
Balanced ==
  /\ IsFiniteSet(Underway) /\ IsFiniteSet(Credited)
  /\ Total(ledger) + SumFunctionOnSet(HalfAmount, Underway)
       = Seeds + SumFunctionOnSet(Brought, Credited)

\* What is credited has arrived: what a call processes has.
Known ==
  /\ IsFiniteSet(arrived) /\ ArrivedKnown
  /\ Credited \subseteq arrived
  /\ \A p \in Procs : pc[p] \in DepLabels => doc[p] \in arrived

LEMMA SeedsTyped == ASSUME IsFiniteSet(Wallets) PROVE Seeds \in Nat /\ IsFiniteSet(Funded)
<1>1. IsFiniteSet(Funded)
  BY LedgerLegsAssumption, FS_Subset
<1>2. QED
  BY <1>1, FS_CardinalityType, LedgerLegsAssumption DEF Seeds

LEMMA HalfFields ==
  ASSUME NEW x \in Halves
  PROVE  /\ x[1] \in OnchainRequests /\ x = <<x[1], x[2]>>
         /\ x[2] \in PostingLabels /\ FirstHalf(x[2]) \in PostingLabels
         /\ HalfAmount[x] \in Nat /\ HalfAmount[x] = LegAt(FirstHalf(x[2]), x[1]).amount
         /\ HalfAmount[x] = LegAt(x[2], x[1]).amount
<1>1. x[1] \in OnchainRequests /\ x[2] \in {"fin.credit", "fin.revenue"} /\ x = <<x[1], x[2]>>
  BY DEF Halves
<1>2. x[2] \in PostingLabels /\ FirstHalf(x[2]) \in PostingLabels
  BY <1>1 DEF PostingLabels, FirstHalf
<1>3. HalfAmount[x] = LegAt(x[2], x[1]).amount
  BY DEF HalfAmount
<1>4. LegAt(x[2], x[1]).amount \in Nat
  BY <1>1, <1>2, LegFields, AmountsAssumption DEF Leg
<1>5. LegAt(FirstHalf(x[2]), x[1]).amount = LegAt(x[2], x[1]).amount
  BY <1>1 DEF FirstHalf, LegAt, LegOf
<1>6. QED
  BY <1>1, <1>2, <1>3, <1>4, <1>5

\* The legs of transfers have no key of a deposit.
LEMMA DepositKeys ==
  ASSUME NEW h
  PROVE  /\ \A q, on : on \in PostingLabels => LegAt(on, q).key # <<h, "pending">>
         /\ \A x \in Requests : \A l \in PlainLegs(x) : l.key # <<h, "pending">>
<1>1. ASSUME NEW q, NEW on \in PostingLabels PROVE LegAt(on, q).key # <<h, "pending">>
  BY LegKeys DEF PostingLabels
<1>2. ASSUME NEW x \in Requests, NEW l \in PlainLegs(x) PROVE l.key # <<h, "pending">>
  <2>1. \/ l.key = <<x.key, "credit">>
        \/ l.key = <<x.key, "debit">> \/ l.key = <<x.key, "fee">> \/ l.key = <<x.key, "revenue">>
    BY DEF PlainLegs, DebitLeg, CreditLeg, FeeDebitLeg, FeeRevenueLeg
  <2>2. QED
    BY <2>1
<1>3. QED
  BY <1>1, <1>2

\* A step that moves nothing for a deposit or an on-chain transfer, ...
LEMMA BooksStill ==
  ASSUME Balanced, Total(ledger') = Total(ledger),
         \A h : Posted(ledger', <<h, "pending">>) <=> Posted(ledger, <<h, "pending">>),
         \A q \in OnchainRequests, on \in PostingLabels :
           /\ q \in transfers => (Made(on, q)' <=> Made(on, q))
           /\ q \in transfers' \ transfers => ~Made(on, q)',
         transfers \subseteq transfers'
  PROVE  Balanced' /\ Credited' = Credited
<1>1. Credited' = Credited
  BY DEF Credited
<1>2. Halves' = Halves /\ HalfAmount' = HalfAmount /\ Brought' = Brought /\ Seeds' = Seeds
  BY DEF Halves, HalfAmount, Brought, Seeds, OnchainRequests
<1>3. Underway' = Underway
  <2>1. ASSUME NEW x \in Halves PROVE x \in Underway' <=> x \in Underway
    <3>1. PICK q \in OnchainRequests, on \in PostingLabels, a \in PostingLabels :
            q = x[1] /\ on = x[2] /\ a = FirstHalf(x[2])
      BY HalfFields
    <3>2. x \in Underway <=> q \in transfers /\ Made(a, q) /\ ~Made(on, q)
      BY <3>1 DEF Underway
    <3>3. x \in Underway' <=> q \in transfers' /\ Made(a, q)' /\ ~Made(on, q)'
      BY <1>2, <3>1 DEF Underway
    <3>4. QED
      BY <3>2, <3>3
  <2>2. Underway \subseteq Halves /\ Underway' \subseteq Halves
    BY <1>2 DEF Underway
  <2>3. QED
    BY <2>1, <2>2
<1>4. QED
  BY <1>1, <1>2, <1>3 DEF Balanced

\* ... by the account of what it does to the ledger.
LEMMA BooksQuiet ==
  ASSUME TransferInv, Balanced, Moves({}), Total(ledger') = Total(ledger),
         \A h : Posted(ledger', <<h, "pending">>) => Posted(ledger, <<h, "pending">>),
         transfers \subseteq transfers',
         \A q \in OnchainRequests : q \in transfers' \ transfers =>
           \A on \in PostingLabels : ~Made(on, q)'
  PROVE  Balanced' /\ Credited' = Credited
<1>1. ASSUME NEW q \in OnchainRequests, NEW on \in PostingLabels, q \in transfers
      PROVE  Made(on, q)' <=> Made(on, q)
  BY <1>1 DEF Moves
<1>2. ASSUME NEW h PROVE Posted(ledger', <<h, "pending">>) <=> Posted(ledger, <<h, "pending">>)
  BY DEF Moves
<1>3. QED
  BY <1>1, <1>2, BooksStill

\* A posting for an on-chain transfer: the first half of a pair puts its amount under way,
\* the second takes it in, and every other one moves it between the buckets of one wallet.
LEMMA BooksPosting ==
  ASSUME IsFiniteSet(Wallets), TransferInv, Balanced, UNCHANGED transfers,
         NEW q \in OnchainRequests, q \in transfers, NEW on \in PostingLabels,
         Admissible(ledger, LegAt(on, q)), ledger' = Post(ledger, LegAt(on, q)),
         on = "fin.credit" => Made("fin.debit", q),
         on = "fin.revenue" => Made("fin.feeDebit", q)
  PROVE  Balanced' /\ Credited' = Credited
<1>0. PICK l \in Leg : l = LegAt(on, q)
  BY LegFields
<1>1. Moves({<<on, q>>}) /\ Well(ledger)
  BY PostMoves DEF TransferInv, Typed, RowsTyped
<1>2. ~Made(on, q) /\ Made(on, q)'
  BY <1>1 DEF Made, Admissible, Moves
<1>3. ASSUME NEW x \in OnchainRequests, NEW a \in PostingLabels, x \in transfers
      PROVE  Made(a, x)' <=> Made(a, x) \/ (a = on /\ x = q)
  <2>1. /\ Made(a, x) => Made(a, x)'
        /\ Made(a, x)' => Made(a, x) \/ <<a, x>> \in {<<on, q>>}
        /\ <<a, x>> \in {<<on, q>>} => Made(a, x)'
    BY <1>1, <1>3 DEF Moves
  <2>2. QED
    BY <2>1
<1>4. Credited' = Credited
  <2>1. ASSUME NEW h PROVE Posted(ledger', <<h, "pending">>) <=> Posted(ledger, <<h, "pending">>)
    <3>1. l.key # <<h, "pending">>
      BY <1>0, DepositKeys
    <3>2. ledger \in Ledger /\ Covers(l.op, ledger.rows[l.wallet].bal, l.amount)
      BY <1>0, <1>1 DEF Well, Admissible
    <3>3. Posted(Post(ledger, l), <<h, "pending">>) <=> Posted(ledger, <<h, "pending">>)
      BY <3>1, <3>2, PostPosted
    <3>4. QED
      BY <1>0, <3>3
  <2>2. QED
    BY <2>1 DEF Credited
<1>5. Halves' = Halves /\ HalfAmount' = HalfAmount /\ Brought' = Brought /\ Seeds' = Seeds
  BY DEF Halves, HalfAmount, Brought, Seeds, OnchainRequests
<1>6. /\ l.amount \in Nat /\ Total(ledger) \in Nat /\ Total(ledger') \in Nat
      /\ Brings(l) => Total(ledger') = Total(ledger) + l.amount
      /\ Takes(l) => Total(ledger) = Total(ledger') + l.amount
      /\ ~Brings(l) /\ ~Takes(l) => Total(ledger') = Total(ledger)
  BY <1>0, <1>1, TotalPost
<1>7. \A x \in Underway : HalfAmount[x] \in Nat
  BY HalfFields DEF Underway
<1>8. IsFiniteSet(Underway) /\ SumFunctionOnSet(HalfAmount, Underway) \in Nat
  BY <1>7, SumType DEF Balanced
<1>9. ASSUME NEW x \in Halves
      PROVE  x \in Underway' <=> /\ x \in Underway \/ (FirstHalf(x[2]) = on /\ x[1] = q)
                                 /\ ~(x[2] = on /\ x[1] = q)
  <2>1. PICK y \in OnchainRequests, b \in PostingLabels, a \in PostingLabels :
          y = x[1] /\ b = x[2] /\ a = FirstHalf(x[2])
    BY HalfFields
  <2>2. x \in Underway <=> y \in transfers /\ Made(a, y) /\ ~Made(b, y)
    BY <2>1 DEF Underway
  <2>3. x \in Underway' <=> y \in transfers /\ Made(a, y)' /\ ~Made(b, y)'
    BY <1>5, <2>1 DEF Underway
  <2>4. a = on /\ y = q => ~Made(b, y)
    <3>. SUFFICES ASSUME a = on, y = q PROVE ~Made(b, y)
      OBVIOUS
    <3>1. Agrees(q)
      BY DEF TransferInv, Sound
    <3>2. b \in {"fin.credit", "fin.revenue"}
      BY <2>1 DEF Halves
    <3>3. QED
      BY <1>2, <2>1, <3>1, <3>2 DEF Agrees, FirstHalf
  <2>5. a = on /\ y = q => y \in transfers
    OBVIOUS
  <2>6. y \in transfers => /\ Made(a, y)' <=> Made(a, y) \/ (a = on /\ y = q)
                           /\ Made(b, y)' <=> Made(b, y) \/ (b = on /\ y = q)
    BY <1>3
  <2>7. QED
    BY <2>1, <2>2, <2>3, <2>4, <2>5, <2>6
<1>10. Underway \subseteq Halves /\ Underway' \subseteq Halves
  BY <1>5 DEF Underway
<1>11. CASE on \in {"fin.debit", "fin.feeDebit"}
  <2>1. PICK z \in Halves : z[1] = q /\ FirstHalf(z[2]) = on /\ z[2] # on
    <3>1. CASE on = "fin.debit"
      <4>1. <<q, "fin.credit">> \in Halves
        BY DEF Halves
      <4>2. QED
        BY <3>1, <4>1 DEF FirstHalf
    <3>2. CASE on = "fin.feeDebit"
      <4>1. <<q, "fin.revenue">> \in Halves
        BY DEF Halves
      <4>2. QED
        BY <3>2, <4>1 DEF FirstHalf
    <3>3. QED
      BY <1>11, <3>1, <3>2
  <2>2. ASSUME NEW x \in Halves
        PROVE  /\ x[2] # on
               /\ FirstHalf(x[2]) = on /\ x[1] = q => x = z
    <3>1. /\ x[2] \in {"fin.credit", "fin.revenue"} /\ x = <<x[1], x[2]>>
          /\ z[2] \in {"fin.credit", "fin.revenue"} /\ z = <<z[1], z[2]>>
      BY DEF Halves
    <3>2. FirstHalf(x[2]) = FirstHalf(z[2]) => x[2] = z[2]
      BY <3>1 DEF FirstHalf
    <3>3. QED
      BY <1>11, <2>1, <3>1, <3>2
  <2>3. Underway' = Underway \cup {z}
    BY <1>9, <1>10, <2>1, <2>2
  <2>4. z \notin Underway
    <3>1. z \in Underway => Made(on, q)
      BY <2>1 DEF Underway
    <3>2. QED
      BY <1>2, <3>1
  <2>5. HalfAmount[z] \in Nat /\ HalfAmount[z] = l.amount
    BY <1>0, <2>1, HalfFields
  <2>6. IsFiniteSet(Underway')
    BY <1>8, <2>3, FS_AddElement
  <2>7. SumFunctionOnSet(HalfAmount, Underway') = SumFunctionOnSet(HalfAmount, Underway) + l.amount
    BY <1>7, <1>8, <2>3, <2>4, <2>5, SumAdd
  <2>8. Takes(l)
    BY <1>0, <1>11 DEF Takes, LegAt, LegOf
  <2>9. QED
    BY <1>4, <1>5, <1>6, <1>8, <2>6, <2>7, <2>8 DEF Balanced
<1>12. CASE on \in {"fin.credit", "fin.revenue"}
  <2>1. PICK z \in Halves : z = <<q, on>>
    BY <1>12 DEF Halves
  <2>2. z[1] = q /\ z[2] = on /\ z \in Underway
    BY <1>2, <1>12, <2>1 DEF Underway, FirstHalf
  <2>3. ASSUME NEW x \in Halves
        PROVE  FirstHalf(x[2]) # on /\ (x[2] = on /\ x[1] = q <=> x = z)
    BY <1>12, <2>1 DEF Halves, FirstHalf
  <2>4. Underway' = Underway \ {z}
    BY <1>9, <1>10, <2>3
  <2>5. HalfAmount[z] \in Nat /\ HalfAmount[z] = l.amount
    BY <1>0, <2>2, HalfFields
  <2>6. IsFiniteSet(Underway')
    BY <1>8, <2>4, FS_RemoveElement
  <2>7. SumFunctionOnSet(HalfAmount, Underway) = l.amount + SumFunctionOnSet(HalfAmount, Underway')
    BY <1>7, <1>8, <2>2, <2>4, <2>5, SumRemove
  <2>8. SumFunctionOnSet(HalfAmount, Underway') \in Nat
    BY <1>7, <2>4, <2>6, SumType
  <2>9. Brings(l)
    BY <1>0, <1>12 DEF Brings, LegAt, LegOf
  <2>10. QED
    BY <1>4, <1>5, <1>6, <1>8, <2>6, <2>7, <2>8, <2>9 DEF Balanced
<1>13. CASE on \notin {"fin.debit", "fin.feeDebit", "fin.credit", "fin.revenue"}
  <2>1. ~Brings(l) /\ ~Takes(l)
    BY <1>0, <1>13 DEF Brings, Takes, LegAt, LegOf, PostingLabels
  <2>2. ASSUME NEW x \in Halves PROVE x[2] # on /\ FirstHalf(x[2]) # on
    BY <1>13 DEF Halves, FirstHalf
  <2>3. Underway' = Underway
    BY <1>9, <1>10, <2>2
  <2>4. QED
    BY <1>4, <1>5, <1>6, <2>1, <2>3 DEF Balanced
<1>14. QED
  BY <1>11, <1>12, <1>13
\* The database transaction of a transfer moves amount and fee.
LEMMA TotalOutcome ==
  ASSUME IsFiniteSet(Wallets), FeeApart, TransferInv, NEW q \in Requests, q.mode = "ledger",
         NEW M \in Outcomes(q)
  PROVE  Total(M) = Total(ledger)
<1>1. PICK L \in PairResults(ledger, DebitLeg(q), CreditLeg(q)) : M \in FeeResults(L, q)
  BY DEF Outcomes
<1>2. Well(ledger) /\ Bare(ledger)
  BY DEF TransferInv, Typed, RowsTyped
<1>3. PICK d \in Leg, c \in Leg : d = DebitLeg(q) /\ c = CreditLeg(q)
  BY LedgerLegsAssumption
<1>4. IsPair(d, c)
  BY <1>3, RequestsAssumption DEF DebitLeg, CreditLeg, IsPair
<1>5. Total(L) = Total(ledger)
  BY <1>1, <1>2, <1>3, <1>4, TotalPair
<1>6. Well(L)
  BY <1>1, <1>2, <1>3, <1>4, PairGrows DEF Grown, IsPair
<1>7. CASE ~ChargesFee(q)
  BY <1>1, <1>5, <1>7 DEF FeeResults
<1>8. CASE ChargesFee(q)
  <2>1. Fee > 0 /\ M \in PairResults(L, FeeDebitLeg(q), FeeRevenueLeg(q))
    BY <1>1, <1>8 DEF FeeResults, ChargesFee
  <2>2. PICK e \in Leg, r \in Leg : e = FeeDebitLeg(q) /\ r = FeeRevenueLeg(q)
    BY <2>1, LedgerLegsAssumption
  <2>3. IsPair(e, r)
    BY <2>1, <2>2 DEF FeeDebitLeg, FeeRevenueLeg, FeeApart, IsPair
  <2>4. Total(M) = Total(L)
    BY <1>6, <2>1, <2>2, <2>3, TotalPair
  <2>5. QED
    BY <1>5, <2>4
<1>9. QED
  BY <1>7, <1>8

LEMMA BooksTx ==
  ASSUME IsFiniteSet(Wallets), FeeApart, TransferInv, Balanced, NEW p \in Procs, TransferTx(p)
  PROVE  Balanced' /\ Credited' = Credited
<1>1. pc[p] \in LedgerLabels
  BY DEF TransferTx, LedgerLabels
<1>2. PICK q \in Requests : q = req[p] /\ q.mode = "ledger"
  BY <1>1, LedgerFacts
<1>3. ledger' \in Outcomes(q) /\ transfers' = transfers \cup {q}
  BY <1>2 DEF TransferTx
<1>4. Grown(ledger, ledger', PlainLegs(q)) /\ Total(ledger') = Total(ledger)
  BY <1>2, <1>3, OutcomeGrows, TotalOutcome
<1>5. Moves({})
  <2>1. PlainLegs(q) \subseteq LegsOf(transfers')
    BY <1>2, <1>3, LegsTyped DEF LegsOf, IsLegOf
  <2>2. \A l \in PlainLegs(q) : ~MovesLocks(l)
    BY DEF PlainLegs, MovesLocks, DebitLeg, CreditLeg, FeeDebitLeg, FeeRevenueLeg
  <2>3. \A l \in PlainLegs(q) : \A x \in OnchainRequests, on \in PostingLabels :
          l.key # LegAt(on, x).key
    BY <1>2, OtherKeys
  <2>4. transfers \subseteq transfers'
    BY <1>3
  <2>5. QED
    BY <1>4, <2>1, <2>2, <2>3, <2>4, QuietMoves
<1>6. ASSUME NEW h, Posted(ledger', <<h, "pending">>) PROVE Posted(ledger, <<h, "pending">>)
  <2>1. Well(ledger)
    BY DEF TransferInv, Typed, RowsTyped
  <2>2. Posted(ledger, <<h, "pending">>) \/ \E l \in PlainLegs(q) : l.key = <<h, "pending">>
    BY <1>4, <1>6, <2>1, GrownPosted
  <2>3. QED
    BY <2>2, DepositKeys
<1>7. \A x \in OnchainRequests : x \notin transfers' \ transfers
  BY <1>2, <1>3 DEF OnchainRequests
<1>8. transfers \subseteq transfers'
  BY <1>3
<1>9. QED
  BY <1>4, <1>5, <1>6, <1>7, <1>8, BooksQuiet

\* A step that posts nothing.
LEMMA BooksUnposted ==
  ASSUME IsFiniteSet(Wallets), TransferInv, Balanced, UNCHANGED transfers,
         \/ UNCHANGED ledger
         \/ \E w \in Wallets : ledger' = ensureWalletAccount(ledger, w)
  PROVE  Balanced' /\ Credited' = Credited
<1>1. Well(ledger)
  BY DEF TransferInv, Typed, RowsTyped
<1>2. ledger'.movements = ledger.movements /\ \A w \in Wallets : ledger'.rows[w].bal = ledger.rows[w].bal
  BY <1>1, EnsureFields
<1>3. Total(ledger') = Total(ledger)
  BY <1>2, TotalSame
<1>4. \A k : Posted(ledger', k) <=> Posted(ledger, k)
  BY <1>2 DEF Posted
<1>5. \A q, on : Made(on, q)' <=> Made(on, q)
  BY <1>4 DEF Made
<1>6. QED
  BY <1>3, <1>4, <1>5, BooksStill

\* A deposit is credited once, when it has arrived; the rest of its way changes no total.
LEMMA BooksDeposit ==
  ASSUME IsFiniteSet(Wallets), TransferInv, Balanced, Known, NEW p \in Procs, DepPosting(p)
  PROVE  Balanced' /\ Credited' \subseteq arrived
<1>1. pc[p] \in {"dep.pending", "dep.available"} /\ UNCHANGED transfers
  BY DEF DepPosting, OthersUnchanged
<1>2. doc[p] \in arrived
  BY <1>1 DEF Known, DepLabels
<1>3. PICK d \in Deposits : d = doc[p]
  BY <1>2 DEF Known, ArrivedKnown
<1>4. d \in Payments
  BY DEF Payments
<1>5. PICK l \in Leg : l = DepositLeg(pc[p], d)
  BY <1>1, <1>4, DepositLegsAssumption
<1>6. PICK L : L = ensureWalletAccount(ledger, l.wallet)
  OBVIOUS
<1>7. Well(ledger) /\ l.wallet \in Wallets
  BY DEF TransferInv, Typed, RowsTyped, Leg
<1>8. /\ Well(L) /\ L.movements = ledger.movements
      /\ \A w \in Wallets : L.rows[w].bal = ledger.rows[w].bal
  BY <1>6, <1>7, EnsureFields
<1>9. Total(L) = Total(ledger) /\ \A k : Posted(L, k) <=> Posted(ledger, k)
  <2>1. \A k : Posted(L, k) <=> Posted(ledger, k)
    BY <1>8 DEF Posted
  <2>2. QED
    BY <1>8, <2>1, TotalSame
<1>10. CASE ledger' = ledger \/ ledger' = L
  BY <1>1, <1>6, <1>7, <1>10, BooksUnposted DEF Known
<1>11. CASE Admissible(L, l) /\ ledger' = Post(L, l)
  <2>1. \A k : Posted(ledger', k) <=> Posted(ledger, k) \/ k = l.key
    <3>1. L \in Ledger /\ Covers(l.op, L.rows[l.wallet].bal, l.amount)
      BY <1>8, <1>11 DEF Well, Admissible
    <3>2. QED
      BY <1>9, <1>11, <3>1, PostPosted
  <2>2. ~Posted(ledger, l.key)
    BY <1>9, <1>11 DEF Admissible
  <2>3. \A q \in OnchainRequests, on \in PostingLabels : Made(on, q)' <=> Made(on, q)
    <3>1. l \in DepositLegs(d)
      BY <1>1, <1>5 DEF DepositLegs
    <3>2. ASSUME NEW q \in OnchainRequests, NEW on \in PostingLabels
          PROVE  Made(on, q)' <=> Made(on, q)
      <4>1. l.key # LegAt(on, q).key
        BY <3>1, OtherKeys
      <4>2. QED
        BY <2>1, <4>1 DEF Made
    <3>3. QED
      BY <3>2
  <2>4. /\ l.amount \in Nat /\ Total(ledger) \in Nat /\ Total(ledger') \in Nat
        /\ Brings(l) => Total(ledger') = Total(ledger) + l.amount
        /\ ~Brings(l) /\ ~Takes(l) => Total(ledger') = Total(ledger)
    BY <1>8, <1>9, <1>11, TotalPost
  <2>5. CASE pc[p] = "dep.available"
    <3>1. l.key = <<d.id, "available">> /\ ~Brings(l) /\ ~Takes(l)
      BY <1>5, <2>5 DEF DepositLeg, Brings, Takes
    <3>2. \A h : Posted(ledger', <<h, "pending">>) <=> Posted(ledger, <<h, "pending">>)
      BY <2>1, <3>1
    <3>3. QED
      BY <1>1, <2>3, <2>4, <3>1, <3>2, BooksStill DEF Known
  <2>6. CASE pc[p] = "dep.pending"
    <3>1. l.key = <<d.id, "pending">> /\ Brings(l) /\ l.amount = d.amount
      BY <1>5, <2>6 DEF DepositLeg, Brings
    <3>2. ASSUME NEW e \in Deposits
          PROVE  e \in Credited' <=> e \in Credited \/ e = d
      <4>1. <<e.id, "pending">> = <<d.id, "pending">> <=> e = d
        BY DepositsAssumption
      <4>2. Posted(ledger', <<e.id, "pending">>) <=> Posted(ledger, <<e.id, "pending">>) \/ e = d
        BY <2>1, <3>1, <4>1
      <4>3. QED
        BY <4>2 DEF Credited
    <3>3. Credited' = Credited \cup {d}
      BY <3>2 DEF Credited
    <3>4. d \notin Credited
      BY <2>2, <3>1 DEF Credited
    <3>5. Halves' = Halves /\ HalfAmount' = HalfAmount /\ Brought' = Brought /\ Seeds' = Seeds
      BY DEF Halves, HalfAmount, Brought, Seeds, OnchainRequests
    <3>6. Underway' = Underway
      <4>1. ASSUME NEW x \in Halves PROVE x \in Underway' <=> x \in Underway
        <5>1. PICK q \in OnchainRequests, on \in PostingLabels, a \in PostingLabels :
                q = x[1] /\ on = x[2] /\ a = FirstHalf(x[2])
          BY HalfFields
        <5>2. x \in Underway <=> q \in transfers /\ Made(a, q) /\ ~Made(on, q)
          BY <5>1 DEF Underway
        <5>3. x \in Underway' <=> q \in transfers' /\ Made(a, q)' /\ ~Made(on, q)'
          BY <3>5, <5>1 DEF Underway
        <5>4. QED
          BY <1>1, <2>3, <5>2, <5>3
      <4>2. Underway \subseteq Halves /\ Underway' \subseteq Halves
        BY <3>5 DEF Underway
      <4>3. QED
        BY <4>1, <4>2
    <3>7. \A e \in Deposits : Brought[e] = e.amount
      BY DEF Brought
    <3>8. \A e \in Deposits : e.amount \in Nat
      <4>1. ASSUME NEW e \in Deposits PROVE e.amount \in Nat
        <5>1. DepositLeg("dep.pending", e) \in Leg
          BY DepositLegsAssumption DEF Payments
        <5>2. DepositLeg("dep.pending", e).amount = e.amount
          BY DEF DepositLeg
        <5>3. QED
          BY <5>1, <5>2, AmountsAssumption DEF Leg
      <4>2. QED
        BY <4>1
    <3>9. IsFiniteSet(Credited) /\ IsFiniteSet(Credited')
      BY <3>3, FS_AddElement DEF Balanced
    <3>10. SumFunctionOnSet(Brought, Credited') = SumFunctionOnSet(Brought, Credited) + d.amount
      <4>1. \A e \in Credited : Brought[e] \in Nat
        BY <3>7, <3>8 DEF Credited
      <4>2. QED
        BY <3>3, <3>4, <3>7, <3>8, <3>9, <4>1, SumAdd
    <3>11. /\ SumFunctionOnSet(Brought, Credited) \in Nat
           /\ SumFunctionOnSet(HalfAmount, Underway) \in Nat
      <4>1. \A e \in Credited : Brought[e] \in Nat
        BY <3>7, <3>8 DEF Credited
      <4>2. \A x \in Underway : HalfAmount[x] \in Nat
        BY HalfFields DEF Underway
      <4>3. QED
        BY <3>9, <4>1, <4>2, SumType DEF Balanced
    <3>12. Seeds \in Nat
      BY SeedsTyped
    <3>13. Balanced'
      BY <2>4, <3>1, <3>5, <3>6, <3>9, <3>10, <3>11, <3>12 DEF Balanced
    <3>14. Credited' \subseteq arrived
      BY <1>2, <1>3, <3>3 DEF Known
    <3>15. QED
      BY <3>13, <3>14
  <2>7. QED
    BY <1>1, <2>5, <2>6
<1>12. QED
  BY <1>3, <1>5, <1>6, <1>10, <1>11 DEF DepPosting
-----------------------------------------------------------------------------
(* The books, step by step *)

\* A call that goes to a label of its own kind takes up no deposit.
LEMMA NoDepositTaken ==
  ASSUME TransferInv, Known, UNCHANGED <<arrived, doc>>, NEW p \in Procs,
         NEW label, label \notin DepLabels, pc' = [pc EXCEPT ![p] = label],
         Credited' \subseteq arrived
  PROVE  Known'
<1>1. pc \in [Procs -> Labels]
  BY DEF TransferInv, Typed, CallsTyped
<1>2. ASSUME NEW r \in Procs, pc'[r] \in DepLabels PROVE pc[r] \in DepLabels
  BY <1>1, <1>2
<1>3. QED
  BY <1>2 DEF Known, ArrivedKnown

LEMMA BooksCreate ==
  ASSUME IsFiniteSet(Wallets), TransferInv, Balanced, Known, UNCHANGED depVars, NEW p \in Procs,
         NEW q, createInternalTransfer(p, q) \/ createOnchainTransfer(p, q)
  PROVE  Balanced' /\ Known'
<1>1. PICK label \in {"canPay", "find", "on.check"} : pc' = [pc EXCEPT ![p] = label]
  BY DEF createInternalTransfer, createOnchainTransfer, Goto
<1>2. UNCHANGED <<ledger, transfers, arrived, doc>> /\ label \notin DepLabels
  BY DEF createInternalTransfer, createOnchainTransfer, rows, depVars, DepLabels
<1>3. Balanced' /\ Credited' = Credited
  BY <1>2, BooksUnposted
<1>4. QED
  BY <1>1, <1>2, <1>3, NoDepositTaken DEF Known

LEMMA BooksLedger ==
  ASSUME IsFiniteSet(Wallets), FeeApart, TransferInv, Balanced, Known, UNCHANGED depVars,
         NEW p \in Procs, assertCustomerCanPay(p) \/ FindTransfer(p) \/ TransferTx(p)
  PROVE  Balanced' /\ Known'
<1>1. PICK label \in {"find", "tx", "idle"} : pc' = [pc EXCEPT ![p] = label]
  BY DEF assertCustomerCanPay, FindTransfer, TransferTx, Finish, Goto
<1>2. label \notin DepLabels /\ UNCHANGED <<arrived, doc>>
  BY DEF DepLabels, depVars
<1>3. Balanced' /\ Credited' = Credited
  <2>1. CASE assertCustomerCanPay(p)
    <3>1. pc[p] \in LedgerLabels /\ UNCHANGED transfers
      BY <2>1 DEF assertCustomerCanPay, LedgerLabels
    <3>2. PICK q \in Requests : q = req[p]
      BY <3>1, LedgerFacts
    <3>3. ledger' = ensureWalletAccount(ledger, q.from) /\ q.from \in Wallets
      BY <2>1, <3>2, RequestsAssumption DEF assertCustomerCanPay
    <3>4. QED
      BY <3>1, <3>3, BooksUnposted
  <2>2. CASE FindTransfer(p)
    <3>1. UNCHANGED <<ledger, transfers>>
      BY <2>2 DEF FindTransfer
    <3>2. QED
      BY <3>1, BooksUnposted
  <2>3. CASE TransferTx(p)
    BY <2>3, BooksTx
  <2>4. QED
    BY <2>1, <2>2, <2>3
<1>4. QED
  BY <1>1, <1>2, <1>3, NoDepositTaken DEF Known

LEMMA BooksInsert ==
  ASSUME IsFiniteSet(Wallets), TransferInv, Balanced, NEW p \in Procs, OnInsert(p)
  PROVE  Balanced' /\ Credited' = Credited
<1>1. pc[p] \in OnchainLabels /\ UNCHANGED ledger
  BY DEF OnInsert, OnchainLabels, EarlyLabels
<1>2. PICK q \in OnchainRequests : q = req[p]
  BY <1>1, CallFacts
<1>3. CASE UNCHANGED transfers
  BY <1>1, <1>3, BooksUnposted
<1>4. CASE ~RowConflict(q) /\ transfers' = transfers \cup {q}
  <2>1. \A x \in transfers : ~SameClientKey(q, x)
    BY <1>4 DEF RowConflict
  <2>2. \A on \in PostingLabels : ~Made(on, q)
    BY <2>1, FreshNotMade DEF TransferInv
  <2>3. \A on : Made(on, q)' <=> Made(on, q)
    BY <1>1 DEF Made
  <2>4. transfers \subseteq transfers'
    BY <1>4
  <2>5. Moves({})
    BY <1>1, <2>4, StillMoves
  <2>6. ASSUME NEW x \in OnchainRequests, x \in transfers' \ transfers
        PROVE  \A on \in PostingLabels : ~Made(on, x)'
    BY <1>4, <2>2, <2>3, <2>6
  <2>7. Total(ledger') = Total(ledger)
    BY <1>1
  <2>8. \A h : Posted(ledger', <<h, "pending">>) => Posted(ledger, <<h, "pending">>)
    BY <1>1
  <2>9. QED
    BY <2>4, <2>5, <2>6, <2>7, <2>8, BooksQuiet
<1>5. QED
  BY <1>2, <1>3, <1>4 DEF OnInsert

LEMMA BooksPost ==
  ASSUME IsFiniteSet(Wallets), TransferInv, Balanced, NEW p \in Procs, Posting(p)
  PROVE  Balanced' /\ Credited' = Credited
<1>1. PICK at \in PostingLabels : at = pc[p]
  BY DEF Posting
<1>2. pc[p] \in LateLabels /\ pc[p] \in OnchainLabels
  BY <1>1 DEF PostingLabels, OnchainLabels, LateLabels, LockLabels, FinLabels, FailLabels
<1>3. PICK q \in OnchainRequests : q = req[p] /\ q \in transfers
  BY <1>2, CallFacts
<1>4. Done(p) /\ UNCHANGED transfers
  BY <1>2, CallFacts DEF Working, Posting
<1>5. CASE UNCHANGED ledger
  BY <1>4, <1>5, BooksUnposted
<1>6. CASE Admissible(ledger, LegAt(at, q)) /\ ledger' = Post(ledger, LegAt(at, q))
  <2>1. at = "fin.credit" => Made("fin.debit", q)
    BY <1>1, <1>3, <1>4 DEF Done, FinLabels
  <2>2. at = "fin.revenue" => Made("fin.feeDebit", q)
    BY <1>1, <1>3, <1>4 DEF Done
  <2>3. QED
    BY <1>3, <1>4, <1>6, <2>1, <2>2, BooksPosting
<1>7. QED
  BY <1>1, <1>3, <1>5, <1>6 DEF Posting

LEMMA Replies ==
  ASSUME NEW ch, NEW i, NEW u, NEW names,
         NEW r \in submitPreparedSponsoredPayment(ch, i, u, names)
  PROVE  r.reply \in {"error", "submitted", "confirmed"}
<1>. DEFINE Answers == {"error", "submitted", "confirmed"}
<1>1. \A s : \A reply \in Answers : r = Submission(ch, i, s, reply) => r.reply \in Answers
  BY DEF Submission
<1>2. \E s : \E reply \in Answers : r = Submission(ch, i, s, reply)
  <2>1. CASE "refused" \in names /\ r = Submission(ch, i, ch[i].state, "error")
    BY <2>1
  <2>2. CASE /\ ch[i].state = "landed"
             /\ ~("refused" \in names /\ r = Submission(ch, i, ch[i].state, "error"))
    <3>1. r \in {Submission(ch, i, "landed", x) : x \in {"confirmed", "submitted"}}
      BY <2>2 DEF submitPreparedSponsoredPayment
    <3>2. QED
      BY <3>1
  <2>3. CASE /\ ch[i].state # "landed"
             /\ ch[i].state = "failed" \/ (ch[i].state # "landed" /\ ch[i].seq <= u)
             /\ ~("refused" \in names /\ r = Submission(ch, i, ch[i].state, "error"))
    <3>1. r = Submission(ch, i, "failed", "error")
      BY <2>3 DEF submitPreparedSponsoredPayment
    <3>2. QED
      BY <3>1
  <2>4. CASE /\ ~(/\ ch[i].state # "landed"
                  /\ ch[i].state = "failed" \/ (ch[i].state # "landed" /\ ch[i].seq <= u))
             /\ ch[i].state # "landed"
             /\ ~("refused" \in names /\ r = Submission(ch, i, ch[i].state, "error"))
    <3>1. r \in {Submission(ch, i, o.state, o.reply) : o \in {x \in SubmitOutcomes : x.name \in names}}
      BY <2>4 DEF submitPreparedSponsoredPayment
    <3>2. PICK o \in SubmitOutcomes : r = Submission(ch, i, o.state, o.reply)
      BY <3>1
    <3>3. QED
      BY <3>2 DEF SubmitOutcomes
  <2>5. QED
    BY <2>1, <2>2, <2>3, <2>4
<1>3. QED
  BY <1>1, <1>2

\* Where a call goes on.
LEMMA OnchainGoes ==
  ASSUME NEW p, OnchainStep(p) \/ OnchainStop(p)
  PROVE  \E label : label \notin DepLabels /\ pc' = [pc EXCEPT ![p] = label]
<1>. DEFINE Goes == \E label : label \notin DepLabels /\ pc' = [pc EXCEPT ![p] = label]
<1>. SUFFICES Goes
  OBVIOUS
<1>1. ASSUME NEW label \in OnchainLabels, Onward(p, label) PROVE Goes
  <2>1. label \notin DepLabels
    BY DEF OnchainLabels, EarlyLabels, LateLabels, LockLabels, SendLabels, FinLabels, FailLabels,
           DepLabels
  <2>2. QED
    BY <1>1, <2>1 DEF Onward, Goto
<1>2. ASSUME Stop(p) PROVE Goes
  <2>1. pc' = [pc EXCEPT ![p] = "idle"] /\ "idle" \notin DepLabels
    BY <1>2 DEF Stop, Finish, Goto, DepLabels
  <2>2. QED
    BY <2>1
<1>. HIDE DEF Goes
<1>. DEFINE Ahead ==
       {"on.insert", "on.read", "on.lock", "on.prepare", "on.confirm", "on.save", "on.send",
        "on.sent", "on.landed", "on.sentRow", "on.landedRow", "on.verify", "fin.debit",
        "fail.settlement", "fin.settlement", "fin.row", "fail.release"}
<1>3. ASSUME Stop(p) \/ \E label \in Ahead : Onward(p, label) PROVE Goes
  <2>1. Ahead \subseteq OnchainLabels
    BY DEF OnchainLabels, EarlyLabels, LateLabels, LockLabels, SendLabels, FinLabels, FailLabels
  <2>2. QED
    BY <1>1, <1>2, <1>3, <2>1
<1>4. CASE OnCheck(p) \/ OnInsert(p) \/ OnRecheck(p) \/ OnConfirm(p) \/ OnVerify(p)
  <2>1. CASE OnCheck(p)
    BY <1>3, <2>1 DEF OnCheck
  <2>2. CASE OnInsert(p)
    BY <1>3, <2>2 DEF OnInsert
  <2>3. CASE OnRecheck(p)
    <3>1. Onward(p, "on.prepare") \/ Onward(p, "on.confirm")
      BY <2>3 DEF OnRecheck
    <3>2. QED
      BY <1>3, <3>1
  <2>4. CASE OnConfirm(p) \/ OnVerify(p)
    <3>1. Onward(p, "fin.debit") \/ Onward(p, "fail.settlement") \/ Stop(p)
      BY <2>4 DEF OnConfirm, OnVerify
    <3>2. QED
      BY <1>3, <3>1
  <2>5. QED
    BY <1>4, <2>1, <2>2, <2>3, <2>4
<1>5. CASE OnRead(p) \/ OnPrepare(p)
  <2>1. PICK label \in Ahead : pc' = [pc EXCEPT ![p] = label]
    BY <1>5 DEF OnRead, OnPrepare, Goto
  <2>2. label \notin DepLabels
    BY DEF DepLabels
  <2>3. QED
    BY <2>1, <2>2 DEF Goes
<1>6. CASE OnSave(p) \/ OnSend(p) \/ OnSent(p) \/ OnSentRow(p)
  <2>1. CASE OnSave(p)
    BY <1>3, <2>1 DEF OnSave
  <2>2. CASE OnSend(p)
    <3>1. PICK r \in submitPreparedSponsoredPayment(pays[req[p]], hash[p], Sent(req[p].from),
                                                   OutcomeNames) :
            Onward(p, CASE r.reply = "error"     -> "fail.settlement"
                        [] r.reply = "submitted" -> "on.sent"
                        [] r.reply = "confirmed" -> "on.landed")
      BY <2>2 DEF OnSend
    <3>2. r.reply \in {"error", "submitted", "confirmed"}
      BY Replies
    <3>3. Onward(p, "fail.settlement") \/ Onward(p, "on.sent") \/ Onward(p, "on.landed")
      BY <3>1, <3>2
    <3>4. QED
      BY <1>3, <3>3
  <2>3. CASE OnSent(p) \/ OnSentRow(p)
    <3>1. \/ Onward(p, "on.sentRow") \/ Onward(p, "on.landedRow")
          \/ Onward(p, "on.verify") \/ Onward(p, "fin.debit")
      BY <2>3 DEF OnSent, OnSentRow
    <3>2. QED
      BY <1>3, <3>1
  <2>4. QED
    BY <1>6, <2>1, <2>2, <2>3
<1>7. CASE FinFee(p) \/ FinSettlement(p) \/ FinRow(p) \/ FailSettlement(p) \/ FailRow(p)
  BY <1>3, <1>7 DEF FinFee, FinSettlement, FinRow, FailSettlement, FailRow
<1>8. CASE Posting(p)
  <2>1. PICK at \in PostingLabels : at = pc[p]
    BY <1>8 DEF Posting
  <2>2. Onward(p, AfterPosting[at]) \/ Stop(p)
    BY <1>8, <2>1 DEF Posting
  <2>3. AfterPosting[at] \in OnchainLabels
    BY DEF AfterPosting, PostingLabels, OnchainLabels, LateLabels, LockLabels, SendLabels,
           FinLabels, FailLabels
  <2>4. QED
    BY <1>1, <1>2, <2>2, <2>3
<1>9. CASE OnchainStop(p)
  BY <1>2, <1>9 DEF OnchainStop
<1>10. QED
  BY <1>3, <1>4, <1>5, <1>6, <1>7, <1>8, <1>9 DEF OnchainStep, Goes

LEMMA BooksOnchain ==
  ASSUME IsFiniteSet(Wallets), TransferInv, Balanced, Known, UNCHANGED depVars,
         NEW p \in Procs, OnchainStep(p) \/ OnchainStop(p)
  PROVE  Balanced' /\ Known'
<1>1. Balanced' /\ Credited' = Credited
  <2>1. CASE OnInsert(p)
    BY <2>1, BooksInsert
  <2>2. CASE Posting(p)
    BY <2>2, BooksPost
  <2>3. CASE OnchainStop(p) \/ (OnchainStep(p) /\ ~OnInsert(p) /\ ~Posting(p))
    <3>1. UNCHANGED <<ledger, transfers>>
      BY <2>3 DEF OnchainStop, OnchainStep, OnCheck, OnRead, OnRecheck, OnConfirm, OnPrepare,
                  OnSave, OnSend, OnSent, OnSentRow, OnVerify, FinFee, FinSettlement, FinRow,
                  FailSettlement, FailRow, rows
    <3>2. QED
      BY <3>1, BooksUnposted
  <2>4. QED
    BY <2>1, <2>2, <2>3
<1>2. PICK label : label \notin DepLabels /\ pc' = [pc EXCEPT ![p] = label]
  BY OnchainGoes
<1>3. UNCHANGED <<arrived, doc>>
  BY DEF depVars
<1>4. QED
  BY <1>1, <1>2, <1>3, NoDepositTaken DEF Known

\* A step that leaves the ledger, what has arrived and what the calls process.
LEMMA BooksElsewhere ==
  ASSUME IsFiniteSet(Wallets), TransferInv, Balanced, Known,
         UNCHANGED <<ledger, transfers, pc, doc>>,
         arrived' = arrived \/ \E d \in Deposits : arrived' = arrived \cup {d}
  PROVE  Balanced' /\ Known'
<1>1. Balanced' /\ Credited' = Credited
  BY BooksUnposted
<1>2. IsFiniteSet(arrived')
  BY FS_AddElement DEF Known
<1>3. arrived \subseteq arrived' /\ ArrivedKnown'
  BY DEF Known, ArrivedKnown
<1>4. QED
  BY <1>1, <1>2, <1>3 DEF Known

\* What a watched wallet gets from outside is a deposit.
LEMMA BooksProcess ==
  ASSUME IsFiniteSet(Wallets), WatchedApart, TransferInv, Balanced, Known, NEW p \in Procs,
         NEW d \in OnStellar, processDeposit(p, d)
  PROVE  Balanced' /\ Known'
<1>1. UNCHANGED <<ledger, transfers, arrived>>
  BY DEF processDeposit, OthersUnchanged
<1>2. Balanced' /\ Credited' = Credited
  BY <1>1, BooksUnposted
<1>3. d \in arrived
  <2>1. ASSUME NEW q \in OnchainRequests, NEW i, d = PaymentOf(q, i) PROVE FALSE
    <3>1. q.to \in Watched
      BY <2>1 DEF processDeposit, PaymentOf
    <3>2. QED
      BY <3>1 DEF WatchedApart
  <2>2. QED
    BY <2>1 DEF OnStellar
<1>4. pc \in [Procs -> Labels] /\ doc = [r \in Procs |-> doc[r]]
  BY DEF TransferInv, Typed, CallsTyped
<1>5. doc' = [doc EXCEPT ![p] = d] /\ pc' = [pc EXCEPT ![p] = "dep.insert"]
  BY DEF processDeposit, Goto
<1>6. ASSUME NEW r \in Procs, pc'[r] \in DepLabels PROVE doc'[r] \in arrived
  <2>1. CASE r = p
    BY <1>3, <1>4, <1>5, <2>1
  <2>2. CASE r # p
    BY <1>4, <1>5, <1>6, <2>2 DEF Known
  <2>3. QED
    BY <2>1, <2>2
<1>7. QED
  BY <1>1, <1>2, <1>6 DEF Known, ArrivedKnown

LEMMA BooksDepositStep ==
  ASSUME IsFiniteSet(Wallets), TransferInv, Balanced, Known, NEW p \in Procs,
         DepositStep(p) \/ DepCrash(p)
  PROVE  Balanced' /\ Known'
<1>1. UNCHANGED <<transfers, arrived>>
  BY DEF DepositStep, DepInsert, DepMark, DepPosting, DepPended, DepConfirm, DepCrash,
         OthersUnchanged
<1>2. Balanced' /\ Credited' \subseteq arrived
  <2>1. CASE DepPosting(p)
    BY <2>1, BooksDeposit
  <2>2. CASE ~DepPosting(p)
    <3>1. UNCHANGED ledger
      BY <2>2 DEF DepositStep, DepInsert, DepMark, DepPended, DepConfirm, DepCrash
    <3>2. QED
      BY <1>1, <3>1, BooksUnposted DEF Known
  <2>3. QED
    BY <2>1, <2>2
<1>3. pc \in [Procs -> Labels] /\ doc = [r \in Procs |-> doc[r]]
  BY DEF TransferInv, Typed, CallsTyped
<1>4. pc[p] \in DepLabels
  BY DEF DepositStep, DepInsert, DepMark, DepPosting, DepPended, DepConfirm, DepCrash, DepLabels
<1>5. \/ UNCHANGED doc /\ \E label : pc' = [pc EXCEPT ![p] = label]
      \/ pc' = [pc EXCEPT ![p] = "idle"] /\ doc' = [doc EXCEPT ![p] = NoRequest]
  BY DEF DepositStep, DepInsert, DepMark, DepPosting, DepPended, DepConfirm, DepCrash,
         DepOnward, DepStop, Goto
<1>6. ASSUME NEW r \in Procs, pc'[r] \in DepLabels PROVE doc'[r] \in arrived
  <2>1. CASE UNCHANGED doc /\ \E label : pc' = [pc EXCEPT ![p] = label]
    <3>1. pc[r] \in DepLabels
      BY <1>3, <1>4, <1>6, <2>1
    <3>2. QED
      BY <2>1, <3>1 DEF Known
  <2>2. CASE pc' = [pc EXCEPT ![p] = "idle"] /\ doc' = [doc EXCEPT ![p] = NoRequest]
    <3>1. "idle" \notin DepLabels
      BY DEF DepLabels
    <3>2. r # p /\ pc[r] \in DepLabels /\ doc'[r] = doc[r]
      BY <1>3, <1>6, <2>2, <3>1
    <3>3. QED
      BY <3>2 DEF Known
  <2>3. QED
    BY <1>5, <2>1, <2>2
<1>7. QED
  BY <1>1, <1>2, <1>6 DEF Known, ArrivedKnown
-----------------------------------------------------------------------------
(* The books at the start *)

LEMMA SeedsHeld ==
  ASSUME Init, IsFiniteSet(Wallets)
  PROVE  Total(ledger) = Seeds
<1>1. PICK f : f = HeldIn(ledger)
  OBVIOUS
<1>2. Funds \in Nat
  BY LedgerLegsAssumption
<1>3. \A w \in Wallets : f[w] = IF w \in Funded THEN Funds ELSE 0
  <2>1. SUFFICES ASSUME NEW w \in Wallets
                 PROVE  f[w] = IF w \in Funded THEN Funds ELSE 0
    OBVIOUS
  <2>2. f[w] = Held(ledger.rows[w].bal)
    BY <1>1 DEF HeldIn
  <2>3. w \in Funded => ledger.rows[w].bal = [ZeroBalance EXCEPT !.available = Funds]
    BY SeededWallet, SeedTyped
  <2>4. w \notin Funded => ledger.rows[w].bal = ZeroBalance
    BY SeededWallet
  <2>5. QED
    BY <1>2, <2>2, <2>3, <2>4 DEF Held, ZeroBalance
<1>4. PICK F : F = {T \in SUBSET Wallets :
                     SumFunctionOnSet(f, T) = Cardinality(T \cap Funded) * Funds}
  OBVIOUS
<1>5. {} \in F
  <2>1. SumFunctionOnSet(f, {}) = 0
    BY SumEmpty
  <2>2. {} \cap Funded = {} /\ Cardinality({}) = 0
    BY FS_EmptySet
  <2>3. QED
    BY <1>2, <1>4, <2>1, <2>2
<1>6. ASSUME NEW T \in SUBSET Wallets, T # {}, \A x \in T : T \ {x} \in F
      PROVE  T \in F
  <2>1. PICK x \in T : TRUE
    BY <1>6
  <2>2. IsFiniteSet(T) /\ \A y \in T : f[y] \in Nat
    BY <1>2, <1>3, FS_Subset
  <2>3. SumFunctionOnSet(f, T) = f[x] + SumFunctionOnSet(f, T \ {x})
    BY <2>2, SumRemove
  <2>4. PICK A, B : A = T \cap Funded /\ B = (T \ {x}) \cap Funded
    OBVIOUS
  <2>5. SumFunctionOnSet(f, T \ {x}) = Cardinality(B) * Funds
    BY <1>4, <1>6, <2>4
  <2>6. B = A \ {x} /\ (x \notin Funded => B = A) /\ (x \in Funded => x \in A)
    BY <2>4
  <2>7. IsFiniteSet(A) /\ IsFiniteSet(B)
    BY <2>2, <2>4, FS_Subset
  <2>8. PICK a \in Nat, b \in Nat : a = Cardinality(A) /\ b = Cardinality(B)
    BY <2>7, FS_CardinalityType
  <2>9. CASE x \in Funded
    <3>1. b = a - 1
      BY <2>6, <2>7, <2>8, <2>9, FS_RemoveElement
    <3>2. f[x] = Funds
      BY <1>3, <2>9
    <3>3. a * Funds = Funds + b * Funds
      BY <1>2, <2>8, <3>1
    <3>4. QED
      BY <1>4, <2>3, <2>4, <2>5, <2>8, <3>2, <3>3
  <2>10. CASE x \notin Funded
    <3>1. b = a /\ f[x] = 0
      BY <1>3, <2>6, <2>8, <2>10
    <3>2. b * Funds \in Nat
      BY <1>2, <2>8
    <3>3. QED
      BY <1>4, <2>3, <2>4, <2>5, <2>8, <3>1, <3>2
  <2>11. QED
    BY <2>9, <2>10
<1>7. Wallets \in F
  <2>1. \A T \in SUBSET Wallets : T # {} /\ (\A x \in T : T \ {x} \in F) => T \in F
    BY <1>6
  <2>2. QED
    BY <1>5, <2>1, SetInduction
<1>8. Wallets \cap Funded = Funded
  BY LedgerLegsAssumption
<1>9. QED
  BY <1>1, <1>4, <1>7, <1>8 DEF Total, Seeds

LEMMA BooksOpen ==
  ASSUME DepositInit, IsFiniteSet(Wallets)
  PROVE  Balanced /\ Known
<1>1. Init /\ transfers = {} /\ arrived = {} /\ pc = [p \in Procs |-> "idle"]
  BY DEF DepositInit, OnchainInit, Init
<1>2. Underway = {}
  BY <1>1 DEF Underway
<1>3. Credited = {}
  <2>1. ASSUME NEW d \in Deposits, Posted(ledger, <<d.id, "pending">>) PROVE FALSE
    <3>1. PICK w \in Wallets : \E i \in 1..Len(ledger.movements[w]) :
            ledger.movements[w][i].key = <<d.id, "pending">>
      BY <2>1 DEF Posted
    <3>2. PICK i \in 1..Len(ledger.movements[w]) :
            ledger.movements[w][i].key = <<d.id, "pending">>
      BY <3>1
    <3>3. CASE w \notin Funded
      <4>1. ledger.movements[w] = <<>>
        BY <1>1, <3>3, SeededWallet
      <4>2. QED
        BY <3>2, <4>1
    <3>4. CASE w \in Funded
      <4>1. PICK m : m = SeedMovement(w) /\ ledger.movements[w] = <<m>>
        BY <1>1, <3>4, SeededWallet
      <4>2. i = 1 /\ m.key = <<d.id, "pending">>
        BY <3>2, <4>1
      <4>3. m.key = <<w, "seed">>
        BY <3>4, <4>1, SeedTyped
      <4>4. QED
        BY <4>2, <4>3
    <3>5. QED
      BY <3>3, <3>4
  <2>2. QED
    BY <2>1 DEF Credited
<1>4. /\ SumFunctionOnSet(HalfAmount, {}) = 0 /\ SumFunctionOnSet(Brought, {}) = 0
      /\ IsFiniteSet({})
  BY SumEmpty, FS_EmptySet
<1>5. Total(ledger) = Seeds /\ Seeds \in Nat
  BY <1>1, SeedsHeld, SeedsTyped
<1>6. Balanced
  BY <1>2, <1>3, <1>4, <1>5 DEF Balanced
<1>7. \A p \in Procs : pc[p] \notin DepLabels
  BY <1>1 DEF DepLabels
<1>8. Known
  BY <1>1, <1>3, <1>4, <1>7 DEF Known, ArrivedKnown
<1>9. QED
  BY <1>6, <1>8

LEMMA BooksNext ==
  ASSUME OneCall, FeeApart, WatchedApart, IsFiniteSet(Wallets), TransferInv, Balanced,
         Known, DepositNext
  PROVE  Balanced' /\ Known'
<1>1. CASE LedgerTransferNext /\ UNCHANGED <<onVars, depVars>>
  BY <1>1, BooksCreate, BooksLedger DEF LedgerTransferNext
<1>2. CASE UNCHANGED depVars /\ \E p \in Procs, q \in OnchainRequests : createOnchainTransfer(p, q)
  BY <1>2, BooksCreate
<1>3. CASE UNCHANGED depVars /\ \E p \in Procs : OnchainStep(p)
  BY <1>3, BooksOnchain
<1>4. CASE UNCHANGED depVars /\ \E p \in Procs : OnchainStop(p)
  BY <1>4, BooksOnchain
<1>5. CASE /\ UNCHANGED depVars
           /\ \E q \in OnchainRequests : \E i \in 1..Len(pays[q]) : PaymentResolves(q, i)
  <2>1. UNCHANGED <<ledger, transfers, pc, doc, arrived>>
    BY <1>5 DEF PaymentResolves, vars, depVars
  <2>2. QED
    BY <2>1, BooksElsewhere
<1>6. CASE \E d \in Deposits : Arrives(d)
  <2>1. /\ UNCHANGED <<ledger, transfers, pc, doc>>
        /\ \E d \in Deposits : arrived' = arrived \cup {d}
    BY <1>6 DEF Arrives, walletVars, vars
  <2>2. QED
    BY <2>1, BooksElsewhere
<1>7. CASE \E p \in Procs, d \in OnStellar : processDeposit(p, d)
  BY <1>7, BooksProcess
<1>8. CASE \E p \in Procs : DepositStep(p)
  BY <1>8, BooksDepositStep
<1>9. CASE \E p \in Procs : DepCrash(p)
  BY <1>9, BooksDepositStep
<1>10. QED
  BY <1>1, <1>2, <1>3, <1>4, <1>5, <1>6, <1>7, <1>8, <1>9 DEF DepositNext, OnchainNext

\* A part of a sum is no more than the sum.
LEMMA SumPart ==
  ASSUME NEW f, NEW S, IsFiniteSet(S), \A x \in S : f[x] \in Nat, NEW T \in SUBSET S
  PROVE  SumFunctionOnSet(f, T) <= SumFunctionOnSet(f, S)
<1>1. PICK F : F = {U \in SUBSET S : SumFunctionOnSet(f, U \cap T) <= SumFunctionOnSet(f, U)}
  OBVIOUS
<1>2. {} \in F
  <2>1. {} \cap T = {} /\ SumFunctionOnSet(f, {}) = 0
    BY SumEmpty
  <2>2. SumFunctionOnSet(f, {} \cap T) <= SumFunctionOnSet(f, {})
    BY <2>1
  <2>3. QED
    BY <1>1, <2>2
<1>3. ASSUME NEW U \in SUBSET S, U # {}, \A x \in U : U \ {x} \in F
      PROVE  U \in F
  <2>1. PICK x \in U : TRUE
    BY <1>3
  <2>2. PICK A, B, V : A = U \cap T /\ V = U \ {x} /\ B = V \cap T
    OBVIOUS
  <2>3. IsFiniteSet(U) /\ IsFiniteSet(V) /\ IsFiniteSet(A) /\ IsFiniteSet(B)
    BY <2>2, FS_Subset
  <2>4. PICK a, b, u, v : /\ a = SumFunctionOnSet(f, A) /\ b = SumFunctionOnSet(f, B)
                          /\ u = SumFunctionOnSet(f, U) /\ v = SumFunctionOnSet(f, V)
    OBVIOUS
  <2>5. a \in Nat /\ b \in Nat /\ u \in Nat /\ v \in Nat /\ f[x] \in Nat
    BY <2>2, <2>3, <2>4, SumType
  <2>6. u = f[x] + v
    BY <2>2, <2>3, <2>4, SumRemove
  <2>7. b <= v
    BY <1>1, <1>3, <2>2, <2>4
  <2>8. x \in T => a = f[x] + b
    <3>1. x \in T => x \in A /\ B = A \ {x}
      BY <2>2
    <3>2. QED
      BY <2>2, <2>3, <2>4, <3>1, SumRemove
  <2>9. x \notin T => a = b
    <3>1. x \notin T => A = B
      BY <2>2
    <3>2. QED
      BY <2>4, <3>1
  <2>10. a <= u
    BY <2>5, <2>6, <2>7, <2>8, <2>9
  <2>11. QED
    BY <1>1, <2>2, <2>4, <2>10
<1>4. S \in F
  <2>1. \A U \in SUBSET S : U # {} /\ (\A x \in U : U \ {x} \in F) => U \in F
    BY <1>3
  <2>2. QED
    BY <1>2, <2>1, SetInduction
<1>5. S \cap T = T
  OBVIOUS
<1>6. QED
  BY <1>1, <1>4, <1>5

LEMMA BooksShow ==
  ASSUME IsFiniteSet(Wallets), TransferInv, Balanced, Known
  PROVE  NothingInvented
<1>1. SumFunction(Holdings) = Total(ledger)
  <2>1. DOMAIN Holdings = Wallets /\ \A w \in Wallets : Holdings[w] = HeldIn(ledger)[w]
    BY DEF Holdings, HeldIn, Held
  <2>2. PICK f, g : f = Holdings /\ g = HeldIn(ledger)
    OBVIOUS
  <2>3. SumFunctionOnSet(f, Wallets) = SumFunctionOnSet(g, Wallets)
    BY <2>1, <2>2, SumSame
  <2>4. QED
    BY <2>1, <2>2, <2>3 DEF Total, SumFunction
<1>2. \A d \in Deposits : Brought[d] \in Nat
  <2>1. ASSUME NEW d \in Deposits PROVE d.amount \in Nat
    <3>1. DepositLeg("dep.pending", d) \in Leg
      BY DepositLegsAssumption DEF Payments
    <3>2. DepositLeg("dep.pending", d).amount = d.amount
      BY DEF DepositLeg
    <3>3. QED
      BY <3>1, <3>2, AmountsAssumption DEF Leg
  <2>2. QED
    BY <2>1 DEF Brought
<1>3. PICK t, h, s, c, a : /\ t = Total(ledger) /\ h = SumFunctionOnSet(HalfAmount, Underway)
                           /\ s = Seeds /\ c = SumFunctionOnSet(Brought, Credited)
                           /\ a = SumFunctionOnSet(Brought, arrived)
  OBVIOUS
<1>4. h \in Nat
  <2>1. \A x \in Underway : HalfAmount[x] \in Nat
    BY HalfFields DEF Underway
  <2>2. QED
    BY <1>3, <2>1, SumType DEF Balanced
<1>5. c \in Nat /\ a \in Nat /\ c <= a
  <2>1. \A d \in arrived : Brought[d] \in Nat
    BY <1>2 DEF Known, ArrivedKnown
  <2>2. c <= a
    BY <1>3, <2>1, SumPart DEF Known
  <2>3. \A d \in Credited : Brought[d] \in Nat
    BY <2>1 DEF Known
  <2>4. QED
    BY <1>3, <2>1, <2>2, <2>3, SumType DEF Known, Balanced
<1>6. s \in Nat
  BY <1>3, SeedsTyped
<1>7. t \in Nat
  <2>1. ledger \in Ledger
    BY DEF TransferInv, Typed, RowsTyped, Well
  <2>2. \A w \in Wallets : HeldIn(ledger)[w] \in Nat
    BY <2>1, HeldTyped
  <2>3. QED
    BY <1>3, <2>2, SumType DEF Total
<1>8. t + h = s + c
  BY <1>3 DEF Balanced
<1>9. t <= s + a
  BY <1>4, <1>5, <1>6, <1>7, <1>8
<1>10. QED
  BY <1>1, <1>3, <1>9 DEF NothingInvented, Seeds

\* The books of transfers and deposits balance at all times: what the wallets hold, with
\* the halves of finalized transfers that are still to be credited, is what they were given
\* at the start with every deposit that is credited, and each of those has arrived
\* (finalizeConfirmed and the transaction of createInternalTransfer move, only
\* creditVerifiedDeposit brings in).
THEOREM TransfersBalance ==
  OneCall /\ FeeApart /\ WatchedApart /\ IsFiniteSet(Wallets) =>
    (DepositSpec => [](Balanced /\ Known))
<1>. SUFFICES ASSUME OneCall, FeeApart, WatchedApart, IsFiniteSet(Wallets)
              PROVE  DepositSpec => [](Balanced /\ Known)
  OBVIOUS
<1>1. DepositInit => Balanced /\ Known
  BY BooksOpen
<1>2. /\ TransferInv /\ Balanced /\ Known /\ [DepositNext]_everyVar
      => (Balanced /\ Known)'
  <2>1. ASSUME TransferInv, Balanced, Known, UNCHANGED everyVar
        PROVE  Balanced' /\ Known'
    <3>1. UNCHANGED <<ledger, transfers, pc, doc, arrived>>
      BY <2>1 DEF everyVar, walletVars, vars, depVars
    <3>2. QED
      BY <2>1, <3>1, BooksElsewhere
  <2>2. QED
    BY <2>1, BooksNext
<1>3. QED
  BY <1>1, <1>2, TransfersInvariant, PTL DEF DepositSpec

\* "Never credits twice" (creditVerifiedDeposit, finalizeConfirmed): at all times the
\* wallets hold no more than they were given at the start and what arrived from outside,
\* for any deposits and transfers and whatever calls stop where.
THEOREM NothingIsInvented ==
  OneCall /\ FeeApart /\ WatchedApart /\ IsFiniteSet(Wallets) =>
    (DepositSpec => []NothingInvented)
<1>. SUFFICES ASSUME OneCall, FeeApart, WatchedApart, IsFiniteSet(Wallets)
              PROVE  DepositSpec => []NothingInvented
  OBVIOUS
<1>1. TransferInv /\ Balanced /\ Known => NothingInvented
  BY BooksShow
<1>2. QED
  BY <1>1, TransfersInvariant, TransfersBalance, PTL
=============================================================================
