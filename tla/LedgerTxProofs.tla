---------------------------- MODULE LedgerTxProofs ----------------------------
(***************************************************************************)
(* Machine-checked proof that the concurrent ledger implements the atomic  *)
(* one, for any number of calls, wallets, keys and amounts, that it is     *)
(* therefore as sound as the atomic one, and that a caller told "posted"   *)
(* or "duplicate" finds all its movements posted.  At the end: calls on    *)
(* wallets that exist do not wait for each other in a cycle.               *)
(*                                                                         *)
(* The argument.  A row a call has written stays locked until its          *)
(* transaction ends, so what the call will publish is, at every statement, *)
(* the committed ledger with the groups it has posted applied to it        *)
(* (Base): its rows and movements agree with that ledger on the wallets it *)
(* holds (Working).  A commit or a change of status by someone else cannot *)
(* touch those wallets (SameOn) and only adds postings under other keys    *)
(* (OthersStable).  At COMMIT the published ledger therefore is Base, and  *)
(* Base is what PostOne, Transfer or TransferWithFee computes.             *)
(***************************************************************************)
EXTENDS InfraLedgerTx, LedgerLemmas

PcNames == {"idle", "find", "ensure", "insertRow", "active", "lock", "check", "insert",
            "refind", "commit"}

\* All that a call keeps, as one record.
Session(s) ==
  [pc |-> pc[s], req |-> req[s], grp |-> grp[s], at |-> at[s], hit |-> hit[s],
   mine |-> mine[s], after |-> after[s], ins |-> ins[s], out |-> out[s]]

-----------------------------------------------------------------------------
(* The ledger with groups of a request posted. *)

WalletsOf(g) == {g[i].wallet : i \in 1..Len(g)}

EnsureAll(L, g) ==
  IF Len(g) = 1 THEN ensureWalletAccount(L, g[1].wallet)
  ELSE ensureWalletAccount(ensureWalletAccount(L, g[1].wallet), g[2].wallet)

PostGroup(L, g) ==
  IF Len(g) = 1 THEN Post(EnsureAll(L, g), g[1]) ELSE PostPair(EnsureAll(L, g), g[1], g[2])

\* The groups of r whose numbers are in D, in order.
Base(L, r, D) ==
  LET A == IF 1 \in D THEN PostGroup(L, r[1]) ELSE L
  IN IF 2 \in D THEN PostGroup(A, r[2]) ELSE A

\* The status of a row once ensureWalletAccount has seen it.
Opening(row) == IF row.status = "absent" THEN "active" ELSE row.status

Open(row) == [status |-> Opening(row), bal |-> row.bal]

CoveredOn(B, g) == \A i \in 1..Len(g) : Covers(g[i].op, B.rows[g[i].wallet].bal, g[i].amount)

ActiveOn(B, g) ==
  Len(g) = 2 /\ g[1].type = "internal_transfer_debit" =>
    \A i \in 1..Len(g) : Opening(B.rows[g[i].wallet]) = "active"

-----------------------------------------------------------------------------
(* The inductive invariant. *)

\* The committed ledger is typed, and a row that is not there holds nothing.
LedgerOK(L) ==
  L \in Ledger /\ \A w \in Wallets : L.rows[w].status = "absent" => L.rows[w].bal = ZeroBalance

Cur(S) == S.req[S.grp]

Idle(S) == S.pc \in {"idle", "refind"}

HasKey(S, key) == \E w \in Wallets : \E i \in 1..Len(S.ins[w]) : S.ins[w][i].key = key

Sees(L, S, w) == IF w \in DOMAIN S.mine THEN S.mine[w] ELSE L.rows[w]

SessionOK(L, S) ==
  /\ S.pc \in PcNames
  /\ S.pc = "idle" => S.grp = 1 /\ S.at = 1
  /\ S.pc \in {"active", "lock", "check"} => S.at = 1
  /\ S.pc # "idle" => S.req \in Requests /\ S.grp \in 1..Len(S.req) /\ S.at \in 1..Len(Cur(S))
  /\ DOMAIN S.mine \subseteq Wallets
  /\ \A w \in DOMAIN S.mine : S.mine[w] \in Row /\ S.mine[w].status # "absent"
  /\ S.ins \in [Wallets -> Seq(Movement)]
  /\ \A w \in Wallets \ DOMAIN S.mine : S.ins[w] = <<>>
  /\ \A k \in S.hit : Posted(L, k)
  /\ \A k \in Keys : HasKey(S, k) => ~Posted(L, k)
  /\ Idle(S) => DOMAIN S.mine = {}
  /\ S.pc = "refind" => Len(Cur(S)) = 1
  /\ S.out \in {"posted", "duplicate"} =>
       \A g \in 1..Len(S.req) : \A i \in 1..Len(S.req[g]) : Posted(L, S.req[g][i].key)

Completed(S) == IF S.pc = "commit" THEN 1..Len(S.req) ELSE 1..(S.grp - 1)

\* Group g was posted on B: its legs were covered, their rows are held, their
\* movements inserted, their slots free in the committed ledger.
Ready(L, B, S, g) ==
  /\ CoveredOn(B, g) /\ ActiveOn(B, g)
  /\ \A i \in 1..Len(g) :
       g[i].wallet \in DOMAIN S.mine /\ HasKey(S, g[i].key) /\ ~SlotTaken(L, g[i])

\* Of the completed groups those in D were posted, the others were duplicates.
Done(L, S, D) ==
  /\ D \subseteq Completed(S)
  /\ \A g \in Completed(S) \ D : \A i \in 1..Len(S.req[g]) : Posted(L, S.req[g][i].key)
  /\ 1 \in D => Ready(L, L, S, S.req[1])
  /\ 2 \in D => Ready(L, Base(L, S.req, D \ {2}), S, S.req[2])

WalletsDone(S, D) == UNION {WalletsOf(S.req[g]) : g \in D}

\* On wallet w the call has posted what B has.
AsIn(L, B, S, w) ==
  S.mine[w] = Open(B.rows[w]) /\ L.movements[w] \o S.ins[w] = B.movements[w]

\* Before the rows of the current group are written.
Reading(L, B, S) ==
  /\ \A w \in DOMAIN S.mine : AsIn(L, B, S, w)
  /\ S.pc \in {"ensure", "insertRow"} =>
       \A i \in 1..(S.at - 1) : Sees(L, S, Cur(S)[i].wallet).status # "absent"
  /\ S.pc \in {"active", "lock"} =>
       \A i \in 1..Len(Cur(S)) : Sees(L, S, Cur(S)[i].wallet).status # "absent"
  /\ S.pc = "check" => WalletsOf(Cur(S)) \subseteq DOMAIN S.mine

\* Leg i of the current group: its row is written, and if its turn has come its
\* movement is inserted.
LegWritten(L, B, S, i) ==
  LET l == Cur(S)[i]
  IN /\ S.after[i] = NewBalance(B, l)
     /\ S.mine[l.wallet] = [status |-> Opening(B.rows[l.wallet]), bal |-> NewBalance(B, l)]
     /\ L.movements[l.wallet] \o S.ins[l.wallet] =
          IF i < S.at THEN Append(B.movements[l.wallet], NewMovement(B, l))
          ELSE B.movements[l.wallet]
     /\ i < S.at => HasKey(S, l.key) /\ ~SlotTaken(L, l)

\* While the movements of the current group are inserted.
Writing(L, B, S) ==
  /\ CoveredOn(B, Cur(S)) /\ ActiveOn(B, Cur(S))
  /\ WalletsOf(Cur(S)) \subseteq DOMAIN S.mine
  /\ \A w \in DOMAIN S.mine \ WalletsOf(Cur(S)) : AsIn(L, B, S, w)
  /\ \A i \in 1..Len(Cur(S)) : LegWritten(L, B, S, i)

Working(L, S, D) ==
  /\ Done(L, S, D)
  /\ DOMAIN S.mine \subseteq
       IF S.pc \in {"find", "commit"} THEN WalletsDone(S, D)
       ELSE WalletsDone(S, D) \cup WalletsOf(Cur(S))
  /\ IF S.pc = "insert" THEN Writing(L, Base(L, S.req, D), S)
     ELSE Reading(L, Base(L, S.req, D), S)

Progress(L, S) == ~Idle(S) => \E D \in SUBSET (1..2) : Working(L, S, D)

\* Two calls hold different rows and have inserted different keys.
Apart(S, T) ==
  /\ DOMAIN S.mine \cap DOMAIN T.mine = {}
  /\ \A k \in Keys : ~(HasKey(S, k) /\ HasKey(T, k))

TxInv ==
  /\ LedgerOK(ledger)
  /\ \A s \in Sessions : SessionOK(ledger, Session(s)) /\ Progress(ledger, Session(s))
  /\ \A s, t \in Sessions : s # t => Apart(Session(s), Session(t))

\* The variables are functions on Sessions.
TxShape ==
  /\ DOMAIN pc = Sessions /\ DOMAIN req = Sessions /\ DOMAIN grp = Sessions
  /\ DOMAIN at = Sessions /\ DOMAIN hit = Sessions /\ DOMAIN seen = Sessions
  /\ DOMAIN mine = Sessions /\ DOMAIN after = Sessions /\ DOMAIN ins = Sessions
  /\ DOMAIN out = Sessions

-----------------------------------------------------------------------------
(* Groups, and the ledger with a group posted. *)

\* What RequestsAssumption says of one group.
GoodGroup(g) ==
  /\ Len(g) \in {1, 2}
  /\ \A i \in 1..Len(g) : g[i] \in Leg
  /\ Len(g) = 2 => IsPair(g[1], g[2])

LEMMA RequestGroups ==
  ASSUME NEW r \in Requests
  PROVE  /\ Len(r) \in {1, 2}
         /\ \A k \in 1..Len(r) : GoodGroup(r[k])
         /\ Len(r) = 2 => IsTransfer(r[1]) /\ IsFee(r[2])
                          /\ \A i, j \in 1..2 : r[1][i].key # r[2][j].key
<1>1. /\ r \in Seq(Seq(Leg))
      /\ \/ Len(r) = 1 /\ (Len(r[1]) = 1 \/ IsTransfer(r[1]))
         \/ /\ Len(r) = 2 /\ IsTransfer(r[1]) /\ IsFee(r[2])
            /\ \A i, j \in 1..2 : r[1][i].key # r[2][j].key
  BY RequestsAssumption
<1>2. ASSUME NEW k \in 1..Len(r)
      PROVE  GoodGroup(r[k])
  <2>1. r[k] \in Seq(Leg)
    <3>1. PICK T : T = Seq(Leg)
      OBVIOUS
    <3>2. r \in Seq(T) /\ k \in 1..Len(r)
      BY <1>1, <3>1
    <3>3. r[k] \in T
      BY <3>2
    <3>4. QED
      BY <3>1, <3>3
  <2>2. \A i \in 1..Len(r[k]) : r[k][i] \in Leg
    BY <2>1
  <2>3. Len(r[k]) = 1 \/ IsTransfer(r[k]) \/ IsFee(r[k])
    <3>1. CASE Len(r) = 1
      <4>1. k = 1
        BY <3>1
      <4>2. QED
        BY <1>1, <3>1, <4>1
    <3>2. CASE Len(r) = 2
      <4>1. k = 1 \/ k = 2
        BY <3>2
      <4>2. QED
        BY <1>1, <3>2, <4>1
    <3>3. QED
      BY <1>1, <3>1, <3>2
  <2>4. QED
    BY <2>2, <2>3 DEF GoodGroup, IsTransfer, IsFee
<1>3. CASE Len(r) = 1
  BY <1>2, <1>3
<1>4. CASE Len(r) = 2
  BY <1>1, <1>2, <1>4
<1>5. QED
  BY <1>1, <1>3, <1>4

\* The fields of a leg, and of the legs of a group.
LEMMA LegFields ==
  ASSUME NEW l \in Leg
  PROVE  /\ l.wallet \in Wallets /\ l.key \in Keys /\ l.op \in OpNames /\ l.amount \in Nat
         /\ l.type \in MovementTypes
  BY AmountsAssumption DEF Leg

LEMMA GroupFields ==
  ASSUME NEW g, GoodGroup(g)
  PROVE  /\ WalletsOf(g) \subseteq Wallets
         /\ \A i \in 1..Len(g) : g[i].wallet \in WalletsOf(g)
         /\ \A i, j \in 1..Len(g) : i # j => g[i].wallet # g[j].wallet /\ g[i].key # g[j].key
         /\ Len(g) = 1 => WalletsOf(g) = {g[1].wallet} /\ 1..Len(g) = {1}
         /\ Len(g) = 2 => WalletsOf(g) = {g[1].wallet, g[2].wallet} /\ 1..Len(g) = {1, 2}
<1>1. \A i \in 1..Len(g) : g[i] \in Leg /\ g[i].wallet \in Wallets
  BY LegFields DEF GoodGroup
<1>2. CASE Len(g) = 1
  <2>1. 1..Len(g) = {1}
    BY <1>2
  <2>2. QED
    BY <1>1, <1>2, <2>1 DEF WalletsOf
<1>3. CASE Len(g) = 2
  <2>1. 1..Len(g) = {1, 2}
    BY <1>3
  <2>2. g[1].wallet # g[2].wallet /\ g[1].key # g[2].key
    BY <1>3 DEF GoodGroup, IsPair
  <2>3. QED
    BY <1>1, <1>3, <2>1, <2>2 DEF WalletsOf
<1>4. QED
  BY <1>2, <1>3 DEF GoodGroup

LEMMA GroupNumber ==
  ASSUME NEW r \in Requests, NEW n \in 1..Len(r)
  PROVE  n \in 1..2 /\ (n = 1 \/ n = 2) /\ (n = 2 => Len(r) = 2)
<1>1. Len(r) \in {1, 2}
  BY RequestGroups
<1>2. PICK m : m = Len(r)
  OBVIOUS
<1>3. m \in {1, 2} /\ n \in 1..m
  BY <1>1, <1>2
<1>4. n \in 1..2 /\ (n = 1 \/ n = 2) /\ (n = 2 => m = 2)
  BY <1>3
<1>5. QED
  BY <1>2, <1>4

LEMMA GroupFirst == ASSUME NEW g, GoodGroup(g) PROVE 1 \in 1..Len(g)
<1>1. PICK m : m = Len(g)
  OBVIOUS
<1>2. m \in {1, 2}
  BY <1>1 DEF GoodGroup
<1>3. 1 \in 1..m
  BY <1>2
<1>4. QED
  BY <1>1, <1>3

\* ensureWalletAccount opens one row.
LEMMA EnsureFields ==
  ASSUME NEW L \in Ledger, NEW w \in Wallets
  PROVE  /\ ensureWalletAccount(L, w) \in Ledger
         /\ ensureWalletAccount(L, w).movements = L.movements
         /\ \A v \in Wallets : ensureWalletAccount(L, w).rows[v] =
              IF v = w THEN Open(L.rows[v]) ELSE L.rows[v]
<1>1. /\ L.rows \in [Wallets -> Row] /\ L.movements \in [Wallets -> Seq(Movement)]
      /\ L = [rows |-> L.rows, movements |-> L.movements]
  BY DEF Ledger
<1>2. L.rows[w] \in Row /\ L.rows[w] = [status |-> L.rows[w].status, bal |-> L.rows[w].bal]
  BY <1>1 DEF Row
<1>3. CASE L.rows[w].status # "absent"
  <2>1. ensureWalletAccount(L, w) = L
    BY <1>3 DEF ensureWalletAccount
  <2>2. Open(L.rows[w]) = L.rows[w]
    BY <1>2, <1>3 DEF Open, Opening
  <2>3. QED
    BY <2>1, <2>2
<1>4. CASE L.rows[w].status = "absent"
  <2>. DEFINE M == [L EXCEPT !.rows[w].status = "active"]
  <2>1. ensureWalletAccount(L, w) = M
    BY <1>4 DEF ensureWalletAccount
  <2>2. /\ M.rows = [L.rows EXCEPT ![w] = [L.rows[w] EXCEPT !.status = "active"]]
        /\ M.movements = L.movements
    BY DEF Ledger
  <2>3. [L.rows[w] EXCEPT !.status = "active"] = Open(L.rows[w])
    BY <1>2, <1>4 DEF Open, Opening
  <2>6. M \in Ledger
    BY DEF Ledger, Row, Statuses
  <2>7. \A v \in Wallets : M.rows[v] = IF v = w THEN Open(L.rows[v]) ELSE L.rows[v]
    BY <1>1, <2>2, <2>3
  <2>8. QED
    BY <2>1, <2>2, <2>6, <2>7
<1>5. QED
  BY <1>3, <1>4

LEMMA EnsureAllFields ==
  ASSUME NEW L \in Ledger, NEW g, GoodGroup(g)
  PROVE  /\ EnsureAll(L, g) \in Ledger
         /\ EnsureAll(L, g).movements = L.movements
         /\ \A v \in Wallets : EnsureAll(L, g).rows[v] =
              IF v \in WalletsOf(g) THEN Open(L.rows[v]) ELSE L.rows[v]
<1>1. \A i \in 1..Len(g) : g[i].wallet \in Wallets
  BY LegFields DEF GoodGroup
<1>2. CASE Len(g) = 1
  <2>1. WalletsOf(g) = {g[1].wallet} /\ g[1].wallet \in Wallets
    BY <1>1, <1>2, GroupFields
  <2>2. EnsureAll(L, g) = ensureWalletAccount(L, g[1].wallet)
    BY <1>2 DEF EnsureAll
  <2>3. QED
    BY <2>1, <2>2, EnsureFields
<1>3. CASE Len(g) = 2
  <2>0. PICK M : M = ensureWalletAccount(L, g[1].wallet)
    OBVIOUS
  <2>1. /\ WalletsOf(g) = {g[1].wallet, g[2].wallet}
        /\ g[1].wallet \in Wallets /\ g[2].wallet \in Wallets /\ g[1].wallet # g[2].wallet
    BY <1>1, <1>3, GroupFields
  <2>2. PICK E : E = ensureWalletAccount(M, g[2].wallet)
    OBVIOUS
  <2>3. /\ M \in Ledger /\ M.movements = L.movements
        /\ \A v \in Wallets : M.rows[v] = IF v = g[1].wallet THEN Open(L.rows[v]) ELSE L.rows[v]
    BY <2>0, <2>1, EnsureFields
  <2>4. /\ E \in Ledger /\ E.movements = M.movements
        /\ \A v \in Wallets : E.rows[v] = IF v = g[2].wallet THEN Open(M.rows[v]) ELSE M.rows[v]
    BY <2>1, <2>2, <2>3, EnsureFields
  <2>5. ASSUME NEW v \in Wallets
        PROVE  E.rows[v] =
                 IF v \in WalletsOf(g) THEN Open(L.rows[v]) ELSE L.rows[v]
    <3>1. CASE v = g[1].wallet
      BY <2>1, <2>3, <2>4, <3>1
    <3>2. CASE v = g[2].wallet
      BY <2>1, <2>3, <2>4, <3>2
    <3>3. CASE v # g[1].wallet /\ v # g[2].wallet
      BY <2>1, <2>3, <2>4, <3>3
    <3>4. QED
      BY <3>1, <3>2, <3>3
  <2>6. EnsureAll(L, g) = E
    BY <1>3, <2>0, <2>2 DEF EnsureAll
  <2>7. QED
    BY <2>3, <2>4, <2>5, <2>6
<1>4. QED
  BY <1>2, <1>3 DEF GoodGroup

\* One posting, wallet by wallet.
LEMMA PostPointwise ==
  ASSUME NEW L \in Ledger, NEW l \in Leg, Covers(l.op, L.rows[l.wallet].bal, l.amount),
         NEW P, P = Post(L, l)
  PROVE  /\ P \in Ledger
         /\ P.rows[l.wallet] = [status |-> L.rows[l.wallet].status, bal |-> NewBalance(L, l)]
         /\ P.movements[l.wallet] = Append(L.movements[l.wallet], NewMovement(L, l))
         /\ \A w \in Wallets \ {l.wallet} :
              P.rows[w] = L.rows[w] /\ P.movements[w] = L.movements[w]
<1>1. l.wallet \in Wallets
  BY LegFields
<1>2. L.rows \in [Wallets -> Row] /\ L.movements \in [Wallets -> Seq(Movement)]
  BY DEF Ledger
<1>3. /\ P.rows = [L.rows EXCEPT ![l.wallet] = [@ EXCEPT !.bal = NewBalance(L, l)]]
      /\ P.movements = [L.movements EXCEPT ![l.wallet] = Append(@, NewMovement(L, l))]
      /\ P \in Ledger
  BY PostFields
<1>4. P.rows[l.wallet] = [L.rows[l.wallet] EXCEPT !.bal = NewBalance(L, l)]
  BY <1>1, <1>2, <1>3
<1>5. L.rows[l.wallet] \in Row
  BY <1>1, <1>2
<1>6. P.rows[l.wallet] = [status |-> L.rows[l.wallet].status, bal |-> NewBalance(L, l)]
  BY <1>4, <1>5 DEF Row
<1>7. QED
  BY <1>1, <1>2, <1>3, <1>6

\* On wallet w the ledgers agree; leg l is all that P has more than L on its wallet.
SameAt(L, M, w) == L.rows[w] = M.rows[w] /\ L.movements[w] = M.movements[w]

LegPosted(L, P, l) ==
  /\ P.rows[l.wallet] = [status |-> Opening(L.rows[l.wallet]), bal |-> NewBalance(L, l)]
  /\ P.movements[l.wallet] = Append(L.movements[l.wallet], NewMovement(L, l))

\* A group posted, wallet by wallet: the debit does not disturb the credit.
LEMMA PostGroupFields ==
  ASSUME NEW L \in Ledger, NEW g, GoodGroup(g), CoveredOn(L, g), NEW P, P = PostGroup(L, g)
  PROVE  /\ P \in Ledger
         /\ \A i \in 1..Len(g) : LegPosted(L, P, g[i])
         /\ \A w \in Wallets \ WalletsOf(g) : SameAt(L, P, w)
<1>1. PICK E : E = EnsureAll(L, g)
  OBVIOUS
<1>2. /\ E \in Ledger /\ E.movements = L.movements
      /\ \A v \in Wallets : E.rows[v] = IF v \in WalletsOf(g) THEN Open(L.rows[v]) ELSE L.rows[v]
  BY <1>1, EnsureAllFields
<1>0. E \in Ledger
  BY <1>2
<1>3. ASSUME NEW i \in 1..Len(g)
      PROVE  /\ g[i] \in Leg /\ g[i].wallet \in Wallets
             /\ E.rows[g[i].wallet].status = Opening(L.rows[g[i].wallet])
             /\ E.rows[g[i].wallet].bal = L.rows[g[i].wallet].bal
             /\ NewBalance(E, g[i]) = NewBalance(L, g[i])
             /\ NewMovement(E, g[i]) = NewMovement(L, g[i])
             /\ Covers(g[i].op, E.rows[g[i].wallet].bal, g[i].amount)
  <2>1. g[i] \in Leg /\ g[i].wallet \in Wallets /\ g[i].wallet \in WalletsOf(g)
    BY LegFields, GroupFields DEF GoodGroup
  <2>2. E.rows[g[i].wallet] = Open(L.rows[g[i].wallet])
    BY <1>2, <2>1
  <2>3. /\ E.rows[g[i].wallet].status = Opening(L.rows[g[i].wallet])
        /\ E.rows[g[i].wallet].bal = L.rows[g[i].wallet].bal
    BY <2>2 DEF Open
  <2>4. NewBalance(E, g[i]) = NewBalance(L, g[i])
    BY <2>3 DEF NewBalance
  <2>5. NewMovement(E, g[i]) = NewMovement(L, g[i])
    BY <2>4 DEF NewMovement
  <2>6. Covers(g[i].op, E.rows[g[i].wallet].bal, g[i].amount)
    BY <2>3 DEF CoveredOn
  <2>7. QED
    BY <2>1, <2>3, <2>4, <2>5, <2>6
<1>4. \A v \in Wallets \ WalletsOf(g) : E.rows[v] = L.rows[v] /\ E.movements[v] = L.movements[v]
  BY <1>2
<1>5. CASE Len(g) = 1
  <2>1. /\ WalletsOf(g) = {g[1].wallet} /\ 1..Len(g) = {1} /\ P = Post(E, g[1])
        /\ 1 \in 1..Len(g)
    BY <1>1, <1>5, GroupFields DEF PostGroup
  <2>2. PICK d : d = g[1]
    OBVIOUS
  <2>3. d \in Leg /\ Covers(d.op, E.rows[d.wallet].bal, d.amount) /\ P = Post(E, d)
    BY <1>3, <2>1, <2>2
  <2>4. /\ P \in Ledger
        /\ P.rows[d.wallet] = [status |-> E.rows[d.wallet].status, bal |-> NewBalance(E, d)]
        /\ P.movements[d.wallet] = Append(E.movements[d.wallet], NewMovement(E, d))
        /\ \A w \in Wallets \ {d.wallet} :
             P.rows[w] = E.rows[w] /\ P.movements[w] = E.movements[w]
    BY <1>0, <2>3, PostPointwise
  <2>5. LegPosted(L, P, g[1])
    BY <1>2, <1>3, <2>1, <2>2, <2>4 DEF LegPosted
  <2>6. ASSUME NEW w \in Wallets \ WalletsOf(g)
        PROVE  SameAt(L, P, w)
    BY <1>4, <2>1, <2>2, <2>4 DEF SameAt
  <2>7. QED
    BY <2>1, <2>4, <2>5, <2>6
<1>6. CASE Len(g) = 2
  <2>1. /\ WalletsOf(g) = {g[1].wallet, g[2].wallet} /\ 1..Len(g) = {1, 2}
        /\ 1 \in 1..Len(g) /\ 2 \in 1..Len(g) /\ g[1].wallet # g[2].wallet
    BY <1>6, GroupFields
  <2>2. PICK d, c : d = g[1] /\ c = g[2]
    OBVIOUS
  <2>3. PICK Q : Q = Post(E, d)
    OBVIOUS
  <2>4. /\ d \in Leg /\ Covers(d.op, E.rows[d.wallet].bal, d.amount)
        /\ c \in Leg /\ Covers(c.op, E.rows[c.wallet].bal, c.amount)
        /\ d.wallet \in Wallets /\ c.wallet \in Wallets /\ d.wallet # c.wallet
    BY <1>3, <2>1, <2>2
  <2>5. /\ Q \in Ledger
        /\ Q.rows[d.wallet] = [status |-> E.rows[d.wallet].status, bal |-> NewBalance(E, d)]
        /\ Q.movements[d.wallet] = Append(E.movements[d.wallet], NewMovement(E, d))
        /\ \A w \in Wallets \ {d.wallet} :
             Q.rows[w] = E.rows[w] /\ Q.movements[w] = E.movements[w]
    BY <1>0, <2>3, <2>4, PostPointwise
  <2>6. Q.rows[c.wallet] = E.rows[c.wallet] /\ Q.movements[c.wallet] = E.movements[c.wallet]
    BY <2>4, <2>5
  <2>7. P = Post(Q, c)
    BY <1>1, <1>6, <2>2, <2>3, <2>6 DEF PostGroup, PostPair, Post
  <2>8. NewBalance(Q, c) = NewBalance(E, c)
    BY <2>6 DEF NewBalance
  <2>9. NewMovement(Q, c) = NewMovement(E, c)
    BY <2>8 DEF NewMovement
  <2>10. Covers(c.op, Q.rows[c.wallet].bal, c.amount)
    BY <2>4, <2>6
  <2>11. /\ P \in Ledger
         /\ P.rows[c.wallet] = [status |-> Q.rows[c.wallet].status, bal |-> NewBalance(Q, c)]
         /\ P.movements[c.wallet] = Append(Q.movements[c.wallet], NewMovement(Q, c))
         /\ \A w \in Wallets \ {c.wallet} :
              P.rows[w] = Q.rows[w] /\ P.movements[w] = Q.movements[w]
    BY <2>4, <2>5, <2>7, <2>10, PostPointwise
  <2>12. /\ P.rows[d.wallet] = [status |-> E.rows[d.wallet].status, bal |-> NewBalance(E, d)]
         /\ P.movements[d.wallet] = Append(E.movements[d.wallet], NewMovement(E, d))
         /\ P.rows[c.wallet] = [status |-> E.rows[c.wallet].status, bal |-> NewBalance(E, c)]
         /\ P.movements[c.wallet] = Append(E.movements[c.wallet], NewMovement(E, c))
    BY <2>4, <2>5, <2>6, <2>8, <2>9, <2>11
  <2>13. LegPosted(L, P, g[1])
    BY <1>2, <1>3, <2>1, <2>2, <2>12 DEF LegPosted
  <2>14. LegPosted(L, P, g[2])
    BY <1>2, <1>3, <2>1, <2>2, <2>12 DEF LegPosted
  <2>15. ASSUME NEW w \in Wallets \ WalletsOf(g)
         PROVE  SameAt(L, P, w)
    BY <1>4, <2>1, <2>2, <2>5, <2>11 DEF SameAt
  <2>16. QED
    BY <2>1, <2>11, <2>13, <2>14, <2>15
<1>7. QED
  BY <1>5, <1>6 DEF GoodGroup

-----------------------------------------------------------------------------
(* What a posting computes depends on the wallets of its legs only. *)

SameOn(L, M, W) == \A w \in W : SameAt(L, M, w)

LEMMA PostGroupSame ==
  ASSUME NEW L \in Ledger, NEW M \in Ledger, NEW g, GoodGroup(g), CoveredOn(L, g),
         NEW W \in SUBSET Wallets, WalletsOf(g) \subseteq W, SameOn(L, M, W)
  PROVE  /\ CoveredOn(M, g)
         /\ ActiveOn(L, g) => ActiveOn(M, g)
         /\ SameOn(PostGroup(L, g), PostGroup(M, g), W)
<1>1. ASSUME NEW i \in 1..Len(g)
      PROVE  /\ g[i].wallet \in W
             /\ L.rows[g[i].wallet] = M.rows[g[i].wallet]
             /\ L.movements[g[i].wallet] = M.movements[g[i].wallet]
  BY GroupFields DEF SameOn, SameAt
<1>2. CoveredOn(M, g) /\ (ActiveOn(L, g) => ActiveOn(M, g))
  BY <1>1 DEF CoveredOn, ActiveOn
<1>3. PICK P, Q : P = PostGroup(L, g) /\ Q = PostGroup(M, g)
  OBVIOUS
<1>4. /\ \A i \in 1..Len(g) : LegPosted(L, P, g[i])
      /\ \A w \in Wallets \ WalletsOf(g) : SameAt(L, P, w)
  BY <1>3, PostGroupFields
<1>5. /\ \A i \in 1..Len(g) : LegPosted(M, Q, g[i])
      /\ \A w \in Wallets \ WalletsOf(g) : SameAt(M, Q, w)
  BY <1>2, <1>3, PostGroupFields
<1>6. ASSUME NEW w \in W
      PROVE  SameAt(P, Q, w)
  <2>1. CASE w \notin WalletsOf(g)
    BY <1>4, <1>5, <2>1 DEF SameOn, SameAt
  <2>2. CASE w \in WalletsOf(g)
    <3>1. PICK i \in 1..Len(g) : w = g[i].wallet
      BY <2>2 DEF WalletsOf
    <3>2. NewBalance(L, g[i]) = NewBalance(M, g[i])
      BY <1>1 DEF NewBalance
    <3>3. NewMovement(L, g[i]) = NewMovement(M, g[i])
      BY <3>2 DEF NewMovement
    <3>4. /\ L.rows[g[i].wallet] = M.rows[g[i].wallet]
          /\ L.movements[g[i].wallet] = M.movements[g[i].wallet]
      BY <1>1
    <3>5. LegPosted(L, P, g[i]) /\ LegPosted(M, Q, g[i])
      BY <1>4, <1>5
    <3>6. QED
      BY <3>1, <3>2, <3>3, <3>4, <3>5 DEF LegPosted, SameAt
  <2>3. QED
    BY <2>1, <2>2
<1>7. QED
  BY <1>2, <1>3, <1>6 DEF SameOn

\* Base one group at a time.
LEMMA BaseSteps ==
  ASSUME NEW L, NEW r, NEW D
  PROVE  /\ 1 \in D => Base(L, r, D \ {2}) = PostGroup(L, r[1])
         /\ 1 \notin D => Base(L, r, D \ {2}) = L
         /\ 2 \in D => Base(L, r, D) = PostGroup(Base(L, r, D \ {2}), r[2])
         /\ 2 \notin D => Base(L, r, D) = Base(L, r, D \ {2})
<1>1. 2 \notin D \ {2} /\ (1 \in D \ {2} <=> 1 \in D)
  OBVIOUS
<1>2. QED
  BY <1>1 DEF Base

LEMMA OpeningPresent == ASSUME NEW row PROVE Opening(row) # "absent"
BY DEF Opening

\* The groups that a working call has completed are groups of its request.
LEMMA DoneGroups ==
  ASSUME NEW L, NEW S, SessionOK(L, S), S.pc # "idle", NEW D \in SUBSET (1..2), Done(L, S, D)
  PROVE  /\ S.req \in Requests /\ Len(S.req) \in {1, 2}
         /\ \A k \in D : k \in 1..Len(S.req) /\ GoodGroup(S.req[k])
         /\ GoodGroup(Cur(S))
<1>1. S.req \in Requests /\ S.grp \in 1..Len(S.req)
  BY DEF SessionOK
<1>2. Len(S.req) \in {1, 2} /\ \A k \in 1..Len(S.req) : GoodGroup(S.req[k])
  BY <1>1, RequestGroups
<1>3. D \subseteq 1..Len(S.req)
  <2>1. D \subseteq Completed(S)
    BY DEF Done
  <2>2. Completed(S) \subseteq 1..Len(S.req)
    BY <1>1, <1>2 DEF Completed
  <2>3. QED
    BY <2>1, <2>2
<1>4. QED
  BY <1>1, <1>2, <1>3 DEF Cur

\* The ledger with the completed groups differs from the committed one on
\* their wallets only, all of which the call holds.
LEMMA BaseFields ==
  ASSUME NEW L \in Ledger, NEW S, SessionOK(L, S), S.pc # "idle",
         NEW D \in SUBSET (1..2), Done(L, S, D), NEW B, B = Base(L, S.req, D)
  PROVE  /\ B \in Ledger
         /\ WalletsDone(S, D) \subseteq DOMAIN S.mine
         /\ \A w \in Wallets \ WalletsDone(S, D) : SameAt(L, B, w)
         /\ \A w \in WalletsDone(S, D) : w \in Wallets /\ B.rows[w].status # "absent"
<1>1. \A k \in D : k \in 1..Len(S.req) /\ GoodGroup(S.req[k])
  BY DoneGroups
<1>2. WalletsDone(S, D) \subseteq DOMAIN S.mine
  <2>1. ASSUME NEW k \in D, NEW w \in WalletsOf(S.req[k])
        PROVE  w \in DOMAIN S.mine
    <3>1. PICK i \in 1..Len(S.req[k]) : w = S.req[k][i].wallet
      BY DEF WalletsOf
    <3>2. k = 1 \/ k = 2
      OBVIOUS
    <3>3. CASE k = 1
      BY <3>1, <3>3 DEF Done, Ready
    <3>4. CASE k = 2
      BY <3>1, <3>4 DEF Done, Ready
    <3>5. QED
      BY <3>2, <3>3, <3>4
  <2>2. QED
    BY <2>1 DEF WalletsDone
<1>3. WalletsDone(S, D) \subseteq Wallets
  BY <1>2 DEF SessionOK
<1>4. PICK A : A = Base(L, S.req, D \ {2})
  OBVIOUS
<1>5. /\ A \in Ledger
      /\ \A w \in Wallets : 1 \notin D \/ w \notin WalletsOf(S.req[1]) => SameAt(L, A, w)
      /\ 1 \in D => \A w \in WalletsOf(S.req[1]) : A.rows[w].status # "absent"
  <2>1. CASE 1 \notin D
    <3>1. A = L
      BY <1>4, <2>1, BaseSteps
    <3>2. QED
      BY <2>1, <3>1 DEF SameAt
  <2>2. CASE 1 \in D
    <3>1. PICK g : g = S.req[1]
      OBVIOUS
    <3>2. A = PostGroup(L, g)
      BY <1>4, <2>2, <3>1, BaseSteps
    <3>3. GoodGroup(g) /\ CoveredOn(L, g)
      BY <1>1, <2>2, <3>1 DEF Done, Ready
    <3>4. /\ A \in Ledger
          /\ \A i \in 1..Len(g) : LegPosted(L, A, g[i])
          /\ \A w \in Wallets \ WalletsOf(g) : SameAt(L, A, w)
      BY <3>2, <3>3, PostGroupFields
    <3>5. ASSUME NEW w \in WalletsOf(g)
          PROVE  A.rows[w].status # "absent"
      <4>1. PICK i \in 1..Len(g) : w = g[i].wallet
        BY DEF WalletsOf
      <4>2. LegPosted(L, A, g[i])
        BY <3>4
      <4>3. QED
        BY <4>1, <4>2, OpeningPresent DEF LegPosted
    <3>6. QED
      BY <2>2, <3>1, <3>4, <3>5
  <2>3. QED
    BY <2>1, <2>2
<1>9. /\ \A w \in WalletsDone(S, D) : \E k \in D : w \in WalletsOf(S.req[k])
      /\ \A k \in D : WalletsOf(S.req[k]) \subseteq WalletsDone(S, D)
      /\ \A k \in D : k = 1 \/ k = 2
  BY DEF WalletsDone
<1>6. CASE 2 \notin D
  <2>1. B = A
    BY <1>4, <1>6, BaseSteps
  <2>2. ASSUME NEW w \in WalletsDone(S, D)
        PROVE  1 \in D /\ w \in WalletsOf(S.req[1])
    BY <1>6, <1>9
  <2>3. 1 \in D => WalletsOf(S.req[1]) \subseteq WalletsDone(S, D)
    BY <1>9
  <2>4. QED
    BY <1>2, <1>3, <1>5, <2>1, <2>2, <2>3
<1>7. CASE 2 \in D
  <2>1. PICK g : g = S.req[2]
    OBVIOUS
  <2>2. B = PostGroup(A, g)
    BY <1>4, <1>7, <2>1, BaseSteps
  <2>3. GoodGroup(g) /\ CoveredOn(A, g)
    BY <1>1, <1>4, <1>7, <2>1 DEF Done, Ready
  <2>4. /\ B \in Ledger
        /\ \A i \in 1..Len(g) : LegPosted(A, B, g[i])
        /\ \A w \in Wallets \ WalletsOf(g) : SameAt(A, B, w)
    BY <1>5, <2>2, <2>3, PostGroupFields
  <2>5. ASSUME NEW w \in WalletsOf(g)
        PROVE  B.rows[w].status # "absent"
    <3>1. PICK i \in 1..Len(g) : w = g[i].wallet
      BY DEF WalletsOf
    <3>2. LegPosted(A, B, g[i])
      BY <2>4
    <3>3. QED
      BY <3>1, <3>2, OpeningPresent DEF LegPosted
  <2>6. /\ WalletsOf(g) \subseteq WalletsDone(S, D)
        /\ 1 \in D => WalletsOf(S.req[1]) \subseteq WalletsDone(S, D)
        /\ \A w \in WalletsDone(S, D) :
             w \in WalletsOf(g) \/ (1 \in D /\ w \in WalletsOf(S.req[1]))
    BY <1>7, <1>9, <2>1
  <2>7. ASSUME NEW w \in Wallets \ WalletsDone(S, D)
        PROVE  SameAt(L, B, w)
    BY <1>5, <2>4, <2>6 DEF SameAt
  <2>8. ASSUME NEW w \in WalletsDone(S, D)
        PROVE  w \in Wallets /\ B.rows[w].status # "absent"
    BY <1>3, <1>5, <2>4, <2>5, <2>6 DEF SameAt
  <2>9. QED
    BY <1>2, <2>4, <2>7, <2>8
<1>8. QED
  BY <1>6, <1>7

LEMMA SlotSame ==
  ASSUME NEW L, NEW M, NEW l, SameAt(L, M, l.wallet)
  PROVE  SlotTaken(L, l) <=> SlotTaken(M, l)
BY DEF SameAt, SlotTaken

\* Groups that were ready stay ready when the ledger changes elsewhere.
LEMMA ReadySame ==
  ASSUME NEW L, NEW M, NEW B \in Ledger, NEW C \in Ledger, NEW S, DOMAIN S.mine \subseteq Wallets,
         NEW g, GoodGroup(g), Ready(L, B, S, g),
         SameOn(L, M, DOMAIN S.mine), SameOn(B, C, DOMAIN S.mine)
  PROVE  /\ Ready(M, C, S, g)
         /\ SameOn(PostGroup(B, g), PostGroup(C, g), DOMAIN S.mine)
<1>1. /\ CoveredOn(B, g) /\ ActiveOn(B, g)
      /\ \A i \in 1..Len(g) :
           g[i].wallet \in DOMAIN S.mine /\ HasKey(S, g[i].key) /\ ~SlotTaken(L, g[i])
  BY DEF Ready
<1>2. WalletsOf(g) \subseteq DOMAIN S.mine
  BY <1>1 DEF WalletsOf
<1>3. /\ CoveredOn(C, g) /\ (ActiveOn(B, g) => ActiveOn(C, g))
      /\ SameOn(PostGroup(B, g), PostGroup(C, g), DOMAIN S.mine)
  BY <1>1, <1>2, PostGroupSame
<1>4. ASSUME NEW i \in 1..Len(g)
      PROVE  g[i].wallet \in DOMAIN S.mine /\ HasKey(S, g[i].key) /\ ~SlotTaken(M, g[i])
  BY <1>1, SlotSame DEF SameOn
<1>5. QED
  BY <1>1, <1>3, <1>4 DEF Ready

LEMMA BaseSame ==
  ASSUME NEW L \in Ledger, NEW M \in Ledger, NEW S, SessionOK(L, S), S.pc # "idle",
         NEW D \in SUBSET (1..2), Done(L, S, D),
         SameOn(L, M, DOMAIN S.mine), \A k : Posted(L, k) => Posted(M, k)
  PROVE  /\ Done(M, S, D)
         /\ SameOn(Base(L, S.req, D), Base(M, S.req, D), DOMAIN S.mine)
         /\ Base(L, S.req, D) \in Ledger /\ Base(M, S.req, D) \in Ledger
<1>1. \A k \in D : k \in 1..Len(S.req) /\ GoodGroup(S.req[k])
  BY DoneGroups
<1>2. DOMAIN S.mine \subseteq Wallets
  BY DEF SessionOK
<1>3. PICK A, C : A = Base(L, S.req, D \ {2}) /\ C = Base(M, S.req, D \ {2})
  OBVIOUS
<1>4. /\ 1 \in D => Ready(M, M, S, S.req[1])
      /\ SameOn(A, C, DOMAIN S.mine) /\ A \in Ledger /\ C \in Ledger
  <2>1. CASE 1 \notin D
    <3>1. A = L /\ C = M
      BY <1>3, <2>1, BaseSteps
    <3>2. QED
      BY <2>1, <3>1
  <2>2. CASE 1 \in D
    <3>1. PICK g : g = S.req[1]
      OBVIOUS
    <3>2. A = PostGroup(L, g) /\ C = PostGroup(M, g)
      BY <1>3, <2>2, <3>1, BaseSteps
    <3>3. Ready(L, L, S, g) /\ GoodGroup(g)
      BY <1>1, <2>2, <3>1 DEF Done
    <3>4. Ready(M, M, S, g) /\ SameOn(A, C, DOMAIN S.mine)
      BY <1>2, <3>2, <3>3, ReadySame
    <3>5. CoveredOn(L, g) /\ CoveredOn(M, g)
      BY <3>3, <3>4 DEF Ready
    <3>6. A \in Ledger /\ C \in Ledger
      BY <3>2, <3>3, <3>5, PostGroupFields
    <3>7. QED
      BY <3>1, <3>4, <3>6
  <2>3. QED
    BY <2>1, <2>2
<1>5. /\ 2 \in D => Ready(M, Base(M, S.req, D \ {2}), S, S.req[2])
      /\ SameOn(Base(L, S.req, D), Base(M, S.req, D), DOMAIN S.mine)
      /\ Base(L, S.req, D) \in Ledger /\ Base(M, S.req, D) \in Ledger
  <2>1. CASE 2 \notin D
    <3>1. A = Base(L, S.req, D) /\ C = Base(M, S.req, D)
      BY <1>3, <2>1, BaseSteps
    <3>2. QED
      BY <1>4, <2>1, <3>1
  <2>2. CASE 2 \in D
    <3>1. PICK g : g = S.req[2]
      OBVIOUS
    <3>2. PICK P, Q : P = Base(L, S.req, D) /\ Q = Base(M, S.req, D)
      OBVIOUS
    <3>3. P = PostGroup(A, g) /\ Q = PostGroup(C, g)
      BY <1>3, <2>2, <3>1, <3>2, BaseSteps
    <3>4. Ready(L, A, S, g) /\ GoodGroup(g)
      BY <1>1, <1>3, <2>2, <3>1 DEF Done
    <3>5. Ready(M, C, S, g) /\ SameOn(P, Q, DOMAIN S.mine)
      BY <1>2, <1>4, <3>3, <3>4, ReadySame
    <3>6. CoveredOn(A, g) /\ CoveredOn(C, g)
      BY <3>4, <3>5 DEF Ready
    <3>7. P \in Ledger /\ Q \in Ledger
      BY <1>4, <3>3, <3>4, <3>6, PostGroupFields
    <3>8. QED
      BY <1>3, <3>1, <3>2, <3>5, <3>7
  <2>3. QED
    BY <2>1, <2>2
<1>6. \A g \in Completed(S) \ D : \A i \in 1..Len(S.req[g]) : Posted(M, S.req[g][i].key)
  BY DEF Done
<1>7. Done(M, S, D)
  BY <1>4, <1>5, <1>6 DEF Done
<1>8. QED
  BY <1>5, <1>7

\* Nothing that another call commits, and no change of a status, disturbs a call.
LEMMA OthersStable ==
  ASSUME NEW L \in Ledger, NEW M \in Ledger, NEW S, SessionOK(L, S), Progress(L, S),
         SameOn(L, M, DOMAIN S.mine),
         \A k : Posted(L, k) => Posted(M, k),
         \A k \in Keys : HasKey(S, k) => ~Posted(M, k),
         \A w \in Wallets : L.rows[w].status # "absent" => M.rows[w].status # "absent"
  PROVE  SessionOK(M, S) /\ Progress(M, S)
<1>1. SessionOK(M, S)
  BY DEF SessionOK
<1>2. ASSUME ~Idle(S)
      PROVE  \E D \in SUBSET (1..2) : Working(M, S, D)
  <2>1. PICK D \in SUBSET (1..2) : Working(L, S, D)
    BY <1>2 DEF Progress
  <2>2. PICK B, C : B = Base(L, S.req, D) /\ C = Base(M, S.req, D)
    OBVIOUS
  <2>3. Done(L, S, D) /\ S.pc # "idle"
    BY <1>2, <2>1 DEF Working, Idle
  <2>4. /\ Done(M, S, D) /\ SameOn(B, C, DOMAIN S.mine)
        /\ B \in Ledger /\ C \in Ledger
    BY <2>2, <2>3, BaseSame
  <2>5. ASSUME NEW w \in DOMAIN S.mine, AsIn(L, B, S, w)
        PROVE  AsIn(M, C, S, w)
    BY <2>4, <2>5 DEF SameOn, SameAt, AsIn
  <2>6. GoodGroup(Cur(S))
    BY <2>3, DoneGroups
  <2>7. ASSUME Reading(L, B, S)
        PROVE  Reading(M, C, S)
    <3>1. ASSUME NEW i \in 1..Len(Cur(S)), Sees(L, S, Cur(S)[i].wallet).status # "absent"
          PROVE  Sees(M, S, Cur(S)[i].wallet).status # "absent"
      <4>1. Cur(S)[i].wallet \in Wallets
        BY <2>6, LegFields DEF GoodGroup
      <4>2. QED
        BY <3>1, <4>1 DEF Sees
    <3>2. \A i \in 1..(S.at - 1) : i \in 1..Len(Cur(S))
      BY <2>3 DEF SessionOK, GoodGroup
    <3>3. \A w \in DOMAIN S.mine : AsIn(M, C, S, w)
      BY <2>5, <2>7 DEF Reading
    <3>4. S.pc \in {"ensure", "insertRow"} =>
            \A i \in 1..(S.at - 1) : Sees(M, S, Cur(S)[i].wallet).status # "absent"
      BY <2>7, <3>1, <3>2 DEF Reading
    <3>5. S.pc \in {"active", "lock"} =>
            \A i \in 1..Len(Cur(S)) : Sees(M, S, Cur(S)[i].wallet).status # "absent"
      BY <2>7, <3>1 DEF Reading
    <3>6. QED
      BY <2>7, <3>3, <3>4, <3>5 DEF Reading
  <2>8. ASSUME Writing(L, B, S)
        PROVE  Writing(M, C, S)
    <3>1. PICK g : g = Cur(S)
      OBVIOUS
    <3>2. /\ CoveredOn(B, g) /\ ActiveOn(B, g)
          /\ WalletsOf(g) \subseteq DOMAIN S.mine
          /\ \A w \in DOMAIN S.mine \ WalletsOf(g) : AsIn(L, B, S, w)
      BY <2>8, <3>1 DEF Writing
    <3>3. CoveredOn(C, g) /\ ActiveOn(C, g)
      BY <2>4, <2>6, <3>1, <3>2, PostGroupSame DEF SessionOK
    <3>4. \A w \in DOMAIN S.mine \ WalletsOf(g) : AsIn(M, C, S, w)
      BY <2>5, <3>2
    <3>5. ASSUME NEW i \in 1..Len(g)
          PROVE  LegWritten(M, C, S, i)
      <4>1. LegWritten(L, B, S, i)
        BY <2>8, <3>1 DEF Writing
      <4>2. g[i].wallet \in DOMAIN S.mine
        BY <3>2 DEF WalletsOf
      <4>3. SameAt(L, M, g[i].wallet) /\ SameAt(B, C, g[i].wallet)
        BY <2>4, <4>2 DEF SameOn
      <4>4. NewBalance(B, g[i]) = NewBalance(C, g[i])
        BY <4>3 DEF SameAt, NewBalance
      <4>5. NewMovement(B, g[i]) = NewMovement(C, g[i])
        BY <4>4 DEF NewMovement
      <4>6. SlotTaken(L, g[i]) <=> SlotTaken(M, g[i])
        BY <4>3, SlotSame
      <4>7. QED
        BY <3>1, <4>1, <4>3, <4>4, <4>5, <4>6 DEF LegWritten, SameAt
    <3>6. QED
      BY <3>1, <3>2, <3>3, <3>4, <3>5 DEF Writing
  <2>9. QED
    BY <2>1, <2>2, <2>4, <2>7, <2>8 DEF Working
<1>3. QED
  BY <1>1, <1>2 DEF Progress

-----------------------------------------------------------------------------
(* What is published is an atomic step of the abstract ledger. *)

\* The operators of the instance are those of InfraLedgerOps.
LEMMA AbstractOps ==
  ASSUME NEW L, NEW l, NEW c, NEW w
  PROVE  /\ Abstract!ensureWalletAccount(L, w) = ensureWalletAccount(L, w)
         /\ Abstract!Admissible(L, l) <=> Admissible(L, l)
         /\ Abstract!Post(L, l) = Post(L, l)
         /\ Abstract!PostPair(L, l, c) = PostPair(L, l, c)
         /\ Abstract!IsPair(l, c) <=> IsPair(l, c)
         /\ Abstract!EmptyLedger = EmptyLedger
<1>1. Abstract!ensureWalletAccount(L, w) = ensureWalletAccount(L, w)
  BY DEF Abstract!ensureWalletAccount, ensureWalletAccount
<1>2. \A op, b, a : Abstract!Covers(op, b, a) <=> Covers(op, b, a)
  BY DEF Abstract!Covers, Covers
<1>3. \A key : Abstract!Posted(L, key) <=> Posted(L, key)
  BY DEF Abstract!Posted, Posted
<1>4. Abstract!SlotTaken(L, l) <=> SlotTaken(L, l)
  BY DEF Abstract!SlotTaken, SlotTaken
<1>5. Abstract!Admissible(L, l) <=> Admissible(L, l)
  BY <1>2, <1>3, <1>4 DEF Abstract!Admissible, Admissible
<1>6. \A op, b, a : Abstract!After(op, b, a) = After(op, b, a)
  BY Zenon DEF Abstract!After, After, Abstract!creditOrgWallet, creditOrgWallet,
     Abstract!creditOrgWalletPending, creditOrgWalletPending,
     Abstract!releasePendingToAvailable, releasePendingToAvailable,
     Abstract!debitOrgWallet, debitOrgWallet, Abstract!lockOrgFunds, lockOrgFunds,
     Abstract!releaseOrgFunds, releaseOrgFunds,
     Abstract!finalizeLockedDebit, finalizeLockedDebit
<1>7. \A M, k, a : Abstract!insertMovement(M, k, a) = insertMovement(M, k, a)
  BY DEF Abstract!insertMovement, insertMovement, Abstract!MovementOf, MovementOf
<1>8. \A M, k : Abstract!Post(M, k) = Post(M, k)
  BY <1>6, <1>7 DEF Abstract!Post, Post
<1>9. Abstract!PostPair(L, l, c) = PostPair(L, l, c)
  BY <1>6, <1>7, <1>8 DEF Abstract!PostPair, PostPair
<1>10. Abstract!IsPair(l, c) <=> IsPair(l, c)
  BY DEF Abstract!IsPair, IsPair
<1>11. Abstract!EmptyLedger = EmptyLedger
  BY DEF Abstract!EmptyLedger, EmptyLedger, Abstract!ZeroBalance, ZeroBalance
<1>12. QED
  BY <1>1, <1>5, <1>8, <1>9, <1>10, <1>11

\* The legs of a ready group are admissible once their rows are there.
LEMMA GroupAdmissible ==
  ASSUME NEW B \in Ledger, NEW g, GoodGroup(g), CoveredOn(B, g), ActiveOn(B, g),
         \A i \in 1..Len(g) : ~Posted(B, g[i].key) /\ ~SlotTaken(B, g[i]),
         NEW E, E = EnsureAll(B, g)
  PROVE  /\ \A i \in 1..Len(g) : Admissible(E, g[i])
         /\ Len(g) = 2 /\ g[1].type = "internal_transfer_debit" =>
              /\ E.rows[g[1].wallet].status = "active"
              /\ E.rows[g[2].wallet].status = "active"
<1>1. /\ E \in Ledger /\ E.movements = B.movements
      /\ \A v \in Wallets : E.rows[v] = IF v \in WalletsOf(g) THEN Open(B.rows[v]) ELSE B.rows[v]
  BY EnsureAllFields
<1>2. ASSUME NEW i \in 1..Len(g)
      PROVE  /\ E.rows[g[i].wallet].status = Opening(B.rows[g[i].wallet])
             /\ E.rows[g[i].wallet].bal = B.rows[g[i].wallet].bal
  <2>1. g[i].wallet \in Wallets /\ g[i].wallet \in WalletsOf(g)
    BY LegFields, GroupFields DEF GoodGroup
  <2>2. E.rows[g[i].wallet] = Open(B.rows[g[i].wallet])
    BY <1>1, <2>1
  <2>3. QED
    BY <2>2 DEF Open
<1>3. ASSUME NEW i \in 1..Len(g)
      PROVE  Admissible(E, g[i])
  <2>1. E.rows[g[i].wallet].status # "absent"
    BY <1>2, OpeningPresent
  <2>2. Covers(g[i].op, E.rows[g[i].wallet].bal, g[i].amount)
    BY <1>2 DEF CoveredOn
  <2>3. ~Posted(E, g[i].key)
    BY <1>1 DEF Posted
  <2>4. ~SlotTaken(E, g[i])
    BY <1>1 DEF SlotTaken
  <2>5. QED
    BY <2>1, <2>2, <2>3, <2>4 DEF Admissible
<1>4. ASSUME Len(g) = 2, g[1].type = "internal_transfer_debit"
      PROVE  /\ E.rows[g[1].wallet].status = "active"
             /\ E.rows[g[2].wallet].status = "active"
  <2>1. 1 \in 1..Len(g) /\ 2 \in 1..Len(g)
    BY <1>4
  <2>2. Opening(B.rows[g[1].wallet]) = "active" /\ Opening(B.rows[g[2].wallet]) = "active"
    BY <1>4, <2>1 DEF ActiveOn
  <2>3. QED
    BY <1>2, <2>1, <2>2
<1>5. QED
  BY <1>3, <1>4

\* A pair of legs: what the abstract ledger asks of it.
LEMMA AbstractPair ==
  ASSUME NEW B \in Ledger, NEW g, GoodGroup(g), Len(g) = 2, CoveredOn(B, g), ActiveOn(B, g),
         \A i \in 1..Len(g) : ~Posted(B, g[i].key) /\ ~SlotTaken(B, g[i])
  PROVE  /\ Abstract!AdmissiblePair(Abstract!EnsureBoth(B, g[1], g[2]), g[1], g[2])
         /\ PostGroup(B, g) = Abstract!PostPair(Abstract!EnsureBoth(B, g[1], g[2]), g[1], g[2])
<1>1. PICK E : E = EnsureAll(B, g)
  OBVIOUS
<1>2. E = Abstract!EnsureBoth(B, g[1], g[2])
  BY <1>1, AbstractOps DEF EnsureAll, Abstract!EnsureBoth
<1>3. 1 \in 1..Len(g) /\ 2 \in 1..Len(g)
  OBVIOUS
<1>4. /\ Admissible(E, g[1]) /\ Admissible(E, g[2])
      /\ g[1].type = "internal_transfer_debit" =>
              /\ E.rows[g[1].wallet].status = "active"
              /\ E.rows[g[2].wallet].status = "active"
  BY <1>1, <1>3, GroupAdmissible
<1>5. IsPair(g[1], g[2])
  BY DEF GoodGroup
<1>6. Abstract!BothActive(E, g[1], g[2])
  BY <1>4 DEF Abstract!BothActive
<1>7. Abstract!AdmissiblePair(E, g[1], g[2])
  BY <1>4, <1>5, <1>6, AbstractOps DEF Abstract!AdmissiblePair
<1>8. PostGroup(B, g) = Abstract!PostPair(E, g[1], g[2])
  BY <1>1, AbstractOps DEF PostGroup
<1>9. QED
  BY <1>2, <1>7, <1>8

LEMMA AllLegsHas ==
  ASSUME NEW r \in Requests, NEW k \in 1..Len(r), NEW i \in 1..Len(r[k])
  PROVE  r[k][i] \in AllLegs
BY DEF AllLegs

\* Posting the ready groups of a request is one step of the abstract ledger.
LEMMA BaseIsAbstractStep ==
  ASSUME ledger \in Ledger, NEW S, SessionOK(ledger, S), S.pc # "idle",
         NEW D \in SUBSET (1..2), Done(ledger, S, D), ledger' = Base(ledger, S.req, D)
  PROVE  [Abstract!Next]_ledger
<1>1. /\ S.req \in Requests /\ Len(S.req) \in {1, 2}
      /\ \A k \in D : k \in 1..Len(S.req) /\ GoodGroup(S.req[k])
  BY DoneGroups
<1>2. PICK r : r = S.req
  OBVIOUS
<1>3. ASSUME NEW k \in D, NEW i \in 1..Len(r[k])
      PROVE  /\ r[k][i] \in AllLegs /\ r[k][i] \in Leg
             /\ ~Posted(ledger, r[k][i].key) /\ ~SlotTaken(ledger, r[k][i])
  <2>1. r[k][i] \in AllLegs /\ r[k][i] \in Leg
    BY <1>1, <1>2, AllLegsHas DEF GoodGroup
  <2>2. HasKey(S, r[k][i].key) /\ ~SlotTaken(ledger, r[k][i])
    <3>1. CASE k = 1
      BY <1>2, <3>1 DEF Done, Ready
    <3>2. CASE k = 2
      BY <1>2, <3>2 DEF Done, Ready
    <3>3. QED
      BY <3>1, <3>2
  <2>3. ~Posted(ledger, r[k][i].key)
    BY <2>1, <2>2, LegFields DEF SessionOK
  <2>4. QED
    BY <2>1, <2>2, <2>3
<1>4. PICK A : A = Base(ledger, r, D \ {2})
  OBVIOUS
<1>5. CASE D = {}
  BY <1>2, <1>4, <1>5, BaseSteps
<1>6. CASE 1 \in D /\ 2 \notin D
  <2>1. PICK g : g = r[1]
    OBVIOUS
  <2>2. /\ ledger' = PostGroup(ledger, g) /\ GoodGroup(g)
        /\ CoveredOn(ledger, g) /\ ActiveOn(ledger, g)
    BY <1>1, <1>2, <1>6, <2>1, BaseSteps DEF Done, Ready
  <2>3. \A i \in 1..Len(g) : /\ g[i] \in AllLegs
                             /\ ~Posted(ledger, g[i].key) /\ ~SlotTaken(ledger, g[i])
    BY <1>3, <1>6, <2>1
  <2>4. CASE Len(g) = 1
    <3>1. 1 \in 1..Len(g)
      BY <2>4
    <3>2. PICK E : E = EnsureAll(ledger, g)
      OBVIOUS
    <3>3. Admissible(E, g[1])
      BY <2>2, <2>3, <3>1, <3>2, GroupAdmissible
    <3>4. ledger' = Post(E, g[1]) /\ E = ensureWalletAccount(ledger, g[1].wallet)
      BY <2>2, <2>4, <3>2 DEF PostGroup, EnsureAll
    <3>5. Abstract!PostOne(g[1])
      BY <3>3, <3>4, AbstractOps DEF Abstract!PostOne
    <3>6. QED
      BY <2>3, <3>1, <3>5 DEF Abstract!Next
  <2>5. CASE Len(g) = 2
    <3>1. g[1] \in AllLegs /\ g[2] \in AllLegs
      BY <2>3, <2>5
    <3>2. Abstract!Transfer(g[1], g[2])
      BY <2>2, <2>3, <2>5, AbstractPair DEF Abstract!Transfer
    <3>3. QED
      BY <3>1, <3>2 DEF Abstract!Next
  <2>6. QED
    BY <2>2, <2>4, <2>5 DEF GoodGroup
<1>7. CASE 2 \in D
  <2>1. PICK g : g = r[2]
    OBVIOUS
  <2>2. /\ ledger' = PostGroup(A, g) /\ GoodGroup(g)
        /\ CoveredOn(A, g) /\ ActiveOn(A, g)
    BY <1>1, <1>2, <1>4, <1>7, <2>1, BaseSteps DEF Done, Ready
  <2>3. \A i \in 1..Len(g) : /\ g[i] \in AllLegs
                             /\ ~Posted(ledger, g[i].key) /\ ~SlotTaken(ledger, g[i])
    BY <1>3, <1>7, <2>1
  <2>4. /\ Len(r) = 2 /\ Len(g) = 2 /\ IsTransfer(r[1]) /\ IsFee(g)
        /\ \A i, j \in 1..2 : r[1][i].key # g[j].key
    <3>1. 2 \in 1..Len(S.req)
      BY <1>1, <1>7
    <3>2. Len(r) = 2
      <4>1. Len(r) \in {1, 2} /\ 2 \in 1..Len(r)
        BY <1>1, <1>2, <3>1
      <4>2. QED
        BY <4>1
    <3>3. r \in Requests
      BY <1>1, <1>2
    <3>4. /\ IsTransfer(r[1]) /\ IsFee(r[2])
          /\ \A i, j \in 1..2 : r[1][i].key # r[2][j].key
      BY <3>2, <3>3, RequestGroups
    <3>5. QED
      BY <2>1, <3>2, <3>4 DEF IsFee
  <2>5. g[1] \in AllLegs /\ g[2] \in AllLegs
    BY <2>3, <2>4
  <2>6. CASE 1 \notin D
    <3>1. A = ledger
      BY <1>4, <2>6, BaseSteps
    <3>2. Abstract!Transfer(g[1], g[2])
      BY <2>2, <2>3, <2>4, <3>1, AbstractPair DEF Abstract!Transfer
    <3>3. QED
      BY <2>5, <3>2 DEF Abstract!Next
  <2>7. CASE 1 \in D
    <3>1. PICK h : h = r[1]
      OBVIOUS
    <3>2. /\ A = PostGroup(ledger, h) /\ GoodGroup(h) /\ Len(h) = 2
          /\ CoveredOn(ledger, h) /\ ActiveOn(ledger, h)
      BY <1>1, <1>2, <1>4, <2>4, <2>7, <3>1, BaseSteps DEF Done, Ready, IsTransfer
    <3>3. \A i \in 1..Len(h) : /\ h[i] \in AllLegs
                               /\ ~Posted(ledger, h[i].key) /\ ~SlotTaken(ledger, h[i])
      BY <1>3, <2>7, <3>1
    <3>4. h[1] \in AllLegs /\ h[2] \in AllLegs
      BY <3>2, <3>3
    <3>5. /\ A \in Ledger
          /\ \A i \in 1..Len(h) : LegPosted(ledger, A, h[i])
          /\ \A w \in Wallets \ WalletsOf(h) : SameAt(ledger, A, w)
      BY <3>2, PostGroupFields
    <3>6. ASSUME NEW i \in 1..Len(g)
          PROVE  ~Posted(A, g[i].key) /\ ~SlotTaken(A, g[i])
      <4>1. /\ \A j \in 1..Len(h) : h[j].key # g[i].key /\ h[j].type # g[i].type
            /\ g[i] \in Leg
        BY <2>2, <2>4, <3>1, <3>2 DEF IsTransfer, IsFee, GoodGroup
      <4>2. ASSUME NEW w \in Wallets, NEW n \in 1..Len(A.movements[w])
            PROVE  \/ n \in 1..Len(ledger.movements[w]) /\ A.movements[w][n] = ledger.movements[w][n]
                   \/ A.movements[w][n].key # g[i].key /\ A.movements[w][n].type # g[i].type
        <5>1. CASE w \notin WalletsOf(h)
          BY <3>5, <5>1 DEF SameAt
        <5>2. CASE w \in WalletsOf(h)
          <6>1. PICK j \in 1..Len(h) : w = h[j].wallet
            BY <5>2 DEF WalletsOf
          <6>2. LegPosted(ledger, A, h[j])
            BY <3>5
          <6>3. A.movements[w] = Append(ledger.movements[w], NewMovement(ledger, h[j]))
            BY <6>1, <6>2 DEF LegPosted
          <6>4. ledger.movements[w] \in Seq(Movement)
            BY DEF Ledger
          <6>5. /\ NewMovement(ledger, h[j]).key # g[i].key
                /\ NewMovement(ledger, h[j]).type # g[i].type
            BY <4>1 DEF NewMovement
          <6>6. PICK m, e : m = ledger.movements[w] /\ e = NewMovement(ledger, h[j])
            OBVIOUS
          <6>7. m \in Seq(Movement) /\ n \in 1..Len(Append(m, e))
            BY <6>3, <6>4, <6>6
          <6>8. \/ n \in 1..Len(m) /\ Append(m, e)[n] = m[n]
                \/ Append(m, e)[n] = e
            BY <6>7
          <6>9. QED
            BY <6>3, <6>5, <6>6, <6>8
        <5>3. QED
          BY <5>1, <5>2
      <4>3. ~Posted(A, g[i].key)
        BY <2>3, <4>2 DEF Posted
      <4>4. ~SlotTaken(A, g[i])
        BY <2>3, <4>1, <4>2, LegFields DEF SlotTaken
      <4>5. QED
        BY <4>3, <4>4
    <3>7. /\ Abstract!AdmissiblePair(Abstract!EnsureBoth(ledger, h[1], h[2]), h[1], h[2])
          /\ A = Abstract!PostPair(Abstract!EnsureBoth(ledger, h[1], h[2]), h[1], h[2])
      BY <3>2, <3>3, AbstractPair
    <3>8. /\ Abstract!AdmissiblePair(Abstract!EnsureBoth(A, g[1], g[2]), g[1], g[2])
          /\ ledger' = Abstract!PostPair(Abstract!EnsureBoth(A, g[1], g[2]), g[1], g[2])
      BY <2>2, <2>4, <3>5, <3>6, AbstractPair
    <3>9. Abstract!TransferWithFee(h[1], h[2], g[1], g[2])
      BY <3>7, <3>8 DEF Abstract!TransferWithFee
    <3>10. QED
      BY <2>5, <3>4, <3>9 DEF Abstract!Next
  <2>8. QED
    BY <2>6, <2>7
<1>8. QED
  <2>1. D = {} \/ (1 \in D /\ 2 \notin D) \/ 2 \in D
    OBVIOUS
  <2>2. QED
    BY <1>5, <1>6, <1>7, <2>1

-----------------------------------------------------------------------------
(* COMMIT. *)

\* What COMMIT makes of the committed ledger.
Publish(L, S) ==
  [rows |-> [w \in Wallets |-> Sees(L, S, w)],
   movements |-> [w \in Wallets |-> L.movements[w] \o S.ins[w]]]

LEMMA PublishElsewhere ==
  ASSUME NEW L \in Ledger, NEW S, SessionOK(L, S), NEW w \in Wallets \ DOMAIN S.mine
  PROVE  SameAt(L, Publish(L, S), w)
<1>1. L.movements[w] \in Seq(Movement) /\ S.ins[w] = <<>>
  BY DEF Ledger, SessionOK
<1>2. L.movements[w] \o S.ins[w] = L.movements[w]
  BY <1>1
<1>3. QED
  BY <1>2 DEF SameAt, Publish, Sees

\* The keys that are posted then: those before, and those the call inserted.
LEMMA PublishPosted ==
  ASSUME NEW L \in Ledger, NEW S, SessionOK(L, S), NEW k
  PROVE  Posted(Publish(L, S), k) <=> Posted(L, k) \/ HasKey(S, k)
<1>. DEFINE P == Publish(L, S)
<1>1. ASSUME NEW w \in Wallets
      PROVE  /\ L.movements[w] \in Seq(Movement) /\ S.ins[w] \in Seq(Movement)
             /\ P.movements[w] = L.movements[w] \o S.ins[w]
  BY DEF Ledger, SessionOK, Publish
<1>2. ASSUME NEW m \in Seq(Movement), NEW n \in Seq(Movement)
      PROVE  /\ Len(m) \in Nat /\ Len(n) \in Nat /\ Len(m \o n) = Len(m) + Len(n)
             /\ \A i \in 1..Len(m) : (m \o n)[i] = m[i]
             /\ \A i \in 1..Len(n) : (m \o n)[Len(m) + i] = n[i]
             /\ \A i \in 1..Len(m \o n) : i \in 1..Len(m) \/ i - Len(m) \in 1..Len(n)
  OBVIOUS
<1>. HIDE DEF P
<1>3. ASSUME Posted(P, k) PROVE Posted(L, k) \/ HasKey(S, k)
  <2>1. PICK w \in Wallets : \E i \in 1..Len(P.movements[w]) : P.movements[w][i].key = k
    BY <1>3 DEF Posted
  <2>2. PICK i \in 1..Len(P.movements[w]) : P.movements[w][i].key = k
    BY <2>1
  <2>3. PICK m, n : m = L.movements[w] /\ n = S.ins[w]
    OBVIOUS
  <2>4. /\ m \in Seq(Movement) /\ n \in Seq(Movement)
        /\ i \in 1..Len(m \o n) /\ (m \o n)[i].key = k
    BY <1>1, <2>2, <2>3
  <2>5. CASE i \in 1..Len(m)
    <3>1. m[i].key = k
      BY <1>2, <2>4, <2>5
    <3>2. QED
      BY <2>3, <2>5, <3>1 DEF Posted
  <2>6. CASE i \notin 1..Len(m)
    <3>1. PICK j \in 1..Len(n) : i = Len(m) + j
      <4>1. i - Len(m) \in 1..Len(n) /\ i \in Nat /\ Len(m) \in Nat
        BY <1>2, <2>4, <2>6
      <4>2. i = Len(m) + (i - Len(m))
        BY <4>1
      <4>3. QED
        BY <4>1, <4>2
    <3>2. n[j].key = k
      BY <1>2, <2>4, <3>1
    <3>3. QED
      BY <2>3, <3>2 DEF HasKey
  <2>7. QED
    BY <2>5, <2>6
<1>4. ASSUME Posted(L, k) PROVE Posted(P, k)
  <2>1. PICK w \in Wallets : \E i \in 1..Len(L.movements[w]) : L.movements[w][i].key = k
    BY <1>4 DEF Posted
  <2>2. PICK i \in 1..Len(L.movements[w]) : L.movements[w][i].key = k
    BY <2>1
  <2>3. PICK m, n : m = L.movements[w] /\ n = S.ins[w]
    OBVIOUS
  <2>4. m \in Seq(Movement) /\ n \in Seq(Movement) /\ P.movements[w] = m \o n
    BY <1>1, <2>3
  <2>5. /\ Len(m) \in Nat /\ Len(n) \in Nat /\ Len(m \o n) = Len(m) + Len(n)
        /\ \A j \in 1..Len(m) : (m \o n)[j] = m[j]
    BY <1>2, <2>4
  <2>6. i \in 1..Len(m)
    BY <2>2, <2>3
  <2>7. i \in 1..Len(m \o n) /\ (m \o n)[i] = m[i]
    BY <2>5, <2>6
  <2>8. QED
    BY <2>2, <2>3, <2>4, <2>7 DEF Posted
<1>5. ASSUME HasKey(S, k) PROVE Posted(P, k)
  <2>1. PICK w \in Wallets : \E i \in 1..Len(S.ins[w]) : S.ins[w][i].key = k
    BY <1>5 DEF HasKey
  <2>2. PICK i \in 1..Len(S.ins[w]) : S.ins[w][i].key = k
    BY <2>1
  <2>3. PICK m, n : m = L.movements[w] /\ n = S.ins[w]
    OBVIOUS
  <2>4. m \in Seq(Movement) /\ n \in Seq(Movement) /\ P.movements[w] = m \o n
    BY <1>1, <2>3
  <2>5. /\ Len(m) \in Nat /\ Len(n) \in Nat /\ Len(m \o n) = Len(m) + Len(n)
        /\ \A j \in 1..Len(n) : (m \o n)[Len(m) + j] = n[j]
    BY <1>2, <2>4
  <2>6. i \in 1..Len(n)
    BY <2>2, <2>3
  <2>7. Len(m) + i \in 1..Len(m \o n) /\ (m \o n)[Len(m) + i] = n[i]
    BY <2>5, <2>6
  <2>8. QED
    BY <2>2, <2>3, <2>4, <2>7 DEF Posted
<1>6. QED
  BY <1>3, <1>4, <1>5 DEF P

\* The published ledger is the committed one with the posted groups applied.
LEMMA Published ==
  ASSUME NEW L, LedgerOK(L), NEW S, SessionOK(L, S), S.pc = "commit",
         NEW D \in SUBSET (1..2), Working(L, S, D), NEW B, B = Base(L, S.req, D)
  PROVE  Publish(L, S) = B /\ LedgerOK(B)
<1>1. L \in Ledger /\ Done(L, S, D)
  BY DEF LedgerOK, Working
<1>2. /\ B \in Ledger
      /\ WalletsDone(S, D) \subseteq DOMAIN S.mine
      /\ \A w \in Wallets \ WalletsDone(S, D) : SameAt(L, B, w)
      /\ \A w \in WalletsDone(S, D) : w \in Wallets /\ B.rows[w].status # "absent"
  BY <1>1, BaseFields
<1>3. /\ DOMAIN S.mine \subseteq WalletsDone(S, D)
      /\ \A w \in DOMAIN S.mine : AsIn(L, B, S, w)
  BY DEF Working, Reading
<1>4. ASSUME NEW w \in Wallets
      PROVE  Sees(L, S, w) = B.rows[w] /\ L.movements[w] \o S.ins[w] = B.movements[w]
  <2>1. CASE w \in DOMAIN S.mine
    <3>1. S.mine[w] = Open(B.rows[w]) /\ L.movements[w] \o S.ins[w] = B.movements[w]
      BY <1>3, <2>1 DEF AsIn
    <3>2. B.rows[w] \in Row /\ B.rows[w].status # "absent"
      BY <1>2, <1>3, <2>1 DEF Ledger
    <3>3. Open(B.rows[w]) = B.rows[w]
      BY <3>2 DEF Open, Opening, Row
    <3>4. QED
      BY <2>1, <3>1, <3>3 DEF Sees
  <2>2. CASE w \notin DOMAIN S.mine
    <3>1. L.movements[w] \in Seq(Movement) /\ S.ins[w] = <<>> /\ SameAt(L, B, w)
      BY <1>1, <1>2, <2>2 DEF Ledger, SessionOK
    <3>2. L.movements[w] \o S.ins[w] = L.movements[w]
      BY <3>1
    <3>3. QED
      BY <2>2, <3>1, <3>2 DEF Sees, SameAt
  <2>3. QED
    BY <2>1, <2>2
<1>5. /\ [w \in Wallets |-> Sees(L, S, w)] = B.rows
      /\ [w \in Wallets |-> L.movements[w] \o S.ins[w]] = B.movements
  BY <1>2, <1>4 DEF Ledger
<1>6. B = [rows |-> B.rows, movements |-> B.movements]
  BY <1>2 DEF Ledger
<1>7. ASSUME NEW w \in Wallets, B.rows[w].status = "absent"
      PROVE  B.rows[w].bal = ZeroBalance
  BY <1>2, <1>7 DEF SameAt, LedgerOK
<1>8. QED
  BY <1>2, <1>5, <1>6, <1>7 DEF Publish, LedgerOK

-----------------------------------------------------------------------------
(* The steps of one call, as steps from S to T while the ledger L stays. *)

\* What was posted before stays posted as the call goes on in the same group.
LEMMA DoneKept ==
  ASSUME NEW L, NEW S, NEW T, NEW D, Done(L, S, D),
         T.req = S.req, Completed(T) = Completed(S), DOMAIN S.mine \subseteq DOMAIN T.mine,
         \A k : HasKey(S, k) => HasKey(T, k)
  PROVE  Done(L, T, D)
<1>1. \A B, g : Ready(L, B, S, g) => Ready(L, B, T, g)
  BY DEF Ready
<1>2. QED
  BY <1>1 DEF Done

\* A call that holds nothing.
LEMMA Reset ==
  ASSUME NEW L, NEW T, T.pc = "idle", T.grp = 1, T.at = 1, T.hit = {},
         T.mine = None, T.ins = NoMovements,
         T.out \in {"posted", "duplicate"} =>
           \A g \in 1..Len(T.req) : \A i \in 1..Len(T.req[g]) : Posted(L, T.req[g][i].key)
  PROVE  /\ SessionOK(L, T) /\ Progress(L, T)
         /\ DOMAIN T.mine = {} /\ \A k : ~HasKey(T, k)
<1>1. DOMAIN T.mine = {}
  BY DEF None
<1>2. T.ins \in [Wallets -> Seq(Movement)] /\ \A w \in Wallets : T.ins[w] = <<>>
  BY DEF NoMovements
<1>3. \A k : ~HasKey(T, k)
  BY <1>2 DEF HasKey
<1>4. T.pc \in PcNames /\ Idle(T) /\ T.pc # "refind"
  BY DEF PcNames, Idle
<1>5. SessionOK(L, T)
  BY <1>1, <1>2, <1>3, <1>4 DEF SessionOK
<1>6. QED
  BY <1>1, <1>3, <1>4, <1>5 DEF Progress

\* A statement before the rows of the group are written: it may take a row of
\* the group that nobody holds.
LEMMA Quiet ==
  ASSUME NEW L \in Ledger, NEW S, SessionOK(L, S), Progress(L, S), NEW T,
         S.pc \in {"find", "ensure", "insertRow", "active", "lock"},
         T.pc \in {"find", "ensure", "insertRow", "active", "lock", "check"},
         T.pc = "find" => S.pc = "find" /\ DOMAIN T.mine = DOMAIN S.mine,
         T.req = S.req, T.grp = S.grp, T.ins = S.ins, T.out = S.out,
         T.at \in 1..Len(Cur(S)), T.pc \in {"active", "lock", "check"} => T.at = 1,
         \A k \in T.hit : Posted(L, k),
         DOMAIN S.mine \subseteq DOMAIN T.mine,
         DOMAIN T.mine \subseteq DOMAIN S.mine \cup WalletsOf(Cur(S)),
         \A w \in DOMAIN S.mine : T.mine[w] = S.mine[w],
         \A w \in DOMAIN T.mine \ DOMAIN S.mine : T.mine[w] = Open(L.rows[w]),
         T.pc \in {"ensure", "insertRow"} =>
           \A i \in 1..(T.at - 1) : Sees(L, T, Cur(S)[i].wallet).status # "absent",
         T.pc \in {"active", "lock"} =>
           \A i \in 1..Len(Cur(S)) : Sees(L, T, Cur(S)[i].wallet).status # "absent",
         T.pc = "check" => WalletsOf(Cur(S)) \subseteq DOMAIN T.mine
  PROVE  SessionOK(L, T) /\ Progress(L, T)
<1>1. /\ Cur(T) = Cur(S) /\ Completed(T) = Completed(S) /\ \A k : HasKey(T, k) <=> HasKey(S, k)
      /\ S.pc # "idle" /\ T.pc # "idle" /\ ~Idle(T) /\ ~Idle(S) /\ T.pc \in PcNames
      /\ S.pc # "insert" /\ T.pc # "insert" /\ S.pc # "commit" /\ T.pc # "commit"
  BY DEF Cur, Completed, HasKey, Idle, PcNames
<1>2. PICK D \in SUBSET (1..2) : Working(L, S, D)
  BY <1>1 DEF Progress
<1>3. PICK B : B = Base(L, S.req, D)
  OBVIOUS
<1>4. /\ Done(L, S, D) /\ Reading(L, B, S)
      /\ DOMAIN S.mine \subseteq WalletsDone(S, D) \cup WalletsOf(Cur(S))
      /\ S.pc = "find" => DOMAIN S.mine \subseteq WalletsDone(S, D)
  BY <1>1, <1>2, <1>3 DEF Working
<1>5. GoodGroup(Cur(S))
  BY <1>1, <1>4, DoneGroups
<1>6. WalletsOf(Cur(S)) \subseteq Wallets
  BY <1>5, GroupFields
<1>7. /\ B \in Ledger /\ WalletsDone(S, D) \subseteq DOMAIN S.mine
      /\ \A w \in Wallets \ WalletsDone(S, D) : SameAt(L, B, w)
  BY <1>1, <1>3, <1>4, BaseFields
<1>8. ASSUME NEW w \in DOMAIN T.mine \ DOMAIN S.mine
      PROVE  /\ T.mine[w] \in Row /\ T.mine[w].status # "absent"
             /\ AsIn(L, B, T, w)
  <2>1. w \in Wallets /\ SameAt(L, B, w) /\ T.mine[w] = Open(L.rows[w])
    BY <1>6, <1>7
  <2>2. S.ins[w] = <<>> /\ L.movements[w] \in Seq(Movement)
    BY <2>1 DEF SessionOK, Ledger
  <2>3. L.movements[w] \o T.ins[w] = B.movements[w]
    <3>1. L.movements[w] \o <<>> = L.movements[w]
      BY <2>2
    <3>2. QED
      BY <2>1, <2>2, <3>1 DEF SameAt
  <2>4. L.rows[w] \in Row
    BY <2>1 DEF Ledger
  <2>5. Open(L.rows[w]) \in Row /\ Open(L.rows[w]).status # "absent"
    BY <2>4 DEF Open, Opening, Row, Statuses
  <2>6. QED
    BY <2>1, <2>3, <2>5 DEF AsIn, SameAt
<1>9. SessionOK(L, T)
  <2>1. /\ T.req \in Requests /\ T.grp \in 1..Len(T.req) /\ T.at \in 1..Len(Cur(T))
        /\ T.ins \in [Wallets -> Seq(Movement)]
        /\ \A k \in Keys : HasKey(T, k) => ~Posted(L, k)
        /\ T.out \in {"posted", "duplicate"} =>
             \A g \in 1..Len(T.req) : \A i \in 1..Len(T.req[g]) : Posted(L, T.req[g][i].key)
    BY <1>1 DEF SessionOK
  <2>2. DOMAIN T.mine \subseteq Wallets
    BY <1>6 DEF SessionOK
  <2>3. \A w \in DOMAIN T.mine : T.mine[w] \in Row /\ T.mine[w].status # "absent"
    BY <1>8 DEF SessionOK
  <2>4. \A w \in Wallets \ DOMAIN T.mine : T.ins[w] = <<>>
    BY DEF SessionOK
  <2>5. QED
    BY <1>1, <2>1, <2>2, <2>3, <2>4 DEF SessionOK, Idle
<1>10. Done(L, T, D)
  BY <1>1, <1>4, DoneKept
<1>11. WalletsDone(T, D) = WalletsDone(S, D)
  BY DEF WalletsDone
<1>12. DOMAIN T.mine \subseteq
       IF T.pc \in {"find", "commit"} THEN WalletsDone(T, D)
       ELSE WalletsDone(T, D) \cup WalletsOf(Cur(T))
  BY <1>1, <1>4, <1>11
<1>13. Reading(L, B, T)
  <2>1. ASSUME NEW w \in DOMAIN S.mine
        PROVE  AsIn(L, B, T, w)
    BY <1>4 DEF Reading, AsIn
  <2>2. \A w \in DOMAIN T.mine : AsIn(L, B, T, w)
    BY <1>8, <2>1
  <2>3. QED
    BY <1>1, <2>2 DEF Reading
<1>14. Working(L, T, D)
  BY <1>1, <1>3, <1>10, <1>12, <1>13 DEF Working
<1>15. QED
  BY <1>9, <1>14 DEF Progress

\* The number of the group after which S stands, or COMMIT.
GoesOn(S, T) ==
  \/ S.grp < Len(S.req) /\ T.grp = S.grp + 1 /\ T.pc = "find"
  \/ S.grp = Len(S.req) /\ T.grp = S.grp /\ T.pc = "commit"

LEMMA GoesOnFields ==
  ASSUME NEW L, NEW S, SessionOK(L, S), S.pc \notin {"idle", "commit"}, NEW T, GoesOn(S, T),
         T.req = S.req, T.at = 1
  PROVE  /\ S.grp \in 1..2 /\ Completed(S) = 1..(S.grp - 1) /\ Completed(T) = 1..S.grp
         /\ T.grp \in 1..Len(T.req) /\ T.at \in 1..Len(Cur(T))
         /\ T.pc \in PcNames \ {"idle", "refind", "insert", "active", "lock", "check"}
         /\ ~Idle(T) /\ T.pc \in {"find", "commit"}
<1>1. S.req \in Requests /\ S.grp \in 1..Len(S.req)
  BY DEF SessionOK
<1>2. Len(S.req) \in {1, 2} /\ \A k \in 1..Len(S.req) : GoodGroup(S.req[k])
  BY <1>1, RequestGroups
<1>3. S.grp \in 1..2 /\ S.grp \in Nat
  BY <1>1, <1>2
<1>4. T.grp \in 1..Len(T.req) /\ T.pc \in {"find", "commit"}
  BY <1>1, <1>2 DEF GoesOn
<1>5. Completed(S) = 1..(S.grp - 1)
  BY DEF Completed
<1>6. Completed(T) = 1..S.grp
  BY <1>3 DEF Completed, GoesOn
<1>7. GoodGroup(Cur(T))
  BY <1>2, <1>4 DEF Cur
<1>8. 1 \in 1..Len(Cur(T))
  BY <1>7, GroupFirst
<1>9. QED
  BY <1>3, <1>4, <1>5, <1>6, <1>8 DEF PcNames, Idle

\* All keys of the group were found posted: a duplicate, skipped.
LEMMA Skip ==
  ASSUME NEW L \in Ledger, NEW S, SessionOK(L, S), Progress(L, S), S.pc = "find",
         NEW T, GoesOn(S, T), T.req = S.req, T.at = 1, T.hit = {}, T.mine = S.mine,
         T.ins = S.ins, T.out = S.out,
         \A i \in 1..Len(Cur(S)) : Posted(L, Cur(S)[i].key)
  PROVE  SessionOK(L, T) /\ Progress(L, T)
<1>1. /\ S.grp \in 1..2 /\ Completed(S) = 1..(S.grp - 1) /\ Completed(T) = 1..S.grp
      /\ T.grp \in 1..Len(T.req) /\ T.at \in 1..Len(Cur(T))
      /\ T.pc \in PcNames \ {"idle", "refind", "insert", "active", "lock", "check"}
      /\ ~Idle(T) /\ T.pc \in {"find", "commit"}
  BY GoesOnFields
<1>2. /\ S.pc # "idle" /\ ~Idle(S) /\ S.pc # "insert"
      /\ \A k : HasKey(T, k) <=> HasKey(S, k)
  BY DEF Idle, HasKey
<1>3. SessionOK(L, T)
  BY <1>1, <1>2 DEF SessionOK
<1>4. PICK D \in SUBSET (1..2) : Working(L, S, D)
  BY <1>2 DEF Progress
<1>5. PICK B : B = Base(L, S.req, D)
  OBVIOUS
<1>6. /\ Done(L, S, D) /\ Reading(L, B, S)
      /\ DOMAIN S.mine \subseteq WalletsDone(S, D)
  BY <1>2, <1>4, <1>5 DEF Working
<1>7. Done(L, T, D)
  <2>1. D \subseteq Completed(T)
    BY <1>1, <1>6 DEF Done
  <2>2. ASSUME NEW g \in Completed(T) \ D, NEW i \in 1..Len(T.req[g])
        PROVE  Posted(L, T.req[g][i].key)
    <3>1. CASE g = S.grp
      BY <3>1 DEF Cur
    <3>2. CASE g # S.grp
      <4>1. g \in Completed(S) \ D
        BY <1>1, <3>2
      <4>2. QED
        BY <1>6, <4>1 DEF Done
    <3>3. QED
      BY <3>1, <3>2
  <2>3. \A C, g : Ready(L, C, S, g) => Ready(L, C, T, g)
    BY <1>2 DEF Ready
  <2>4. QED
    BY <1>6, <2>1, <2>2, <2>3 DEF Done
<1>8. Reading(L, B, T)
  BY <1>1, <1>6 DEF Reading, AsIn
<1>9. WalletsDone(T, D) = WalletsDone(S, D)
  BY DEF WalletsDone
<1>10. Working(L, T, D)
  BY <1>1, <1>5, <1>6, <1>7, <1>8, <1>9 DEF Working
<1>11. QED
  BY <1>3, <1>10 DEF Progress

LegUpdated(S, T, i) ==
  LET l == Cur(S)[i]
  IN /\ Covers(l.op, S.mine[l.wallet].bal, l.amount)
     /\ T.after[i] = After(l.op, S.mine[l.wallet].bal, l.amount)
     /\ T.mine[l.wallet] = [S.mine[l.wallet] EXCEPT !.bal = T.after[i]]

\* The rows of the group are written, computed from what was read under the locks.
LEMMA Update ==
  ASSUME NEW L \in Ledger, NEW S, SessionOK(L, S), Progress(L, S), S.pc = "check",
         NEW T, T.pc = "insert", T.req = S.req, T.grp = S.grp, T.at = S.at, T.hit = S.hit,
         T.ins = S.ins, T.out = S.out, DOMAIN T.mine = DOMAIN S.mine,
         \A w \in DOMAIN S.mine \ WalletsOf(Cur(S)) : T.mine[w] = S.mine[w],
         \A i \in 1..Len(Cur(S)) : LegUpdated(S, T, i),
         Len(Cur(S)) = 2 /\ S.grp = 1 =>
           \A i \in 1..Len(Cur(S)) : S.mine[Cur(S)[i].wallet].status = "active"
  PROVE  SessionOK(L, T) /\ Progress(L, T)
<1>1. /\ Cur(T) = Cur(S) /\ Completed(T) = Completed(S) /\ \A k : HasKey(T, k) <=> HasKey(S, k)
      /\ S.pc # "idle" /\ T.pc # "idle" /\ ~Idle(T) /\ ~Idle(S) /\ T.pc \in PcNames
      /\ S.pc # "insert" /\ S.pc # "commit" /\ T.pc # "commit"
  <2>1. \A k : HasKey(T, k) <=> HasKey(S, k)
    BY DEF HasKey
  <2>2. Completed(T) = Completed(S) /\ Cur(T) = Cur(S)
    BY DEF Completed, Cur
  <2>3. QED
    BY <2>1, <2>2 DEF Idle, PcNames
<1>2. PICK D \in SUBSET (1..2) : Working(L, S, D)
  BY <1>1 DEF Progress
<1>3. PICK B : B = Base(L, S.req, D)
  OBVIOUS
<1>4. PICK g : g = Cur(S)
  OBVIOUS
<1>5. /\ Done(L, S, D) /\ Reading(L, B, S)
      /\ DOMAIN S.mine \subseteq WalletsDone(S, D) \cup WalletsOf(g)
  BY <1>1, <1>2, <1>3, <1>4 DEF Working
<1>6. GoodGroup(g) /\ B \in Ledger
  BY <1>1, <1>3, <1>4, <1>5, DoneGroups, BaseFields
<1>7. WalletsOf(g) \subseteq DOMAIN S.mine
  BY <1>4, <1>5 DEF Reading
<1>8. ASSUME NEW i \in 1..Len(g)
      PROVE  /\ g[i].wallet \in DOMAIN S.mine /\ g[i].wallet \in Wallets /\ g[i] \in Leg
             /\ Covers(g[i].op, B.rows[g[i].wallet].bal, g[i].amount)
             /\ T.after[i] = NewBalance(B, g[i])
             /\ T.mine[g[i].wallet] = [status |-> Opening(B.rows[g[i].wallet]),
                                       bal |-> NewBalance(B, g[i])]
             /\ T.mine[g[i].wallet] \in Row
             /\ T.mine[g[i].wallet].status # "absent"
             /\ L.movements[g[i].wallet] \o T.ins[g[i].wallet] = B.movements[g[i].wallet]
  <2>1. /\ g[i].wallet \in DOMAIN S.mine /\ g[i].wallet \in Wallets /\ g[i] \in Leg
    BY <1>6, <1>7, LegFields DEF WalletsOf, GoodGroup
  <2>2. AsIn(L, B, S, g[i].wallet)
    BY <1>5, <2>1 DEF Reading
  <2>3. S.mine[g[i].wallet] = [status |-> Opening(B.rows[g[i].wallet]),
                               bal |-> B.rows[g[i].wallet].bal]
    BY <2>2 DEF AsIn, Open
  <2>4. /\ Covers(g[i].op, S.mine[g[i].wallet].bal, g[i].amount)
        /\ T.after[i] = After(g[i].op, S.mine[g[i].wallet].bal, g[i].amount)
        /\ T.mine[g[i].wallet] = [S.mine[g[i].wallet] EXCEPT !.bal = T.after[i]]
    BY <1>4 DEF LegUpdated
  <2>5. S.mine[g[i].wallet].bal = B.rows[g[i].wallet].bal
    BY <2>3
  <2>6. T.after[i] = NewBalance(B, g[i])
    BY <2>4, <2>5 DEF NewBalance
  <2>7. T.mine[g[i].wallet] = [status |-> Opening(B.rows[g[i].wallet]),
                               bal |-> NewBalance(B, g[i])]
    BY <2>3, <2>4, <2>6
  <2>8. Covers(g[i].op, B.rows[g[i].wallet].bal, g[i].amount)
    BY <2>4, <2>5
  <2>9. NewBalance(B, g[i]) \in Balance
    BY <1>6, <2>1, <2>8, PostFields
  <2>10. S.mine[g[i].wallet] \in Row
    BY <2>1 DEF SessionOK
  <2>11. T.mine[g[i].wallet] \in Row
    BY <2>3, <2>7, <2>9, <2>10 DEF Row
  <2>12. L.movements[g[i].wallet] \o T.ins[g[i].wallet] = B.movements[g[i].wallet]
    BY <2>2 DEF AsIn
  <2>13. T.mine[g[i].wallet].status # "absent"
    BY <2>7, OpeningPresent
  <2>14. QED
    BY <2>1, <2>6, <2>7, <2>8, <2>11, <2>12, <2>13
<1>9. ActiveOn(B, g)
  <2>1. SUFFICES ASSUME Len(g) = 2, g[1].type = "internal_transfer_debit"
                 PROVE  \A i \in 1..Len(g) : Opening(B.rows[g[i].wallet]) = "active"
    BY DEF ActiveOn
  <2>2. S.grp = 1
    <3>1. S.req \in Requests /\ S.grp \in 1..Len(S.req)
      BY <1>1 DEF SessionOK
    <3>2. S.grp = 1 \/ (S.grp = 2 /\ Len(S.req) = 2)
      BY <3>1, GroupNumber
    <3>3. ASSUME S.grp = 2, Len(S.req) = 2 PROVE FALSE
      <4>1. IsFee(S.req[2])
        BY <3>1, <3>3, RequestGroups
      <4>2. IsFee(g)
        BY <1>4, <3>3, <4>1 DEF Cur
      <4>3. QED
        BY <2>1, <4>2 DEF IsFee
    <3>4. QED
      BY <3>2, <3>3
  <2>3. ASSUME NEW i \in 1..Len(g)
        PROVE  Opening(B.rows[g[i].wallet]) = "active"
    <3>1. AsIn(L, B, S, g[i].wallet)
      BY <1>5, <1>8 DEF Reading
    <3>2. S.mine[g[i].wallet].status = Opening(B.rows[g[i].wallet])
      BY <3>1 DEF AsIn, Open
    <3>3. S.mine[g[i].wallet].status = "active"
      BY <1>4, <2>1, <2>2
    <3>4. QED
      BY <3>2, <3>3
  <2>4. QED
    BY <2>3
<1>10. ASSUME NEW w \in DOMAIN T.mine
       PROVE  T.mine[w] \in Row /\ T.mine[w].status # "absent"
  <2>1. CASE w \in WalletsOf(g)
    <3>1. PICK i \in 1..Len(g) : w = g[i].wallet
      BY <2>1 DEF WalletsOf
    <3>2. T.mine[g[i].wallet] \in Row /\ T.mine[g[i].wallet].status # "absent"
      BY <1>8
    <3>3. QED
      BY <3>1, <3>2
  <2>2. CASE w \notin WalletsOf(g)
    BY <1>4, <2>2 DEF SessionOK
  <2>3. QED
    BY <2>1, <2>2
<1>11. SessionOK(L, T)
  BY <1>1, <1>10 DEF SessionOK, Idle
<1>12. Done(L, T, D)
  BY <1>1, <1>5, DoneKept
<1>13. WalletsDone(T, D) = WalletsDone(S, D)
  BY DEF WalletsDone
<1>14. Writing(L, B, T)
  <2>1. CoveredOn(B, g)
    BY <1>8 DEF CoveredOn
  <2>2. \A w \in DOMAIN T.mine \ WalletsOf(g) : AsIn(L, B, T, w)
    BY <1>4, <1>5 DEF Reading, AsIn
  <2>3. T.at = 1
    BY DEF SessionOK
  <2>4. ASSUME NEW i \in 1..Len(g)
        PROVE  LegWritten(L, B, T, i)
    <3>1. ~(i < T.at)
      BY <2>3
    <3>2. QED
      BY <1>1, <1>4, <1>8, <3>1 DEF LegWritten
  <2>5. QED
    BY <1>1, <1>4, <1>7, <1>9, <2>1, <2>2, <2>4 DEF Writing
<1>15. Working(L, T, D)
  BY <1>1, <1>3, <1>4, <1>5, <1>12, <1>13, <1>14 DEF Working
<1>16. QED
  BY <1>11, <1>15 DEF Progress

LEMMA ConcatAppend ==
  ASSUME NEW V, NEW m \in Seq(V), NEW n \in Seq(V), NEW e \in V
  PROVE  m \o Append(n, e) = Append(m \o n, e)
OBVIOUS

\* The movement of the current leg added to what the call has inserted.
InsertedLeg(S, T) ==
  LET l == Cur(S)[S.at]
  IN T.ins = [S.ins EXCEPT ![l.wallet] = Append(@, MovementOf(l, S.after[S.at]))]

AppendedAt(S, T, v, e) == T.ins = [S.ins EXCEPT ![v] = Append(@, e)]

LEMMA InsertedKeys ==
  ASSUME NEW S, S.ins \in [Wallets -> Seq(Movement)], NEW T,
         NEW v \in Wallets, NEW e \in Movement, AppendedAt(S, T, v, e)
  PROVE  /\ T.ins \in [Wallets -> Seq(Movement)]
         /\ \A w \in Wallets \ {v} : T.ins[w] = S.ins[w]
         /\ T.ins[v] = Append(S.ins[v], e)
         /\ \A k : HasKey(T, k) <=> HasKey(S, k) \/ k = e.key
<1>1. /\ \A w \in Wallets \ {v} : T.ins[w] = S.ins[w]
      /\ T.ins[v] = Append(S.ins[v], e)
  BY DEF AppendedAt
<1>2. PICK m : m = S.ins[v]
  OBVIOUS
<1>3. m \in Seq(Movement) /\ T.ins[v] = Append(m, e)
  BY <1>1, <1>2
<1>4. /\ Append(m, e) \in Seq(Movement) /\ Len(Append(m, e)) = Len(m) + 1 /\ Len(m) \in Nat
      /\ \A i \in 1..Len(m) : Append(m, e)[i] = m[i]
      /\ Append(m, e)[Len(m) + 1] = e
  BY <1>3
<1>5. T.ins \in [Wallets -> Seq(Movement)]
  BY <1>3, <1>4 DEF AppendedAt
<1>6. ASSUME NEW k, HasKey(T, k) PROVE HasKey(S, k) \/ k = e.key
  <2>1. PICK w \in Wallets : \E i \in 1..Len(T.ins[w]) : T.ins[w][i].key = k
    BY <1>6 DEF HasKey
  <2>2. PICK i \in 1..Len(T.ins[w]) : T.ins[w][i].key = k
    BY <2>1
  <2>3. CASE w # v
    BY <1>1, <2>2, <2>3 DEF HasKey
  <2>4. CASE w = v
    <3>1. i \in 1..(Len(m) + 1) /\ Append(m, e)[i].key = k
      BY <1>3, <1>4, <2>2, <2>4
    <3>2. i \in 1..Len(m) \/ i = Len(m) + 1
      BY <1>4, <3>1
    <3>3. CASE i \in 1..Len(m)
      <4>1. m[i].key = k
        BY <1>4, <3>1, <3>3
      <4>2. QED
        BY <1>2, <3>3, <4>1 DEF HasKey
    <3>4. CASE i = Len(m) + 1
      BY <1>4, <3>1, <3>4
    <3>5. QED
      BY <3>2, <3>3, <3>4
  <2>5. QED
    BY <2>3, <2>4
<1>7. ASSUME NEW k, HasKey(S, k) PROVE HasKey(T, k)
  <2>1. PICK w \in Wallets : \E i \in 1..Len(S.ins[w]) : S.ins[w][i].key = k
    BY <1>7 DEF HasKey
  <2>2. PICK i \in 1..Len(S.ins[w]) : S.ins[w][i].key = k
    BY <2>1
  <2>3. CASE w # v
    BY <1>1, <2>2, <2>3 DEF HasKey
  <2>4. CASE w = v
    <3>1. i \in 1..Len(m) /\ m[i].key = k
      BY <1>2, <2>2, <2>4
    <3>2. i \in 1..Len(Append(m, e)) /\ Append(m, e)[i].key = k
      BY <1>4, <3>1
    <3>3. QED
      BY <1>3, <3>2 DEF HasKey
  <2>5. QED
    BY <2>3, <2>4
<1>8. HasKey(T, e.key)
  <2>1. Len(m) + 1 \in 1..Len(Append(m, e)) /\ Append(m, e)[Len(m) + 1].key = e.key
    BY <1>4
  <2>2. QED
    BY <1>3, <2>1 DEF HasKey
<1>9. QED
  BY <1>1, <1>5, <1>6, <1>7, <1>8

\* Leg l is posted by the call, or its row only is written.
LegIn(L, B, T, l) ==
  /\ T.mine[l.wallet] = [status |-> Opening(B.rows[l.wallet]), bal |-> NewBalance(B, l)]
  /\ L.movements[l.wallet] \o T.ins[l.wallet] = Append(B.movements[l.wallet], NewMovement(B, l))
  /\ HasKey(T, l.key) /\ ~SlotTaken(L, l)

LegAhead(L, B, T, l) ==
  /\ T.mine[l.wallet] = [status |-> Opening(B.rows[l.wallet]), bal |-> NewBalance(B, l)]
  /\ L.movements[l.wallet] \o T.ins[l.wallet] = B.movements[l.wallet]

\* insertMovement for one leg: what holds whether or not it is the last.
LEMMA InsertLeg ==
  ASSUME NEW L \in Ledger, NEW S, SessionOK(L, S), S.pc = "insert",
         NEW D \in SUBSET (1..2), Working(L, S, D), NEW B, B = Base(L, S.req, D),
         NEW T, T.req = S.req, T.mine = S.mine, InsertedLeg(S, T),
         NEW l, l = Cur(S)[S.at], ~Posted(L, l.key), ~SlotTaken(L, l)
  PROVE  /\ B \in Ledger /\ Done(L, S, D) /\ GoodGroup(Cur(S)) /\ S.at \in 1..Len(Cur(S))
         /\ CoveredOn(B, Cur(S)) /\ ActiveOn(B, Cur(S)) /\ WalletsOf(Cur(S)) \subseteq DOMAIN S.mine
         /\ DOMAIN S.mine \subseteq WalletsDone(S, D) \cup WalletsOf(Cur(S))
         /\ T.ins \in [Wallets -> Seq(Movement)]
         /\ \A w \in Wallets \ DOMAIN S.mine : T.ins[w] = <<>>
         /\ \A k : HasKey(T, k) <=> HasKey(S, k) \/ k = l.key
         /\ \A w \in DOMAIN S.mine \ WalletsOf(Cur(S)) : AsIn(L, B, T, w)
         /\ \A i \in 1..Len(Cur(S)) : i <= S.at => LegIn(L, B, T, Cur(S)[i])
         /\ \A i \in 1..Len(Cur(S)) : i > S.at => LegAhead(L, B, T, Cur(S)[i])
         /\ \A i \in 1..Len(Cur(S)) : S.after[i] = NewBalance(B, Cur(S)[i])
<1>1. PICK g : g = Cur(S)
  OBVIOUS
<1>2. /\ Done(L, S, D) /\ Writing(L, B, S)
      /\ DOMAIN S.mine \subseteq WalletsDone(S, D) \cup WalletsOf(g)
  BY <1>1 DEF Working
<1>3. /\ S.pc # "idle" /\ S.at \in 1..Len(g) /\ S.ins \in [Wallets -> Seq(Movement)]
      /\ DOMAIN S.mine \subseteq Wallets
      /\ \A w \in Wallets \ DOMAIN S.mine : S.ins[w] = <<>>
  BY <1>1 DEF SessionOK
<1>4. GoodGroup(g) /\ B \in Ledger
  BY <1>1, <1>2, <1>3, DoneGroups, BaseFields
<1>5. /\ CoveredOn(B, g) /\ ActiveOn(B, g) /\ WalletsOf(g) \subseteq DOMAIN S.mine
      /\ \A w \in DOMAIN S.mine \ WalletsOf(g) : AsIn(L, B, S, w)
      /\ \A i \in 1..Len(g) : LegWritten(L, B, S, i)
  BY <1>1, <1>2 DEF Writing
<1>6. ASSUME NEW i \in 1..Len(g)
      PROVE  /\ g[i] \in Leg /\ g[i].wallet \in Wallets /\ g[i].wallet \in WalletsOf(g)
             /\ S.after[i] = NewBalance(B, g[i])
             /\ i # S.at => g[i].wallet # l.wallet
  <2>1. g[i] \in Leg
    BY <1>4 DEF GoodGroup
  <2>2. g[i].wallet \in Wallets
    BY <2>1, LegFields
  <2>3. /\ g[i].wallet \in WalletsOf(g)
        /\ \A j \in 1..Len(g) : i # j => g[i].wallet # g[j].wallet
    BY <1>4, GroupFields
  <2>4. S.after[i] = NewBalance(B, g[i])
    BY <1>1, <1>5 DEF LegWritten
  <2>5. i # S.at => g[i].wallet # l.wallet
    BY <1>1, <1>3, <2>3
  <2>6. QED
    BY <2>1, <2>2, <2>3, <2>4, <2>5
<1>7. /\ l \in Leg /\ l.wallet \in Wallets /\ l.wallet \in WalletsOf(g)
      /\ Covers(l.op, B.rows[l.wallet].bal, l.amount)
  BY <1>1, <1>3, <1>5, <1>6 DEF CoveredOn
<1>8. PICK e : e = NewMovement(B, l)
  OBVIOUS
<1>9. e \in Movement /\ e.key = l.key
  BY <1>4, <1>7, <1>8, PostFields DEF NewMovement
<1>10. MovementOf(l, S.after[S.at]) = e
  <2>1. S.after[S.at] = NewBalance(B, l)
    BY <1>1, <1>3, <1>6
  <2>2. QED
    BY <1>8, <2>1 DEF MovementOf, NewMovement
<1>11. T.ins = [S.ins EXCEPT ![l.wallet] = Append(@, e)]
  BY <1>10 DEF InsertedLeg
<1>12. /\ T.ins \in [Wallets -> Seq(Movement)]
       /\ \A w \in Wallets \ {l.wallet} : T.ins[w] = S.ins[w]
       /\ T.ins[l.wallet] = Append(S.ins[l.wallet], e)
       /\ \A k : HasKey(T, k) <=> HasKey(S, k) \/ k = l.key
  <2>1. PICK v : v = l.wallet
    OBVIOUS
  <2>2. /\ v \in Wallets /\ e \in Movement /\ AppendedAt(S, T, v, e)
        /\ S.ins \in [Wallets -> Seq(Movement)]
    BY <1>3, <1>7, <1>9, <1>11, <2>1 DEF AppendedAt
  <2>3. /\ T.ins \in [Wallets -> Seq(Movement)]
        /\ \A w \in Wallets \ {v} : T.ins[w] = S.ins[w]
        /\ T.ins[v] = Append(S.ins[v], e)
        /\ \A k : HasKey(T, k) <=> HasKey(S, k) \/ k = e.key
    BY <2>2, InsertedKeys
  <2>4. QED
    BY <1>9, <2>1, <2>3
<1>13. ASSUME NEW w \in Wallets \ DOMAIN S.mine
       PROVE  T.ins[w] = <<>>
  <2>1. w # l.wallet
    BY <1>5, <1>7
  <2>2. T.ins[w] = S.ins[w]
    BY <1>12, <2>1
  <2>3. QED
    BY <1>3, <2>2
<1>14. ASSUME NEW w \in DOMAIN S.mine \ WalletsOf(g)
       PROVE  AsIn(L, B, T, w)
  BY <1>3, <1>5, <1>7, <1>12 DEF AsIn
<1>15. L.movements[l.wallet] \o T.ins[l.wallet] = Append(B.movements[l.wallet], e)
  <2>1. PICK m, n : m = L.movements[l.wallet] /\ n = S.ins[l.wallet]
    OBVIOUS
  <2>2. m \in Seq(Movement) /\ n \in Seq(Movement)
    BY <1>3, <1>7, <2>1 DEF Ledger
  <2>3. m \o n = B.movements[l.wallet]
    <3>1. LegWritten(L, B, S, S.at)
      BY <1>3, <1>5
    <3>2. ~(S.at < S.at)
      BY <1>3
    <3>3. QED
      BY <2>1, <3>1, <3>2 DEF LegWritten
  <2>4. m \o Append(n, e) = Append(m \o n, e)
    BY <1>9, <2>2, ConcatAppend
  <2>5. QED
    BY <1>12, <2>1, <2>3, <2>4
<1>16. ASSUME NEW i \in 1..Len(g), i <= S.at
       PROVE  LegIn(L, B, T, g[i])
  <2>1. T.mine[g[i].wallet] = [status |-> Opening(B.rows[g[i].wallet]), bal |-> NewBalance(B, g[i])]
    BY <1>1, <1>5 DEF LegWritten
  <2>2. CASE i = S.at
    <3>1. g[i] = l
      BY <1>1, <2>2
    <3>2. QED
      BY <1>8, <1>12, <1>15, <2>1, <3>1 DEF LegIn
  <2>3. CASE i # S.at
    <3>1. i < S.at
      BY <1>3, <1>16, <2>3
    <3>2. /\ L.movements[g[i].wallet] \o S.ins[g[i].wallet] =
               Append(B.movements[g[i].wallet], NewMovement(B, g[i]))
          /\ HasKey(S, g[i].key) /\ ~SlotTaken(L, g[i])
      BY <1>1, <1>5, <3>1 DEF LegWritten
    <3>3. T.ins[g[i].wallet] = S.ins[g[i].wallet]
      BY <1>6, <1>12, <2>3
    <3>4. QED
      BY <1>12, <2>1, <3>2, <3>3 DEF LegIn
  <2>4. QED
    BY <2>2, <2>3
<1>17. ASSUME NEW i \in 1..Len(g), i > S.at
       PROVE  LegAhead(L, B, T, g[i])
  <2>1. ~(i < S.at) /\ i # S.at
    BY <1>3, <1>17
  <2>2. /\ T.mine[g[i].wallet] = [status |-> Opening(B.rows[g[i].wallet]),
                                  bal |-> NewBalance(B, g[i])]
        /\ L.movements[g[i].wallet] \o S.ins[g[i].wallet] = B.movements[g[i].wallet]
    BY <1>1, <1>5, <2>1 DEF LegWritten
  <2>3. T.ins[g[i].wallet] = S.ins[g[i].wallet]
    BY <1>6, <1>12, <2>1
  <2>4. QED
    BY <2>2, <2>3 DEF LegAhead
<1>18. QED
  BY <1>1, <1>2, <1>3, <1>4, <1>5, <1>6, <1>12, <1>13, <1>14, <1>16, <1>17

\* More legs to insert.
LEMMA InsertNext ==
  ASSUME NEW L \in Ledger, NEW S, SessionOK(L, S), Progress(L, S), S.pc = "insert",
         NEW T, T.pc = "insert", T.req = S.req, T.grp = S.grp, T.mine = S.mine,
         T.hit = S.hit, T.out = S.out, T.after = S.after,
         T.at = S.at + 1, S.at # Len(Cur(S)), InsertedLeg(S, T),
         NEW l, l = Cur(S)[S.at], ~Posted(L, l.key), ~SlotTaken(L, l)
  PROVE  /\ SessionOK(L, T) /\ Progress(L, T)
         /\ \A k : HasKey(T, k) <=> HasKey(S, k) \/ k = l.key
<1>1. /\ Cur(T) = Cur(S) /\ Completed(T) = Completed(S)
      /\ ~Idle(T) /\ ~Idle(S)
  BY DEF Cur, Completed, Idle
<1>2. PICK D \in SUBSET (1..2) : Working(L, S, D)
  BY <1>1 DEF Progress
<1>3. PICK B : B = Base(L, S.req, D)
  OBVIOUS
<1>4. PICK g : g = Cur(S)
  OBVIOUS
<1>5. /\ B \in Ledger /\ Done(L, S, D) /\ GoodGroup(g) /\ S.at \in 1..Len(g)
      /\ CoveredOn(B, g) /\ ActiveOn(B, g) /\ WalletsOf(g) \subseteq DOMAIN S.mine
      /\ DOMAIN S.mine \subseteq WalletsDone(S, D) \cup WalletsOf(g)
      /\ T.ins \in [Wallets -> Seq(Movement)]
      /\ \A w \in Wallets \ DOMAIN S.mine : T.ins[w] = <<>>
      /\ \A k : HasKey(T, k) <=> HasKey(S, k) \/ k = l.key
      /\ \A w \in DOMAIN S.mine \ WalletsOf(g) : AsIn(L, B, T, w)
      /\ \A i \in 1..Len(g) : i <= S.at => LegIn(L, B, T, g[i])
      /\ \A i \in 1..Len(g) : i > S.at => LegAhead(L, B, T, g[i])
      /\ \A i \in 1..Len(g) : S.after[i] = NewBalance(B, g[i])
  BY <1>2, <1>3, <1>4, InsertLeg
<1>6. T.at \in 1..Len(Cur(T))
  <2>1. PICK m : m = Len(g)
    OBVIOUS
  <2>2. m \in {1, 2} /\ S.at \in 1..m /\ S.at # m
    BY <1>4, <1>5, <2>1 DEF GoodGroup
  <2>3. S.at + 1 \in 1..m
    BY <2>2
  <2>4. QED
    BY <1>1, <1>4, <2>1, <2>3
<1>7. SessionOK(L, T)
  <2>1. \A k \in Keys : HasKey(T, k) => ~Posted(L, k)
    BY <1>5 DEF SessionOK
  <2>2. /\ T.req \in Requests /\ T.grp \in 1..Len(T.req)
        /\ DOMAIN T.mine \subseteq Wallets
        /\ \A w \in DOMAIN T.mine : T.mine[w] \in Row /\ T.mine[w].status # "absent"
        /\ \A k \in T.hit : Posted(L, k)
        /\ T.out \in {"posted", "duplicate"} =>
             \A h \in 1..Len(T.req) : \A i \in 1..Len(T.req[h]) : Posted(L, T.req[h][i].key)
    BY DEF SessionOK
  <2>3. T.ins \in [Wallets -> Seq(Movement)] /\ \A w \in Wallets \ DOMAIN T.mine : T.ins[w] = <<>>
    BY <1>5
  <2>4. T.pc \in PcNames
    BY DEF PcNames
  <2>5. QED
    BY <1>1, <1>6, <2>1, <2>2, <2>3, <2>4 DEF SessionOK
<1>8. Done(L, T, D)
  <2>1. \A k : HasKey(S, k) => HasKey(T, k)
    BY <1>5
  <2>2. QED
    BY <1>1, <1>5, <2>1, DoneKept
<1>9. WalletsDone(T, D) = WalletsDone(S, D)
  BY DEF WalletsDone
<1>10. ASSUME NEW i \in 1..Len(g)
       PROVE  LegWritten(L, B, T, i)
  <2>1. S.at \in Nat /\ i \in Nat
    BY <1>5
  <2>2. CASE i <= S.at
    <3>1. i < T.at
      BY <2>1, <2>2
    <3>2. LegIn(L, B, T, g[i]) /\ T.after[i] = NewBalance(B, g[i])
      BY <1>5, <2>2
    <3>3. QED
      BY <1>1, <1>4, <3>1, <3>2 DEF LegWritten, LegIn
  <2>3. CASE i > S.at
    <3>1. ~(i < T.at)
      BY <2>1, <2>3
    <3>2. LegAhead(L, B, T, g[i]) /\ T.after[i] = NewBalance(B, g[i])
      BY <1>5, <2>3
    <3>3. QED
      BY <1>1, <1>4, <3>1, <3>2 DEF LegWritten, LegAhead
  <2>4. QED
    BY <2>1, <2>2, <2>3
<1>11. Writing(L, B, T)
  BY <1>1, <1>4, <1>5, <1>10 DEF Writing
<1>12. Working(L, T, D)
  BY <1>1, <1>3, <1>4, <1>5, <1>8, <1>9, <1>11 DEF Working
<1>13. QED
  BY <1>5, <1>7, <1>12 DEF Progress

\* The last leg: the group is posted.
LEMMA InsertLast ==
  ASSUME NEW L \in Ledger, NEW S, SessionOK(L, S), Progress(L, S), S.pc = "insert",
         NEW T, GoesOn(S, T), T.req = S.req, T.at = 1, T.hit = {}, T.mine = S.mine,
         T.out = S.out, S.at = Len(Cur(S)), InsertedLeg(S, T),
         NEW l, l = Cur(S)[S.at], ~Posted(L, l.key), ~SlotTaken(L, l)
  PROVE  /\ SessionOK(L, T) /\ Progress(L, T)
         /\ \A k : HasKey(T, k) <=> HasKey(S, k) \/ k = l.key
<1>1. /\ S.grp \in 1..2 /\ Completed(S) = 1..(S.grp - 1) /\ Completed(T) = 1..S.grp
      /\ T.grp \in 1..Len(T.req) /\ T.at \in 1..Len(Cur(T))
      /\ T.pc \in PcNames \ {"idle", "refind", "insert", "active", "lock", "check"}
      /\ ~Idle(T) /\ T.pc \in {"find", "commit"}
  BY GoesOnFields
<1>2. ~Idle(S) /\ S.pc # "idle"
  BY DEF Idle
<1>3. PICK D \in SUBSET (1..2) : Working(L, S, D)
  BY <1>2 DEF Progress
<1>4. PICK B : B = Base(L, S.req, D)
  OBVIOUS
<1>5. PICK g : g = Cur(S)
  OBVIOUS
<1>6. /\ B \in Ledger /\ Done(L, S, D) /\ GoodGroup(g) /\ S.at \in 1..Len(g)
      /\ CoveredOn(B, g) /\ ActiveOn(B, g) /\ WalletsOf(g) \subseteq DOMAIN S.mine
      /\ DOMAIN S.mine \subseteq WalletsDone(S, D) \cup WalletsOf(g)
      /\ T.ins \in [Wallets -> Seq(Movement)]
      /\ \A w \in Wallets \ DOMAIN S.mine : T.ins[w] = <<>>
      /\ \A k : HasKey(T, k) <=> HasKey(S, k) \/ k = l.key
      /\ \A w \in DOMAIN S.mine \ WalletsOf(g) : AsIn(L, B, T, w)
      /\ \A i \in 1..Len(g) : i <= S.at => LegIn(L, B, T, g[i])
  BY <1>3, <1>4, <1>5, InsertLeg
<1>7. \A i \in 1..Len(g) : LegIn(L, B, T, g[i])
  BY <1>5, <1>6
<1>8. SessionOK(L, T)
  <2>1. \A k \in Keys : HasKey(T, k) => ~Posted(L, k)
    BY <1>6 DEF SessionOK
  <2>2. /\ T.req \in Requests
        /\ DOMAIN T.mine \subseteq Wallets
        /\ \A w \in DOMAIN T.mine : T.mine[w] \in Row /\ T.mine[w].status # "absent"
        /\ \A k \in T.hit : Posted(L, k)
        /\ T.out \in {"posted", "duplicate"} =>
             \A h \in 1..Len(T.req) : \A i \in 1..Len(T.req[h]) : Posted(L, T.req[h][i].key)
    BY <1>2 DEF SessionOK
  <2>3. T.ins \in [Wallets -> Seq(Movement)] /\ \A w \in Wallets \ DOMAIN T.mine : T.ins[w] = <<>>
    BY <1>6
  <2>5. QED
    BY <1>1, <2>1, <2>2, <2>3 DEF SessionOK
<1>9. PICK n \in 1..2 : n = S.grp
  BY <1>1
<1>10. PICK E \in SUBSET (1..2) : E = D \cup {n}
  OBVIOUS
<1>11. D \subseteq 1..(n - 1) /\ n \notin D /\ (n = 2 => E \ {2} = D) /\ (n = 1 => D = {})
  <2>1. D \subseteq 1..(n - 1)
    BY <1>1, <1>6, <1>9 DEF Done
  <2>2. QED
    BY <1>10, <2>1
<1>12. g = S.req[n]
  BY <1>5, <1>9 DEF Cur
<1>13. PICK C : C = Base(L, S.req, E)
  OBVIOUS
<1>14. C = PostGroup(B, g)
  <2>1. CASE n = 1
    <3>1. B = L
      BY <1>4, <1>11, <2>1 DEF Base
    <3>2. E = {1}
      BY <1>10, <1>11, <2>1
    <3>3. QED
      BY <1>12, <1>13, <2>1, <3>1, <3>2 DEF Base
  <2>2. CASE n = 2
    <3>1. 2 \in E /\ E \ {2} = D
      BY <1>10, <1>11, <2>2
    <3>2. C = PostGroup(Base(L, S.req, E \ {2}), S.req[2])
      BY <1>13, <3>1, BaseSteps
    <3>3. QED
      BY <1>4, <1>12, <2>2, <3>1, <3>2
  <2>3. QED
    BY <2>1, <2>2
<1>15. Ready(L, B, T, g)
  <2>1. ASSUME NEW i \in 1..Len(g)
        PROVE  g[i].wallet \in DOMAIN T.mine /\ HasKey(T, g[i].key) /\ ~SlotTaken(L, g[i])
    <3>1. PICK h : h = g[i]
      OBVIOUS
    <3>2. LegIn(L, B, T, h) /\ h.wallet \in WalletsOf(g)
      BY <1>6, <1>7, <3>1, GroupFields
    <3>3. HasKey(T, h.key) /\ ~SlotTaken(L, h)
      BY <3>2 DEF LegIn
    <3>4. QED
      BY <1>6, <3>1, <3>2, <3>3
  <2>2. QED
    BY <1>6, <2>1 DEF Ready
<1>16. Done(L, T, E)
  <2>1. E \subseteq Completed(T)
    BY <1>1, <1>9, <1>10, <1>11
  <2>2. Completed(T) \ E \subseteq Completed(S) \ D
    BY <1>1, <1>9, <1>10
  <2>3. \A h \in Completed(T) \ E : \A i \in 1..Len(T.req[h]) : Posted(L, T.req[h][i].key)
    BY <1>6, <2>2 DEF Done
  <2>4. \A F, h : Ready(L, F, S, h) => Ready(L, F, T, h)
    BY <1>6 DEF Ready
  <2>5. 1 \in E => Ready(L, L, T, T.req[1])
    <3>1. CASE n = 1
      <4>1. B = L
        BY <1>4, <1>11, <3>1 DEF Base
      <4>2. QED
        BY <1>12, <1>15, <3>1, <4>1
    <3>2. CASE n = 2
      <4>1. 1 \in E => 1 \in D
        BY <1>10, <3>2
      <4>2. QED
        BY <1>6, <2>4, <4>1 DEF Done
    <3>3. QED
      BY <3>1, <3>2
  <2>6. 2 \in E => Ready(L, Base(L, T.req, E \ {2}), T, T.req[2])
    <3>1. 2 \in E => n = 2
      BY <1>10, <1>11
    <3>2. QED
      BY <1>4, <1>11, <1>12, <1>15, <3>1
  <2>7. QED
    BY <2>1, <2>3, <2>5, <2>6 DEF Done
<1>17. WalletsDone(T, E) = WalletsDone(S, D) \cup WalletsOf(g)
  BY <1>10, <1>12 DEF WalletsDone
<1>18. /\ C \in Ledger
       /\ \A i \in 1..Len(g) : LegPosted(B, C, g[i])
       /\ \A w \in Wallets \ WalletsOf(g) : SameAt(B, C, w)
  BY <1>6, <1>14, PostGroupFields
<1>19. ASSUME NEW w \in DOMAIN T.mine
       PROVE  AsIn(L, C, T, w)
  <2>1. w \in Wallets
    BY DEF SessionOK
  <2>2. CASE w \notin WalletsOf(g)
    <3>1. AsIn(L, B, T, w) /\ SameAt(B, C, w)
      BY <1>6, <1>18, <2>1, <2>2
    <3>2. QED
      BY <3>1 DEF AsIn, SameAt
  <2>3. CASE w \in WalletsOf(g)
    <3>1. PICK i \in 1..Len(g) : w = g[i].wallet
      BY <2>3 DEF WalletsOf
    <3>2. PICK h : h = g[i]
      OBVIOUS
    <3>9. w = h.wallet /\ LegIn(L, B, T, h) /\ LegPosted(B, C, h)
      BY <1>7, <1>18, <3>1, <3>2
    <3>10. /\ T.mine[w] = [status |-> Opening(B.rows[w]), bal |-> NewBalance(B, h)]
           /\ L.movements[w] \o T.ins[w] = Append(B.movements[w], NewMovement(B, h))
      BY <3>9 DEF LegIn
    <3>11. /\ C.rows[w] = [status |-> Opening(B.rows[w]), bal |-> NewBalance(B, h)]
           /\ C.movements[w] = Append(B.movements[w], NewMovement(B, h))
      BY <3>9 DEF LegPosted
    <3>3. C.rows[w] = T.mine[w] /\ C.rows[w].status = Opening(B.rows[w])
      BY <3>10, <3>11
    <3>4. C.rows[w].status # "absent"
      BY <3>3, OpeningPresent
    <3>5. C.rows[w] \in Row
      BY <1>18, <2>1 DEF Ledger
    <3>6. Open(C.rows[w]) = C.rows[w]
      BY <3>4, <3>5 DEF Open, Opening, Row
    <3>7. L.movements[w] \o T.ins[w] = C.movements[w]
      BY <3>10, <3>11
    <3>8. QED
      BY <3>3, <3>6, <3>7 DEF AsIn
  <2>4. QED
    BY <2>2, <2>3
<1>20. Reading(L, C, T)
  BY <1>1, <1>19 DEF Reading
<1>21. Working(L, T, E)
  <2>1. T.pc # "insert"
    BY <1>1
  <2>2. DOMAIN T.mine \subseteq WalletsDone(T, E)
    BY <1>6, <1>17
  <2>3. QED
    BY <1>1, <1>13, <1>16, <1>20, <2>1, <2>2 DEF Working
<1>22. QED
  BY <1>6, <1>8, <1>21 DEF Progress

\* After a unique violation a single-wallet call rolls back and looks again.
LEMMA LooksAgain ==
  ASSUME NEW L, NEW S, SessionOK(L, S), S.pc = "insert", Len(Cur(S)) = 1,
         NEW T, T.pc = "refind", T.req = S.req, T.grp = S.grp, T.at = S.at, T.hit = S.hit,
         T.out = S.out, T.mine = None, T.ins = NoMovements
  PROVE  /\ SessionOK(L, T) /\ Progress(L, T)
         /\ DOMAIN T.mine = {} /\ \A k : ~HasKey(T, k)
<1>1. DOMAIN T.mine = {}
  BY DEF None
<1>2. T.ins \in [Wallets -> Seq(Movement)] /\ \A w \in Wallets : T.ins[w] = <<>>
  BY DEF NoMovements
<1>3. \A k : ~HasKey(T, k)
  BY <1>2 DEF HasKey
<1>4. T.pc \in PcNames /\ Idle(T) /\ Cur(T) = Cur(S) /\ S.pc # "idle"
  BY DEF PcNames, Idle, Cur
<1>5. /\ T.req \in Requests /\ T.grp \in 1..Len(T.req) /\ T.at \in 1..Len(Cur(T))
      /\ \A k \in T.hit : Posted(L, k)
      /\ T.out \in {"posted", "duplicate"} =>
           \A h \in 1..Len(T.req) : \A i \in 1..Len(T.req[h]) : Posted(L, T.req[h][i].key)
  BY <1>4 DEF SessionOK
<1>6. SessionOK(L, T)
  BY <1>1, <1>2, <1>3, <1>4, <1>5 DEF SessionOK
<1>7. QED
  BY <1>1, <1>3, <1>4, <1>6 DEF Progress

\* A call that begins.
LEMMA Begins ==
  ASSUME NEW L, NEW S, SessionOK(L, S), S.pc = "idle",
         NEW T, T.pc = "find", T.req \in Requests, T.grp = 1, T.at = 1, T.hit = S.hit,
         T.mine = S.mine, T.ins = S.ins, T.out = "none"
  PROVE  /\ SessionOK(L, T) /\ Progress(L, T)
         /\ DOMAIN T.mine = {} /\ \A k : HasKey(T, k) <=> HasKey(S, k)
<1>1. PICK r \in Requests : r = T.req
  OBVIOUS
<1>2. Len(r) \in {1, 2} /\ \A k \in 1..Len(r) : GoodGroup(r[k])
  BY RequestGroups
<1>3. 1 \in 1..Len(r)
  <2>1. PICK m : m = Len(r)
    OBVIOUS
  <2>2. m \in {1, 2}
    BY <1>2, <2>1
  <2>3. QED
    BY <2>1, <2>2
<1>4. Cur(T) = r[1] /\ GoodGroup(r[1])
  BY <1>1, <1>2, <1>3 DEF Cur
<1>5. 1 \in 1..Len(Cur(T))
  BY <1>4, GroupFirst
<1>6. Idle(S) /\ ~Idle(T) /\ T.pc \in PcNames
  BY DEF Idle, PcNames
<1>7. DOMAIN S.mine = {} /\ \A k : HasKey(T, k) <=> HasKey(S, k)
  BY <1>6 DEF SessionOK, HasKey
<1>8. SessionOK(L, T)
  BY <1>1, <1>3, <1>5, <1>6, <1>7 DEF SessionOK
<1>9. PICK D \in SUBSET (1..2) : D = {}
  OBVIOUS
<1>10. Completed(T) = {}
  BY DEF Completed
<1>11. Done(L, T, D)
  BY <1>9, <1>10 DEF Done
<1>12. Reading(L, Base(L, T.req, D), T)
  BY <1>7 DEF Reading
<1>13. Working(L, T, D)
  BY <1>7, <1>11, <1>12 DEF Working
<1>14. QED
  BY <1>7, <1>8, <1>13 DEF Progress

-----------------------------------------------------------------------------
(* What the statements of one call leave alone. *)

\* g differs from f at s only.
Local(s, f, g) == DOMAIN g = DOMAIN f /\ \A t \in DOMAIN f \ {s} : g[t] = f[t]

LEMMA SetFields ==
  ASSUME NEW f, DOMAIN f = Sessions, NEW s \in Sessions, NEW v, NEW g, g = Set(f, s, v)
  PROVE  Local(s, f, g) /\ g[s] = v
BY DEF Set, Local

LEMMA SameLocal == ASSUME NEW f, NEW s, NEW g, g = f PROVE Local(s, f, g)
BY DEF Local

OnlyOf(s) ==
  /\ Local(s, pc, pc') /\ Local(s, req, req') /\ Local(s, grp, grp') /\ Local(s, at, at')
  /\ Local(s, hit, hit') /\ Local(s, seen, seen') /\ Local(s, mine, mine')
  /\ Local(s, after, after') /\ Local(s, ins, ins') /\ Local(s, out, out')

TxOK == TxInv /\ TxShape

LEMMA Frame ==
  ASSUME TxShape, NEW s \in Sessions, OnlyOf(s)
  PROVE  TxShape' /\ \A t \in Sessions \ {s} : Session(t)' = Session(t)
BY DEF TxShape, OnlyOf, Local, Session

\* A step of s that leaves it sound, and apart from the others, while the ledger stays.
LEMMA LocalStep ==
  ASSUME TxOK, NEW s \in Sessions, OnlyOf(s), ledger' = ledger, NEW T, T = Session(s)',
         SessionOK(ledger, T), Progress(ledger, T),
         \A t \in Sessions \ {s} : Apart(T, Session(t))
  PROVE  TxOK'
<1>1. TxShape' /\ \A t \in Sessions \ {s} : Session(t)' = Session(t)
  BY Frame DEF TxOK
<1>2. LedgerOK(ledger)'
  BY DEF TxOK, TxInv
<1>3. ASSUME NEW t \in Sessions
      PROVE  (SessionOK(ledger, Session(t)) /\ Progress(ledger, Session(t)))'
  <2>1. CASE t = s
    <3>1. SessionOK(ledger', Session(s)') /\ Progress(ledger', Session(s)')
      OBVIOUS
    <3>2. QED
      BY <2>1, <3>1
  <2>2. CASE t # s
    <3>1. SessionOK(ledger, Session(t)) /\ Progress(ledger, Session(t))
      BY DEF TxOK, TxInv
    <3>2. SessionOK(ledger', Session(t)') /\ Progress(ledger', Session(t)')
      BY <1>1, <2>2, <3>1
    <3>3. QED
      BY <3>2
  <2>3. QED
    BY <2>1, <2>2
<1>4. ASSUME NEW t \in Sessions, NEW u \in Sessions, t # u
      PROVE  Apart(Session(t), Session(u))'
  <2>1. CASE t = s
    <3>1. Apart(T, Session(u)) /\ Session(u)' = Session(u)
      BY <1>1, <1>4, <2>1
    <3>2. Apart(Session(s)', Session(u)')
      BY <3>1
    <3>3. QED
      BY <2>1, <3>2
  <2>2. CASE u = s
    <3>1. Apart(T, Session(t)) /\ Session(t)' = Session(t)
      BY <1>1, <1>4, <2>2
    <3>2. Apart(Session(t)', Session(s)')
      BY <3>1 DEF Apart
    <3>3. QED
      BY <2>2, <3>2
  <2>3. CASE t # s /\ u # s
    <3>1. Apart(Session(t), Session(u)) /\ Session(t)' = Session(t) /\ Session(u)' = Session(u)
      BY <1>1, <1>4, <2>3 DEF TxOK, TxInv
    <3>2. Apart(Session(t)', Session(u)')
      BY <3>1
    <3>3. QED
      BY <3>2
  <2>4. QED
    BY <2>1, <2>2, <2>3
<1>5. TxInv'
  BY <1>2, <1>3, <1>4 DEF TxInv
<1>6. QED
  BY <1>1, <1>5 DEF TxOK

\* A call that takes no row and inserts no key that someone else has stays apart.
LEMMA ApartKept ==
  ASSUME NEW S, NEW U, Apart(S, U), NEW T,
         \A w \in DOMAIN T.mine \ DOMAIN S.mine : w \notin DOMAIN U.mine,
         \A k \in Keys : HasKey(T, k) => HasKey(S, k) \/ ~HasKey(U, k)
  PROVE  Apart(T, U)
BY DEF Apart

LEMMA SessionFields ==
  ASSUME NEW s, NEW S, S = Session(s)
  PROVE  /\ S.pc = pc[s] /\ S.req = req[s] /\ S.grp = grp[s] /\ S.at = at[s] /\ S.hit = hit[s]
         /\ S.mine = mine[s] /\ S.after = after[s] /\ S.ins = ins[s] /\ S.out = out[s]
         /\ Cur(S) = Group(s)
BY DEF Session, Cur, Group

LEMMA NextFields ==
  ASSUME NEW s, NEW T, T = Session(s)'
  PROVE  /\ T.pc = pc'[s] /\ T.req = req'[s] /\ T.grp = grp'[s] /\ T.at = at'[s]
         /\ T.hit = hit'[s] /\ T.mine = mine'[s] /\ T.after = after'[s] /\ T.ins = ins'[s]
         /\ T.out = out'[s]
BY DEF Session

LEMMA SessionKept ==
  ASSUME TxOK, NEW s \in Sessions, NEW S, S = Session(s)
  PROVE  /\ LedgerOK(ledger) /\ ledger \in Ledger
         /\ SessionOK(ledger, S) /\ Progress(ledger, S)
         /\ \A t \in Sessions \ {s} : Apart(S, Session(t))
BY DEF TxOK, TxInv, LedgerOK

\* A transaction that ends.
LEMMA EndTxFields ==
  ASSUME TxShape, NEW s \in Sessions, NEW result, EndTx(s, result), NEW T, T = Session(s)'
  PROVE  /\ OnlyOf(s)
         /\ T.pc = "idle" /\ T.grp = 1 /\ T.at = 1 /\ T.hit = {} /\ T.mine = None
         /\ T.ins = NoMovements /\ T.out = result /\ T.req = req[s]
<1>1. /\ Local(s, pc, pc') /\ pc'[s] = "idle"
      /\ Local(s, out, out') /\ out'[s] = result
  BY SetFields DEF TxShape, EndTx
<1>2. /\ Local(s, mine, mine') /\ mine'[s] = None
      /\ Local(s, ins, ins') /\ ins'[s] = NoMovements
  BY SetFields DEF TxShape, EndTx
<1>3. Local(s, after, after')
  BY SetFields DEF TxShape, EndTx
<1>4. /\ Local(s, hit, hit') /\ hit'[s] = {}
      /\ Local(s, seen, seen')
  BY SetFields DEF TxShape, EndTx
<1>5. /\ Local(s, grp, grp') /\ grp'[s] = 1
      /\ Local(s, at, at') /\ at'[s] = 1
  BY SetFields DEF TxShape, EndTx
<1>6. Local(s, req, req') /\ req' = req
  BY SameLocal DEF EndTx
<1>7. QED
  BY <1>1, <1>2, <1>3, <1>4, <1>5, <1>6, NextFields DEF OnlyOf

LEMMA RollbackOK ==
  ASSUME TxOK, NEW s \in Sessions, NEW result, Rollback(s, result),
         result = "duplicate" =>
           \A g \in 1..Len(req[s]) : \A i \in 1..Len(req[s][g]) : Posted(ledger, req[s][g][i].key),
         result # "posted"
  PROVE  TxOK' /\ ledger' = ledger
<1>1. PICK T : T = Session(s)'
  OBVIOUS
<1>2. EndTx(s, result) /\ ledger' = ledger
  BY DEF Rollback
<1>3. /\ OnlyOf(s)
      /\ T.pc = "idle" /\ T.grp = 1 /\ T.at = 1 /\ T.hit = {} /\ T.mine = None
      /\ T.ins = NoMovements /\ T.out = result /\ T.req = req[s]
  BY <1>1, <1>2, EndTxFields DEF TxOK
<1>4. T.out \in {"posted", "duplicate"} =>
        \A g \in 1..Len(T.req) : \A i \in 1..Len(T.req[g]) : Posted(ledger, T.req[g][i].key)
  BY <1>3
<1>5. /\ SessionOK(ledger, T) /\ Progress(ledger, T)
      /\ DOMAIN T.mine = {} /\ \A k : ~HasKey(T, k)
  BY <1>3, <1>4, Reset
<1>6. \A t \in Sessions \ {s} : Apart(T, Session(t))
  BY <1>5 DEF Apart
<1>7. QED
  BY <1>1, <1>2, <1>3, <1>5, <1>6, LocalStep

\* A transaction that goes on to its next group or to COMMIT.
LEMMA NextGroupFields ==
  ASSUME TxOK, NEW s \in Sessions, NEW S, S = Session(s), S.pc # "idle",
         NextGroup(s), Local(s, ins, ins'), NEW T, T = Session(s)'
  PROVE  /\ OnlyOf(s) /\ ledger' = ledger /\ GoesOn(S, T) /\ T.req = S.req /\ T.at = 1
         /\ T.hit = {} /\ T.mine = S.mine /\ T.out = S.out
<1>1. /\ S.pc = pc[s] /\ S.req = req[s] /\ S.grp = grp[s] /\ S.mine = mine[s] /\ S.out = out[s]
  BY SessionFields
<1>2. /\ T.pc = pc'[s] /\ T.req = req'[s] /\ T.grp = grp'[s] /\ T.at = at'[s]
      /\ T.hit = hit'[s] /\ T.mine = mine'[s] /\ T.out = out'[s]
  BY NextFields
<1>3. /\ Local(s, at, at') /\ at'[s] = 1 /\ Local(s, hit, hit') /\ hit'[s] = {}
  BY SetFields DEF TxOK, TxShape, NextGroup
<1>4. Local(s, seen, seen') /\ Local(s, after, after')
  BY SetFields DEF TxOK, TxShape, NextGroup
<1>5. /\ Local(s, req, req') /\ Local(s, mine, mine') /\ Local(s, out, out')
      /\ req' = req /\ mine' = mine /\ out' = out /\ ledger' = ledger
  BY SameLocal DEF NextGroup
<1>6. S.req \in Requests /\ S.grp \in 1..Len(S.req) /\ Len(S.req) \in {1, 2}
  <2>1. SessionOK(ledger, S)
    BY SessionKept
  <2>2. QED
    BY <2>1, RequestGroups DEF SessionOK
<1>7. Local(s, grp, grp') /\ Local(s, pc, pc') /\ GoesOn(S, T)
  <2>1. CASE S.grp < Len(S.req)
    <3>1. grp' = Set(grp, s, grp[s] + 1) /\ pc' = Set(pc, s, "find")
      BY <1>1, <2>1 DEF NextGroup
    <3>2. /\ Local(s, grp, grp') /\ grp'[s] = grp[s] + 1
          /\ Local(s, pc, pc') /\ pc'[s] = "find"
      BY <3>1, SetFields DEF TxOK, TxShape
    <3>3. QED
      BY <1>1, <1>2, <2>1, <3>2 DEF GoesOn
  <2>2. CASE ~(S.grp < Len(S.req))
    <3>1. grp' = grp /\ pc' = Set(pc, s, "commit")
      BY <1>1, <2>2 DEF NextGroup
    <3>2. Local(s, grp, grp') /\ Local(s, pc, pc') /\ pc'[s] = "commit"
      BY <3>1, SetFields, SameLocal DEF TxOK, TxShape
    <3>3. S.grp = Len(S.req)
      BY <1>6, <2>2
    <3>4. QED
      BY <1>1, <1>2, <3>1, <3>2, <3>3 DEF GoesOn
  <2>3. QED
    BY <2>1, <2>2
<1>8. QED
  BY <1>1, <1>2, <1>3, <1>4, <1>5, <1>7 DEF OnlyOf

\* A request with a one-leg group is that group.
LEMMA SingleRequest ==
  ASSUME NEW L, NEW r \in Requests, NEW n \in 1..Len(r), Len(r[n]) = 1, Posted(L, r[n][1].key)
  PROVE  \A g \in 1..Len(r) : \A i \in 1..Len(r[g]) : Posted(L, r[g][i].key)
<1>1. n = 1 /\ Len(r) = 1
  <2>1. (n = 1 \/ n = 2) /\ Len(r) \in {1, 2} /\ (n = 2 => Len(r) = 2)
    BY GroupNumber, RequestGroups
  <2>2. Len(r) = 2 => Len(r[1]) = 2 /\ Len(r[2]) = 2
    BY RequestGroups DEF IsTransfer, IsFee
  <2>3. QED
    BY <2>1, <2>2
<1>2. ASSUME NEW g \in 1..Len(r), NEW i \in 1..Len(r[g])
      PROVE  Posted(L, r[g][i].key)
  <2>1. g = 1
    BY <1>1
  <2>2. i = 1
    <3>1. r[g] = r[n]
      BY <1>1, <2>1
    <3>2. PICK m : m = Len(r[n])
      OBVIOUS
    <3>3. i \in 1..m /\ m = 1
      BY <3>1, <3>2
    <3>4. QED
      BY <3>3
  <2>3. QED
    BY <1>1, <2>1, <2>2
<1>3. QED
  BY <1>2

-----------------------------------------------------------------------------
(* Every action keeps the invariant. *)

LEMMA BeginOK ==
  ASSUME TxOK, NEW s \in Sessions, NEW r \in Requests, Begin(s, r)
  PROVE  TxOK' /\ ledger' = ledger
<1>1. PICK S, T : S = Session(s) /\ T = Session(s)'
  OBVIOUS
<1>2. /\ SessionOK(ledger, S) /\ \A t \in Sessions \ {s} : Apart(S, Session(t))
  BY <1>1, SessionKept
<1>3. /\ S.pc = pc[s] /\ S.grp = grp[s] /\ S.at = at[s] /\ S.hit = hit[s]
      /\ S.mine = mine[s] /\ S.ins = ins[s]
  BY <1>1, SessionFields
<1>4. /\ T.pc = pc'[s] /\ T.req = req'[s] /\ T.grp = grp'[s] /\ T.at = at'[s]
      /\ T.hit = hit'[s] /\ T.mine = mine'[s] /\ T.ins = ins'[s] /\ T.out = out'[s]
  BY <1>1, NextFields
<1>5. /\ Local(s, req, req') /\ req'[s] = r /\ Local(s, pc, pc') /\ pc'[s] = "find"
      /\ Local(s, out, out') /\ out'[s] = "none"
  BY SetFields DEF TxOK, TxShape, Begin
<1>6. /\ ledger' = ledger /\ grp' = grp /\ at' = at /\ hit' = hit /\ seen' = seen
      /\ mine' = mine /\ after' = after /\ ins' = ins /\ pc[s] = "idle"
  BY DEF Begin
<1>7. OnlyOf(s)
  BY <1>5, <1>6, SameLocal DEF OnlyOf
<1>8. S.pc = "idle" /\ S.grp = 1 /\ S.at = 1
  BY <1>2, <1>3, <1>6 DEF SessionOK
<1>9. /\ T.pc = "find" /\ T.req \in Requests /\ T.grp = 1 /\ T.at = 1 /\ T.hit = S.hit
      /\ T.mine = S.mine /\ T.ins = S.ins /\ T.out = "none"
  BY <1>3, <1>4, <1>5, <1>6, <1>8
<1>10. /\ SessionOK(ledger, T) /\ Progress(ledger, T)
       /\ DOMAIN T.mine = {} /\ \A k : HasKey(T, k) <=> HasKey(S, k)
  BY <1>2, <1>8, <1>9, Begins
<1>11. \A t \in Sessions \ {s} : Apart(T, Session(t))
  BY <1>2, <1>10, ApartKept
<1>12. QED
  BY <1>1, <1>6, <1>7, <1>10, <1>11, LocalStep

LEMMA LostOK ==
  ASSUME TxOK, NEW s \in Sessions, Lost(s) \/ DeadlockAbort(s)
  PROVE  TxOK' /\ ledger' = ledger
<1>1. PICK result : result = "error" /\ Rollback(s, result)
  BY DEF Lost, DeadlockAbort
<1>2. QED
  BY <1>1, RollbackOK

LEMMA RefindOK ==
  ASSUME TxOK, NEW s \in Sessions, Refind(s)
  PROVE  TxOK' /\ ledger' = ledger
<1>1. PICK S : S = Session(s)
  OBVIOUS
<1>2. SessionOK(ledger, S) /\ S.pc = pc[s] /\ S.req = req[s] /\ S.grp = grp[s] /\ S.at = at[s]
  BY <1>1, SessionKept, SessionFields
<1>3. pc[s] = "refind"
  BY DEF Refind
<1>4. /\ S.req \in Requests /\ S.grp \in 1..Len(S.req) /\ Len(Cur(S)) = 1
      /\ S.at \in 1..Len(Cur(S))
  BY <1>2, <1>3 DEF SessionOK
<1>5. S.at = 1
  BY <1>4
<1>6. CASE Posted(ledger, ThisLeg(s).key)
  <2>1. Rollback(s, "duplicate")
    BY <1>6 DEF Refind
  <2>2. Posted(ledger, S.req[S.grp][1].key) /\ Len(S.req[S.grp]) = 1
    BY <1>2, <1>4, <1>5, <1>6 DEF ThisLeg, Group, Cur
  <2>3. \A g \in 1..Len(S.req) : \A i \in 1..Len(S.req[g]) : Posted(ledger, S.req[g][i].key)
    BY <1>4, <2>2, SingleRequest
  <2>4. QED
    BY <1>2, <2>1, <2>3, RollbackOK
<1>7. CASE ~Posted(ledger, ThisLeg(s).key)
  <2>1. Rollback(s, "error")
    BY <1>7 DEF Refind
  <2>2. QED
    BY <2>1, RollbackOK
<1>8. QED
  BY <1>6, <1>7

\* findMovementByIdempotency.
LEMMA FindOK ==
  ASSUME TxOK, NEW s \in Sessions, Find(s)
  PROVE  TxOK' /\ ledger' = ledger
<1>1. PICK S, T : S = Session(s) /\ T = Session(s)'
  OBVIOUS
<1>2. /\ SessionOK(ledger, S) /\ Progress(ledger, S) /\ ledger \in Ledger
      /\ \A t \in Sessions \ {s} : Apart(S, Session(t))
  BY <1>1, SessionKept
<1>3. /\ S.pc = pc[s] /\ S.req = req[s] /\ S.grp = grp[s] /\ S.at = at[s] /\ S.hit = hit[s]
      /\ S.mine = mine[s] /\ S.ins = ins[s] /\ S.out = out[s] /\ Cur(S) = Group(s)
  BY <1>1, SessionFields
<1>4. /\ T.pc = pc'[s] /\ T.req = req'[s] /\ T.grp = grp'[s] /\ T.at = at'[s]
      /\ T.hit = hit'[s] /\ T.mine = mine'[s] /\ T.ins = ins'[s] /\ T.out = out'[s]
  BY <1>1, NextFields
<1>5. pc[s] = "find" /\ S.pc = "find"
  BY <1>3 DEF Find
<1>6. /\ S.req \in Requests /\ S.grp \in 1..Len(S.req) /\ S.at \in 1..Len(Cur(S))
      /\ \A k \in S.hit : Posted(ledger, k)
      /\ GoodGroup(Cur(S))
  <2>1. /\ S.req \in Requests /\ S.grp \in 1..Len(S.req) /\ S.at \in 1..Len(Cur(S))
        /\ \A k \in S.hit : Posted(ledger, k)
    BY <1>2, <1>5 DEF SessionOK
  <2>2. QED
    BY <2>1, RequestGroups DEF Cur
<1>7. PICK found : found = IF Posted(ledger, ThisLeg(s).key) THEN hit[s] \cup {ThisLeg(s).key}
                           ELSE hit[s]
  OBVIOUS
<1>8. \A k \in found : Posted(ledger, k)
  BY <1>3, <1>6, <1>7
<1>9. ASSUME NEW U, U = T, T.mine = S.mine, T.ins = S.ins
      PROVE  \A t \in Sessions \ {s} : Apart(T, Session(t))
  BY <1>2, <1>9, ApartKept DEF HasKey
<1>10. CASE ~LastLeg(s)
  <2>1. /\ hit' = Set(hit, s, found) /\ at' = Set(at, s, at[s] + 1)
        /\ ledger' = ledger /\ pc' = pc /\ req' = req /\ grp' = grp /\ seen' = seen
        /\ mine' = mine /\ after' = after /\ ins' = ins /\ out' = out
    BY <1>7, <1>10 DEF Find
  <2>2. Local(s, hit, hit') /\ hit'[s] = found /\ Local(s, at, at') /\ at'[s] = at[s] + 1
    BY <2>1, SetFields DEF TxOK, TxShape
  <2>3. OnlyOf(s)
    BY <2>1, <2>2, SameLocal DEF OnlyOf
  <2>4. /\ T.pc = "find" /\ T.req = S.req /\ T.grp = S.grp /\ T.at = S.at + 1 /\ T.hit = found
        /\ T.mine = S.mine /\ T.ins = S.ins /\ T.out = S.out
    BY <1>3, <1>4, <1>5, <2>1, <2>2
  <2>5. T.at \in 1..Len(Cur(S))
    <3>1. PICK m : m = Len(Cur(S))
      OBVIOUS
    <3>2. m \in {1, 2} /\ S.at \in 1..m /\ S.at # m
      BY <1>3, <1>6, <1>10, <3>1 DEF GoodGroup, LastLeg
    <3>3. S.at + 1 \in 1..m
      BY <3>2
    <3>4. QED
      BY <2>4, <3>1, <3>3
  <2>6. SessionOK(ledger, T) /\ Progress(ledger, T)
    BY <1>2, <1>5, <1>8, <2>4, <2>5, Quiet
  <2>7. QED
    BY <1>1, <1>9, <2>1, <2>3, <2>4, <2>6, LocalStep
<1>11. CASE LastLeg(s) /\ Duplicate(s, found)
  <2>1. \A i \in 1..Len(Cur(S)) : Posted(ledger, Cur(S)[i].key)
    BY <1>3, <1>8, <1>11 DEF Duplicate
  <2>2. CASE Len(Group(s)) = 1
    <3>1. Rollback(s, "duplicate")
      BY <1>7, <1>11, <2>2 DEF Find
    <3>2. 1 \in 1..Len(Cur(S)) /\ Len(Cur(S)) = 1
      BY <1>3, <2>2
    <3>3. Posted(ledger, S.req[S.grp][1].key) /\ Len(S.req[S.grp]) = 1
      BY <2>1, <3>2 DEF Cur
    <3>4. \A g \in 1..Len(S.req) : \A i \in 1..Len(S.req[g]) : Posted(ledger, S.req[g][i].key)
      BY <1>6, <3>3, SingleRequest
    <3>5. QED
      BY <1>3, <3>1, <3>4, RollbackOK
  <2>3. CASE Len(Group(s)) # 1
    <3>1. NextGroup(s) /\ ins' = ins
      BY <1>7, <1>11, <2>3 DEF Find
    <3>2. Local(s, ins, ins') /\ T.ins = S.ins
      BY <1>3, <1>4, <3>1, SameLocal
    <3>3. /\ OnlyOf(s) /\ ledger' = ledger /\ GoesOn(S, T) /\ T.req = S.req /\ T.at = 1
          /\ T.hit = {} /\ T.mine = S.mine /\ T.out = S.out
      BY <1>1, <1>5, <3>1, <3>2, NextGroupFields
    <3>4. SessionOK(ledger, T) /\ Progress(ledger, T)
      BY <1>2, <1>5, <2>1, <3>2, <3>3, Skip
    <3>5. QED
      BY <1>1, <1>9, <3>2, <3>3, <3>4, LocalStep
  <2>4. QED
    BY <2>2, <2>3
<1>12. CASE LastLeg(s) /\ ~Duplicate(s, found) /\ Inconsistent(s, found)
  <2>1. Rollback(s, "error")
    BY <1>7, <1>12 DEF Find
  <2>2. QED
    BY <2>1, RollbackOK
<1>13. CASE LastLeg(s) /\ ~Duplicate(s, found) /\ ~Inconsistent(s, found)
  <2>1. /\ pc' = Set(pc, s, "ensure") /\ at' = Set(at, s, 1)
        /\ ledger' = ledger /\ req' = req /\ grp' = grp /\ hit' = hit /\ seen' = seen
        /\ mine' = mine /\ after' = after /\ ins' = ins /\ out' = out
    BY <1>7, <1>13 DEF Find
  <2>2. Local(s, pc, pc') /\ pc'[s] = "ensure" /\ Local(s, at, at') /\ at'[s] = 1
    BY <2>1, SetFields DEF TxOK, TxShape
  <2>3. OnlyOf(s)
    BY <2>1, <2>2, SameLocal DEF OnlyOf
  <2>4. /\ T.pc = "ensure" /\ T.req = S.req /\ T.grp = S.grp /\ T.at = 1 /\ T.hit = S.hit
        /\ T.mine = S.mine /\ T.ins = S.ins /\ T.out = S.out
    BY <1>3, <1>4, <1>5, <2>1, <2>2
  <2>5. T.at \in 1..Len(Cur(S)) /\ 1..(T.at - 1) = {}
    BY <1>6, <2>4, GroupFirst
  <2>6. SessionOK(ledger, T) /\ Progress(ledger, T)
    BY <1>2, <1>5, <1>6, <2>4, <2>5, Quiet
  <2>7. QED
    BY <1>1, <1>9, <2>1, <2>3, <2>4, <2>6, LocalStep
<1>14. QED
  BY <1>10, <1>11, <1>12, <1>13

LEMMA HoldFields ==
  ASSUME TxShape, NEW s \in Sessions, NEW w, NEW row, Hold(s, w, row)
  PROVE  /\ Local(s, mine, mine') /\ DOMAIN mine'[s] = DOMAIN mine[s] \cup {w}
         /\ mine'[s][w] = row
         /\ \A v \in DOMAIN mine[s] \ {w} : mine'[s][v] = mine[s][v]
<1>1. PICK h : h = [v \in DOMAIN mine[s] \cup {w} |-> IF v = w THEN row ELSE mine[s][v]]
  OBVIOUS
<1>2. mine' = Set(mine, s, h)
  BY <1>1 DEF Hold
<1>3. Local(s, mine, mine') /\ mine'[s] = h
  BY <1>2, SetFields DEF TxShape
<1>4. QED
  BY <1>1, <1>3

LEMMA OpenRow == ASSUME NEW row \in Row, row.status # "absent" PROVE Open(row) = row
BY DEF Open, Opening, Row

\* A row that the call did not hold and takes now, as it is committed.
TakesOf(L, S, T, W) ==
  /\ DOMAIN S.mine \subseteq DOMAIN T.mine /\ DOMAIN T.mine \subseteq DOMAIN S.mine \cup W
  /\ \A w \in DOMAIN S.mine : T.mine[w] = S.mine[w]
  /\ \A w \in DOMAIN T.mine \ DOMAIN S.mine : T.mine[w] = Open(L.rows[w])

LEMMA TakesSees ==
  ASSUME NEW L, NEW S, NEW T, NEW W, TakesOf(L, S, T, W), NEW w,
         Sees(L, S, w).status # "absent"
  PROVE  Sees(L, T, w).status # "absent"
<1>1. CASE w \in DOMAIN T.mine \ DOMAIN S.mine
  <2>1. T.mine[w] = Open(L.rows[w]) /\ Opening(L.rows[w]) # "absent"
    BY <1>1, OpeningPresent DEF TakesOf
  <2>2. QED
    BY <1>1, <2>1 DEF Sees, Open
<1>2. CASE w \in DOMAIN S.mine
  BY <1>2 DEF TakesOf, Sees
<1>3. CASE w \notin DOMAIN T.mine
  BY <1>3 DEF TakesOf, Sees
<1>4. QED
  BY <1>1, <1>2, <1>3

\* What is known of the rows that the call has seen.
LEMMA SeenRows ==
  ASSUME NEW L, NEW S, Progress(L, S), S.pc \in {"ensure", "insertRow", "active", "lock"}
  PROVE  /\ S.pc \in {"ensure", "insertRow"} =>
              \A i \in 1..(S.at - 1) : Sees(L, S, Cur(S)[i].wallet).status # "absent"
         /\ S.pc \in {"active", "lock"} =>
              \A i \in 1..Len(Cur(S)) : Sees(L, S, Cur(S)[i].wallet).status # "absent"
<1>1. ~Idle(S) /\ S.pc # "insert"
  BY DEF Idle
<1>2. PICK D \in SUBSET (1..2) : Working(L, S, D)
  BY <1>1 DEF Progress
<1>3. Reading(L, Base(L, S.req, D), S)
  BY <1>1, <1>2 DEF Working
<1>4. QED
  BY <1>3 DEF Reading

\* The wallet row of the current leg is there: the next leg, or the status checks.
EnsuredNext(S, T) ==
  \/ S.at = Len(Cur(S)) /\ T.pc = "active" /\ T.at = 1
  \/ S.at # Len(Cur(S)) /\ T.pc = "ensure" /\ T.at = S.at + 1

LEMMA EnsuredFields ==
  ASSUME TxOK, NEW s \in Sessions, NEW S, S = Session(s), NEW T, T = Session(s)',
         NEW status, Ensured(s, status), Local(s, mine, mine')
  PROVE  /\ OnlyOf(s) /\ ledger' = ledger /\ EnsuredNext(S, T)
         /\ T.req = S.req /\ T.grp = S.grp /\ T.hit = S.hit /\ T.ins = S.ins /\ T.out = S.out
<1>3. /\ S.pc = pc[s] /\ S.req = req[s] /\ S.grp = grp[s] /\ S.at = at[s] /\ S.hit = hit[s]
      /\ S.mine = mine[s] /\ S.ins = ins[s] /\ S.out = out[s] /\ Cur(S) = Group(s)
  BY SessionFields
<1>4. /\ T.pc = pc'[s] /\ T.req = req'[s] /\ T.grp = grp'[s] /\ T.at = at'[s]
      /\ T.hit = hit'[s] /\ T.mine = mine'[s] /\ T.ins = ins'[s] /\ T.out = out'[s]
  BY NextFields
<1>5. /\ ledger' = ledger /\ req' = req /\ grp' = grp /\ hit' = hit
      /\ after' = after /\ ins' = ins /\ out' = out
      /\ seen' = Set(seen, s, seen[s] \cup {status})
  BY DEF Ensured
<1>6. Local(s, seen, seen')
  BY <1>5, SetFields DEF TxOK, TxShape
<1>7. Local(s, pc, pc') /\ Local(s, at, at') /\ EnsuredNext(S, T)
  <2>1. CASE LastLeg(s)
    <3>1. pc' = Set(pc, s, "active") /\ at' = Set(at, s, 1)
      BY <2>1 DEF Ensured
    <3>2. Local(s, pc, pc') /\ pc'[s] = "active" /\ Local(s, at, at') /\ at'[s] = 1
      BY <3>1, SetFields DEF TxOK, TxShape
    <3>3. QED
      BY <1>3, <1>4, <2>1, <3>2 DEF EnsuredNext, LastLeg
  <2>2. CASE ~LastLeg(s)
    <3>1. pc' = Set(pc, s, "ensure") /\ at' = Set(at, s, at[s] + 1)
      BY <2>2 DEF Ensured
    <3>2. Local(s, pc, pc') /\ pc'[s] = "ensure" /\ Local(s, at, at') /\ at'[s] = at[s] + 1
      BY <3>1, SetFields DEF TxOK, TxShape
    <3>3. QED
      BY <1>3, <1>4, <2>2, <3>2 DEF EnsuredNext, LastLeg
  <2>3. QED
    BY <2>1, <2>2
<1>8. OnlyOf(s)
  BY <1>5, <1>6, <1>7, SameLocal DEF OnlyOf
<1>9. QED
  BY <1>3, <1>4, <1>5, <1>7, <1>8

LEMMA EnsuredOK ==
  ASSUME NEW L \in Ledger, NEW S, SessionOK(L, S), Progress(L, S), S.pc \in {"ensure", "insertRow"},
         NEW T, EnsuredNext(S, T), T.req = S.req, T.grp = S.grp, T.hit = S.hit, T.ins = S.ins,
         T.out = S.out, NEW w, w = Cur(S)[S.at].wallet, TakesOf(L, S, T, {w}),
         Sees(L, T, w).status # "absent"
  PROVE  SessionOK(L, T) /\ Progress(L, T)
<1>1. /\ S.at \in 1..Len(Cur(S)) /\ S.req \in Requests /\ S.grp \in 1..Len(S.req)
      /\ \A k \in S.hit : Posted(L, k)
  BY DEF SessionOK
<1>2. PICK g : g = Cur(S)
  OBVIOUS
<1>3. GoodGroup(g)
  BY <1>1, <1>2, RequestGroups DEF Cur
<1>4. w \in WalletsOf(g)
  BY <1>1, <1>2, <1>3, GroupFields
<1>5. \A i \in 1..(S.at - 1) : Sees(L, S, g[i].wallet).status # "absent"
  BY <1>2, SeenRows
<1>6. ASSUME NEW i \in 1..S.at
      PROVE  Sees(L, T, g[i].wallet).status # "absent"
  <2>1. CASE i = S.at
    BY <1>2, <2>1
  <2>2. CASE i # S.at
    <3>1. i \in 1..(S.at - 1)
      BY <1>1, <2>2
    <3>2. Sees(L, S, g[i].wallet).status # "absent"
      BY <1>5, <3>1
    <3>3. QED
      BY <3>2, TakesSees
  <2>3. QED
    BY <2>1, <2>2
<1>7. PICK m : m = Len(g)
  OBVIOUS
<1>8. m \in {1, 2} /\ S.at \in 1..m
  BY <1>1, <1>2, <1>3, <1>7 DEF GoodGroup
<1>9. /\ DOMAIN S.mine \subseteq DOMAIN T.mine
      /\ DOMAIN T.mine \subseteq DOMAIN S.mine \cup WalletsOf(g)
      /\ \A v \in DOMAIN S.mine : T.mine[v] = S.mine[v]
      /\ \A v \in DOMAIN T.mine \ DOMAIN S.mine : T.mine[v] = Open(L.rows[v])
  BY <1>4 DEF TakesOf
<1>10. CASE S.at = m
  <2>1. T.pc = "active" /\ T.at = 1
    BY <1>2, <1>7, <1>10 DEF EnsuredNext
  <2>2. T.at \in 1..Len(g)
    BY <1>3, <2>1, GroupFirst
  <2>3. \A i \in 1..Len(g) : Sees(L, T, g[i].wallet).status # "absent"
    BY <1>6, <1>7, <1>10
  <2>4. QED
    BY <1>1, <1>2, <1>9, <2>1, <2>2, <2>3, Quiet
<1>11. CASE S.at # m
  <2>1. T.pc = "ensure" /\ T.at = S.at + 1
    BY <1>2, <1>7, <1>11 DEF EnsuredNext
  <2>2. S.at + 1 \in 1..m /\ (S.at + 1) - 1 = S.at
    BY <1>8, <1>11
  <2>3. T.at \in 1..Len(g)
    BY <1>7, <2>1, <2>2
  <2>4. \A i \in 1..(T.at - 1) : Sees(L, T, g[i].wallet).status # "absent"
    BY <1>6, <2>1, <2>2
  <2>5. /\ T.at \in 1..Len(Cur(S)) /\ \A k \in T.hit : Posted(L, k)
        /\ DOMAIN T.mine \subseteq DOMAIN S.mine \cup WalletsOf(Cur(S))
        /\ \A i \in 1..(T.at - 1) : Sees(L, T, Cur(S)[i].wallet).status # "absent"
    BY <1>1, <1>2, <1>9, <2>3, <2>4
  <2>6. /\ S.pc \in {"find", "ensure", "insertRow", "active", "lock"}
        /\ T.pc \in {"find", "ensure", "insertRow", "active", "lock", "check"}
        /\ T.pc # "find" /\ T.pc # "active" /\ T.pc # "lock" /\ T.pc # "check"
    BY <2>1
  <2>7. QED
    BY <1>9, <2>5, <2>6, Quiet
<1>12. QED
  BY <1>10, <1>11

LEMMA EnsureSelectOK ==
  ASSUME TxOK, NEW s \in Sessions, EnsureSelect(s)
  PROVE  TxOK' /\ ledger' = ledger
<1>1. PICK S, T : S = Session(s) /\ T = Session(s)'
  OBVIOUS
<1>2. /\ SessionOK(ledger, S) /\ Progress(ledger, S) /\ ledger \in Ledger
      /\ \A t \in Sessions \ {s} : Apart(S, Session(t))
  BY <1>1, SessionKept
<1>3. /\ S.pc = pc[s] /\ S.req = req[s] /\ S.grp = grp[s] /\ S.at = at[s] /\ S.hit = hit[s]
      /\ S.mine = mine[s] /\ S.ins = ins[s] /\ S.out = out[s] /\ Cur(S) = Group(s)
  BY <1>1, SessionFields
<1>4. /\ T.pc = pc'[s] /\ T.req = req'[s] /\ T.grp = grp'[s] /\ T.at = at'[s]
      /\ T.hit = hit'[s] /\ T.mine = mine'[s] /\ T.ins = ins'[s] /\ T.out = out'[s]
  BY <1>1, NextFields
<1>5. S.pc = "ensure"
  BY <1>3 DEF EnsureSelect
<1>6. PICK w : w = Cur(S)[S.at].wallet
  OBVIOUS
<1>7. ThisLeg(s).wallet = w /\ Visible(s, w) = Sees(ledger, S, w)
  BY <1>3, <1>6 DEF ThisLeg, Visible, Sees
<1>8. mine' = mine /\ T.mine = S.mine /\ Local(s, mine, mine')
  <2>1. mine' = mine
    BY DEF EnsureSelect
  <2>2. QED
    BY <1>3, <1>4, <2>1, SameLocal
<1>9. CASE Visible(s, w).status # "absent"
  <2>1. Ensured(s, Visible(s, w).status)
    BY <1>7, <1>9 DEF EnsureSelect
  <2>2. /\ OnlyOf(s) /\ ledger' = ledger /\ EnsuredNext(S, T)
        /\ T.req = S.req /\ T.grp = S.grp /\ T.hit = S.hit /\ T.ins = S.ins /\ T.out = S.out
    BY <1>1, <1>8, <2>1, EnsuredFields
  <2>3. TakesOf(ledger, S, T, {w}) /\ Sees(ledger, T, w).status # "absent"
    BY <1>7, <1>8, <1>9 DEF TakesOf, Sees
  <2>4. SessionOK(ledger, T) /\ Progress(ledger, T)
    BY <1>2, <1>5, <1>6, <2>2, <2>3, EnsuredOK
  <2>5. \A t \in Sessions \ {s} : Apart(T, Session(t))
    BY <1>2, <1>8, <2>2, ApartKept DEF HasKey
  <2>6. QED
    BY <1>1, <2>2, <2>4, <2>5, LocalStep
<1>10. CASE Visible(s, w).status = "absent"
  <2>1. /\ pc' = Set(pc, s, "insertRow")
        /\ ledger' = ledger /\ req' = req /\ grp' = grp /\ at' = at /\ hit' = hit
        /\ seen' = seen /\ after' = after /\ ins' = ins /\ out' = out
    BY <1>7, <1>10 DEF EnsureSelect
  <2>2. Local(s, pc, pc') /\ pc'[s] = "insertRow"
    BY <2>1, SetFields DEF TxOK, TxShape
  <2>3. OnlyOf(s)
    BY <1>8, <2>1, <2>2, SameLocal DEF OnlyOf
  <2>4. /\ T.pc = "insertRow" /\ T.req = S.req /\ T.grp = S.grp /\ T.at = S.at /\ T.hit = S.hit
        /\ T.mine = S.mine /\ T.ins = S.ins /\ T.out = S.out
    BY <1>3, <1>4, <1>8, <2>1, <2>2
  <2>5. S.at \in 1..Len(Cur(S)) /\ \A k \in S.hit : Posted(ledger, k)
    BY <1>2, <1>5 DEF SessionOK
  <2>6. \A i \in 1..(T.at - 1) : Sees(ledger, T, Cur(S)[i].wallet).status # "absent"
    BY <1>2, <1>5, <2>4, SeenRows DEF Sees
  <2>7. SessionOK(ledger, T) /\ Progress(ledger, T)
    BY <1>2, <1>5, <2>4, <2>5, <2>6, Quiet
  <2>8. \A t \in Sessions \ {s} : Apart(T, Session(t))
    BY <1>2, <2>4, ApartKept DEF HasKey
  <2>9. QED
    BY <1>1, <2>1, <2>3, <2>7, <2>8, LocalStep
<1>11. QED
  BY <1>9, <1>10

LEMMA EnsureInsertOK ==
  ASSUME TxOK, NEW s \in Sessions, EnsureInsert(s)
  PROVE  TxOK' /\ ledger' = ledger
<1>1. PICK S, T : S = Session(s) /\ T = Session(s)'
  OBVIOUS
<1>2. /\ SessionOK(ledger, S) /\ Progress(ledger, S) /\ ledger \in Ledger /\ LedgerOK(ledger)
      /\ \A t \in Sessions \ {s} : Apart(S, Session(t))
  BY <1>1, SessionKept
<1>3. /\ S.pc = pc[s] /\ S.req = req[s] /\ S.grp = grp[s] /\ S.at = at[s]
      /\ S.mine = mine[s] /\ Cur(S) = Group(s)
  BY <1>1, SessionFields
<1>4. T.mine = mine'[s]
  BY <1>1, NextFields
<1>5. S.pc = "insertRow"
  BY <1>3 DEF EnsureInsert
<1>6. PICK w : w = Cur(S)[S.at].wallet
  OBVIOUS
<1>7. ThisLeg(s).wallet = w /\ Visible(s, w) = Sees(ledger, S, w)
  BY <1>3, <1>6 DEF ThisLeg, Visible, Sees
<1>8. PICK row : row = IF Visible(s, w).status = "absent"
                         THEN [status |-> "active", bal |-> ZeroBalance] ELSE Visible(s, w)
  OBVIOUS
<1>9. FreeFor(s, w) /\ Hold(s, w, row) /\ Ensured(s, row.status)
  BY <1>7, <1>8 DEF EnsureInsert
<1>10. /\ Local(s, mine, mine') /\ DOMAIN T.mine = DOMAIN S.mine \cup {w} /\ T.mine[w] = row
       /\ \A v \in DOMAIN S.mine \ {w} : T.mine[v] = S.mine[v]
  BY <1>3, <1>4, <1>9, HoldFields DEF TxOK
<1>11. w \in Wallets
  <2>1. /\ S.at \in 1..Len(Cur(S)) /\ S.req \in Requests /\ S.grp \in 1..Len(S.req)
    BY <1>2, <1>5 DEF SessionOK
  <2>2. GoodGroup(Cur(S))
    BY <2>1, RequestGroups DEF Cur
  <2>3. QED
    BY <1>6, <2>1, <2>2, GroupFields
<1>12. row.status # "absent" /\ (w \in DOMAIN S.mine => row = S.mine[w])
       /\ (w \notin DOMAIN S.mine => row = Open(ledger.rows[w]))
  <2>1. CASE w \in DOMAIN S.mine
    <3>1. S.mine[w].status # "absent"
      BY <1>2, <2>1 DEF SessionOK
    <3>2. QED
      BY <1>7, <1>8, <2>1, <3>1 DEF Sees
  <2>2. CASE w \notin DOMAIN S.mine
    <3>1. Visible(s, w) = ledger.rows[w] /\ ledger.rows[w] \in Row
      BY <1>2, <1>7, <1>11, <2>2 DEF Sees, Ledger
    <3>2. CASE ledger.rows[w].status = "absent"
      <4>1. ledger.rows[w].bal = ZeroBalance
        BY <1>2, <1>11, <3>2 DEF LedgerOK
      <4>2. row = [status |-> "active", bal |-> ZeroBalance]
        BY <1>8, <3>1, <3>2
      <4>3. QED
        BY <2>2, <3>2, <4>1, <4>2 DEF Open, Opening
    <3>3. CASE ledger.rows[w].status # "absent"
      <4>1. row = ledger.rows[w]
        BY <1>8, <3>1, <3>3
      <4>2. QED
        BY <2>2, <3>1, <3>3, <4>1, OpenRow
    <3>4. QED
      BY <3>2, <3>3
  <2>3. QED
    BY <2>1, <2>2
<1>13. /\ OnlyOf(s) /\ ledger' = ledger /\ EnsuredNext(S, T)
       /\ T.req = S.req /\ T.grp = S.grp /\ T.hit = S.hit /\ T.ins = S.ins /\ T.out = S.out
  BY <1>1, <1>9, <1>10, EnsuredFields
<1>14. TakesOf(ledger, S, T, {w})
  BY <1>10, <1>12 DEF TakesOf
<1>15. Sees(ledger, T, w).status # "absent"
  BY <1>10, <1>12 DEF Sees
<1>16. SessionOK(ledger, T) /\ Progress(ledger, T)
  BY <1>2, <1>5, <1>6, <1>13, <1>14, <1>15, EnsuredOK
<1>17. \A t \in Sessions \ {s} : Apart(T, Session(t))
  <2>1. \A t \in Sessions \ {s} : w \notin DOMAIN Session(t).mine
    BY <1>9 DEF FreeFor, Session
  <2>2. \A k : HasKey(T, k) => HasKey(S, k)
    BY <1>13 DEF HasKey
  <2>3. QED
    BY <1>2, <1>10, <2>1, <2>2, ApartKept
<1>18. QED
  BY <1>1, <1>13, <1>16, <1>17, LocalStep

LEMMA CheckActiveOK ==
  ASSUME TxOK, NEW s \in Sessions, CheckActive(s)
  PROVE  TxOK' /\ ledger' = ledger
<1>1. PICK S, T : S = Session(s) /\ T = Session(s)'
  OBVIOUS
<1>2. /\ SessionOK(ledger, S) /\ Progress(ledger, S) /\ ledger \in Ledger
      /\ \A t \in Sessions \ {s} : Apart(S, Session(t))
  BY <1>1, SessionKept
<1>3. /\ S.pc = pc[s] /\ S.req = req[s] /\ S.grp = grp[s] /\ S.at = at[s] /\ S.hit = hit[s]
      /\ S.mine = mine[s] /\ S.ins = ins[s] /\ S.out = out[s]
  BY <1>1, SessionFields
<1>4. /\ T.pc = pc'[s] /\ T.req = req'[s] /\ T.grp = grp'[s] /\ T.at = at'[s]
      /\ T.hit = hit'[s] /\ T.mine = mine'[s] /\ T.ins = ins'[s] /\ T.out = out'[s]
  BY <1>1, NextFields
<1>5. S.pc = "active"
  BY <1>3 DEF CheckActive
<1>6. CASE seen[s] = {"active"}
  <2>1. /\ pc' = Set(pc, s, "lock")
        /\ ledger' = ledger /\ req' = req /\ grp' = grp /\ at' = at /\ hit' = hit
        /\ seen' = seen /\ mine' = mine /\ after' = after /\ ins' = ins /\ out' = out
    BY <1>6 DEF CheckActive
  <2>2. Local(s, pc, pc') /\ pc'[s] = "lock"
    BY <2>1, SetFields DEF TxOK, TxShape
  <2>3. OnlyOf(s)
    BY <2>1, <2>2, SameLocal DEF OnlyOf
  <2>4. /\ T.pc = "lock" /\ T.req = S.req /\ T.grp = S.grp /\ T.at = S.at /\ T.hit = S.hit
        /\ T.mine = S.mine /\ T.ins = S.ins /\ T.out = S.out
    BY <1>3, <1>4, <2>1, <2>2
  <2>5. S.at = 1 /\ S.at \in 1..Len(Cur(S)) /\ \A k \in S.hit : Posted(ledger, k)
    BY <1>2, <1>5 DEF SessionOK
  <2>6. \A i \in 1..Len(Cur(S)) : Sees(ledger, T, Cur(S)[i].wallet).status # "absent"
    BY <1>2, <1>5, <2>4, SeenRows DEF Sees
  <2>7. SessionOK(ledger, T) /\ Progress(ledger, T)
    BY <1>2, <1>5, <2>4, <2>5, <2>6, Quiet
  <2>8. \A t \in Sessions \ {s} : Apart(T, Session(t))
    BY <1>2, <2>4, ApartKept DEF HasKey
  <2>9. QED
    BY <1>1, <2>1, <2>3, <2>7, <2>8, LocalStep
<1>7. CASE seen[s] # {"active"}
  <2>1. Rollback(s, "error")
    BY <1>7 DEF CheckActive
  <2>2. QED
    BY <2>1, RollbackOK
<1>8. QED
  BY <1>6, <1>7

\* The next row to lock exists: wallet ids are numbers, a group has at most two.
LEMMA LockNextExists ==
  ASSUME NEW s, NEW todo \in SUBSET Wallets, todo # {}, NEW u, NEW v, todo \subseteq {u, v}
  PROVE  LockNext(s, todo) \in todo /\ \A x \in todo : LockNext(s, todo) <= x
<1>1. todo \subseteq Nat
  BY WalletIdsAssumption
<1>2. \E w \in todo : \A x \in todo : w <= x
  <2>1. CASE u \in todo /\ v \in todo
    <3>1. u \in Nat /\ v \in Nat
      BY <1>1, <2>1
    <3>2. u <= v \/ v <= u
      BY <3>1
    <3>3. u <= u /\ v <= v
      BY <3>1
    <3>4. QED
      BY <2>1, <3>2, <3>3
  <2>2. CASE u \notin todo \/ v \notin todo
    <3>1. PICK w : todo = {w}
      BY <2>2
    <3>2. w \in Nat /\ w <= w
      BY <1>1, <3>1
    <3>3. QED
      BY <3>1, <3>2
  <2>3. QED
    BY <2>1, <2>2
<1>3. QED
  BY <1>2 DEF LockNext

LEMMA LockRowOK ==
  ASSUME TxOK, NEW s \in Sessions, LockRow(s)
  PROVE  TxOK' /\ ledger' = ledger
<1>1. PICK S, T : S = Session(s) /\ T = Session(s)'
  OBVIOUS
<1>2. /\ SessionOK(ledger, S) /\ Progress(ledger, S) /\ ledger \in Ledger
      /\ \A t \in Sessions \ {s} : Apart(S, Session(t))
  BY <1>1, SessionKept
<1>3. /\ S.pc = pc[s] /\ S.req = req[s] /\ S.grp = grp[s] /\ S.at = at[s] /\ S.hit = hit[s]
      /\ S.mine = mine[s] /\ S.ins = ins[s] /\ S.out = out[s] /\ Cur(S) = Group(s)
  BY <1>1, SessionFields
<1>4. /\ T.pc = pc'[s] /\ T.req = req'[s] /\ T.grp = grp'[s] /\ T.at = at'[s]
      /\ T.hit = hit'[s] /\ T.mine = mine'[s] /\ T.ins = ins'[s] /\ T.out = out'[s]
  BY <1>1, NextFields
<1>5. S.pc = "lock" /\ pc[s] = "lock"
  BY <1>3 DEF LockRow
<1>6. /\ ledger' = ledger /\ req' = req /\ grp' = grp /\ at' = at /\ hit' = hit
      /\ seen' = seen /\ after' = after /\ ins' = ins /\ out' = out
  BY DEF LockRow
<1>7. PICK g : g = Cur(S)
  OBVIOUS
<1>8. /\ S.at = 1 /\ S.at \in 1..Len(g) /\ (\A k \in S.hit : Posted(ledger, k)) /\ GoodGroup(g)
  <2>1. /\ S.at = 1 /\ S.at \in 1..Len(g) /\ \A k \in S.hit : Posted(ledger, k)
        /\ S.req \in Requests /\ S.grp \in 1..Len(S.req)
    BY <1>2, <1>5, <1>7 DEF SessionOK
  <2>2. QED
    BY <1>7, <2>1, RequestGroups DEF Cur
<1>9. GroupWallets(s) = WalletsOf(g)
  BY <1>3, <1>7 DEF GroupWallets, WalletsOf
<1>10. \A i \in 1..Len(g) : Sees(ledger, S, g[i].wallet).status # "absent"
  BY <1>2, <1>5, <1>7, SeenRows
<1>11. PICK todo : todo = WalletsOf(g) \ DOMAIN S.mine
  OBVIOUS
<1>12. CASE todo = {}
  <2>1. pc' = Set(pc, s, "check") /\ mine' = mine
    BY <1>3, <1>9, <1>11, <1>12 DEF LockRow
  <2>2. Local(s, pc, pc') /\ pc'[s] = "check"
    BY <2>1, SetFields DEF TxOK, TxShape
  <2>3. OnlyOf(s)
    BY <1>6, <2>1, <2>2, SameLocal DEF OnlyOf
  <2>4. /\ T.pc = "check" /\ T.req = S.req /\ T.grp = S.grp /\ T.at = S.at /\ T.hit = S.hit
        /\ T.mine = S.mine /\ T.ins = S.ins /\ T.out = S.out
    BY <1>3, <1>4, <1>6, <2>1, <2>2
  <2>5. WalletsOf(Cur(S)) \subseteq DOMAIN T.mine
    BY <1>7, <1>11, <1>12, <2>4
  <2>6. SessionOK(ledger, T) /\ Progress(ledger, T)
    BY <1>2, <1>5, <1>7, <1>8, <2>4, <2>5, Quiet
  <2>7. \A t \in Sessions \ {s} : Apart(T, Session(t))
    BY <1>2, <2>4, ApartKept DEF HasKey
  <2>8. QED
    BY <1>1, <1>6, <2>3, <2>6, <2>7, LocalStep
<1>13. CASE todo # {}
  <2>1. PICK w : w = LockNext(s, todo)
    OBVIOUS
  <2>2. FreeFor(s, w) /\ Hold(s, w, ledger.rows[w]) /\ pc' = pc
    BY <1>3, <1>9, <1>11, <1>13, <2>1 DEF LockRow
  <2>3. w \in todo
    <3>1. todo \in SUBSET Wallets
      BY <1>8, <1>11, GroupFields
    <3>2. \E u, v : WalletsOf(g) \subseteq {u, v}
      <4>1. Len(g) = 1 \/ Len(g) = 2
        BY <1>8 DEF GoodGroup
      <4>2. Len(g) = 1 => WalletsOf(g) = {g[1].wallet}
        BY <1>8, GroupFields
      <4>3. Len(g) = 2 => WalletsOf(g) = {g[1].wallet, g[2].wallet}
        BY <1>8, GroupFields
      <4>4. QED
        BY <4>1, <4>2, <4>3
    <3>3. PICK u, v : WalletsOf(g) \subseteq {u, v}
      BY <3>2
    <3>4. todo \subseteq {u, v}
      BY <1>11, <3>3
    <3>5. QED
      BY <1>13, <2>1, <3>1, <3>4, LockNextExists
  <2>4. w \in Wallets /\ w \in WalletsOf(g) /\ w \notin DOMAIN S.mine
    BY <1>8, <1>11, <2>3, GroupFields
  <2>5. ledger.rows[w] \in Row /\ ledger.rows[w].status # "absent"
    <3>1. PICK i \in 1..Len(g) : w = g[i].wallet
      BY <2>4 DEF WalletsOf
    <3>2. Sees(ledger, S, w).status # "absent"
      BY <1>10, <3>1
    <3>3. QED
      BY <1>2, <2>4, <3>2 DEF Sees, Ledger
  <2>6. /\ Local(s, mine, mine') /\ DOMAIN T.mine = DOMAIN S.mine \cup {w}
        /\ T.mine[w] = ledger.rows[w]
        /\ \A v \in DOMAIN S.mine \ {w} : T.mine[v] = S.mine[v]
    BY <1>3, <1>4, <2>2, HoldFields DEF TxOK
  <2>7. OnlyOf(s)
    BY <1>6, <2>2, <2>6, SameLocal DEF OnlyOf
  <2>8. /\ T.pc = "lock" /\ T.req = S.req /\ T.grp = S.grp /\ T.at = S.at /\ T.hit = S.hit
        /\ T.ins = S.ins /\ T.out = S.out
    BY <1>3, <1>4, <1>5, <1>6, <2>2
  <2>9. TakesOf(ledger, S, T, {w})
    BY <2>4, <2>5, <2>6, OpenRow DEF TakesOf
  <2>10. \A i \in 1..Len(g) : Sees(ledger, T, g[i].wallet).status # "absent"
    BY <1>10, <2>9, TakesSees
  <2>11. /\ DOMAIN S.mine \subseteq DOMAIN T.mine
         /\ DOMAIN T.mine \subseteq DOMAIN S.mine \cup WalletsOf(g)
         /\ \A v \in DOMAIN S.mine : T.mine[v] = S.mine[v]
         /\ \A v \in DOMAIN T.mine \ DOMAIN S.mine : T.mine[v] = Open(ledger.rows[v])
    BY <2>4, <2>9 DEF TakesOf
  <2>12. SessionOK(ledger, T) /\ Progress(ledger, T)
    BY <1>2, <1>5, <1>7, <1>8, <2>8, <2>10, <2>11, Quiet
  <2>13. \A t \in Sessions \ {s} : Apart(T, Session(t))
    <3>1. \A t \in Sessions \ {s} : w \notin DOMAIN Session(t).mine
      BY <2>2 DEF FreeFor, Session
    <3>2. \A k : HasKey(T, k) => HasKey(S, k)
      BY <2>8 DEF HasKey
    <3>3. QED
      BY <1>2, <2>6, <3>1, <3>2, ApartKept
  <2>14. QED
    BY <1>1, <1>6, <2>7, <2>12, <2>13, LocalStep
<1>14. QED
  BY <1>12, <1>13

\* The last leg on a wallet of the group is its only one.
LEMMA LastOfLeg ==
  ASSUME NEW g, GoodGroup(g), NEW i \in 1..Len(g)
  PROVE  LastOf(g, g[i].wallet) = i
<1>1. PICK w : w = g[i].wallet
  OBVIOUS
<1>2. \A j \in 1..Len(g) : g[j].wallet = w => j = i
  BY <1>1, GroupFields
<1>3. i <= i
  OBVIOUS
<1>4. \E k \in 1..Len(g) : g[k].wallet = w /\ \A j \in 1..Len(g) : g[j].wallet = w => j <= k
  BY <1>1, <1>2, <1>3
<1>5. LastOf(g, w) \in 1..Len(g) /\ g[LastOf(g, w)].wallet = w
  BY <1>4 DEF LastOf
<1>6. QED
  BY <1>1, <1>2, <1>5

LEMMA CheckAndUpdateOK ==
  ASSUME TxOK, NEW s \in Sessions, CheckAndUpdate(s)
  PROVE  TxOK' /\ ledger' = ledger
<1>1. PICK S, T : S = Session(s) /\ T = Session(s)'
  OBVIOUS
<1>2. /\ SessionOK(ledger, S) /\ Progress(ledger, S) /\ ledger \in Ledger
      /\ \A t \in Sessions \ {s} : Apart(S, Session(t))
  BY <1>1, SessionKept
<1>3. /\ S.pc = pc[s] /\ S.req = req[s] /\ S.grp = grp[s] /\ S.at = at[s] /\ S.hit = hit[s]
      /\ S.mine = mine[s] /\ S.ins = ins[s] /\ S.out = out[s] /\ Cur(S) = Group(s)
  BY <1>1, SessionFields
<1>4. /\ T.pc = pc'[s] /\ T.req = req'[s] /\ T.grp = grp'[s] /\ T.at = at'[s]
      /\ T.hit = hit'[s] /\ T.mine = mine'[s] /\ T.ins = ins'[s] /\ T.out = out'[s]
      /\ T.after = after'[s]
  BY <1>1, NextFields
<1>5. S.pc = "check"
  BY <1>3 DEF CheckAndUpdate
<1>6. PICK g : g = Cur(S)
  OBVIOUS
<1>7. GoodGroup(g)
  <2>1. S.req \in Requests /\ S.grp \in 1..Len(S.req)
    BY <1>2, <1>5 DEF SessionOK
  <2>2. QED
    BY <1>6, <2>1, RequestGroups DEF Cur
<1>8. GroupWallets(s) = WalletsOf(g)
  BY <1>3, <1>6 DEF GroupWallets, WalletsOf
<1>9. CASE ~(Recheck(s) /\ Sufficient(s))
  <2>1. Rollback(s, "error")
    BY <1>9 DEF CheckAndUpdate
  <2>2. QED
    BY <2>1, RollbackOK
<1>10. CASE Recheck(s) /\ Sufficient(s)
  <2>1. PICK snap, h : snap = Snapshots(s) /\ h = Updated(s)
    OBVIOUS
  <2>2. /\ \A i \in 1..Len(g) : snap[i] = After(g[i].op, S.mine[g[i].wallet].bal, g[i].amount)
        /\ DOMAIN h = DOMAIN S.mine
        /\ \A w \in DOMAIN S.mine :
             h[w] = IF w \in WalletsOf(g) THEN [S.mine[w] EXCEPT !.bal = snap[LastOf(g, w)]]
                    ELSE S.mine[w]
    BY <1>3, <1>6, <1>8, <2>1 DEF Snapshots, Updated
  <2>3. /\ after' = Set(after, s, snap) /\ pc' = Set(pc, s, "insert")
        /\ ledger' = ledger /\ req' = req /\ grp' = grp /\ at' = at /\ hit' = hit
        /\ seen' = seen /\ ins' = ins /\ out' = out
    BY <1>10, <2>1 DEF CheckAndUpdate
  <2>4. mine' = Set(mine, s, h)
    BY <1>10, <2>1 DEF CheckAndUpdate
  <2>5. /\ Local(s, after, after') /\ after'[s] = snap
        /\ Local(s, pc, pc') /\ pc'[s] = "insert"
        /\ Local(s, mine, mine') /\ mine'[s] = h
    BY <2>3, <2>4, SetFields DEF TxOK, TxShape
  <2>6. OnlyOf(s)
    BY <2>3, <2>5, SameLocal DEF OnlyOf
  <2>7. /\ T.pc = "insert" /\ T.req = S.req /\ T.grp = S.grp /\ T.at = S.at /\ T.hit = S.hit
        /\ T.ins = S.ins /\ T.out = S.out /\ T.mine = h /\ T.after = snap
    BY <1>3, <1>4, <2>3, <2>5
  <2>8. /\ DOMAIN T.mine = DOMAIN S.mine
        /\ \A w \in DOMAIN S.mine \ WalletsOf(g) : T.mine[w] = S.mine[w]
    BY <2>2, <2>7
  <2>9. WalletsOf(g) \subseteq DOMAIN S.mine
    <3>1. ~Idle(S) /\ S.pc # "insert"
      BY <1>5 DEF Idle
    <3>2. PICK D \in SUBSET (1..2) : Working(ledger, S, D)
      BY <1>2, <3>1 DEF Progress
    <3>3. Reading(ledger, Base(ledger, S.req, D), S)
      BY <3>1, <3>2 DEF Working
    <3>4. QED
      BY <1>5, <1>6, <3>3 DEF Reading
  <2>10. ASSUME NEW i \in 1..Len(g)
         PROVE  LegUpdated(S, T, i)
    <3>1. PICK l : l = g[i]
      OBVIOUS
    <3>2. l.wallet \in WalletsOf(g) /\ l.wallet \in DOMAIN S.mine
      BY <1>7, <2>9, <3>1, GroupFields
    <3>3. LastOf(g, l.wallet) = i
      BY <1>7, <3>1, LastOfLeg
    <3>4. T.after[i] = After(l.op, S.mine[l.wallet].bal, l.amount)
      BY <2>2, <2>7, <3>1
    <3>5. T.mine[l.wallet] = [S.mine[l.wallet] EXCEPT !.bal = T.after[i]]
      BY <2>2, <2>7, <3>2, <3>3
    <3>6. Covers(l.op, S.mine[l.wallet].bal, l.amount)
      BY <1>3, <1>6, <1>10, <3>1 DEF Sufficient
    <3>7. QED
      BY <1>6, <3>1, <3>4, <3>5, <3>6 DEF LegUpdated
  <2>11. Len(g) = 2 /\ S.grp = 1 => \A i \in 1..Len(g) : S.mine[g[i].wallet].status = "active"
    BY <1>3, <1>6, <1>7, <1>8, <1>10, GroupFields DEF Recheck
  <2>12. SessionOK(ledger, T) /\ Progress(ledger, T)
    BY <1>2, <1>5, <1>6, <2>7, <2>8, <2>10, <2>11, Update
  <2>13. \A t \in Sessions \ {s} : Apart(T, Session(t))
    BY <1>2, <2>7, <2>8, ApartKept DEF HasKey
  <2>14. QED
    BY <1>1, <2>3, <2>6, <2>12, <2>13, LocalStep
<1>11. QED
  BY <1>9, <1>10

\* A key that nobody else has inserted.
LEMMA KeyFree ==
  ASSUME NEW s \in Sessions, NEW k, ~InFlight(s, k)
  PROVE  \A t \in Sessions \ {s} : ~HasKey(Session(t), k)
BY DEF InFlight, Inserted, HasKey, Session

LEMMA InsertMovementOK ==
  ASSUME TxOK, NEW s \in Sessions, InsertMovement(s)
  PROVE  TxOK' /\ ledger' = ledger
<1>1. PICK S, T : S = Session(s) /\ T = Session(s)'
  OBVIOUS
<1>2. /\ SessionOK(ledger, S) /\ Progress(ledger, S) /\ ledger \in Ledger
      /\ \A t \in Sessions \ {s} : Apart(S, Session(t))
  BY <1>1, SessionKept
<1>3. /\ S.pc = pc[s] /\ S.req = req[s] /\ S.grp = grp[s] /\ S.at = at[s] /\ S.hit = hit[s]
      /\ S.mine = mine[s] /\ S.ins = ins[s] /\ S.out = out[s] /\ S.after = after[s]
      /\ Cur(S) = Group(s)
  BY <1>1, SessionFields
<1>4. /\ T.pc = pc'[s] /\ T.req = req'[s] /\ T.grp = grp'[s] /\ T.at = at'[s]
      /\ T.hit = hit'[s] /\ T.mine = mine'[s] /\ T.ins = ins'[s] /\ T.out = out'[s]
      /\ T.after = after'[s]
  BY <1>1, NextFields
<1>5. S.pc = "insert"
  BY <1>3 DEF InsertMovement
<1>6. PICK l : l = Cur(S)[S.at]
  OBVIOUS
<1>7. ThisLeg(s) = l /\ (LastLeg(s) <=> S.at = Len(Cur(S)))
  BY <1>3, <1>6 DEF ThisLeg, LastLeg
<1>8. ~InFlight(s, l.key)
  BY <1>7 DEF InsertMovement
<1>9. CASE UniqueViolation(l) /\ Len(Group(s)) # 1
  <2>1. Rollback(s, "error")
    BY <1>7, <1>9 DEF InsertMovement
  <2>2. QED
    BY <2>1, RollbackOK
<1>10. CASE UniqueViolation(l) /\ Len(Group(s)) = 1
  <2>1. /\ pc' = Set(pc, s, "refind") /\ mine' = Set(mine, s, None)
        /\ ins' = Set(ins, s, NoMovements) /\ after' = Set(after, s, <<>>)
        /\ ledger' = ledger /\ req' = req /\ grp' = grp /\ at' = at /\ hit' = hit
        /\ seen' = seen /\ out' = out
    BY <1>7, <1>10 DEF InsertMovement
  <2>2. /\ Local(s, pc, pc') /\ pc'[s] = "refind" /\ Local(s, mine, mine') /\ mine'[s] = None
    BY <2>1, SetFields DEF TxOK, TxShape
  <2>3. Local(s, ins, ins') /\ ins'[s] = NoMovements /\ Local(s, after, after')
    BY <2>1, SetFields DEF TxOK, TxShape
  <2>4. OnlyOf(s)
    BY <2>1, <2>2, <2>3, SameLocal DEF OnlyOf
  <2>5. /\ T.pc = "refind" /\ T.req = S.req /\ T.grp = S.grp /\ T.at = S.at /\ T.hit = S.hit
        /\ T.out = S.out /\ T.mine = None /\ T.ins = NoMovements
    BY <1>3, <1>4, <2>1, <2>2, <2>3
  <2>6. /\ SessionOK(ledger, T) /\ Progress(ledger, T)
        /\ DOMAIN T.mine = {} /\ \A k : ~HasKey(T, k)
    BY <1>2, <1>3, <1>5, <1>10, <2>5, LooksAgain
  <2>7. \A t \in Sessions \ {s} : Apart(T, Session(t))
    BY <2>6 DEF Apart
  <2>8. QED
    BY <1>1, <2>1, <2>4, <2>6, <2>7, LocalStep
<1>11. CASE ~UniqueViolation(l)
  <2>1. ~Posted(ledger, l.key) /\ ~SlotTaken(ledger, l)
    BY <1>11 DEF UniqueViolation
  <2>2. ins' = [ins EXCEPT ![s][l.wallet] = Append(@, MovementOf(l, after[s][at[s]]))]
    BY <1>7, <1>11 DEF InsertMovement
  <2>3. /\ Local(s, ins, ins')
        /\ ins'[s] = [ins[s] EXCEPT ![l.wallet] = Append(@, MovementOf(l, after[s][at[s]]))]
    BY <2>2 DEF TxOK, TxShape, Local
  <2>4. InsertedLeg(S, T)
    BY <1>3, <1>4, <1>6, <2>3 DEF InsertedLeg
  <2>5. CASE LastLeg(s)
    <3>1. NextGroup(s)
      BY <1>7, <1>11, <2>5 DEF InsertMovement
    <3>2. /\ OnlyOf(s) /\ ledger' = ledger /\ GoesOn(S, T) /\ T.req = S.req /\ T.at = 1
          /\ T.hit = {} /\ T.mine = S.mine /\ T.out = S.out
      BY <1>1, <1>5, <2>3, <3>1, NextGroupFields
    <3>3. /\ SessionOK(ledger, T) /\ Progress(ledger, T)
          /\ \A k : HasKey(T, k) <=> HasKey(S, k) \/ k = l.key
      BY <1>2, <1>5, <1>6, <1>7, <2>1, <2>4, <2>5, <3>2, InsertLast
    <3>4. \A t \in Sessions \ {s} : Apart(T, Session(t))
      BY <1>2, <1>8, <3>2, <3>3, KeyFree, ApartKept
    <3>5. QED
      BY <1>1, <3>2, <3>3, <3>4, LocalStep
  <2>6. CASE ~LastLeg(s)
    <3>1. /\ at' = Set(at, s, at[s] + 1)
          /\ ledger' = ledger /\ pc' = pc /\ req' = req /\ grp' = grp /\ hit' = hit
          /\ seen' = seen /\ mine' = mine /\ after' = after /\ out' = out
      BY <1>7, <1>11, <2>6 DEF InsertMovement
    <3>2. Local(s, at, at') /\ at'[s] = at[s] + 1
      BY <3>1, SetFields DEF TxOK, TxShape
    <3>3. OnlyOf(s)
      BY <2>3, <3>1, <3>2, SameLocal DEF OnlyOf
    <3>4. /\ T.pc = "insert" /\ T.req = S.req /\ T.grp = S.grp /\ T.at = S.at + 1
          /\ T.hit = S.hit /\ T.mine = S.mine /\ T.out = S.out /\ T.after = S.after
      BY <1>3, <1>4, <1>5, <3>1, <3>2
    <3>5. /\ SessionOK(ledger, T) /\ Progress(ledger, T)
          /\ \A k : HasKey(T, k) <=> HasKey(S, k) \/ k = l.key
      BY <1>2, <1>5, <1>6, <1>7, <2>1, <2>4, <2>6, <3>4, InsertNext
    <3>6. \A t \in Sessions \ {s} : Apart(T, Session(t))
      BY <1>2, <1>8, <3>4, <3>5, KeyFree, ApartKept
    <3>7. QED
      BY <1>1, <3>1, <3>3, <3>5, <3>6, LocalStep
  <2>7. QED
    BY <2>5, <2>6
<1>12. QED
  BY <1>9, <1>10, <1>11

LEMMA CommitOK ==
  ASSUME TxOK, NEW s \in Sessions, Commit(s)
  PROVE  TxOK' /\ [Abstract!Next]_ledger
<1>1. PICK S, T : S = Session(s) /\ T = Session(s)'
  OBVIOUS
<1>2. /\ SessionOK(ledger, S) /\ Progress(ledger, S) /\ ledger \in Ledger /\ LedgerOK(ledger)
      /\ \A t \in Sessions \ {s} : Apart(S, Session(t))
  BY <1>1, SessionKept
<1>3. S.pc = pc[s] /\ S.req = req[s] /\ S.mine = mine[s] /\ S.ins = ins[s]
  BY <1>1, SessionFields
<1>4. S.pc = "commit" /\ S.pc # "idle" /\ ~Idle(S) /\ S.pc # "insert"
  BY <1>3 DEF Commit, Idle
<1>5. PICK M : M = Publish(ledger, S)
  OBVIOUS
<1>6. ledger' = M
  <2>1. ledger' = [rows |-> [w \in Wallets |-> Visible(s, w)],
                   movements |-> [w \in Wallets |-> ledger.movements[w] \o ins[s][w]]]
    BY DEF Commit
  <2>2. \A w \in Wallets : Visible(s, w) = Sees(ledger, S, w)
    BY <1>3 DEF Visible, Sees
  <2>3. QED
    BY <1>3, <1>5, <2>1, <2>2 DEF Publish
<1>7. PICK D \in SUBSET (1..2) : Working(ledger, S, D)
  BY <1>2, <1>4 DEF Progress
<1>8. PICK B : B = Base(ledger, S.req, D)
  OBVIOUS
<1>9. M = B /\ LedgerOK(M) /\ M \in Ledger
  BY <1>2, <1>4, <1>5, <1>7, <1>8, Published DEF LedgerOK
<1>10. Done(ledger, S, D)
  BY <1>7 DEF Working
<1>11. [Abstract!Next]_ledger
  BY <1>2, <1>4, <1>6, <1>8, <1>9, <1>10, BaseIsAbstractStep
<1>12. \A k : Posted(M, k) <=> Posted(ledger, k) \/ HasKey(S, k)
  BY <1>2, <1>5, PublishPosted
<1>13. \A g \in 1..Len(S.req) : \A i \in 1..Len(S.req[g]) : Posted(M, S.req[g][i].key)
  <2>1. ASSUME NEW g \in 1..Len(S.req), NEW i \in 1..Len(S.req[g])
        PROVE  Posted(ledger, S.req[g][i].key) \/ HasKey(S, S.req[g][i].key)
    <3>1. Completed(S) = 1..Len(S.req)
      BY <1>4 DEF Completed
    <3>2. CASE g \notin D
      BY <1>10, <3>1, <3>2 DEF Done
    <3>3. CASE g \in D
      <4>1. g = 1 \/ g = 2
        BY <3>3
      <4>2. CASE g = 1
        BY <1>10, <3>3, <4>2 DEF Done, Ready
      <4>3. CASE g = 2
        BY <1>10, <3>3, <4>3 DEF Done, Ready
      <4>4. QED
        BY <4>1, <4>2, <4>3
    <3>4. QED
      BY <3>2, <3>3
  <2>2. QED
    BY <1>12, <2>1
<1>14. \E result : EndTx(s, result)
  BY DEF Commit
<1>15. PICK result : EndTx(s, result)
  BY <1>14
<1>16. /\ OnlyOf(s)
       /\ T.pc = "idle" /\ T.grp = 1 /\ T.at = 1 /\ T.hit = {} /\ T.mine = None
       /\ T.ins = NoMovements /\ T.req = S.req
  BY <1>1, <1>3, <1>15, EndTxFields DEF TxOK
<1>17. \A g \in 1..Len(T.req) : \A i \in 1..Len(T.req[g]) : Posted(M, T.req[g][i].key)
  BY <1>13, <1>16
<1>18. /\ SessionOK(M, T) /\ Progress(M, T)
       /\ DOMAIN T.mine = {} /\ \A k : ~HasKey(T, k)
  BY <1>16, <1>17, Reset
<1>19. TxShape' /\ \A t \in Sessions \ {s} : Session(t)' = Session(t)
  BY <1>16, Frame DEF TxOK
<1>20. ASSUME NEW t \in Sessions \ {s}
       PROVE  SessionOK(M, Session(t)) /\ Progress(M, Session(t)) /\ Apart(T, Session(t))
  <2>1. PICK U : U = Session(t)
    OBVIOUS
  <2>2. SessionOK(ledger, U) /\ Progress(ledger, U) /\ Apart(S, U)
    BY <1>2, <2>1, SessionKept
  <2>3. DOMAIN U.mine \subseteq Wallets /\ \A k \in Keys : HasKey(U, k) => ~Posted(ledger, k)
    BY <2>2 DEF SessionOK
  <2>4. SameOn(ledger, M, DOMAIN U.mine)
    <3>1. ASSUME NEW w \in DOMAIN U.mine
          PROVE  SameAt(ledger, M, w)
      <4>1. w \in Wallets \ DOMAIN S.mine
        BY <2>2, <2>3 DEF Apart
      <4>2. QED
        BY <1>2, <1>5, <4>1, PublishElsewhere
    <3>2. QED
      BY <3>1 DEF SameOn
  <2>5. \A k \in Keys : HasKey(U, k) => ~Posted(M, k)
    BY <1>12, <2>2, <2>3 DEF Apart
  <2>6. ASSUME NEW w \in Wallets, ledger.rows[w].status # "absent"
        PROVE  M.rows[w].status # "absent"
    <3>1. M.rows[w] = Sees(ledger, S, w)
      BY <1>5 DEF Publish
    <3>2. QED
      BY <1>2, <2>6, <3>1 DEF Sees, SessionOK
  <2>7. \A k : Posted(ledger, k) => Posted(M, k)
    BY <1>12
  <2>8. SessionOK(M, U) /\ Progress(M, U)
    BY <1>2, <1>9, <2>2, <2>4, <2>5, <2>6, <2>7, OthersStable
  <2>9. Apart(T, U)
    BY <1>18 DEF Apart
  <2>10. QED
    BY <2>1, <2>8, <2>9
<1>21. ASSUME NEW t \in Sessions
       PROVE  (SessionOK(ledger, Session(t)) /\ Progress(ledger, Session(t)))'
  <2>1. CASE t = s
    <3>1. SessionOK(ledger', Session(s)') /\ Progress(ledger', Session(s)')
      BY <1>1, <1>6, <1>18
    <3>2. QED
      BY <2>1, <3>1
  <2>2. CASE t # s
    <3>1. SessionOK(ledger', Session(t)') /\ Progress(ledger', Session(t)')
      BY <1>6, <1>19, <1>20, <2>2
    <3>2. QED
      BY <3>1
  <2>3. QED
    BY <2>1, <2>2
<1>22. ASSUME NEW t \in Sessions, NEW u \in Sessions, t # u
       PROVE  Apart(Session(t), Session(u))'
  <2>1. CASE t = s
    <3>1. Apart(Session(s)', Session(u)')
      BY <1>1, <1>19, <1>20, <1>22, <2>1
    <3>2. QED
      BY <2>1, <3>1
  <2>2. CASE u = s
    <3>1. Apart(T, Session(t)) /\ Session(t)' = Session(t)
      BY <1>19, <1>20, <1>22, <2>2
    <3>2. Apart(Session(t)', Session(s)')
      BY <1>1, <3>1 DEF Apart
    <3>3. QED
      BY <2>2, <3>2
  <2>3. CASE t # s /\ u # s
    <3>1. Apart(Session(t), Session(u)) /\ Session(t)' = Session(t) /\ Session(u)' = Session(u)
      BY <1>19, <1>22, <2>3 DEF TxOK, TxInv
    <3>2. Apart(Session(t)', Session(u)')
      BY <3>1
    <3>3. QED
      BY <3>2
  <2>4. QED
    BY <2>1, <2>2, <2>3
<1>23. LedgerOK(ledger)'
  BY <1>6, <1>9
<1>24. QED
  BY <1>11, <1>19, <1>21, <1>22, <1>23 DEF TxOK, TxInv

LEMMA SetStatusOK ==
  ASSUME TxOK, NEW w \in Freezable, NEW st \in {"active", "frozen"}, SetStatus(w, st)
  PROVE  TxOK' /\ [Abstract!Next]_ledger
<1>1. w \in Wallets /\ LedgerOK(ledger) /\ ledger \in Ledger
  BY FreezableAssumption DEF TxOK, TxInv, LedgerOK
<1>2. ledger.rows[w].status # "absent" /\ \A s \in Sessions : w \notin DOMAIN Session(s).mine
  BY DEF SetStatus, Session
<1>3. PICK M : M = [ledger EXCEPT !.rows[w].status = st]
  OBVIOUS
<1>4. ledger' = M
  BY <1>3 DEF SetStatus
<1>5. /\ M.movements = ledger.movements
      /\ \A v \in Wallets \ {w} : M.rows[v] = ledger.rows[v]
      /\ M.rows[w].status = st /\ M.rows[w].bal = ledger.rows[w].bal
      /\ M \in Ledger
  BY <1>1, <1>3 DEF Ledger, Row, Statuses
<1>6. LedgerOK(M)
  BY <1>1, <1>5 DEF LedgerOK
<1>7. \A k : Posted(M, k) <=> Posted(ledger, k)
  BY <1>5 DEF Posted
<1>8. /\ TxShape' /\ \A t \in Sessions : Session(t)' = Session(t)
  BY DEF SetStatus, TxOK, TxShape, Session
<1>9. ASSUME NEW t \in Sessions
      PROVE  (SessionOK(ledger, Session(t)) /\ Progress(ledger, Session(t)))'
  <2>1. PICK U : U = Session(t)
    OBVIOUS
  <2>2. SessionOK(ledger, U) /\ Progress(ledger, U)
    BY <2>1, SessionKept
  <2>3. DOMAIN U.mine \subseteq Wallets /\ \A k \in Keys : HasKey(U, k) => ~Posted(ledger, k)
    BY <2>2 DEF SessionOK
  <2>4. SameOn(ledger, M, DOMAIN U.mine)
    BY <1>2, <1>5, <2>1, <2>3 DEF SameOn, SameAt
  <2>5. \A v \in Wallets : ledger.rows[v].status # "absent" => M.rows[v].status # "absent"
    BY <1>5
  <2>6. SessionOK(M, U) /\ Progress(M, U)
    BY <1>1, <1>5, <1>7, <2>2, <2>3, <2>4, <2>5, OthersStable
  <2>7. SessionOK(ledger', Session(t)') /\ Progress(ledger', Session(t)')
    BY <1>4, <1>8, <2>1, <2>6
  <2>8. QED
    BY <2>7
<1>10. ASSUME NEW t \in Sessions, NEW u \in Sessions, t # u
       PROVE  Apart(Session(t), Session(u))'
  <2>1. Apart(Session(t), Session(u)) /\ Session(t)' = Session(t) /\ Session(u)' = Session(u)
    BY <1>8, <1>10 DEF TxOK, TxInv
  <2>2. Apart(Session(t)', Session(u)')
    BY <2>1
  <2>3. QED
    BY <2>2
<1>11. LedgerOK(ledger)'
  BY <1>4, <1>6
<1>12. Abstract!SetStatus(w, st)
  BY <1>2, <1>3, <1>4 DEF Abstract!SetStatus
<1>13. st \in Abstract!Statuses \ {"absent"}
  BY DEF Abstract!Statuses
<1>14. [Abstract!Next]_ledger
  BY <1>1, <1>12, <1>13 DEF Abstract!Next
<1>15. QED
  BY <1>8, <1>9, <1>10, <1>11, <1>14 DEF TxOK, TxInv

LEMMA InitOK ==
  ASSUME Init
  PROVE  TxOK /\ Abstract!Init
<1>1. ledger = EmptyLedger /\ LedgerOK(ledger)
  BY DEF Init, EmptyLedger, LedgerOK, Ledger, Row, Statuses, Balance, ZeroBalance
<1>2. TxShape
  BY DEF Init, TxShape
<1>3. ASSUME NEW s \in Sessions
      PROVE  /\ SessionOK(ledger, Session(s)) /\ Progress(ledger, Session(s))
             /\ DOMAIN Session(s).mine = {} /\ \A k : ~HasKey(Session(s), k)
  <2>1. PICK T : T = Session(s)
    OBVIOUS
  <2>2. /\ T.pc = "idle" /\ T.grp = 1 /\ T.at = 1 /\ T.hit = {} /\ T.mine = None
        /\ T.ins = NoMovements /\ T.out = "none"
    BY <2>1, SessionFields DEF Init
  <2>3. /\ SessionOK(ledger, T) /\ Progress(ledger, T)
        /\ DOMAIN T.mine = {} /\ \A k : ~HasKey(T, k)
    BY <2>2, Reset
  <2>4. QED
    BY <2>1, <2>3
<1>4. \A s, t \in Sessions : s # t => Apart(Session(s), Session(t))
  BY <1>3 DEF Apart
<1>5. TxOK
  BY <1>1, <1>2, <1>3, <1>4 DEF TxOK, TxInv
<1>6. Abstract!Init
  BY <1>1 DEF Abstract!Init, Abstract!EmptyLedger, Abstract!ZeroBalance, EmptyLedger, ZeroBalance
<1>7. QED
  BY <1>5, <1>6

LEMMA NextOK ==
  ASSUME TxOK, [Next]_vars
  PROVE  TxOK' /\ [Abstract!Next]_ledger
<1>1. CASE UNCHANGED vars
  <2>1. TxOK'
    <3>1. ledger' = ledger /\ TxShape' /\ \A t \in Sessions : Session(t)' = Session(t)
      BY <1>1 DEF vars, TxOK, TxShape, Session
    <3>2. LedgerOK(ledger)'
      BY <3>1 DEF TxOK, TxInv
    <3>3. ASSUME NEW t \in Sessions
          PROVE  (SessionOK(ledger, Session(t)) /\ Progress(ledger, Session(t)))'
      <4>1. SessionOK(ledger', Session(t)') /\ Progress(ledger', Session(t)')
        BY <3>1 DEF TxOK, TxInv
      <4>2. QED
        BY <4>1
    <3>4. ASSUME NEW t \in Sessions, NEW u \in Sessions, t # u
          PROVE  Apart(Session(t), Session(u))'
      <4>1. Apart(Session(t)', Session(u)')
        BY <3>1, <3>4 DEF TxOK, TxInv
      <4>2. QED
        BY <4>1
    <3>5. QED
      BY <3>1, <3>2, <3>3, <3>4 DEF TxOK, TxInv
  <2>2. QED
    BY <1>1, <2>1 DEF vars
<1>2. ASSUME NEW s \in Sessions, NEW r \in Requests, Begin(s, r)
      PROVE  TxOK' /\ [Abstract!Next]_ledger
  BY <1>2, BeginOK
<1>3. ASSUME NEW s \in Sessions, Step(s)
      PROVE  TxOK' /\ [Abstract!Next]_ledger
  <2>1. CASE Find(s)
    BY <2>1, FindOK
  <2>2. CASE EnsureSelect(s)
    BY <2>2, EnsureSelectOK
  <2>3. CASE EnsureInsert(s)
    BY <2>3, EnsureInsertOK
  <2>4. CASE CheckActive(s)
    BY <2>4, CheckActiveOK
  <2>5. CASE LockRow(s)
    BY <2>5, LockRowOK
  <2>6. CASE CheckAndUpdate(s)
    BY <2>6, CheckAndUpdateOK
  <2>7. CASE InsertMovement(s)
    BY <2>7, InsertMovementOK
  <2>8. CASE Refind(s)
    BY <2>8, RefindOK
  <2>9. CASE Commit(s)
    BY <2>9, CommitOK
  <2>10. CASE DeadlockAbort(s)
    BY <2>10, LostOK
  <2>11. QED
    BY <1>3, <2>1, <2>2, <2>3, <2>4, <2>5, <2>6, <2>7, <2>8, <2>9, <2>10 DEF Step
<1>4. ASSUME NEW s \in Sessions, Lost(s)
      PROVE  TxOK' /\ [Abstract!Next]_ledger
  BY <1>4, LostOK
<1>5. ASSUME NEW w \in Freezable, NEW st \in {"active", "frozen"}, SetStatus(w, st)
      PROVE  TxOK' /\ [Abstract!Next]_ledger
  BY <1>5, SetStatusOK
<1>6. QED
  BY <1>1, <1>2, <1>3, <1>4, <1>5 DEF Next

-----------------------------------------------------------------------------
\* The invariant of the concurrent ledger: the rows a call holds, its snapshots
\* and its uncommitted movements are those of the committed ledger with its own
\* groups posted.
THEOREM TxInvariant == Spec => []TxOK
<1>1. Init => TxOK
  BY InitOK
<1>2. TxOK /\ [Next]_vars => TxOK'
  BY NextOK
<1>3. QED
  BY <1>1, <1>2, PTL DEF Spec

\* Every change that the statements of concurrent calls make to the committed
\* ledger is one atomic step of InfraLedger: a posting, a transfer, a transfer
\* with its fee, or a change of status.
THEOREM TxImplementsLedger == Spec => ImplementsLedger
<1>1. Init => TxOK /\ Abstract!Init
  BY InitOK
<1>2. TxOK /\ [Next]_vars => TxOK' /\ [Abstract!Next]_ledger
  BY NextOK
<1>3. Spec => Abstract!Spec
  BY <1>1, <1>2, PTL DEF Spec, Abstract!Spec
<1>4. QED
  BY <1>3 DEF ImplementsLedger

\* A caller that was told "posted" or "duplicate" finds every movement it asked
\* for in the ledger, whichever call posted it.
THEOREM TxAcked == Spec => []AckedIsPosted
<1>1. TxOK => AckedIsPosted
  <2>1. SUFFICES ASSUME TxOK, NEW s \in Sessions, out[s] \in {"posted", "duplicate"}
                 PROVE  \A g \in 1..Len(req[s]) : \A i \in 1..Len(req[s][g]) :
                          Posted(ledger, req[s][g][i].key)
    BY DEF AckedIsPosted
  <2>2. PICK S : S = Session(s)
    OBVIOUS
  <2>3. SessionOK(ledger, S) /\ S.out = out[s] /\ S.req = req[s]
    BY <2>1, <2>2, SessionKept, SessionFields
  <2>4. QED
    BY <2>1, <2>3 DEF SessionOK
<1>2. QED
  BY <1>1, TxInvariant, PTL

-----------------------------------------------------------------------------
(* What is proved of the atomic ledger holds of the concurrent one. *)

Atomic == INSTANCE InfraLedgerProofs WITH Legs <- AllLegs

\* The operators of this instance are those of InfraLedgerOps as well.
LEMMA AtomicOps ==
  ASSUME NEW L, NEW l, NEW c, NEW w
  PROVE  /\ Atomic!ensureWalletAccount(L, w) = ensureWalletAccount(L, w)
         /\ Atomic!Admissible(L, l) <=> Admissible(L, l)
         /\ Atomic!Post(L, l) = Post(L, l)
         /\ Atomic!PostPair(L, l, c) = PostPair(L, l, c)
         /\ Atomic!IsPair(l, c) <=> IsPair(l, c)
         /\ Atomic!EmptyLedger = EmptyLedger
         /\ \A op, b, a : Atomic!Covers(op, b, a) <=> Covers(op, b, a)
         /\ \A op, b, a : Atomic!After(op, b, a) = After(op, b, a)
<1>1. Atomic!ensureWalletAccount(L, w) = ensureWalletAccount(L, w)
  BY DEF Atomic!ensureWalletAccount, ensureWalletAccount
<1>2. \A op, b, a : Atomic!Covers(op, b, a) <=> Covers(op, b, a)
  BY DEF Atomic!Covers, Covers
<1>3. \A key : Atomic!Posted(L, key) <=> Posted(L, key)
  BY DEF Atomic!Posted, Posted
<1>4. Atomic!SlotTaken(L, l) <=> SlotTaken(L, l)
  BY DEF Atomic!SlotTaken, SlotTaken
<1>5. Atomic!Admissible(L, l) <=> Admissible(L, l)
  BY <1>2, <1>3, <1>4 DEF Atomic!Admissible, Admissible
<1>6. \A op, b, a : Atomic!After(op, b, a) = After(op, b, a)
  BY Zenon DEF Atomic!After, After, Atomic!creditOrgWallet, creditOrgWallet,
     Atomic!creditOrgWalletPending, creditOrgWalletPending,
     Atomic!releasePendingToAvailable, releasePendingToAvailable,
     Atomic!debitOrgWallet, debitOrgWallet, Atomic!lockOrgFunds, lockOrgFunds,
     Atomic!releaseOrgFunds, releaseOrgFunds,
     Atomic!finalizeLockedDebit, finalizeLockedDebit
<1>7. \A M, k, a : Atomic!insertMovement(M, k, a) = insertMovement(M, k, a)
  BY DEF Atomic!insertMovement, insertMovement, Atomic!MovementOf, MovementOf
<1>8. \A M, k : Atomic!Post(M, k) = Post(M, k)
  BY <1>6, <1>7 DEF Atomic!Post, Post
<1>9. Atomic!PostPair(L, l, c) = PostPair(L, l, c)
  BY <1>6, <1>7, <1>8 DEF Atomic!PostPair, PostPair
<1>10. Atomic!IsPair(l, c) <=> IsPair(l, c)
  BY DEF Atomic!IsPair, IsPair
<1>11. Atomic!EmptyLedger = EmptyLedger
  BY DEF Atomic!EmptyLedger, EmptyLedger, Atomic!ZeroBalance, ZeroBalance
<1>12. QED
  BY <1>1, <1>2, <1>5, <1>6, <1>8, <1>9, <1>10, <1>11

\* The two instances of the atomic ledger take the same steps.
LEMMA AtomicActions ==
  ASSUME NEW d, NEW c, NEW fd, NEW fc, NEW w, NEW st
  PROVE  /\ Abstract!Init <=> Atomic!Init
         /\ Abstract!Ensure(w) <=> Atomic!Ensure(w)
         /\ Abstract!SetStatus(w, st) <=> Atomic!SetStatus(w, st)
         /\ Abstract!PostOne(d) <=> Atomic!PostOne(d)
         /\ Abstract!Transfer(d, c) <=> Atomic!Transfer(d, c)
         /\ Abstract!TransferWithFee(d, c, fd, fc) <=> Atomic!TransferWithFee(d, c, fd, fc)
<1>1. Abstract!Init <=> Atomic!Init
  BY AbstractOps, AtomicOps DEF Abstract!Init, Atomic!Init
<1>2. /\ \A L, v : Abstract!ensureWalletAccount(L, v) = Atomic!ensureWalletAccount(L, v)
      /\ \A L, l : Abstract!Admissible(L, l) <=> Atomic!Admissible(L, l)
      /\ \A L, l : Abstract!Post(L, l) = Atomic!Post(L, l)
      /\ \A L, k, m : Abstract!PostPair(L, k, m) = Atomic!PostPair(L, k, m)
      /\ \A k, m : Abstract!IsPair(k, m) <=> Atomic!IsPair(k, m)
  <2>1. \A L, v : Abstract!ensureWalletAccount(L, v) = Atomic!ensureWalletAccount(L, v)
    BY AbstractOps, AtomicOps
  <2>2. \A L, l : Abstract!Admissible(L, l) <=> Atomic!Admissible(L, l)
    BY AbstractOps, AtomicOps
  <2>3. \A L, l : Abstract!Post(L, l) = Atomic!Post(L, l)
    BY AbstractOps, AtomicOps
  <2>4. \A L, k, m : Abstract!PostPair(L, k, m) = Atomic!PostPair(L, k, m)
    BY AbstractOps, AtomicOps
  <2>5. \A k, m : Abstract!IsPair(k, m) <=> Atomic!IsPair(k, m)
    BY AbstractOps, AtomicOps
  <2>6. QED
    BY <2>1, <2>2, <2>3, <2>4, <2>5
<1>3. Abstract!Ensure(w) <=> Atomic!Ensure(w)
  BY <1>2, Zenon DEF Abstract!Ensure, Atomic!Ensure
<1>4. Abstract!SetStatus(w, st) <=> Atomic!SetStatus(w, st)
  BY DEF Abstract!SetStatus, Atomic!SetStatus
<1>5. Abstract!PostOne(d) <=> Atomic!PostOne(d)
  BY <1>2, Zenon DEF Abstract!PostOne, Atomic!PostOne
<1>6. \A L, k, m : Abstract!EnsureBoth(L, k, m) = Atomic!EnsureBoth(L, k, m)
  BY <1>2, Zenon DEF Abstract!EnsureBoth, Atomic!EnsureBoth
<1>7. \A L, k, m : Abstract!AdmissiblePair(L, k, m) <=> Atomic!AdmissiblePair(L, k, m)
  BY <1>2, Zenon DEF Abstract!AdmissiblePair, Atomic!AdmissiblePair,
     Abstract!BothActive, Atomic!BothActive
<1>8. Abstract!Transfer(d, c) <=> Atomic!Transfer(d, c)
  BY <1>2, <1>6, <1>7, Zenon DEF Abstract!Transfer, Atomic!Transfer
<1>9. Abstract!TransferWithFee(d, c, fd, fc) <=> Atomic!TransferWithFee(d, c, fd, fc)
  BY <1>2, <1>6, <1>7, Zenon DEF Abstract!TransferWithFee, Atomic!TransferWithFee
<1>10. QED
  BY <1>1, <1>3, <1>4, <1>5, <1>8, <1>9

LEMMA AtomicNext == Abstract!Next <=> Atomic!Next
<1>1. /\ \A w : Abstract!Ensure(w) <=> Atomic!Ensure(w)
      /\ \A w, st : Abstract!SetStatus(w, st) <=> Atomic!SetStatus(w, st)
      /\ \A d : Abstract!PostOne(d) <=> Atomic!PostOne(d)
      /\ \A d, c : Abstract!Transfer(d, c) <=> Atomic!Transfer(d, c)
      /\ \A d, c, fd, fc : Abstract!TransferWithFee(d, c, fd, fc)
                             <=> Atomic!TransferWithFee(d, c, fd, fc)
  BY AtomicActions
<1>2. Abstract!Statuses = Atomic!Statuses
  BY DEF Abstract!Statuses, Atomic!Statuses
<1>3. (\E w \in Wallets : Abstract!Ensure(w)) <=> (\E w \in Wallets : Atomic!Ensure(w))
  BY <1>1, Zenon
<1>4. (\E w \in Wallets, st \in Abstract!Statuses \ {"absent"} : Abstract!SetStatus(w, st))
      <=> (\E w \in Wallets, st \in Atomic!Statuses \ {"absent"} : Atomic!SetStatus(w, st))
  BY <1>1, <1>2, Zenon
<1>5. (\E l \in AllLegs : Abstract!PostOne(l)) <=> (\E l \in AllLegs : Atomic!PostOne(l))
  BY <1>1, Zenon
<1>6. (\E d, c \in AllLegs : Abstract!Transfer(d, c))
      <=> (\E d, c \in AllLegs : Atomic!Transfer(d, c))
  BY <1>1, Zenon
<1>7. (\E d, c, fd, fc \in AllLegs : Abstract!TransferWithFee(d, c, fd, fc))
      <=> (\E d, c, fd, fc \in AllLegs : Atomic!TransferWithFee(d, c, fd, fc))
  <2>1. ASSUME NEW d \in AllLegs, NEW c \in AllLegs, NEW fd \in AllLegs, NEW fc \in AllLegs
        PROVE  Abstract!TransferWithFee(d, c, fd, fc) <=> Atomic!TransferWithFee(d, c, fd, fc)
    BY <1>1
  <2>2. QED
    BY <2>1
<1>8. QED
  BY <1>3, <1>4, <1>5, <1>6, <1>7 DEF Abstract!Next, Atomic!Next

LEMMA AtomicSpec == Abstract!Spec <=> Atomic!Spec
<1>1. Abstract!Init <=> Atomic!Init
  BY AtomicActions
<1>2. Abstract!Next <=> Atomic!Next
  BY AtomicNext
<1>3. QED
  BY <1>1, <1>2, PTL DEF Abstract!Spec, Atomic!Spec

\* The calls ask for legs of the ledger's sets.
LEMMA AtomicLegs == AllLegs \subseteq Atomic!Leg
<1>1. SUFFICES ASSUME NEW r \in Requests, NEW g \in 1..Len(r), NEW i \in 1..Len(r[g])
               PROVE  r[g][i] \in Atomic!Leg
  BY DEF AllLegs
<1>2. r[g][i] \in Leg
  BY RequestGroups DEF GoodGroup
<1>3. QED
  BY <1>2 DEF Leg, Atomic!Leg, OpNames, Atomic!OpNames, MovementTypes, Atomic!MovementTypes

\* However the statements of concurrent calls interleave, the committed rows are
\* what their chains of movements add up to, and no idempotency key and no slot of
\* a reference is posted twice.
THEOREM TxAudited == Spec => [](Audited(ledger) /\ KeysOnce(ledger) /\ SlotsOnce(ledger))
<1>1. AllLegs \subseteq Atomic!Leg /\ Amounts \subseteq Nat \ {0}
  BY AtomicLegs, AmountsAssumption
<1>2. Atomic!Spec => [](Atomic!TypeOK /\ Atomic!AuditTrail
                         /\ Atomic!OncePerKey /\ Atomic!OncePerSlot)
  BY <1>1, Atomic!LedgerWell
<1>3. Atomic!AuditTrail => Audited(ledger)
  <2>1. \A ms, i : Atomic!Before(ms, i) = Before(ms, i)
    BY DEF Atomic!Before, Before, Atomic!ZeroBalance, ZeroBalance
  <2>2. \A ms : Atomic!Current(ms) = Current(ms)
    BY DEF Atomic!Current, Current, Atomic!ZeroBalance, ZeroBalance
  <2>3. \A op, b, a : Atomic!Covers(op, b, a) <=> Covers(op, b, a)
    BY AtomicOps
  <2>4. \A op, b, a : Atomic!After(op, b, a) = After(op, b, a)
    BY AtomicOps
  <2>5. \A ms : Atomic!ChainOK(ms) <=> ChainOK(ms)
    BY <2>1, <2>3, <2>4, Zenon DEF Atomic!ChainOK, ChainOK
  <2>6. QED
    BY <2>2, <2>5, Zenon DEF Atomic!AuditTrail, Atomic!Audited, Audited
<1>4. (Atomic!OncePerKey => KeysOnce(ledger)) /\ (Atomic!OncePerSlot => SlotsOnce(ledger))
  BY DEF Atomic!OncePerKey, Atomic!KeysOnce, KeysOnce,
     Atomic!OncePerSlot, Atomic!SlotsOnce, SlotsOnce
<1>5. Spec => Atomic!Spec
  BY TxImplementsLedger, AtomicSpec DEF ImplementsLedger
<1>6. QED
  BY <1>2, <1>3, <1>4, <1>5, PTL

\* No statement of any call rewrites or removes a committed movement.
THEOREM TxAppendOnly == Spec => Abstract!AppendOnly
<1>1. AllLegs \subseteq Atomic!Leg /\ Amounts \subseteq Nat \ {0}
  BY AtomicLegs, AmountsAssumption
<1>2. Atomic!Spec => Atomic!AppendOnly
  BY <1>1, Atomic!LedgerAppendOnly
<1>3. Spec => Atomic!Spec
  BY TxImplementsLedger, AtomicSpec DEF ImplementsLedger
<1>4. QED
  BY <1>2, <1>3, PTL DEF Atomic!AppendOnly, Abstract!AppendOnly

-----------------------------------------------------------------------------
(***************************************************************************)
(* Waiting.  In its first group a call locks its rows in the order of      *)
(* their ids, and has inserted nothing while it waits for a row; one that  *)
(* waits for a key waits for a call further on in its legs.  So calls in   *)
(* their first group that all wait would wait for ever higher rows, and    *)
(* finitely many calls are in progress.                                    *)
(***************************************************************************)
\* Session s takes its rows and inserts its movements in order; it opens no row.
InOrder(s) ==
  /\ pc[s] # "insertRow"
  /\ grp[s] = 1 =>
       /\ pc[s] \in {"idle", "find", "ensure", "active", "refind"} => DOMAIN mine[s] = {}
       /\ pc[s] = "lock" =>
            \A v \in DOMAIN mine[s], w \in GroupWallets(s) \ DOMAIN mine[s] : v < w
       /\ pc[s] \notin {"insert", "commit"} => \A k \in Keys : ~Inserted(s, k)
       /\ pc[s] = "insert" =>
            \A k \in Keys : Inserted(s, k) => \E j \in 1..(at[s] - 1) : k = Group(s)[j].key

InProgress == {s \in Sessions : pc[s] # "idle"}

WaitInv ==
  /\ \A w \in Wallets : ledger.rows[w].status # "absent"
  /\ \A s \in Sessions : InOrder(s)
  /\ IsFiniteSet(InProgress)

\* What InOrder reads of a session that does not move.
Still(t) ==
  /\ pc'[t] = pc[t] /\ req'[t] = req[t] /\ grp'[t] = grp[t] /\ at'[t] = at[t]
  /\ mine'[t] = mine[t] /\ ins'[t] = ins[t]

LEMMA StillInOrder == ASSUME NEW t, Still(t), InOrder(t) PROVE InOrder(t)'
<1>1. /\ GroupWallets(t)' = GroupWallets(t) /\ Group(t)' = Group(t)
      /\ \A k : Inserted(t, k)' <=> Inserted(t, k)
  BY DEF Still, GroupWallets, Group, Inserted
<1>2. QED
  BY <1>1 DEF Still, InOrder

LEMMA LocalStill ==
  ASSUME TxShape, NEW s \in Sessions, OnlyOf(s), NEW t \in Sessions \ {s}
  PROVE  Still(t)
BY DEF TxShape, OnlyOf, Local, Still

\* A transaction that is over, or was rolled back before the catch block looks again.
LEMMA OverInOrder ==
  ASSUME NEW s, pc'[s] \in {"idle", "refind"}, mine'[s] = None, ins'[s] = NoMovements
  PROVE  InOrder(s)'
<1>1. DOMAIN mine'[s] = {}
  BY DEF None
<1>2. \A k : ~Inserted(s, k)'
  BY DEF Inserted, NoMovements
<1>3. QED
  BY <1>1, <1>2 DEF InOrder

LEMMA EndInOrder ==
  ASSUME TxShape, NEW s \in Sessions, NEW result, EndTx(s, result)
  PROVE  OnlyOf(s) /\ InOrder(s)'
<1>1. PICK T : T = Session(s)'
  OBVIOUS
<1>2. OnlyOf(s) /\ T.pc = "idle" /\ T.mine = None /\ T.ins = NoMovements
  BY <1>1, EndTxFields
<1>3. pc'[s] = "idle" /\ mine'[s] = None /\ ins'[s] = NoMovements
  BY <1>1, <1>2, NextFields
<1>4. QED
  BY <1>2, <1>3, OverInOrder

\* The group is done: the next one is the second.
LEMMA NextGroupInOrder ==
  ASSUME TxOK, NEW s \in Sessions, pc[s] # "idle", NextGroup(s), Local(s, ins, ins')
  PROVE  OnlyOf(s) /\ InOrder(s)'
<1>1. PICK S, T : S = Session(s) /\ T = Session(s)'
  OBVIOUS
<1>2. S.pc = pc[s] /\ S.grp = grp[s] /\ T.pc = pc'[s] /\ T.grp = grp'[s]
  BY <1>1, SessionFields, NextFields
<1>3. OnlyOf(s) /\ GoesOn(S, T)
  BY <1>1, <1>2, NextGroupFields
<1>4. S.req \in Requests /\ S.grp \in 1..Len(S.req)
  BY <1>1, <1>2, SessionKept DEF SessionOK
<1>5. S.grp = 1 \/ S.grp = 2
  BY <1>4, GroupNumber
<1>6. T.pc = "commit" \/ (T.pc = "find" /\ T.grp = S.grp + 1)
  BY <1>3 DEF GoesOn
<1>7. pc'[s] = "commit" \/ (pc'[s] = "find" /\ grp'[s] # 1)
  BY <1>2, <1>5, <1>6
<1>8. QED
  BY <1>3, <1>7 DEF InOrder

RowsThere == \A w \in Wallets : ledger.rows[w].status # "absent"

\* What a session in progress works on.
LEMMA AtWork ==
  ASSUME TxOK, NEW s \in Sessions, pc[s] # "idle"
  PROVE  /\ GoodGroup(Group(s)) /\ at[s] \in 1..Len(Group(s)) /\ GroupWallets(s) = WalletsOf(Group(s))
         /\ grp[s] = 1 \/ grp[s] = 2
         /\ req[s] \in Requests /\ grp[s] \in 1..Len(req[s])
<1>1. PICK S : S = Session(s)
  OBVIOUS
<1>2. S.pc = pc[s] /\ S.req = req[s] /\ S.grp = grp[s] /\ S.at = at[s] /\ Cur(S) = Group(s)
  BY <1>1, SessionFields
<1>3. S.req \in Requests /\ S.grp \in 1..Len(S.req) /\ S.at \in 1..Len(Cur(S))
  BY <1>1, <1>2, SessionKept DEF SessionOK
<1>4. GoodGroup(Group(s))
  BY <1>2, <1>3, RequestGroups DEF Group
<1>5. GroupWallets(s) = WalletsOf(Group(s))
  BY DEF GroupWallets, WalletsOf
<1>6. grp[s] = 1 \/ grp[s] = 2
  BY <1>2, <1>3, GroupNumber
<1>7. QED
  BY <1>2, <1>3, <1>4, <1>5, <1>6

\* A step of s that changes neither its rows, its movements nor its request, to another
\* label than those at which it holds or waits for something.
LEMMA QuietInOrder ==
  ASSUME NEW s, InOrder(s), grp'[s] = grp[s], mine'[s] = mine[s], ins'[s] = ins[s],
         pc[s] \in {"idle", "find", "ensure", "active"},
         pc'[s] \in {"find", "ensure", "active", "lock"}
  PROVE  InOrder(s)'
<1>1. \A k : Inserted(s, k)' <=> Inserted(s, k)
  BY DEF Inserted
<1>2. QED
  BY <1>1 DEF InOrder

LEMMA BeginInOrder ==
  ASSUME TxOK, NEW s \in Sessions, InOrder(s), NEW r \in Requests, Begin(s, r)
  PROVE  OnlyOf(s) /\ InOrder(s)'
<1>1. /\ Local(s, req, req') /\ Local(s, pc, pc') /\ pc'[s] = "find" /\ Local(s, out, out')
  BY SetFields DEF TxOK, TxShape, Begin
<1>2. /\ grp' = grp /\ at' = at /\ hit' = hit /\ seen' = seen
      /\ mine' = mine /\ after' = after /\ ins' = ins /\ pc[s] = "idle"
  BY DEF Begin
<1>3. OnlyOf(s)
  BY <1>1, <1>2, SameLocal DEF OnlyOf
<1>4. QED
  BY <1>1, <1>2, <1>3, QuietInOrder

LEMMA FindInOrder ==
  ASSUME TxOK, NEW s \in Sessions, InOrder(s), Find(s)
  PROVE  OnlyOf(s) /\ InOrder(s)'
<1>1. PICK found : found = IF Posted(ledger, ThisLeg(s).key) THEN hit[s] \cup {ThisLeg(s).key} ELSE hit[s]
  OBVIOUS
<1>2. pc[s] = "find"
  BY DEF Find
<1>3. CASE ~LastLeg(s)
  <2>1. /\ hit' = Set(hit, s, found) /\ at' = Set(at, s, at[s] + 1)
        /\ pc' = pc /\ req' = req /\ grp' = grp /\ seen' = seen /\ mine' = mine
        /\ after' = after /\ ins' = ins /\ out' = out
    BY <1>1, <1>3 DEF Find
  <2>2. Local(s, hit, hit') /\ Local(s, at, at')
    BY <2>1, SetFields DEF TxOK, TxShape
  <2>3. OnlyOf(s)
    BY <2>1, <2>2, SameLocal DEF OnlyOf
  <2>4. QED
    BY <1>2, <2>1, <2>3, QuietInOrder
<1>4. CASE LastLeg(s)
  <2>1. \/ Rollback(s, "duplicate") \/ Rollback(s, "error")
        \/ (NextGroup(s) /\ ins' = ins)
        \/ /\ pc' = Set(pc, s, "ensure") /\ at' = Set(at, s, 1)
           /\ req' = req /\ grp' = grp /\ hit' = hit /\ seen' = seen /\ mine' = mine
           /\ after' = after /\ ins' = ins /\ out' = out
    BY <1>1, <1>4, Zenon DEF Find
  <2>2. CASE Rollback(s, "duplicate") \/ Rollback(s, "error")
    BY <2>2, EndInOrder DEF Rollback, TxOK
  <2>3. CASE NextGroup(s) /\ ins' = ins
    BY <1>2, <2>3, NextGroupInOrder, SameLocal
  <2>4. CASE /\ pc' = Set(pc, s, "ensure") /\ at' = Set(at, s, 1)
             /\ req' = req /\ grp' = grp /\ hit' = hit /\ seen' = seen /\ mine' = mine
             /\ after' = after /\ ins' = ins /\ out' = out
    <3>1. Local(s, pc, pc') /\ pc'[s] = "ensure" /\ Local(s, at, at')
      BY <2>4, SetFields DEF TxOK, TxShape
    <3>2. OnlyOf(s)
      BY <2>4, <3>1, SameLocal DEF OnlyOf
    <3>3. QED
      BY <1>2, <2>4, <3>1, <3>2, QuietInOrder
  <2>5. QED
    BY <2>1, <2>2, <2>3, <2>4
<1>5. QED
  BY <1>3, <1>4

\* The row of a leg is there, so it is not inserted.
LEMMA EnsureInOrder ==
  ASSUME TxOK, RowsThere, NEW s \in Sessions, InOrder(s), EnsureSelect(s)
  PROVE  OnlyOf(s) /\ InOrder(s)'
<1>1. PICK w : w = ThisLeg(s).wallet
  OBVIOUS
<1>2. pc[s] = "ensure"
  BY DEF EnsureSelect
<1>3. w \in Wallets
  <2>1. GoodGroup(Group(s)) /\ at[s] \in 1..Len(Group(s))
    BY <1>2, AtWork
  <2>2. ThisLeg(s) \in Leg
    BY <2>1 DEF GoodGroup, ThisLeg
  <2>3. QED
    BY <1>1, <2>2, LegFields
<1>4. Visible(s, w).status # "absent"
  <2>1. \A v \in DOMAIN mine[s] : mine[s][v].status # "absent"
    <3>1. PICK S : S = Session(s)
      OBVIOUS
    <3>2. SessionOK(ledger, S) /\ S.mine = mine[s]
      BY <3>1, SessionKept, SessionFields
    <3>3. QED
      BY <3>2 DEF SessionOK
  <2>2. QED
    BY <1>3, <2>1 DEF Visible, RowsThere
<1>5. Ensured(s, Visible(s, w).status) /\ mine' = mine
  BY <1>1, <1>4 DEF EnsureSelect
<1>6. PICK S, T : S = Session(s) /\ T = Session(s)'
  OBVIOUS
<1>7. OnlyOf(s) /\ T.grp = S.grp /\ T.ins = S.ins
  BY <1>5, <1>6, EnsuredFields, SameLocal
<1>8. grp'[s] = grp[s] /\ ins'[s] = ins[s]
  BY <1>6, <1>7, SessionFields, NextFields
<1>9. pc'[s] \in {"active", "ensure"}
  <2>1. CASE LastLeg(s)
    <3>1. pc' = Set(pc, s, "active")
      BY <1>5, <2>1 DEF Ensured
    <3>2. QED
      BY <3>1, SetFields DEF TxOK, TxShape
  <2>2. CASE ~LastLeg(s)
    <3>1. pc' = Set(pc, s, "ensure")
      BY <1>5, <2>2 DEF Ensured
    <3>2. QED
      BY <3>1, SetFields DEF TxOK, TxShape
  <2>3. QED
    BY <2>1, <2>2
<1>10. QED
  BY <1>2, <1>5, <1>7, <1>8, <1>9, QuietInOrder

LEMMA CheckActiveInOrder ==
  ASSUME TxOK, NEW s \in Sessions, InOrder(s), CheckActive(s)
  PROVE  OnlyOf(s) /\ InOrder(s)'
<1>1. CASE seen[s] = {"active"}
  <2>1. /\ pc[s] = "active" /\ pc' = Set(pc, s, "lock")
        /\ req' = req /\ grp' = grp /\ at' = at /\ hit' = hit /\ seen' = seen /\ mine' = mine
        /\ after' = after /\ ins' = ins /\ out' = out
    BY <1>1 DEF CheckActive
  <2>2. Local(s, pc, pc') /\ pc'[s] = "lock"
    BY <2>1, SetFields DEF TxOK, TxShape
  <2>3. OnlyOf(s)
    BY <2>1, <2>2, SameLocal DEF OnlyOf
  <2>4. QED
    BY <2>1, <2>2, <2>3, QuietInOrder
<1>2. CASE seen[s] # {"active"}
  BY <1>2, EndInOrder DEF CheckActive, Rollback, TxOK
<1>3. QED
  BY <1>1, <1>2

\* The next row is a higher one than those held.
LEMMA LockInOrder ==
  ASSUME TxOK, NEW s \in Sessions, InOrder(s), LockRow(s)
  PROVE  OnlyOf(s) /\ InOrder(s)'
<1>1. PICK todo : todo = GroupWallets(s) \ DOMAIN mine[s]
  OBVIOUS
<1>2. /\ pc[s] = "lock"
      /\ req' = req /\ grp' = grp /\ at' = at /\ hit' = hit /\ seen' = seen
      /\ after' = after /\ ins' = ins /\ out' = out
  BY DEF LockRow
<1>3. /\ GroupWallets(s)' = GroupWallets(s)
      /\ \A k : Inserted(s, k)' <=> Inserted(s, k)
  BY <1>2 DEF GroupWallets, Group, Inserted
<1>4. CASE todo = {}
  <2>1. pc' = Set(pc, s, "check") /\ mine' = mine
    BY <1>1, <1>4 DEF LockRow
  <2>2. Local(s, pc, pc') /\ pc'[s] = "check"
    BY <2>1, SetFields DEF TxOK, TxShape
  <2>3. OnlyOf(s)
    BY <1>2, <2>1, <2>2, SameLocal DEF OnlyOf
  <2>4. InOrder(s)'
    BY <1>2, <1>3, <2>1, <2>2 DEF InOrder
  <2>5. QED
    BY <2>3, <2>4
<1>5. CASE todo # {}
  <2>1. PICK w : w = LockNext(s, todo)
    OBVIOUS
  <2>2. Hold(s, w, ledger.rows[w]) /\ pc' = pc
    BY <1>1, <1>5, <2>1 DEF LockRow
  <2>3. todo \subseteq Wallets /\ \E u, v : todo \subseteq {u, v}
    <3>1. GoodGroup(Group(s)) /\ GroupWallets(s) = WalletsOf(Group(s))
      BY <1>2, AtWork
    <3>2. Len(Group(s)) = 1 \/ Len(Group(s)) = 2
      BY <3>1 DEF GoodGroup
    <3>3. /\ Len(Group(s)) = 1 => WalletsOf(Group(s)) = {Group(s)[1].wallet}
          /\ Len(Group(s)) = 2 => WalletsOf(Group(s)) = {Group(s)[1].wallet, Group(s)[2].wallet}
          /\ WalletsOf(Group(s)) \subseteq Wallets
      BY <3>1, GroupFields
    <3>4. QED
      BY <1>1, <3>1, <3>2, <3>3
  <2>4. PICK u, v : todo \subseteq {u, v}
    BY <2>3
  <2>5. w \in todo /\ \A x \in todo : w <= x
    BY <1>5, <2>1, <2>3, <2>4, LockNextExists
  <2>6. todo \subseteq Nat
    BY <2>3, WalletIdsAssumption
  <2>7. Local(s, mine, mine') /\ DOMAIN mine'[s] = DOMAIN mine[s] \cup {w}
    BY <2>2, HoldFields DEF TxOK
  <2>8. OnlyOf(s)
    BY <1>2, <2>2, <2>7, SameLocal DEF OnlyOf
  <2>9. ASSUME grp[s] = 1, NEW x \in DOMAIN mine'[s], NEW y \in GroupWallets(s) \ DOMAIN mine'[s]
        PROVE  x < y
    <3>1. y \in todo /\ y # w
      BY <1>1, <2>7, <2>9
    <3>2. CASE x \in DOMAIN mine[s]
      BY <1>1, <1>2, <2>9, <3>1, <3>2 DEF InOrder
    <3>3. CASE x = w
      BY <2>5, <2>6, <3>1, <3>3
    <3>4. QED
      BY <2>7, <3>2, <3>3
  <2>10. InOrder(s)'
    BY <1>2, <1>3, <2>2, <2>9 DEF InOrder
  <2>11. QED
    BY <2>8, <2>10
<1>6. QED
  BY <1>4, <1>5

LEMMA UpdateInOrder ==
  ASSUME TxOK, NEW s \in Sessions, InOrder(s), CheckAndUpdate(s)
  PROVE  OnlyOf(s) /\ InOrder(s)'
<1>1. CASE Recheck(s) /\ Sufficient(s)
  <2>1. /\ pc[s] = "check" /\ pc' = Set(pc, s, "insert")
        /\ after' = Set(after, s, Snapshots(s)) /\ mine' = Set(mine, s, Updated(s))
        /\ req' = req /\ grp' = grp /\ at' = at /\ hit' = hit /\ seen' = seen
        /\ ins' = ins /\ out' = out
    BY <1>1 DEF CheckAndUpdate
  <2>2. Local(s, pc, pc') /\ pc'[s] = "insert" /\ Local(s, after, after') /\ Local(s, mine, mine')
    BY <2>1, SetFields DEF TxOK, TxShape
  <2>3. OnlyOf(s)
    BY <2>1, <2>2, SameLocal DEF OnlyOf
  <2>4. \A k : Inserted(s, k)' <=> Inserted(s, k)
    BY <2>1 DEF Inserted
  <2>5. InOrder(s)'
    BY <2>1, <2>2, <2>4 DEF InOrder
  <2>6. QED
    BY <2>3, <2>5
<1>2. CASE ~(Recheck(s) /\ Sufficient(s))
  BY <1>2, EndInOrder DEF CheckAndUpdate, Rollback, TxOK
<1>3. QED
  BY <1>1, <1>2

\* A movement that is inserted is that of the current leg.
LEMMA InsertedNext ==
  ASSUME TxOK, NEW s \in Sessions, pc[s] = "insert",
         ins' = [ins EXCEPT ![s][ThisLeg(s).wallet] =
                   Append(@, MovementOf(ThisLeg(s), after[s][at[s]]))]
  PROVE  /\ Local(s, ins, ins')
         /\ \A k : Inserted(s, k)' => Inserted(s, k) \/ k = ThisLeg(s).key
<1>1. PICK S : S = Session(s)
  OBVIOUS
<1>2. ins[s] \in [Wallets -> Seq(Movement)] /\ DOMAIN ins = Sessions
  BY <1>1, SessionKept, SessionFields DEF SessionOK, TxOK, TxShape
<1>3. PICK l : l = ThisLeg(s)
  OBVIOUS
<1>4. l \in Leg /\ l.wallet \in Wallets
  <2>1. GoodGroup(Group(s)) /\ at[s] \in 1..Len(Group(s))
    BY AtWork
  <2>2. QED
    BY <1>3, <2>1, LegFields DEF GoodGroup, ThisLeg
<1>5. PICK e : e = MovementOf(l, after[s][at[s]])
  OBVIOUS
<1>6. e.key = l.key
  BY <1>5 DEF MovementOf
<1>7. PICK n : n = [ins[s] EXCEPT ![l.wallet] = Append(@, e)]
  OBVIOUS
<1>8. ins' = [ins EXCEPT ![s] = n]
  BY <1>3, <1>5, <1>7
<1>9. Local(s, ins, ins') /\ ins'[s] = n
  BY <1>2, <1>8 DEF Local
<1>10. ASSUME NEW k, Inserted(s, k)' PROVE Inserted(s, k) \/ k = l.key
  <2>1. PICK w \in Wallets : \E i \in 1..Len(n[w]) : n[w][i].key = k
    BY <1>9, <1>10 DEF Inserted
  <2>2. PICK i \in 1..Len(n[w]) : n[w][i].key = k
    BY <2>1
  <2>3. CASE w # l.wallet
    <3>1. n[w] = ins[s][w]
      BY <1>2, <1>7, <2>3
    <3>2. QED
      BY <2>2, <3>1 DEF Inserted
  <2>4. CASE w = l.wallet
    <3>1. PICK m : m = ins[s][w]
      OBVIOUS
    <3>2. m \in Seq(Movement) /\ n[w] = Append(m, e)
      BY <1>2, <1>7, <2>4, <3>1
    <3>3. /\ Len(Append(m, e)) = Len(m) + 1 /\ Len(m) \in Nat
          /\ \A j \in 1..Len(m) : Append(m, e)[j] = m[j]
          /\ Append(m, e)[Len(m) + 1] = e
      BY <3>2
    <3>4. i \in 1..Len(m) \/ i = Len(m) + 1
      BY <2>2, <3>2, <3>3
    <3>5. CASE i \in 1..Len(m)
      <4>1. m[i].key = k
        BY <2>2, <3>2, <3>3, <3>5
      <4>2. QED
        BY <3>1, <3>5, <4>1 DEF Inserted
    <3>6. CASE i = Len(m) + 1
      BY <1>6, <2>2, <3>2, <3>3, <3>6
    <3>7. QED
      BY <3>4, <3>5, <3>6
  <2>5. QED
    BY <2>3, <2>4
<1>11. QED
  BY <1>3, <1>9, <1>10

LEMMA InsertInOrder ==
  ASSUME TxOK, NEW s \in Sessions, InOrder(s), InsertMovement(s)
  PROVE  OnlyOf(s) /\ InOrder(s)'
<1>1. pc[s] = "insert"
  BY DEF InsertMovement
<1>2. CASE UniqueViolation(ThisLeg(s))
  <2>1. CASE Len(Group(s)) = 1
    <3>1. /\ pc' = Set(pc, s, "refind") /\ mine' = Set(mine, s, None)
          /\ ins' = Set(ins, s, NoMovements) /\ after' = Set(after, s, <<>>)
          /\ req' = req /\ grp' = grp /\ at' = at /\ hit' = hit /\ seen' = seen /\ out' = out
      BY <1>2, <2>1 DEF InsertMovement
    <3>2. /\ Local(s, pc, pc') /\ pc'[s] = "refind" /\ Local(s, mine, mine') /\ mine'[s] = None
      BY <3>1, SetFields DEF TxOK, TxShape
    <3>3. Local(s, ins, ins') /\ ins'[s] = NoMovements /\ Local(s, after, after')
      BY <3>1, SetFields DEF TxOK, TxShape
    <3>4. OnlyOf(s)
      BY <3>1, <3>2, <3>3, SameLocal DEF OnlyOf
    <3>5. QED
      BY <3>2, <3>3, <3>4, OverInOrder
  <2>2. CASE Len(Group(s)) # 1
    BY <1>2, <2>2, EndInOrder DEF InsertMovement, Rollback, TxOK
  <2>3. QED
    BY <2>1, <2>2
<1>3. CASE ~UniqueViolation(ThisLeg(s))
  <2>1. /\ ins' = [ins EXCEPT ![s][ThisLeg(s).wallet] =
                     Append(@, MovementOf(ThisLeg(s), after[s][at[s]]))]
        /\ IF LastLeg(s)
             THEN NextGroup(s)
             ELSE /\ at' = Set(at, s, at[s] + 1)
                  /\ pc' = pc /\ req' = req /\ grp' = grp /\ hit' = hit /\ seen' = seen
                  /\ mine' = mine /\ after' = after /\ out' = out
    BY <1>3 DEF InsertMovement
  <2>2. /\ Local(s, ins, ins')
        /\ \A k : Inserted(s, k)' => Inserted(s, k) \/ k = ThisLeg(s).key
    BY <1>1, <2>1, InsertedNext
  <2>3. CASE LastLeg(s)
    BY <1>1, <2>1, <2>2, <2>3, NextGroupInOrder
  <2>4. CASE ~LastLeg(s)
    <3>1. /\ Local(s, at, at') /\ at'[s] = at[s] + 1
          /\ pc' = pc /\ req' = req /\ grp' = grp /\ mine' = mine
      BY <2>1, <2>4, SetFields DEF TxOK, TxShape
    <3>2. OnlyOf(s)
      BY <2>1, <2>2, <2>4, <3>1, SameLocal DEF OnlyOf
    <3>3. ASSUME NEW k \in Keys, grp[s] = 1, Inserted(s, k)'
          PROVE  \E j \in 1..(at'[s] - 1) : k = Group(s)[j].key
      <4>1. PICK n : n = at[s]
        OBVIOUS
      <4>2. n \in Nat \ {0}
        <5>1. PICK m : m = Len(Group(s))
          OBVIOUS
        <5>2. m \in {1, 2} /\ n \in 1..m
          BY <1>1, <4>1, <5>1, AtWork DEF GoodGroup
        <5>3. QED
          BY <5>2
      <4>3. CASE k = ThisLeg(s).key
        <5>1. n \in 1..((n + 1) - 1)
          BY <4>2
        <5>2. QED
          BY <3>1, <4>1, <4>3, <5>1 DEF ThisLeg
      <4>4. CASE Inserted(s, k)
        <5>1. PICK j \in 1..(n - 1) : k = Group(s)[j].key
          BY <1>1, <3>3, <4>1, <4>4 DEF InOrder
        <5>2. j \in 1..((n + 1) - 1)
          BY <4>2
        <5>3. QED
          BY <3>1, <4>1, <5>1, <5>2
      <4>5. QED
        BY <2>2, <3>3, <4>3, <4>4
    <3>4. Group(s)' = Group(s)
      BY <3>1 DEF Group
    <3>5. InOrder(s)'
      BY <1>1, <3>1, <3>3, <3>4 DEF InOrder
    <3>6. QED
      BY <3>2, <3>5
  <2>5. QED
    BY <2>3, <2>4
<1>4. QED
  BY <1>2, <1>3

\* A transaction that is rolled back or committed.
LEMMA OthersInOrder ==
  ASSUME TxOK, NEW s \in Sessions, Refind(s) \/ Lost(s) \/ DeadlockAbort(s) \/ Commit(s)
  PROVE  OnlyOf(s) /\ InOrder(s)'
<1>1. \E result : EndTx(s, result)
  BY DEF Refind, Lost, DeadlockAbort, Commit, Rollback
<1>2. QED
  BY <1>1, EndInOrder DEF TxOK

\* A step of one session leaves the rows there and makes at most its own call one more.
LEMMA OneInOrder ==
  ASSUME TxOK, WaitInv, NEW s \in Sessions, OnlyOf(s), InOrder(s)', RowsThere'
  PROVE  WaitInv'
<1>1. \A t \in Sessions : InOrder(t)'
  <2>1. ASSUME NEW t \in Sessions \ {s} PROVE InOrder(t)'
    BY LocalStill, StillInOrder DEF TxOK, WaitInv
  <2>2. QED
    BY <2>1
<1>2. IsFiniteSet(InProgress)'
  <2>1. IsFiniteSet(InProgress \cup {s})
    BY FS_AddElement DEF WaitInv
  <2>2. InProgress' \subseteq InProgress \cup {s}
    BY LocalStill DEF InProgress, Still, TxOK
  <2>3. QED
    BY <2>1, <2>2, FS_Subset
<1>3. QED
  BY <1>1, <1>2 DEF WaitInv, RowsThere

LEMMA CommitKeepsRows ==
  ASSUME TxOK, RowsThere, NEW s \in Sessions, Commit(s)
  PROVE  RowsThere'
<1>1. \A w \in Wallets : ledger'.rows[w] = Visible(s, w)
  BY DEF Commit
<1>2. \A v \in DOMAIN mine[s] : mine[s][v].status # "absent"
  <2>1. PICK S : S = Session(s)
    OBVIOUS
  <2>2. SessionOK(ledger, S) /\ S.mine = mine[s]
    BY <2>1, SessionKept, SessionFields
  <2>3. QED
    BY <2>2 DEF SessionOK
<1>3. QED
  BY <1>1, <1>2 DEF Visible, RowsThere

LEMMA StatusKeepsRows ==
  ASSUME TxOK, RowsThere, NEW w \in Freezable, NEW st \in {"active", "frozen"}, SetStatus(w, st)
  PROVE  RowsThere'
<1>1. ledger.rows \in [Wallets -> Row] /\ w \in Wallets
  BY FreezableAssumption DEF TxOK, TxInv, LedgerOK, Ledger
<1>2. PICK M : M = [ledger EXCEPT !.rows[w].status = st]
  OBVIOUS
<1>3. /\ ledger \in Ledger /\ ledger' = M
  BY <1>2 DEF SetStatus, TxOK, TxInv, LedgerOK
<1>4. /\ \A v \in Wallets \ {w} : M.rows[v] = ledger.rows[v]
      /\ M.rows[w].status = st
  BY <1>1, <1>2, <1>3 DEF Ledger, Row
<1>5. QED
  BY <1>3, <1>4 DEF RowsThere

LEMMA StepInOrder ==
  ASSUME TxOK, WaitInv, NEW s \in Sessions, Step(s)
  PROVE  WaitInv'
<1>1. InOrder(s) /\ RowsThere
  BY DEF WaitInv, RowsThere
<1>2. ASSUME ledger' = ledger PROVE RowsThere'
  BY <1>1, <1>2 DEF RowsThere
<1>3. CASE Find(s)
  <2>1. ledger' = ledger
    BY <1>3, FindOK
  <2>2. QED
    BY <1>1, <1>2, <1>3, <2>1, FindInOrder, OneInOrder
<1>4. CASE EnsureSelect(s)
  <2>1. ledger' = ledger
    BY <1>4, EnsureSelectOK
  <2>2. QED
    BY <1>1, <1>2, <1>4, <2>1, EnsureInOrder, OneInOrder
<1>5. CASE EnsureInsert(s)
  BY <1>1, <1>5 DEF EnsureInsert, InOrder
<1>6. CASE CheckActive(s)
  <2>1. ledger' = ledger
    BY <1>6, CheckActiveOK
  <2>2. QED
    BY <1>1, <1>2, <1>6, <2>1, CheckActiveInOrder, OneInOrder
<1>7. CASE LockRow(s)
  <2>1. ledger' = ledger
    BY <1>7, LockRowOK
  <2>2. QED
    BY <1>1, <1>2, <1>7, <2>1, LockInOrder, OneInOrder
<1>8. CASE CheckAndUpdate(s)
  <2>1. ledger' = ledger
    BY <1>8, CheckAndUpdateOK
  <2>2. QED
    BY <1>1, <1>2, <1>8, <2>1, UpdateInOrder, OneInOrder
<1>9. CASE InsertMovement(s)
  <2>1. ledger' = ledger
    BY <1>9, InsertMovementOK
  <2>2. QED
    BY <1>1, <1>2, <1>9, <2>1, InsertInOrder, OneInOrder
<1>10. CASE Refind(s) \/ DeadlockAbort(s)
  <2>1. ledger' = ledger
    BY <1>10 DEF Refind, DeadlockAbort, Rollback
  <2>2. QED
    BY <1>2, <1>10, <2>1, OthersInOrder, OneInOrder
<1>11. CASE Commit(s)
  BY <1>1, <1>11, CommitKeepsRows, OthersInOrder, OneInOrder
<1>12. QED
  BY <1>3, <1>4, <1>5, <1>6, <1>7, <1>8, <1>9, <1>10, <1>11 DEF Step

LEMMA NextInOrder ==
  ASSUME TxOK, WaitInv, [Next]_vars
  PROVE  WaitInv'
<1>1. RowsThere
  BY DEF WaitInv, RowsThere
<1>2. CASE UNCHANGED vars
  <2>1. \A t \in Sessions : Still(t)
    BY <1>2 DEF vars, Still
  <2>2. \A t \in Sessions : InOrder(t)'
    BY <2>1, StillInOrder DEF WaitInv
  <2>3. InProgress' = InProgress /\ ledger' = ledger
    BY <1>2 DEF vars, InProgress
  <2>4. QED
    BY <2>2, <2>3 DEF WaitInv
<1>3. ASSUME NEW s \in Sessions, NEW r \in Requests, Begin(s, r) PROVE WaitInv'
  <2>1. OnlyOf(s) /\ InOrder(s)'
    BY <1>3, BeginInOrder DEF WaitInv
  <2>2. RowsThere'
    BY <1>1, <1>3 DEF Begin, RowsThere
  <2>3. QED
    BY <2>1, <2>2, OneInOrder
<1>4. ASSUME NEW s \in Sessions, Step(s) PROVE WaitInv'
  BY <1>4, StepInOrder
<1>5. ASSUME NEW s \in Sessions, Lost(s) PROVE WaitInv'
  <2>1. RowsThere'
    BY <1>1, <1>5 DEF Lost, Rollback, RowsThere
  <2>2. QED
    BY <1>5, <2>1, OthersInOrder, OneInOrder
<1>6. ASSUME NEW w \in Freezable, NEW st \in {"active", "frozen"}, SetStatus(w, st) PROVE WaitInv'
  <2>1. /\ RowsThere'
        /\ \A t \in Sessions : Still(t)
        /\ InProgress' = InProgress
    BY <1>1, <1>6, StatusKeepsRows DEF SetStatus, Still, InProgress
  <2>2. \A t \in Sessions : InOrder(t)'
    BY <2>1, StillInOrder DEF WaitInv
  <2>3. QED
    BY <2>1, <2>2 DEF WaitInv, RowsThere
<1>7. QED
  BY <1>2, <1>3, <1>4, <1>5, <1>6 DEF Next

LEMMA InitInOrder ==
  ASSUME Init, Opened = Wallets
  PROVE  WaitInv
<1>1. \A w \in Wallets : ledger.rows[w].status # "absent"
  BY DEF Init, EmptyLedger
<1>2. ASSUME NEW s \in Sessions PROVE InOrder(s)
  <2>1. pc[s] = "idle" /\ mine[s] = None /\ ins[s] = NoMovements
    BY DEF Init
  <2>2. DOMAIN mine[s] = {} /\ \A k : ~Inserted(s, k)
    BY <2>1 DEF None, NoMovements, Inserted
  <2>3. QED
    BY <2>1, <2>2 DEF InOrder
<1>3. InProgress = {}
  BY DEF Init, InProgress
<1>4. QED
  BY <1>1, <1>2, <1>3, FS_EmptySet DEF WaitInv

\* The key of a transfer's credit is no call's first key: callers build the two from one id
\* with a suffix each.
KeysByPlace ==
  \A q, r \in Requests : Len(r[1]) = 2 => q[1][1].key # r[1][2].key

\* Among finitely many numbers one is the greatest.
LEMMA Greatest ==
  ASSUME NEW S, IsFiniteSet(S), S # {}, NEW f, \A x \in S : f[x] \in Nat
  PROVE  \E x \in S : \A y \in S : f[y] <= f[x]
<1>1. PICK F : F = {T \in SUBSET S : T = {} \/ \E x \in T : \A y \in T : f[y] <= f[x]}
  OBVIOUS
<1>2. {} \in F
  BY <1>1
<1>3. ASSUME NEW T \in SUBSET S, T # {}, \A x \in T : T \ {x} \in F
      PROVE  T \in F
  <2>1. PICK z \in T : TRUE
    BY <1>3
  <2>2. T \ {z} = {} \/ \E x \in T \ {z} : \A y \in T \ {z} : f[y] <= f[x]
    BY <1>1, <1>3, <2>1
  <2>3. CASE T \ {z} = {}
    <3>1. f[z] \in Nat /\ \A y \in T : y = z
      BY <2>1, <2>3
    <3>2. \A y \in T : f[y] <= f[z]
      BY <3>1
    <3>3. QED
      BY <1>1, <2>1, <3>2
  <2>4. CASE \E x \in T \ {z} : \A y \in T \ {z} : f[y] <= f[x]
    <3>1. PICK x \in T \ {z} : \A y \in T \ {z} : f[y] <= f[x]
      BY <2>4
    <3>2. f[x] \in Nat /\ f[z] \in Nat /\ \A y \in T : f[y] \in Nat
      BY <2>1, <3>1
    <3>3. CASE f[z] <= f[x]
      BY <1>1, <3>1, <3>3
    <3>4. CASE ~(f[z] <= f[x])
      <4>1. \A y \in T : f[y] <= f[z]
        BY <3>1, <3>2, <3>4
      <4>2. QED
        BY <1>1, <2>1, <4>1
    <3>5. QED
      BY <3>3, <3>4
  <2>5. QED
    BY <2>2, <2>3, <2>4
<1>4. S \in F
  <2>1. F \subseteq SUBSET S
    BY <1>1
  <2>2. QED
    BY <1>2, <1>3, <2>1, SetInduction
<1>5. QED
  BY <1>1, <1>4

\* Who waits for a row waits for one of its group, which the other holds.
LEMMA LockWait ==
  ASSUME TxOK, NEW s \in Sessions, pc[s] = "lock", NEW t \in Sessions, WaitsFor(s, t)
  PROVE  LET w == LockNext(s, GroupWallets(s) \ DOMAIN mine[s])
         IN w \in GroupWallets(s) \ DOMAIN mine[s] /\ w \in Nat /\ w \in DOMAIN mine[t]
<1>1. PICK todo : todo = GroupWallets(s) \ DOMAIN mine[s]
  OBVIOUS
<1>2. todo # {} /\ LockNext(s, todo) \in DOMAIN mine[t]
  BY <1>1 DEF WaitsFor
<1>3. GoodGroup(Group(s)) /\ GroupWallets(s) = WalletsOf(Group(s))
  BY AtWork
<1>4. Len(Group(s)) = 1 \/ Len(Group(s)) = 2
  BY <1>3 DEF GoodGroup
<1>5. /\ Len(Group(s)) = 1 => WalletsOf(Group(s)) = {Group(s)[1].wallet}
      /\ Len(Group(s)) = 2 => WalletsOf(Group(s)) = {Group(s)[1].wallet, Group(s)[2].wallet}
      /\ WalletsOf(Group(s)) \subseteq Wallets
  BY <1>3, GroupFields
<1>6. todo \subseteq Wallets /\ \E u, v : todo \subseteq {u, v}
  BY <1>1, <1>3, <1>4, <1>5
<1>7. PICK u, v : todo \subseteq {u, v}
  BY <1>6
<1>8. LockNext(s, todo) \in todo
  BY <1>2, <1>6, <1>7, LockNextExists
<1>9. QED
  BY <1>1, <1>2, <1>6, <1>8, WalletIdsAssumption

\* Who waits for a key waits for a call past its first leg.
LEMMA KeyWait ==
  ASSUME TxOK, WaitInv, NEW s \in Sessions, pc[s] = "insert", NEW t \in Sessions,
         WaitsFor(s, t), grp[t] = 1, pc[t] # "commit"
  PROVE  pc[t] = "insert" /\ at[t] = 2 /\ Len(Group(t)) = 2 /\ ThisLeg(s).key = Group(t)[1].key
<1>1. Inserted(t, ThisLeg(s).key)
  BY DEF WaitsFor
<1>2. ThisLeg(s).key \in Keys
  <2>1. GoodGroup(Group(s)) /\ at[s] \in 1..Len(Group(s))
    BY AtWork
  <2>2. QED
    BY <2>1, LegFields DEF GoodGroup, ThisLeg
<1>3. pc[t] = "insert"
  BY <1>1, <1>2 DEF WaitInv, InOrder
<1>4. PICK j \in 1..(at[t] - 1) : ThisLeg(s).key = Group(t)[j].key
  BY <1>1, <1>2, <1>3 DEF WaitInv, InOrder
<1>5. PICK m, n : m = Len(Group(t)) /\ n = at[t]
  OBVIOUS
<1>6. m \in {1, 2} /\ n \in 1..m /\ j \in 1..(n - 1)
  BY <1>3, <1>4, <1>5, AtWork DEF GoodGroup
<1>7. n = 2 /\ m = 2 /\ j = 1
  BY <1>6
<1>8. QED
  BY <1>3, <1>4, <1>5, <1>7

LEMMA NoneWait ==
  ASSUME TxOK, WaitInv, KeysByPlace, NEW C \in SUBSET Sessions, Deadlocked(C)
  PROVE  \E s \in C : grp[s] = 2
<1>1. SUFFICES ASSUME \A s \in C : grp[s] # 2 PROVE FALSE
  OBVIOUS
<1>2. C # {} /\ \A s \in C : \E t \in C : WaitsFor(s, t)
  BY DEF Deadlocked
<1>3. ASSUME NEW s \in C
      PROVE  pc[s] \in {"lock", "insert"} /\ grp[s] = 1 /\ req[s] \in Requests
  <2>1. pc[s] \in {"lock", "insertRow", "insert"}
    BY <1>2 DEF WaitsFor
  <2>2. pc[s] # "insertRow"
    BY DEF WaitInv, InOrder
  <2>3. (grp[s] = 1 \/ grp[s] = 2) /\ req[s] \in Requests
    BY <2>1, AtWork
  <2>4. QED
    BY <1>1, <2>1, <2>2, <2>3
<1>4. ASSUME NEW s \in C, pc[s] = "insert" PROVE FALSE
  <2>1. PICK t \in C : WaitsFor(s, t)
    BY <1>2
  <2>2. PICK u \in C : WaitsFor(t, u)
    BY <1>2
  <2>3. pc[t] = "insert" /\ at[t] = 2 /\ Len(Group(t)) = 2
    BY <1>3, <1>4, <2>1, KeyWait
  <2>4. ThisLeg(t).key = Group(u)[1].key
    BY <1>3, <2>2, <2>3, KeyWait
  <2>5. Group(t) = req[t][1] /\ Group(u) = req[u][1] /\ ThisLeg(t) = Group(t)[2]
    BY <1>3, <2>3 DEF Group, ThisLeg
  <2>6. QED
    BY <1>3, <2>3, <2>4, <2>5 DEF KeysByPlace
<1>5. \A s \in C : pc[s] = "lock"
  BY <1>3, <1>4
<1>6. PICK f : f = [s \in C |-> LockNext(s, GroupWallets(s) \ DOMAIN mine[s])]
  OBVIOUS
<1>7. ASSUME NEW s \in C
      PROVE  /\ f[s] \in Nat /\ f[s] \in GroupWallets(s) \ DOMAIN mine[s]
             /\ \E t \in C : f[s] \in DOMAIN mine[t]
  <2>1. PICK t \in C : WaitsFor(s, t)
    BY <1>2
  <2>2. QED
    BY <1>5, <1>6, <2>1, LockWait
<1>8. IsFiniteSet(C)
  <2>1. C \subseteq InProgress
    BY <1>5 DEF InProgress
  <2>2. QED
    BY <2>1, FS_Subset DEF WaitInv
<1>9. PICK s \in C : \A t \in C : f[t] <= f[s]
  BY <1>2, <1>7, <1>8, Greatest
<1>10. PICK t \in C : f[s] \in DOMAIN mine[t]
  BY <1>7
<1>11. f[s] < f[t]
  BY <1>3, <1>5, <1>7, <1>10 DEF WaitInv, InOrder
<1>12. QED
  BY <1>7, <1>9, <1>11

\* Among wallets that exist, no calls wait for each other in a cycle, unless one of them has
\* come to its fee (transferAvailableBalance locks its rows in the order of their ids, whatever
\* the direction of the transfer), for any wallets and calls.  A row that is opened on
\* the way is locked out of that order, which the hypothesis excludes.
THEOREM TxNeverDeadlocks ==
  ASSUME Opened = Wallets, KeysByPlace
  PROVE  Spec => []NoWaitCycle
<1>1. Init => TxOK /\ WaitInv
  BY InitOK, InitInOrder
<1>2. TxOK /\ WaitInv /\ [Next]_vars => (TxOK /\ WaitInv)'
  BY NextOK, NextInOrder
<1>3. TxOK /\ WaitInv => NoWaitCycle
  BY NoneWait DEF NoWaitCycle
<1>4. QED
  BY <1>1, <1>2, <1>3, PTL DEF Spec
=============================================================================
