-------------------------- MODULE InfraLedgerProofs --------------------------
(***************************************************************************)
(* Machine-checked proofs about the atomic ledger, for any set of wallets, *)
(* keys, references and amounts.                                           *)
(*                                                                         *)
(* The inductive invariant is Well of LedgerLemmas: types, the audit trail *)
(* and the two uniqueness facts together.  An admissible leg keeps it      *)
(* (PostWell); a pair posts as its two legs in turn (PairWell), because    *)
(* neither leg disturbs the other (OtherLegAdmissible).  AppendOnly then   *)
(* follows from the same lemmas, step by step (NextExtends).               *)
(***************************************************************************)
EXTENDS InfraLedger, LedgerLemmas

\* The same for the two rows of a pair.
LEMMA EnsureBothWell ==
  ASSUME NEW L, Well(L), NEW d \in Leg, NEW c \in Leg
  PROVE  Well(EnsureBoth(L, d, c))
<1>1. d.wallet \in Wallets /\ c.wallet \in Wallets
  BY DEF Leg
<1>2. Well(ensureWalletAccount(L, d.wallet))
  BY <1>1, EnsureWell
<1>3. QED
  BY <1>1, <1>2, EnsureWell DEF EnsureBoth

\* A pair posts as its debit followed by its credit.
LEMMA PairWell ==
  ASSUME NEW L, Well(L), NEW d \in Leg, NEW c \in Leg, AdmissiblePair(L, d, c)
  PROVE  Well(PostPair(L, d, c))
<1>1. /\ L \in Ledger /\ Admissible(L, d) /\ Admissible(L, c)
      /\ d.wallet # c.wallet /\ d.key # c.key
  BY DEF AdmissiblePair, IsPair, Well
<1>2. Well(Post(L, d))
  BY <1>1, PostWell
<1>3. Admissible(Post(L, d), c)
  BY <1>1, OtherLegAdmissible
<1>4. Well(Post(Post(L, d), c))
  BY <1>2, <1>3, PostWell
<1>5. c.wallet \in Wallets
  BY DEF Leg
<1>6. Post(L, d).rows[c.wallet] = L.rows[c.wallet]
  BY <1>1, <1>5, PostMovements DEF Admissible
<1>7. PostPair(L, d, c) = Post(Post(L, d), c)
  BY <1>6 DEF PostPair, Post
<1>8. QED
  BY <1>4, <1>7

-----------------------------------------------------------------------------
\* Every step of the ledger keeps it well formed.
LEMMA NextWell ==
  ASSUME Well(ledger), [Next]_ledger
  PROVE  Well(ledger')
<1>1. ASSUME NEW w \in Wallets, Ensure(w) PROVE Well(ledger')
  BY <1>1, EnsureWell DEF Ensure
<1>2. ASSUME NEW w \in Wallets, NEW s \in Statuses \ {"absent"}, SetStatus(w, s)
      PROVE  Well(ledger')
  BY <1>2, StatusWell DEF SetStatus
<1>3. ASSUME NEW l \in Legs, PostOne(l) PROVE Well(ledger')
  <2>1. l \in Leg /\ l.wallet \in Wallets
    BY LegsAssumption DEF Leg
  <2>2. Well(ensureWalletAccount(ledger, l.wallet))
    BY <2>1, EnsureWell
  <2>3. QED
    BY <1>3, <2>1, <2>2, PostWell DEF PostOne
<1>4. ASSUME NEW d \in Legs, NEW c \in Legs, Transfer(d, c) PROVE Well(ledger')
  <2>1. d \in Leg /\ c \in Leg
    BY LegsAssumption
  <2>2. Well(EnsureBoth(ledger, d, c))
    BY <2>1, EnsureBothWell
  <2>3. QED
    BY <1>4, <2>1, <2>2, PairWell DEF Transfer
<1>5. ASSUME NEW d \in Legs, NEW c \in Legs, NEW fd \in Legs, NEW fc \in Legs,
             TransferWithFee(d, c, fd, fc)
      PROVE  Well(ledger')
  <2>1. d \in Leg /\ c \in Leg /\ fd \in Leg /\ fc \in Leg
    BY LegsAssumption
  <2>2. Well(EnsureBoth(ledger, d, c))
    BY <2>1, EnsureBothWell
  <2>3. Well(PostPair(EnsureBoth(ledger, d, c), d, c))
    BY <1>5, <2>1, <2>2, PairWell DEF TransferWithFee
  <2>4. Well(EnsureBoth(PostPair(EnsureBoth(ledger, d, c), d, c), fd, fc))
    BY <2>1, <2>3, EnsureBothWell
  <2>5. QED
    BY <1>5, <2>1, <2>4, PairWell DEF TransferWithFee
<1>6. CASE UNCHANGED ledger
  BY <1>6
<1>7. QED
  BY <1>1, <1>2, <1>3, <1>4, <1>5, <1>6 DEF Next

\* In every reachable state every bucket is a natural number, each wallet's row
\* is what its movements add up to, and no key and no slot was used twice.
THEOREM LedgerWell == Spec => [](TypeOK /\ AuditTrail /\ OncePerKey /\ OncePerSlot)
<1>1. Init => Well(ledger)
  BY EmptyWell DEF Init
<1>2. Well(ledger) /\ [Next]_ledger => Well(ledger)'
  BY NextWell
<1>3. Well(ledger) => TypeOK /\ AuditTrail /\ OncePerKey /\ OncePerSlot
  BY DEF Well, TypeOK, AuditTrail, OncePerKey, OncePerSlot
<1>4. QED
  BY <1>1, <1>2, <1>3, PTL DEF Spec

\* The CHECK constraints of infra_wallet_accounts never have to refuse a row: no bucket of
\* any wallet is ever negative.
THEOREM LedgerTyped == Spec => []TypeOK
BY LedgerWell, PTL

\* Replays under one idempotency key, and repeats of one money event under another key,
\* post once, whichever wallets they name.
THEOREM LedgerPostsOnce == Spec => []OncePerKeyAndSlot
<1>1. OncePerKey /\ OncePerSlot => OncePerKeyAndSlot
  BY DEF OncePerKeyAndSlot
<1>2. QED
  BY <1>1, LedgerWell, PTL

-----------------------------------------------------------------------------
\* M keeps every movement of L in its place.
Extends(L, M) ==
  \A w \in Wallets :
    /\ Len(L.movements[w]) <= Len(M.movements[w])
    /\ \A i \in 1..Len(L.movements[w]) : M.movements[w][i] = L.movements[w][i]

\* Extending is transitive.
LEMMA ExtendsTransitive ==
  ASSUME NEW L \in Ledger, NEW M \in Ledger, NEW N \in Ledger,
         Extends(L, M), Extends(M, N)
  PROVE  Extends(L, N)
<1>. SUFFICES ASSUME NEW w \in Wallets
              PROVE  /\ Len(L.movements[w]) <= Len(N.movements[w])
                     /\ \A i \in 1..Len(L.movements[w]) :
                          N.movements[w][i] = L.movements[w][i]
  BY DEF Extends
<1>. DEFINE l == L.movements[w]
            m == M.movements[w]
            n == N.movements[w]
<1>1. l \in Seq(Movement) /\ m \in Seq(Movement) /\ n \in Seq(Movement)
  BY DEF Ledger
<1>2. Len(l) \in Nat /\ Len(m) \in Nat /\ Len(n) \in Nat
  BY <1>1
<1>3. /\ Len(l) <= Len(m) /\ Len(m) <= Len(n)
      /\ \A i \in 1..Len(l) : m[i] = l[i]
      /\ \A i \in 1..Len(m) : n[i] = m[i]
  BY DEF Extends
<1>4. \A i \in 1..Len(l) : i \in 1..Len(m)
  BY <1>2, <1>3
<1>5. QED
  BY <1>2, <1>3, <1>4

\* A posting extends the movements.
LEMMA PostExtends ==
  ASSUME NEW L \in Ledger, NEW l \in Leg, Admissible(L, l)
  PROVE  Extends(L, Post(L, l))
<1>. SUFFICES ASSUME NEW w \in Wallets
              PROVE  /\ Len(L.movements[w]) <= Len(Post(L, l).movements[w])
                     /\ \A i \in 1..Len(L.movements[w]) :
                          Post(L, l).movements[w][i] = L.movements[w][i]
  BY DEF Extends
<1>1. /\ w # l.wallet => Post(L, l).movements[w] = L.movements[w]
      /\ w = l.wallet => Len(Post(L, l).movements[w]) = Len(L.movements[w]) + 1
      /\ Len(L.movements[w]) \in Nat
      /\ \A i \in 1..Len(L.movements[w]) :
           Post(L, l).movements[w][i] = L.movements[w][i]
  BY PostMovements DEF Admissible
<1>2. QED
  BY <1>1

\* The same movements extend themselves, whatever the rows.
LEMMA SameExtends ==
  ASSUME NEW L \in Ledger, NEW M, M.movements = L.movements
  PROVE  Extends(L, M)
<1>1. ASSUME NEW w \in Wallets
      PROVE  Len(L.movements[w]) <= Len(L.movements[w])
  <2>1. L.movements[w] \in Seq(Movement)
    BY DEF Ledger
  <2>2. QED
    BY <2>1
<1>2. QED
  BY <1>1, Zenon DEF Extends

\* A change of status, and so the creation of a row, posts nothing.
LEMMA StatusExtends ==
  ASSUME NEW L \in Ledger, NEW w \in Wallets, NEW s
  PROVE  Extends(L, [L EXCEPT !.rows[w].status = s])
<1>1. [L EXCEPT !.rows[w].status = s].movements = L.movements
  BY DEF Ledger
<1>2. QED
  BY <1>1, SameExtends

LEMMA EnsureExtends ==
  ASSUME NEW L \in Ledger, NEW w \in Wallets
  PROVE  Extends(L, ensureWalletAccount(L, w))
  BY StatusExtends, SameExtends DEF ensureWalletAccount

\* A pair, its rows created first, extends the movements.
LEMMA PairExtends ==
  ASSUME NEW L, Well(L), NEW d \in Leg, NEW c \in Leg,
         AdmissiblePair(EnsureBoth(L, d, c), d, c)
  PROVE  /\ Extends(L, PostPair(EnsureBoth(L, d, c), d, c))
         /\ Well(PostPair(EnsureBoth(L, d, c), d, c))
<1>. DEFINE A == ensureWalletAccount(L, d.wallet)
            B == EnsureBoth(L, d, c)
            D == Post(B, d)
            P == PostPair(B, d, c)
<1>1. d.wallet \in Wallets /\ c.wallet \in Wallets
  BY DEF Leg
<1>2. Well(A) /\ Well(B)
  BY <1>1, EnsureWell, EnsureBothWell
<1>3. L \in Ledger /\ A \in Ledger /\ B \in Ledger
  BY <1>2 DEF Well
<1>4. Extends(L, A) /\ Extends(A, B)
  BY <1>1, <1>3, EnsureExtends DEF EnsureBoth
<1>5. /\ Admissible(B, d) /\ Admissible(B, c)
      /\ d.wallet # c.wallet /\ d.key # c.key
  BY DEF AdmissiblePair, IsPair
<1>6. Well(P)
  BY <1>2, PairWell
<1>7. D \in Ledger /\ Extends(B, D) /\ Admissible(D, c)
  BY <1>3, <1>5, PostFields, PostExtends, OtherLegAdmissible DEF Admissible
<1>8. D.rows[c.wallet] = B.rows[c.wallet]
  BY <1>1, <1>3, <1>5, PostMovements DEF Admissible
<1>9. P = Post(D, c)
  BY <1>8 DEF PostPair, Post
<1>10. Extends(D, P) /\ P \in Ledger
  BY <1>6, <1>7, <1>9, PostExtends DEF Well
<1>11. Extends(L, B)
  BY <1>3, <1>4, ExtendsTransitive
<1>12. Extends(B, P)
  BY <1>3, <1>7, <1>10, ExtendsTransitive
<1>13. QED
  BY <1>3, <1>6, <1>10, <1>11, <1>12, ExtendsTransitive

\* Every step of the ledger extends the movements.
LEMMA NextExtends ==
  ASSUME Well(ledger), [Next]_ledger
  PROVE  Extends(ledger, ledger')
<1>. ledger \in Ledger
  BY DEF Well
<1>1. ASSUME NEW w \in Wallets, Ensure(w) PROVE Extends(ledger, ledger')
  BY <1>1, EnsureExtends DEF Ensure
<1>2. ASSUME NEW w \in Wallets, NEW s \in Statuses \ {"absent"}, SetStatus(w, s)
      PROVE  Extends(ledger, ledger')
  BY <1>2, StatusExtends DEF SetStatus
<1>3. ASSUME NEW l \in Legs, PostOne(l) PROVE Extends(ledger, ledger')
  <2>. DEFINE A == ensureWalletAccount(ledger, l.wallet)
  <2>1. l \in Leg /\ l.wallet \in Wallets
    BY LegsAssumption DEF Leg
  <2>2. Well(A)
    BY <2>1, EnsureWell
  <2>3. A \in Ledger
    BY <2>2 DEF Well
  <2>4. Extends(ledger, A)
    BY <2>1, EnsureExtends
  <2>5. Admissible(A, l) /\ ledger' = Post(A, l)
    BY <1>3 DEF PostOne
  <2>6. Extends(A, ledger') /\ ledger' \in Ledger
    BY <2>1, <2>3, <2>5, PostExtends, PostFields DEF Admissible
  <2>7. QED
    BY <2>3, <2>4, <2>6, ExtendsTransitive
<1>4. ASSUME NEW d \in Legs, NEW c \in Legs, Transfer(d, c)
      PROVE  Extends(ledger, ledger')
  <2>1. d \in Leg /\ c \in Leg
    BY LegsAssumption
  <2>2. QED
    BY <1>4, <2>1, PairExtends DEF Transfer
<1>5. ASSUME NEW d \in Legs, NEW c \in Legs, NEW fd \in Legs, NEW fc \in Legs,
             TransferWithFee(d, c, fd, fc)
      PROVE  Extends(ledger, ledger')
  <2>. DEFINE P == PostPair(EnsureBoth(ledger, d, c), d, c)
  <2>1. d \in Leg /\ c \in Leg /\ fd \in Leg /\ fc \in Leg
    BY LegsAssumption
  <2>2. /\ AdmissiblePair(EnsureBoth(ledger, d, c), d, c)
        /\ AdmissiblePair(EnsureBoth(P, fd, fc), fd, fc)
        /\ ledger' = PostPair(EnsureBoth(P, fd, fc), fd, fc)
    BY <1>5 DEF TransferWithFee
  <2>3. Extends(ledger, P) /\ Well(P)
    BY <2>1, <2>2, PairExtends
  <2>4. Extends(P, ledger') /\ Well(ledger')
    BY <2>1, <2>2, <2>3, PairExtends
  <2>5. P \in Ledger /\ ledger' \in Ledger
    BY <2>3, <2>4 DEF Well
  <2>6. QED
    BY <2>3, <2>4, <2>5, ExtendsTransitive
<1>6. CASE UNCHANGED ledger
  BY <1>6, SameExtends
<1>7. QED
  BY <1>1, <1>2, <1>3, <1>4, <1>5, <1>6 DEF Next

\* No step of the ledger rewrites, reorders or removes a movement: a posted
\* infra_ledger_movements row is permanent.
LEMMA LedgerAppendOnly == Spec => AppendOnly
<1>1. Init => Well(ledger)
  BY EmptyWell DEF Init
<1>2. Well(ledger) /\ [Next]_ledger => Well(ledger)'
  BY NextWell
<1>3. Well(ledger) /\ [Next]_ledger =>
        [\A w \in Wallets :
           /\ Len(ledger.movements[w]) <= Len(ledger'.movements[w])
           /\ \A i \in 1..Len(ledger.movements[w]) :
                ledger'.movements[w][i] = ledger.movements[w][i]]_ledger
  BY NextExtends DEF Extends
<1>4. QED
  BY <1>1, <1>2, <1>3, PTL DEF Spec, AppendOnly
=============================================================================
