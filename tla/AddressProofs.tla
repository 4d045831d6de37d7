---------------------------- MODULE AddressProofs ----------------------------
(***************************************************************************)
(* That Stellar addresses are kept: an organisation's, for any number of   *)
(* provisioning calls, nodes, wallets and deposits, and a consumer's, for  *)
(* any number of users, calls and trustlines.  The two share no variable.  *)
(***************************************************************************)
EXTENDS InfraStellarAccount, CryptoWalletProvision, TLAPS

(***************************************************************************)
(* Organisations.  The UPDATEs of a run go by the row's id and never touch *)
(* its key, and the INSERT does nothing when there is a row, so the key of *)
(* a row is for good; a run past the INSERT holds the key of the row of    *)
(* its wallet, and what Stellar has of a key only grows.                   *)
(***************************************************************************)
AccountKey == Wallets \cup 1..MaxKeys

AccountStatuses == {"none", "provisioning", "xlm_ready", "trustline_ready", "active", "failed"}

AccountRow == [status : AccountStatuses, key : AccountKey \cup {NoKey}]

Labels == {"idle", "waiting", "again", "load", "reload", "create", "insert",
           "fund", "funded", "trust", "trusted", "ready", "failed"}

\* Where a run works on the row of its wallet, under the key of that row.
PastInsert == {"fund", "funded", "trust", "trusted", "ready", "failed"}

Run == [at : Labels, wallet : Wallets, key : AccountKey \cup {NoKey},
        behind : Provisioners \cup {NoRun}]

Nodes == {Node[p] : p \in Provisioners}

AccountTyped ==
  /\ acct \in [Wallets -> AccountRow]
  /\ vault \subseteq AccountKey
  /\ opened \in [AccountKey -> {"absent", "open", "trusting"}]
  /\ prov \in [Provisioners -> Run]
  /\ locks \in [Nodes -> [Newcomers -> Provisioners \cup {NoRun}]]

\* A row's secret is in custody, and a row that says "active" can receive USDC.
RowsAreKept ==
  \A w \in Wallets :
    /\ acct[w] # NoAccount => acct[w].key \in vault
    /\ acct[w].status = "active" => acct[w] # NoAccount /\ opened[acct[w].key] = "trusting"

\* A run holds a key of the vault when it inserts, and the row's own key from then on.
RunHoldsRow(p) ==
  /\ At(p, "insert") => prov[p].key \in vault
  /\ prov[p].at \in PastInsert => MyRow(p) # NoAccount /\ prov[p].key = MyRow(p).key
  /\ prov[p].at \in {"trusted", "ready"} => opened[prov[p].key] = "trusting"

RunsHoldRows == \A p \in Provisioners : RunHoldsRow(p)

PaymentsAreKept ==
  /\ arrived \subseteq Deposits
  /\ paidTo \in [Deposits -> AccountKey \cup {NoKey}]
  /\ \A d \in arrived : acct[d.to] # NoAccount /\ paidTo[d] = acct[d.to].key

Custody == AccountTyped /\ RowsAreKept /\ RunsHoldRows /\ PaymentsAreKept

-----------------------------------------------------------------------------
\* What a step of a run may do to rows, vault and accounts on Stellar: rows that exist
\* keep their key, secrets stay, and an account that trusts USDC goes on to.
Grows ==
  /\ \A w \in Wallets : acct[w] # NoAccount => acct'[w] # NoAccount /\ acct'[w].key = acct[w].key
  /\ vault \subseteq vault'
  /\ \A k \in AccountKey : opened[k] = "trusting" => opened'[k] = "trusting"

\* At the start every account that exists is active, under a key in the vault.
LEMMA InitCustody == AccountInit => Custody
<1>. SUFFICES ASSUME AccountInit PROVE Custody
  OBVIOUS
<1>. USE RequestsAssumption
<1>1. PICK waiting \in SUBSET Newcomers :
        acct = [w \in Wallets |-> IF w \in waiting THEN NoAccount
                                 ELSE [status |-> "active", key |-> w]]
  BY DEF AccountInit
<1>2. AccountTyped
  <2>1. acct \in [Wallets -> AccountRow]
    BY <1>1 DEF AccountRow, AccountStatuses, AccountKey, NoAccount
  <2>2. vault \subseteq AccountKey /\ opened \in [AccountKey -> {"absent", "open", "trusting"}]
    BY DEF AccountInit, AccountKey
  <2>3. Resting \in Run
    BY DEF Resting, Run, Labels
  <2>4. prov \in [Provisioners -> Run]
    BY <2>3 DEF AccountInit
  <2>5. locks \in [Nodes -> [Newcomers -> Provisioners \cup {NoRun}]]
    BY DEF AccountInit, Nodes
  <2>6. QED
    BY <2>1, <2>2, <2>4, <2>5 DEF AccountTyped
<1>3. RowsAreKept
  <2>. SUFFICES ASSUME NEW w \in Wallets, acct[w] # NoAccount
                PROVE  /\ acct[w].key \in vault
                       /\ opened[acct[w].key] = "trusting"
    BY <1>1 DEF RowsAreKept, NoAccount
  <2>1. acct[w].key = w
    BY <1>1
  <2>2. w \in vault
    BY DEF AccountInit
  <2>3. QED
    BY <2>1, <2>2 DEF AccountInit
<1>4. RunsHoldRows
  BY DEF AccountInit, RunsHoldRows, RunHoldsRow, At, PastInsert, Resting
<1>5. PaymentsAreKept
  BY DEF AccountInit, DepositInit, PaymentsAreKept
<1>6. QED
  BY <1>2, <1>3, <1>4, <1>5 DEF Custody

-----------------------------------------------------------------------------
\* A run that a step leaves alone, or takes out of its work, holds what it should.
LEMMA RunsOfOthersHold ==
  ASSUME Custody, Grows, NEW x \in Provisioners,
         \/ prov'[x] = prov[x]
         \/ prov'[x].at \notin PastInsert \cup {"insert"}
  PROVE  RunHoldsRow(x)'
<1>1. CASE prov'[x].at \notin PastInsert \cup {"insert"}
  BY <1>1 DEF RunHoldsRow, PastInsert, At
<1>2. CASE prov'[x] = prov[x]
  <2>1. RunHoldsRow(x) /\ prov[x] \in Run
    BY DEF Custody, RunsHoldRows, AccountTyped
  <2>2. prov[x].wallet \in Wallets
    BY <2>1 DEF Run
  <2>3. prov'[x].at = "insert" => prov'[x].key \in vault'
    BY <1>2, <2>1 DEF RunHoldsRow, At, Grows
  <2>4. prov'[x].at \in PastInsert =>
          acct'[prov'[x].wallet] # NoAccount /\ prov'[x].key = acct'[prov'[x].wallet].key
    BY <1>2, <2>1, <2>2 DEF RunHoldsRow, MyRow, Grows
  <2>5. prov'[x].at \in {"trusted", "ready"} => opened'[prov'[x].key] = "trusting"
    <3>. SUFFICES ASSUME prov[x].at \in {"trusted", "ready"} PROVE opened'[prov[x].key] = "trusting"
      BY <1>2
    <3>1. prov[x].key = acct[prov[x].wallet].key /\ acct[prov[x].wallet] # NoAccount
      BY <2>1 DEF RunHoldsRow, MyRow, PastInsert
    <3>2. prov[x].key \in AccountKey
      BY <3>1, <2>2 DEF Custody, RowsAreKept, AccountTyped
    <3>3. QED
      BY <2>1, <3>2 DEF RunHoldsRow, Grows
  <2>6. QED
    BY <2>3, <2>4, <2>5 DEF RunHoldsRow, At, MyRow
<1>3. QED
  BY <1>1, <1>2

\* Rows that no step touched are kept by the growth of vault and accounts.
LEMMA SameRows ==
  ASSUME Custody, Grows, NEW w \in Wallets, acct'[w] = acct[w]
  PROVE  /\ acct'[w] # NoAccount => acct'[w].key \in vault'
         /\ acct'[w].status = "active" => acct'[w] # NoAccount /\ opened'[acct'[w].key] = "trusting"
<1>1. acct[w] # NoAccount => acct[w].key \in vault /\ acct[w].key \in AccountKey
  BY DEF Custody, RowsAreKept, AccountTyped
<1>2. QED
  BY <1>1 DEF Custody, RowsAreKept, Grows

\* A deposit that was paid to the wallet's key still was when the rows grow.
LEMMA SamePayments ==
  ASSUME Custody, Grows, UNCHANGED <<everyVar, paidTo>>
  PROVE  PaymentsAreKept'
<1>1. UNCHANGED <<arrived, paidTo>>
  BY DEF everyVar, depVars
<1>2. \A d \in arrived : d.to \in Wallets
  BY DepositsAssumption DEF Custody, PaymentsAreKept
<1>3. QED
  BY <1>1, <1>2 DEF Custody, PaymentsAreKept, Grows

-----------------------------------------------------------------------------
\* End: the run and those that waited for it leave their work.
LEMMA EndFields ==
  ASSUME Custody, NEW p \in Provisioners, NEW ok \in BOOLEAN, End(p, ok)
  PROVE  /\ prov' \in [Provisioners -> Run]
         /\ locks' \in [Nodes -> [Newcomers -> Provisioners \cup {NoRun}]]
         /\ \A x \in Provisioners :
              prov'[x] = prov[x] \/ prov'[x].at \notin PastInsert \cup {"insert"}
<1>. USE RequestsAssumption
<1>1. prov \in [Provisioners -> Run] /\ locks \in [Nodes -> [Newcomers -> Provisioners \cup {NoRun}]]
  BY DEF Custody, AccountTyped
<1>2. Resting \in Run /\ Resting.at = "idle"
  BY DEF Resting, Run, Labels
<1>3. \A x \in Provisioners :
        LET again == [prov[x] EXCEPT !.at = "again", !.behind = NoRun]
        IN again \in Run /\ again.at = "again"
  BY <1>1 DEF Run, Labels
<1>4. \A x \in Provisioners :
        /\ prov'[x] \in Run
        /\ prov'[x] = prov[x] \/ prov'[x].at \in {"idle", "again"}
  BY <1>1, <1>2, <1>3 DEF End
<1>5. prov' \in [Provisioners -> Run]
  BY <1>4 DEF End
<1>6. locks' \in [Nodes -> [Newcomers -> Provisioners \cup {NoRun}]]
  BY <1>1 DEF End, Nodes
<1>7. QED
  BY <1>4, <1>5, <1>6 DEF PastInsert

\* A step that leaves rows, vault and Stellar alone keeps custody when the mover holds
\* what its new place asks for.
LEMMA QuietStep ==
  ASSUME Custody, UNCHANGED <<acct, vault, opened, everyVar, paidTo>>,
         prov' \in [Provisioners -> Run],
         locks' \in [Nodes -> [Newcomers -> Provisioners \cup {NoRun}]],
         \A x \in Provisioners :
           \/ prov'[x] = prov[x]
           \/ prov'[x].at \notin PastInsert \cup {"insert"}
           \/ RunHoldsRow(x)'
  PROVE  Custody'
<1>1. Grows
  BY DEF Grows
<1>2. AccountTyped'
  BY DEF Custody, AccountTyped
<1>3. RowsAreKept'
  BY DEF Custody, RowsAreKept
<1>4. RunsHoldRows'
  BY <1>1, RunsOfOthersHold DEF RunsHoldRows
<1>5. PaymentsAreKept'
  BY <1>1, SamePayments
<1>6. QED
  BY <1>2, <1>3, <1>4, <1>5 DEF Custody

-----------------------------------------------------------------------------
\* A call starts, or looks at the row again: rows, vault and Stellar stay.
LEMMA StartCustody ==
  ASSUME Custody, NEW p \in Provisioners, UNCHANGED <<everyVar, paidTo>>,
         \/ \E w \in Newcomers : provisionOrgStellarAccount(p, w)
         \/ LoadAgain(p)
         \/ LoadAccount(p)
  PROVE  Custody'
<1>. USE RequestsAssumption, NewcomersAssumption
<1>1. prov \in [Provisioners -> Run] /\ locks \in [Nodes -> [Newcomers -> Provisioners \cup {NoRun}]]
  BY DEF Custody, AccountTyped
<1>2. Node[p] \in Nodes /\ prov[p] \in Run
  BY <1>1 DEF Nodes
<1>3. Resting \in Run /\ Resting.at = "idle"
  BY DEF Resting, Run, Labels
<1>4. ASSUME NEW w \in Newcomers, provisionOrgStellarAccount(p, w)
      PROVE  Custody'
  <2>. DEFINE other == locks[Node[p]][w]
  <2>1. other \in Provisioners \cup {NoRun}
    BY <1>1, <1>2
  <2>2. UNCHANGED <<acct, vault, opened>>
    BY <1>4 DEF provisionOrgStellarAccount
  <2>3. CASE other = NoRun
    <3>1. prov' = [prov EXCEPT ![p] = [Resting EXCEPT !.at = "load", !.wallet = w]]
          /\ locks' = [locks EXCEPT ![Node[p]][w] = p]
      BY <1>4, <2>3 DEF provisionOrgStellarAccount
    <3>2. [Resting EXCEPT !.at = "load", !.wallet = w] \in Run
          /\ [Resting EXCEPT !.at = "load", !.wallet = w].at = "load"
      BY DEF Resting, Run, Labels
    <3>3. prov' \in [Provisioners -> Run]
          /\ \A x \in Provisioners : prov'[x] = prov[x] \/ prov'[x].at = "load"
      BY <1>1, <3>1, <3>2
    <3>4. locks' \in [Nodes -> [Newcomers -> Provisioners \cup {NoRun}]]
      BY <1>1, <3>1
    <3>5. QED
      BY <2>2, <3>3, <3>4, QuietStep DEF PastInsert
  <2>4. CASE other # NoRun
    <3>1. prov' = [prov EXCEPT ![p] = [at |-> "waiting", wallet |-> w, key |-> NoKey,
                                        behind |-> other]]
          /\ locks' = locks
      BY <1>4, <2>4 DEF provisionOrgStellarAccount
    <3>2. prov' \in [Provisioners -> Run]
          /\ \A x \in Provisioners : prov'[x] = prov[x] \/ prov'[x].at = "waiting"
      BY <1>1, <2>1, <3>1 DEF Run, Labels
    <3>3. QED
      BY <1>1, <2>2, <3>1, <3>2, QuietStep DEF PastInsert
  <2>5. QED
    BY <2>3, <2>4
<1>5. CASE LoadAgain(p)
  <2>1. UNCHANGED <<acct, vault, opened>>
    BY <1>5 DEF LoadAgain
  <2>2. prov' \in [Provisioners -> Run]
        /\ \A x \in Provisioners : prov'[x] = prov[x] \/ prov'[x].at \in {"idle", "load"}
    BY <1>1, <1>3, <1>5 DEF LoadAgain, MoveOn, Run, Labels
  <2>3. locks' \in [Nodes -> [Newcomers -> Provisioners \cup {NoRun}]]
    BY <1>1, <1>2, <1>5 DEF LoadAgain
  <2>4. QED
    BY <2>1, <2>2, <2>3, QuietStep DEF PastInsert
<1>6. CASE LoadAccount(p)
  <2>1. UNCHANGED <<acct, vault, opened>>
    BY <1>6 DEF LoadAccount
  <2>2. CASE MyRow(p).status = "active"
    <3>1. MyRow(p) # NoAccount
      BY <2>2 DEF NoAccount
    <3>2. End(p, TRUE)
      BY <1>6, <2>2, <3>1, Zenon DEF LoadAccount
    <3>3. QED
      BY <2>1, <3>2, EndFields, QuietStep
  <2>3. CASE MyRow(p).status # "active" /\ MyRow(p) = NoAccount
    <3>1. prov' = [prov EXCEPT ![p].at = "create"] /\ locks' = locks
      BY <1>6, <2>3 DEF LoadAccount, MoveOn
    <3>2. prov' \in [Provisioners -> Run]
          /\ \A x \in Provisioners : prov'[x] = prov[x] \/ prov'[x].at = "create"
      BY <1>1, <3>1 DEF Run, Labels
    <3>3. QED
      BY <1>1, <2>1, <3>1, <3>2, QuietStep DEF PastInsert
  <2>4. CASE MyRow(p).status # "active" /\ MyRow(p) # NoAccount
    <3>1. prov' = [prov EXCEPT ![p].at = "fund", ![p].key = MyRow(p).key] /\ locks' = locks
      BY <1>6, <2>4 DEF LoadAccount
    <3>2. prov[p].wallet \in Wallets /\ MyRow(p) \in AccountRow
      BY <1>2 DEF MyRow, Custody, AccountTyped, Run
    <3>3. /\ prov' \in [Provisioners -> Run]
          /\ prov'[p].at = "fund" /\ prov'[p].key = MyRow(p).key
          /\ prov'[p].wallet = prov[p].wallet
          /\ \A x \in Provisioners \ {p} : prov'[x] = prov[x]
      BY <1>1, <3>1, <3>2 DEF Run, Labels, AccountRow
    <3>4. RunHoldsRow(p)'
      BY <2>1, <2>4, <3>3 DEF RunHoldsRow, At, MyRow, PastInsert
    <3>5. QED
      BY <1>1, <2>1, <3>1, <3>3, <3>4, QuietStep
  <2>5. QED
    BY <2>2, <2>3, <2>4
<1>7. QED
  BY <1>4, <1>5, <1>6

\* A keypair goes into the vault before anything refers to it.
LEMMA CreateCustody ==
  ASSUME Custody, NEW p \in Provisioners, UNCHANGED <<everyVar, paidTo>>,
         createKeypairAndStore(p)
  PROVE  Custody'
<1>1. PICK k \in 1..MaxKeys :
        /\ vault' = vault \cup {k}
        /\ prov' = [prov EXCEPT ![p].at = "insert", ![p].key = k]
  BY DEF createKeypairAndStore
<1>2. UNCHANGED <<acct, opened, locks>>
  BY DEF createKeypairAndStore
<1>3. k \in AccountKey
  BY DEF AccountKey
<1>4. AccountTyped'
  <2>1. prov' \in [Provisioners -> Run]
    BY <1>1, <1>3 DEF Custody, AccountTyped, Run, Labels
  <2>2. vault' \subseteq AccountKey
    BY <1>1, <1>3 DEF Custody, AccountTyped
  <2>3. QED
    BY <1>2, <2>1, <2>2 DEF Custody, AccountTyped
<1>5. Grows
  BY <1>1, <1>2 DEF Grows
<1>6. RowsAreKept'
  BY <1>2, <1>5, SameRows DEF RowsAreKept
<1>7. RunHoldsRow(p)'
  <2>1. prov'[p].at = "insert" /\ prov'[p].key = k
    BY <1>1 DEF Custody, AccountTyped, Run
  <2>2. QED
    BY <1>1, <2>1 DEF RunHoldsRow, At, PastInsert
<1>8. \A x \in Provisioners \ {p} : prov'[x] = prov[x]
  BY <1>1 DEF Custody, AccountTyped
<1>9. RunsHoldRows'
  BY <1>5, <1>7, <1>8, RunsOfOthersHold DEF RunsHoldRows
<1>10. QED
  BY <1>4, <1>5, <1>6, <1>9, SamePayments DEF Custody

-----------------------------------------------------------------------------
\* The first INSERT makes the row, a later one finds it and leaves it alone.
LEMMA InsertCustody ==
  ASSUME Custody, NEW p \in Provisioners, UNCHANGED <<everyVar, paidTo>>, InsertAccount(p)
  PROVE  Custody'
<1>. DEFINE w == prov[p].wallet
            new == [status |-> "provisioning", key |-> prov[p].key]
<1>1. /\ acct \in [Wallets -> AccountRow] /\ prov \in [Provisioners -> Run] /\ w \in Wallets
      /\ prov[p].at = "insert"
  BY DEF Custody, AccountTyped, Run, InsertAccount, At
<1>2. prov[p].key \in vault /\ prov[p].key \in AccountKey
  BY <1>1 DEF Custody, RunsHoldRows, RunHoldsRow, At, AccountTyped
<1>3. UNCHANGED <<vault, opened, locks>>
  BY DEF InsertAccount
<1>4. CASE MyRow(p) = NoAccount
  <2>1. acct' = [acct EXCEPT ![w] = new] /\ prov' = [prov EXCEPT ![p].at = "fund"]
    BY <1>4 DEF InsertAccount, RowIs, MoveOn
  <2>2. new \in AccountRow /\ new # NoAccount /\ new.status # "active"
    BY <1>2 DEF AccountRow, AccountStatuses, NoAccount
  <2>3. /\ acct' \in [Wallets -> AccountRow] /\ acct'[w] = new
        /\ \A v \in Wallets \ {w} : acct'[v] = acct[v]
    BY <1>1, <2>1, <2>2
  <2>4. /\ prov' \in [Provisioners -> Run]
        /\ prov'[p].at = "fund" /\ prov'[p].wallet = w /\ prov'[p].key = prov[p].key
        /\ \A x \in Provisioners \ {p} : prov'[x] = prov[x]
    BY <1>1, <2>1 DEF Run, Labels
  <2>5. Grows
    BY <1>3, <1>4, <2>3 DEF Grows, MyRow
  <2>6. AccountTyped'
    BY <1>3, <2>3, <2>4 DEF Custody, AccountTyped
  <2>7. RowsAreKept'
    <3>. SUFFICES ASSUME NEW v \in Wallets
                  PROVE  /\ acct'[v] # NoAccount => acct'[v].key \in vault'
                         /\ acct'[v].status = "active" =>
                              acct'[v] # NoAccount /\ opened'[acct'[v].key] = "trusting"
      BY DEF RowsAreKept
    <3>1. CASE v = w
      BY <1>2, <1>3, <2>2, <2>3, <3>1
    <3>2. CASE v # w
      BY <2>3, <2>5, <3>2, SameRows
    <3>3. QED
      BY <3>1, <3>2
  <2>8. RunHoldsRow(p)'
    BY <2>2, <2>3, <2>4 DEF RunHoldsRow, At, MyRow, PastInsert
  <2>9. RunsHoldRows'
    BY <2>4, <2>5, <2>8, RunsOfOthersHold DEF RunsHoldRows
  <2>10. QED
    BY <2>5, <2>6, <2>7, <2>9, SamePayments DEF Custody
<1>5. CASE MyRow(p) # NoAccount
  <2>1. acct' = acct /\ prov' = [prov EXCEPT ![p].at = "reload"]
    BY <1>5 DEF InsertAccount, MoveOn
  <2>2. prov' \in [Provisioners -> Run]
        /\ \A x \in Provisioners : prov'[x] = prov[x] \/ prov'[x].at = "reload"
    BY <1>1, <2>1 DEF Run, Labels
  <2>3. locks' \in [Nodes -> [Newcomers -> Provisioners \cup {NoRun}]]
    BY <1>3 DEF Custody, AccountTyped
  <2>4. QED
    BY <1>3, <2>1, <2>2, <2>3, QuietStep DEF PastInsert
<1>6. QED
  BY <1>4, <1>5

\* Friendbot and the trustline: what Stellar has of the key of the row grows.
LEMMA StellarCustody ==
  ASSUME Custody, NEW p \in Provisioners, UNCHANGED <<everyVar, paidTo>>,
         fundWithFriendbot(p) \/ ensureUsdcTrustline(p)
  PROVE  Custody'
<1>. DEFINE k == prov[p].key
<1>1. /\ prov \in [Provisioners -> Run] /\ opened \in [AccountKey -> {"absent", "open", "trusting"}]
      /\ prov[p].at \in {"fund", "trust"}
  BY DEF Custody, AccountTyped, At, fundWithFriendbot, ensureUsdcTrustline
<1>2. UNCHANGED <<acct, vault, locks>>
  BY DEF fundWithFriendbot, ensureUsdcTrustline
<1>3. MyRow(p) # NoAccount /\ k = MyRow(p).key
  BY <1>1 DEF Custody, RunsHoldRows, RunHoldsRow, PastInsert
<1>4. \E label \in {"funded", "trusted", "failed"} :
        prov' = [prov EXCEPT ![p].at = label] /\ (label = "trusted" => opened' = [opened EXCEPT ![k] = "trusting"])
  BY DEF fundWithFriendbot, ensureUsdcTrustline, MoveOn
<1>5. opened' = opened \/ \E v \in {"absent", "open", "trusting"} :
                           /\ opened' = [opened EXCEPT ![k] = v]
                           /\ opened[k] = "trusting" => v = "trusting"
  <2>1. k \in AccountKey
    BY <1>1, <1>3 DEF Custody, RowsAreKept, AccountTyped, MyRow, Run
  <2>2. opened[k] \in {"absent", "open", "trusting"}
    BY <1>1, <2>1
  <2>3. CASE fundWithFriendbot(p)
    <3>1. (IF opened[k] = "absent" THEN "open" ELSE opened[k]) \in {"absent", "open", "trusting"}
      BY <2>2
    <3>2. QED
      BY <2>3, <3>1 DEF fundWithFriendbot
  <2>4. CASE ensureUsdcTrustline(p)
    BY <2>4 DEF ensureUsdcTrustline
  <2>5. QED
    BY <2>3, <2>4
<1>6. PICK label \in {"funded", "trusted", "failed"} :
        prov' = [prov EXCEPT ![p].at = label] /\ (label = "trusted" => opened' = [opened EXCEPT ![k] = "trusting"])
  BY <1>4
<1>7. /\ prov' \in [Provisioners -> Run]
      /\ prov'[p].at = label /\ prov'[p].wallet = prov[p].wallet /\ prov'[p].key = k
      /\ \A x \in Provisioners \ {p} : prov'[x] = prov[x]
  BY <1>1, <1>6 DEF Run, Labels
<1>8. Grows /\ opened' \in [AccountKey -> {"absent", "open", "trusting"}]
  BY <1>1, <1>2, <1>5 DEF Grows
<1>9. AccountTyped'
  BY <1>2, <1>7, <1>8 DEF Custody, AccountTyped
<1>10. RowsAreKept'
  BY <1>2, <1>8, SameRows DEF RowsAreKept
<1>11. RunHoldsRow(p)'
  <2>1. prov[p].wallet \in Wallets
    BY <1>1 DEF Run
  <2>2. k \in AccountKey
    BY <1>3, <2>1 DEF Custody, RowsAreKept, AccountTyped, MyRow
  <2>3. prov'[p].at \in {"trusted", "ready"} => opened'[k] = "trusting"
    BY <1>1, <1>6, <1>7, <2>2
  <2>4. QED
    BY <1>2, <1>3, <1>7, <2>3 DEF RunHoldsRow, At, MyRow
<1>12. RunsHoldRows'
  BY <1>7, <1>8, <1>11, RunsOfOthersHold DEF RunsHoldRows
<1>13. QED
  BY <1>8, <1>9, <1>10, <1>12, SamePayments DEF Custody

-----------------------------------------------------------------------------
\* An UPDATE by id writes the status alone; "active" is written by a run whose key trusts
\* USDC, and that key is the row's.
LEMMA PatchCustody ==
  ASSUME Custody, NEW p \in Provisioners, UNCHANGED <<everyVar, paidTo>>, patchStatus(p)
  PROVE  Custody'
<1>. DEFINE w == prov[p].wallet
<1>1. /\ acct \in [Wallets -> AccountRow] /\ prov \in [Provisioners -> Run] /\ w \in Wallets
      /\ prov[p].at \in PastInsert
  BY DEF Custody, AccountTyped, Run, patchStatus, At, PastInsert
<1>2. acct[w] # NoAccount /\ prov[p].key = acct[w].key /\ acct[w].key \in vault
      /\ acct[w] \in AccountRow
  BY <1>1 DEF Custody, RunsHoldRows, RunHoldsRow, MyRow, RowsAreKept
<1>3. UNCHANGED <<vault, opened>>
  BY DEF patchStatus
<1>4. PICK status \in AccountStatuses \ {"none"} :
        /\ acct' = [acct EXCEPT ![w] = [acct[w] EXCEPT !.status = status]]
        /\ status = "active" => prov[p].at = "ready"
  <2>1. ASSUME NEW status \in AccountStatuses \ {"none"}, Patched(p, status)
        PROVE  acct' = [acct EXCEPT ![w] = [acct[w] EXCEPT !.status = status]]
    BY <2>1 DEF Patched, RowIs, MyRow
  <2>2. \/ Patched(p, "xlm_ready") \/ Patched(p, "trustline_ready") \/ Patched(p, "failed")
        \/ Patched(p, "active") /\ prov[p].at = "ready"
    BY Zenon DEF patchStatus, At
  <2>3. /\ {"xlm_ready", "trustline_ready", "failed", "active"} \subseteq AccountStatuses \ {"none"}
        /\ "xlm_ready" # "active" /\ "trustline_ready" # "active" /\ "failed" # "active"
    BY DEF AccountStatuses
  <2>4. QED
    BY <2>1, <2>2, <2>3
<1>5. /\ prov' \in [Provisioners -> Run]
      /\ locks' \in [Nodes -> [Newcomers -> Provisioners \cup {NoRun}]]
      /\ \A x \in Provisioners :
           \/ prov'[x] = prov[x]
           \/ prov'[x].at \notin PastInsert \cup {"insert"}
           \/ /\ x = p /\ prov'[p].wallet = w /\ prov'[p].key = prov[p].key
              /\ prov'[p].at \in PastInsert
              /\ prov'[p].at \in {"trusted", "ready"} => prov[p].at = "trusted"
  <2>1. ASSUME NEW ok \in BOOLEAN, End(p, ok)
        PROVE  <1>5
    BY <2>1, EndFields
  <2>2. ASSUME NEW label \in {"trust", "ready"}, MoveOn(p, label), UNCHANGED locks,
               label = "ready" => prov[p].at = "trusted"
        PROVE  <1>5
    <3>1. /\ prov' \in [Provisioners -> Run]
          /\ prov'[p].at = label /\ prov'[p].wallet = w /\ prov'[p].key = prov[p].key
          /\ \A x \in Provisioners \ {p} : prov'[x] = prov[x]
      BY <1>1, <2>2 DEF MoveOn, Run, Labels
    <3>2. QED
      BY <2>2, <3>1 DEF Custody, AccountTyped, PastInsert
  <2>3. \/ MoveOn(p, "trust") /\ UNCHANGED locks
        \/ MoveOn(p, "ready") /\ UNCHANGED locks /\ prov[p].at = "trusted"
        \/ End(p, TRUE)
        \/ End(p, FALSE)
    BY Zenon DEF patchStatus, At
  <2>4. QED
    BY <2>1, <2>2, <2>3
<1>6. /\ acct' \in [Wallets -> AccountRow]
      /\ acct'[w] # NoAccount /\ acct'[w].key = acct[w].key /\ acct'[w].status = status
      /\ \A v \in Wallets \ {w} : acct'[v] = acct[v]
  BY <1>1, <1>2, <1>4 DEF AccountRow, AccountStatuses, NoAccount
<1>7. Grows
  BY <1>3, <1>6 DEF Grows
<1>8. AccountTyped'
  BY <1>3, <1>5, <1>6 DEF Custody, AccountTyped
<1>9. RowsAreKept'
  <2>. SUFFICES ASSUME NEW v \in Wallets
                PROVE  /\ acct'[v] # NoAccount => acct'[v].key \in vault'
                       /\ acct'[v].status = "active" =>
                            acct'[v] # NoAccount /\ opened'[acct'[v].key] = "trusting"
    BY DEF RowsAreKept
  <2>1. CASE v = w
    <3>1. status = "active" => opened[prov[p].key] = "trusting"
      BY <1>4 DEF Custody, RunsHoldRows, RunHoldsRow
    <3>2. QED
      BY <1>2, <1>3, <1>6, <2>1, <3>1
  <2>2. CASE v # w
    BY <1>6, <1>7, <2>2, SameRows
  <2>3. QED
    BY <2>1, <2>2
<1>10. RunsHoldRows'
  <2>. SUFFICES ASSUME NEW x \in Provisioners PROVE RunHoldsRow(x)'
    BY DEF RunsHoldRows
  <2>1. CASE prov'[x] = prov[x] \/ prov'[x].at \notin PastInsert \cup {"insert"}
    BY <1>7, <2>1, RunsOfOthersHold
  <2>2. CASE /\ x = p /\ prov'[p].wallet = w /\ prov'[p].key = prov[p].key
             /\ prov'[p].at \in PastInsert
             /\ prov'[p].at \in {"trusted", "ready"} => prov[p].at = "trusted"
    <3>1. prov[p].at = "trusted" => opened[prov[p].key] = "trusting"
      BY DEF Custody, RunsHoldRows, RunHoldsRow
    <3>2. QED
      BY <1>2, <1>3, <1>6, <2>2, <3>1 DEF RunHoldsRow, At, MyRow, PastInsert
  <2>3. QED
    BY <1>5, <2>1, <2>2
<1>11. QED
  BY <1>7, <1>8, <1>9, <1>10, SamePayments DEF Custody

\* A node that stops forgets its runs and its locks, and no row.
LEMMA StopCustody ==
  ASSUME Custody, NEW n \in DOMAIN locks, UNCHANGED <<everyVar, paidTo>>, NodeStops(n)
  PROVE  Custody'
<1>. USE RequestsAssumption
<1>1. Resting \in Run /\ Resting.at = "idle"
  BY DEF Resting, Run, Labels
<1>2. prov' \in [Provisioners -> Run]
      /\ \A x \in Provisioners : prov'[x] = prov[x] \/ prov'[x].at = "idle"
  BY <1>1 DEF NodeStops, Custody, AccountTyped
<1>3. locks' \in [Nodes -> [Newcomers -> Provisioners \cup {NoRun}]]
  BY DEF NodeStops, Custody, AccountTyped
<1>4. UNCHANGED <<acct, vault, opened>>
  BY DEF NodeStops
<1>5. QED
  BY <1>2, <1>3, <1>4, QuietStep DEF PastInsert

\* Transfers and deposits add to what has arrived deposits of Deposits alone.
LEMMA DepositArrives ==
  ASSUME DepositNext
  PROVE  arrived' \subseteq arrived \cup Deposits
<1>1. CASE OnchainNext /\ UNCHANGED depVars
  BY <1>1 DEF depVars
<1>2. CASE \E d \in Deposits : Arrives(d)
  BY <1>2 DEF Arrives
<1>3. ASSUME NEW p \in Procs, NEW d \in OnStellar, processDeposit(p, d)
      PROVE  UNCHANGED arrived
  BY <1>3 DEF processDeposit, OthersUnchanged
<1>4. ASSUME NEW p \in Procs, DepositStep(p)
      PROVE  UNCHANGED arrived
  <2>1. OthersUnchanged
    BY <1>4 DEF DepositStep, DepInsert, DepMark, DepPosting, DepPended, DepConfirm
  <2>2. QED
    BY <2>1 DEF OthersUnchanged
<1>5. ASSUME NEW p \in Procs, DepCrash(p)
      PROVE  UNCHANGED arrived
  BY <1>5 DEF DepCrash, OthersUnchanged
<1>6. QED
  BY <1>1, <1>2, <1>3, <1>4, <1>5 DEF DepositNext

\* A payment is to the address of the row as it is then.
LEMMA DepositCustody ==
  ASSUME Custody, DepositNext, DepositsSeeAccounts, UNCHANGED <<acct, vault, opened, prov, locks>>
  PROVE  Custody'
<1>1. AccountTyped' /\ RowsAreKept' /\ RunsHoldRows'
  BY DEF Custody, AccountTyped, RowsAreKept, RunsHoldRows, RunHoldsRow, At, MyRow
<1>2. arrived' \subseteq Deposits
  BY DepositArrives DEF Custody, PaymentsAreKept
<1>3. /\ \A d \in arrived' \ arrived : acct[d.to] # NoAccount
      /\ paidTo' = [d \in Deposits |-> IF d \in arrived' \ arrived THEN acct[d.to].key
                                       ELSE paidTo[d]]
  BY DEF DepositsSeeAccounts
<1>4. \A d \in Deposits : d.to \in Wallets /\ acct[d.to].key \in AccountKey \cup {NoKey}
  BY DepositsAssumption DEF Custody, AccountTyped, AccountRow
<1>5. paidTo' \in [Deposits -> AccountKey \cup {NoKey}]
  BY <1>3, <1>4 DEF Custody, PaymentsAreKept
<1>6. \A d \in arrived' : acct[d.to] # NoAccount /\ paidTo'[d] = acct[d.to].key
  BY <1>2, <1>3 DEF Custody, PaymentsAreKept
<1>7. PaymentsAreKept'
  BY <1>2, <1>5, <1>6 DEF PaymentsAreKept
<1>8. QED
  BY <1>1, <1>7 DEF Custody

\* Every step of the transfers, the deposits and the provisioning runs keeps custody.
LEMMA NextCustody == Custody /\ [AccountNext]_bankVars => Custody'
<1>. SUFFICES ASSUME Custody, [AccountNext]_bankVars PROVE Custody'
  OBVIOUS
<1>1. CASE DepositNext /\ DepositsSeeAccounts /\ UNCHANGED <<acct, vault, opened, prov, locks>>
  BY <1>1, DepositCustody
<1>2. ASSUME ProvisionAccount, UNCHANGED <<everyVar, paidTo>>
      PROVE  Custody'
  <2>1. ASSUME NEW p \in Provisioners, NEW w \in Newcomers, provisionOrgStellarAccount(p, w)
        PROVE  Custody'
    BY <1>2, <2>1, StartCustody
  <2>2. ASSUME NEW p \in Provisioners, ProvisionStep(p)
        PROVE  Custody'
    BY <1>2, <2>2, StartCustody, CreateCustody, InsertCustody, StellarCustody, PatchCustody
       DEF ProvisionStep
  <2>3. ASSUME NEW n \in DOMAIN locks, NodeStops(n)
        PROVE  Custody'
    BY <1>2, <2>3, StopCustody
  <2>4. QED
    BY <1>2, <2>1, <2>2, <2>3 DEF ProvisionAccount
<1>3. CASE UNCHANGED bankVars
  <2>1. UNCHANGED <<arrived, acct, vault, opened, prov, locks, paidTo>>
    BY <1>3 DEF bankVars, everyVar, depVars, accountVars
  <2>2. QED
    BY <2>1 DEF Custody, AccountTyped, RowsAreKept, RunsHoldRows, RunHoldsRow, At, MyRow,
                PaymentsAreKept
<1>4. QED
  BY <1>1, <1>2, <1>3 DEF AccountNext

-----------------------------------------------------------------------------
\* "Idempotent org Stellar wallet provisioning", for any number of calls on any number of
\* nodes that overlap, lose answers and stop anywhere: an active account can receive USDC
\* and its secret is in custody, and an address that was paid is the wallet's still.
THEOREM AddressesAreKept == AccountSpec => []AddressIsKept
<1>1. AccountInit => Custody
  BY InitCustody
<1>2. Custody /\ [AccountNext]_bankVars => Custody'
  BY NextCustody
<1>3. Custody => AddressIsKept
  BY DEF Custody, RowsAreKept, PaymentsAreKept, AddressIsKept
<1>4. QED
  BY <1>1, <1>2, <1>3, PTL DEF AccountSpec

-----------------------------------------------------------------------------
(***************************************************************************)
(* Consumers, when no two callers make a user's USD row at once and no     *)
(* database statement outlasts the time limit of a run (Misfortunes = {}). *)
(* A run that may still write an address is the first of its user's chain, *)
(* so there is one at most, and it found no address; a user has one USD    *)
(* row at most; so an address that is written is never written over, and   *)
(* every copy of it is of the address itself.                              *)
(***************************************************************************)
MaybeKey == Keypairs \cup {NoAddress}

CallerLabels ==
  {"start", "insert", "ensured", "receive.load", "asset.load", "asset.pending",
   "asset.persisted", "asset.address", "asset.active", "asset.unready", "waiting", "read",
   "confirm", "threw", "failed", "done"}

\* Where a run may still write a row or an address.
Early == {"insert", "keys", "persist"}

RunLabels == {"none", "queued", "check", "row", "fund", "trust"} \cup Early

Copy == [caller : MaybeKey, run : MaybeKey, row : MaybeKey, asset : MaybeKey, runs : Nat]

AssetRow == [status : {"none", "PENDING", "ACTIVE", "FAILED"}, address : MaybeKey]

ProvisionTyped ==
  /\ usdRows \in [Users -> Seq(MaybeKey)]
  /\ assetRow \in [Users -> AssetRow]
  /\ stellar \in [Keypairs -> Nat]
  /\ queue \in [Users -> Seq(Provisions)]
  /\ caller \in [Provisions -> CallerLabels]
  /\ run \in [Provisions -> RunLabels]
  /\ copy \in [Provisions -> Copy]
  /\ handed \in [Users -> SUBSET Keypairs]

\* A run that waits is in its user's chain; one that may write is the first of it.
InChain(c) ==
  /\ run[c] = "queued" => \E i \in 1..Len(queue[c.user]) : queue[c.user][i] = c
  /\ run[c] \in Early => Len(queue[c.user]) > 0 /\ queue[c.user][1] = c

\* A call has a run of its own only while its caller waits for it or is gone, and has
\* two runs at most.
Waits(c) ==
  /\ run[c] # "none" => caller[c] \in {"waiting", "done", "threw", "failed"} /\ copy[c].runs <= 1
  /\ caller[c] \notin {"asset.active", "asset.unready", "threw", "failed", "done"}
       => copy[c].runs <= 1

\* What a call holds is its user's address, except the new key that it writes where
\* there was none.
Holds(c) ==
  /\ run[c] = "persist" => Address(c.user) = NoAddress /\ copy[c].run \in Keypairs
  /\ run[c] \in {"fund", "trust"} => copy[c].run # NoAddress /\ copy[c].run = Address(c.user)
  /\ copy[c].caller # NoAddress => copy[c].caller = Address(c.user)
  /\ copy[c].asset # NoAddress => copy[c].asset = Address(c.user)
  /\ caller[c] = "confirm" => copy[c].caller # NoAddress
  /\ caller[c] = "asset.active" => copy[c].asset # NoAddress /\ stellar[copy[c].asset] > 1

\* A user has one USD row at most, and one caller or run that is about to make it.
OneRow(u) ==
  /\ Len(usdRows[u]) <= 1
  /\ \A c, d \in Inserting(u) : c = d
  /\ Inserting(u) # {} => usdRows[u] = <<>>

\* What was given out, or says ACTIVE, is the address.
Promised(u) ==
  /\ \A k \in handed[u] : k = Address(u)
  /\ assetRow[u].status = "ACTIVE" =>
       /\ assetRow[u].address # NoAddress /\ assetRow[u].address = Address(u)
       /\ stellar[Address(u)] > 1

AccountsHaveRows == \A k \in Keypairs : stellar[k] > 0 => \E u \in Users : k = Address(u)

Provisioned ==
  /\ ProvisionTyped
  /\ \A c \in Provisions : InChain(c) /\ Waits(c) /\ Holds(c)
  /\ \A u \in Users : OneRow(u) /\ Promised(u)
  /\ AccountsHaveRows

-----------------------------------------------------------------------------
(* What a step of call c may do, so that the other calls keep what they hold. *)

Others(c) ==
  \A d \in Provisions \ {c} : caller'[d] = caller[d] /\ run'[d] = run[d] /\ copy'[d] = copy[d]

QueueMoves(c) ==
  \/ queue' = queue
  \/ queue' = [queue EXCEPT ![c.user] = Append(@, c)]
  \/ /\ Len(queue[c.user]) > 0 /\ queue[c.user][1] = c
     /\ queue' = [queue EXCEPT ![c.user] = Tail(@)]
     /\ run'[c] \notin Early \cup {"queued"}

Inserts(c) == caller[c] = "insert" \/ run[c] = "insert"

RowsMove(c) ==
  \/ /\ usdRows' = usdRows
     /\ Inserts(c)' => Inserts(c) \/ (Inserting(c.user) = {} /\ usdRows[c.user] = <<>>)
  \/ /\ Inserts(c) /\ ~Inserts(c)'
     /\ usdRows' = [usdRows EXCEPT ![c.user] = Append(@, NoAddress)]
  \/ /\ run[c] = "persist" /\ ~Inserts(c)' /\ run'[c] # "persist"
     /\ \E i \in DOMAIN usdRows[c.user] :
          usdRows' = [usdRows EXCEPT ![c.user] = [@ EXCEPT ![i] = copy[c].run]]

\* An address that is set stays, and Stellar forgets nothing.
Stable ==
  /\ \A u \in Users : Address(u) # NoAddress => Address(u)' = Address(u)
  /\ \A k \in Keypairs : stellar'[k] >= stellar[k]

\* A new row, or a write where the one row had no address, leaves every address that is
\* set, and every user of other calls that write.
LEMMA RowsAreStable ==
  ASSUME Provisioned, NEW c \in Provisions, RowsMove(c)
  PROVE  /\ \A u \in Users : Address(u) # NoAddress => Address(u)' = Address(u)
         /\ \A u \in Users : u # c.user => Address(u)' = Address(u)
         /\ run[c] # "persist" => \A u \in Users : Address(u)' = Address(u)
<1>1. c.user \in Users /\ usdRows \in [Users -> Seq(MaybeKey)]
  BY ProvisionsAssumption DEF Provisioned, ProvisionTyped
<1>2. CASE usdRows' = usdRows
  BY <1>2 DEF Address, HasRow
<1>3. CASE /\ Inserts(c)
           /\ usdRows' = [usdRows EXCEPT ![c.user] = Append(@, NoAddress)]
  <2>1. c \in Inserting(c.user) /\ usdRows[c.user] = <<>>
    BY <1>1, <1>3 DEF Inserts, Inserting, Provisioned, OneRow
  <2>2. Append(usdRows[c.user], NoAddress) = <<NoAddress>>
    BY <2>1
  <2>3. Address(c.user) = NoAddress
    BY <2>1 DEF Address, HasRow
  <2>4. usdRows'[c.user] = <<NoAddress>>
    BY <1>1, <1>3, <2>2
  <2>5. Address(c.user)' = NoAddress
    BY <2>4 DEF Address, HasRow
  <2>6. \A u \in Users \ {c.user} : usdRows'[u] = usdRows[u]
    BY <1>1, <1>3
  <2>7. QED
    BY <2>3, <2>5, <2>6 DEF Address, HasRow
<1>4. CASE /\ run[c] = "persist"
           /\ \E i \in DOMAIN usdRows[c.user] :
                usdRows' = [usdRows EXCEPT ![c.user] = [@ EXCEPT ![i] = copy[c].run]]
  <2>1. Address(c.user) = NoAddress
    BY <1>4 DEF Provisioned, Holds
  <2>2. \A u \in Users \ {c.user} : usdRows'[u] = usdRows[u]
    BY <1>1, <1>4
  <2>3. QED
    BY <1>4, <2>1, <2>2 DEF Address, HasRow
<1>5. QED
  BY <1>2, <1>3, <1>4 DEF RowsMove

\* The other calls stay where they were in their chains.
LEMMA OthersInChain ==
  ASSUME Provisioned, NEW c \in Provisions, Others(c), QueueMoves(c), NEW d \in Provisions \ {c}
  PROVE  InChain(d)'
<1>1. /\ queue \in [Users -> Seq(Provisions)] /\ c.user \in Users /\ d.user \in Users
      /\ InChain(d) /\ run'[d] = run[d]
  BY ProvisionsAssumption DEF Provisioned, ProvisionTyped, Others
<1>2. CASE queue' = queue
  BY <1>1, <1>2 DEF InChain
<1>3. CASE d.user # c.user /\ \E q : queue' = [queue EXCEPT ![c.user] = q]
  <2>1. queue'[d.user] = queue[d.user]
    BY <1>1, <1>3
  <2>2. QED
    BY <1>1, <2>1 DEF InChain
<1>4. CASE d.user = c.user /\ queue' = [queue EXCEPT ![c.user] = Append(@, c)]
  <2>. DEFINE q == queue[c.user]
  <2>1. queue'[d.user] = Append(q, c) /\ q \in Seq(Provisions)
    BY <1>1, <1>4
  <2>2. /\ Len(Append(q, c)) = Len(q) + 1
        /\ \A i \in 1..Len(q) : Append(q, c)[i] = q[i]
    BY <2>1
  <2>3. Len(q) \in Nat
    BY <2>1
  <2>4. QED
    BY <1>1, <1>4, <2>1, <2>2, <2>3 DEF InChain
<1>5. CASE /\ d.user = c.user
           /\ Len(queue[c.user]) > 0 /\ queue[c.user][1] = c
           /\ queue' = [queue EXCEPT ![c.user] = Tail(@)]
  <2>. DEFINE q == queue[c.user]
  <2>1. queue'[d.user] = Tail(q) /\ q \in Seq(Provisions) /\ q # <<>>
    BY <1>1, <1>5
  <2>2. /\ Len(Tail(q)) = Len(q) - 1
        /\ \A i \in 1..(Len(q) - 1) : Tail(q)[i] = q[i + 1]
    BY <2>1
  <2>3. run[d] \notin Early
    BY <1>1, <1>5 DEF InChain
  <2>4. ASSUME run[d] = "queued"
        PROVE  \E i \in 1..Len(Tail(q)) : Tail(q)[i] = d
    <3>1. PICK i \in 1..Len(q) : q[i] = d
      BY <1>1, <1>5, <2>4 DEF InChain
    <3>2. i # 1
      BY <1>5, <3>1
    <3>3. i - 1 \in 1..(Len(q) - 1) /\ Len(q) \in Nat
      BY <2>1, <3>1, <3>2
    <3>4. Tail(q)[i - 1] = q[(i - 1) + 1] /\ (i - 1) + 1 = i
      BY <2>2, <3>3
    <3>5. QED
      BY <2>2, <3>1, <3>3, <3>4
  <2>5. QED
    BY <1>1, <1>5, <2>1, <2>3, <2>4 DEF InChain
<1>6. QED
  BY <1>2, <1>3, <1>4, <1>5 DEF QueueMoves

\* A call that is left alone goes on holding what it should: only one run may write.
LEMMA OthersHold ==
  ASSUME Provisioned, NEW c \in Provisions, Others(c), RowsMove(c), Stable,
         ProvisionTyped', NEW d \in Provisions \ {c}
  PROVE  Waits(d)' /\ Holds(d)'
<1>1. /\ caller'[d] = caller[d] /\ run'[d] = run[d] /\ copy'[d] = copy[d]
      /\ Waits(d) /\ Holds(d) /\ InChain(d) /\ InChain(c)
  BY DEF Others, Provisioned
<1>2. /\ d.user \in Users /\ copy[d] \in Copy /\ stellar \in [Keypairs -> Nat]
  BY ProvisionsAssumption DEF Provisioned, ProvisionTyped
<1>3. Waits(d)'
  BY <1>1 DEF Waits
<1>4. run[d] = "persist" => Address(d.user)' = Address(d.user)
  <2>1. CASE run[c] = "persist" /\ run[d] = "persist"
    <3>1. queue[c.user][1] = c /\ queue[d.user][1] = d
      BY <1>1, <2>1 DEF InChain, Early
    <3>2. d.user # c.user
      BY <3>1
    <3>3. QED
      BY <1>2, <3>2, RowsAreStable
  <2>2. CASE run[c] # "persist"
    BY <1>2, <2>2, RowsAreStable
  <2>3. QED
    BY <2>1, <2>2
<1>5. copy[d].run # NoAddress /\ copy[d].run = Address(d.user) => copy[d].run = Address(d.user)'
  BY <1>2 DEF Stable
<1>6. /\ copy[d].caller # NoAddress => copy[d].caller = Address(d.user)'
      /\ copy[d].asset # NoAddress => copy[d].asset = Address(d.user)'
  BY <1>1, <1>2 DEF Holds, Stable
<1>7. caller[d] = "asset.active" => copy[d].asset # NoAddress /\ stellar'[copy[d].asset] > 1
  <2>. SUFFICES ASSUME caller[d] = "asset.active"
                PROVE  copy[d].asset # NoAddress /\ stellar'[copy[d].asset] > 1
    OBVIOUS
  <2>1. copy[d].asset # NoAddress /\ stellar[copy[d].asset] > 1
    BY <1>1 DEF Holds
  <2>2. copy[d].asset \in Keypairs
    BY <1>2, <2>1 DEF Copy, MaybeKey
  <2>3. /\ stellar[copy[d].asset] \in Nat /\ stellar'[copy[d].asset] \in Nat
        /\ stellar'[copy[d].asset] >= stellar[copy[d].asset]
    BY <1>2, <2>2 DEF Stable, ProvisionTyped
  <2>4. stellar'[copy[d].asset] > 1
    BY <2>1, <2>3
  <2>5. QED
    BY <2>1, <2>4
<1>8. Holds(d)'
  <2>1. run'[d] = "persist" => Address(d.user)' = NoAddress /\ copy'[d].run \in Keypairs
    BY <1>1, <1>4 DEF Holds
  <2>2. run'[d] \in {"fund", "trust"} =>
          copy'[d].run # NoAddress /\ copy'[d].run = Address(d.user)'
    BY <1>1, <1>5 DEF Holds
  <2>3. QED
    BY <1>1, <1>6, <1>7, <2>1, <2>2 DEF Holds
<1>9. QED
  BY <1>3, <1>8

\* No user gets a second USD row.
LEMMA OneRowStays ==
  ASSUME Provisioned, NEW c \in Provisions, Others(c), RowsMove(c), NEW u \in Users
  PROVE  OneRow(u)'
<1>1. /\ c.user \in Users /\ usdRows \in [Users -> Seq(MaybeKey)] /\ OneRow(u)
  BY ProvisionsAssumption DEF Provisioned, ProvisionTyped
<1>2. \A d \in Provisions \ {c} : d \in Inserting(u)' <=> d \in Inserting(u)
  BY DEF Inserting, Others
<1>3. /\ \A v \in Users : c \in Inserting(v) <=> (c.user = v /\ Inserts(c))
      /\ \A v \in Users : c \in Inserting(v)' <=> (c.user = v /\ Inserts(c)')
  BY DEF Inserting, Inserts
<1>4. Inserting(u) \subseteq Provisions /\ Inserting(u)' \subseteq Provisions
  BY DEF Inserting
<1>5. CASE /\ usdRows' = usdRows
           /\ Inserts(c)' => Inserts(c) \/ (Inserting(c.user) = {} /\ usdRows[c.user] = <<>>)
  <2>1. CASE Inserting(u)' \subseteq Inserting(u)
    BY <1>1, <1>5, <2>1 DEF OneRow
  <2>2. CASE c \in Inserting(u)' /\ c \notin Inserting(u)
    <3>1. Inserting(u) = {} /\ usdRows[u] = <<>>
      BY <1>1, <1>3, <1>5, <2>2
    <3>2. Inserting(u)' = {c}
      BY <1>2, <1>4, <2>2, <3>1
    <3>3. QED
      BY <1>1, <1>5, <3>1, <3>2 DEF OneRow
  <2>3. QED
    BY <1>2, <1>4, <2>1, <2>2
<1>6. CASE /\ Inserts(c) /\ ~Inserts(c)'
           /\ usdRows' = [usdRows EXCEPT ![c.user] = Append(@, NoAddress)]
  <2>1. CASE u = c.user
    <3>1. c \in Inserting(u) /\ c \notin Inserting(u)'
      BY <1>1, <1>3, <1>6, <2>1
    <3>2. Inserting(u) = {c} /\ usdRows[u] = <<>>
      BY <1>1, <3>1 DEF OneRow
    <3>3. Inserting(u)' = {}
      BY <1>2, <1>4, <3>1, <3>2
    <3>4. usdRows'[u] = <<NoAddress>>
      BY <1>1, <1>6, <2>1, <3>2
    <3>5. QED
      BY <3>3, <3>4 DEF OneRow
  <2>2. CASE u # c.user
    <3>1. usdRows'[u] = usdRows[u]
      BY <1>1, <1>6, <2>2
    <3>2. c \notin Inserting(u) /\ c \notin Inserting(u)'
      BY <1>1, <1>3, <2>2
    <3>3. Inserting(u)' \subseteq Inserting(u)
      BY <1>2, <1>4, <3>2
    <3>4. QED
      BY <1>1, <3>1, <3>3 DEF OneRow
  <2>3. QED
    BY <2>1, <2>2
<1>7. CASE /\ run[c] = "persist" /\ ~Inserts(c)'
           /\ \E i \in DOMAIN usdRows[c.user] :
                usdRows' = [usdRows EXCEPT ![c.user] = [@ EXCEPT ![i] = copy[c].run]]
  <2>1. Inserting(u)' \subseteq Inserting(u)
    BY <1>1, <1>2, <1>3, <1>4, <1>7
  <2>2. CASE u = c.user
    <3>1. usdRows[u] # <<>>
      BY <1>1, <1>7, <2>2
    <3>2. Len(usdRows'[u]) = Len(usdRows[u])
      BY <1>1, <1>7, <2>2
    <3>3. Inserting(u) = {} /\ Inserting(u)' = {}
      BY <1>1, <2>1, <3>1 DEF OneRow
    <3>4. QED
      BY <1>1, <3>2, <3>3 DEF OneRow
  <2>3. CASE u # c.user
    <3>1. usdRows'[u] = usdRows[u]
      BY <1>1, <1>7, <2>3
    <3>2. QED
      BY <1>1, <2>1, <3>1 DEF OneRow
  <2>4. QED
    BY <2>2, <2>3
<1>8. QED
  BY <1>5, <1>6, <1>7 DEF RowsMove

\* What was promised to a user is kept by a step that promises nothing.
LEMMA PromisesStay ==
  ASSUME Provisioned, ProvisionTyped', Stable, NEW u \in Users
  PROVE  /\ handed'[u] = handed[u] => \A k \in handed'[u] : k = Address(u)'
         /\ assetRow'[u] = assetRow[u] =>
              (assetRow'[u].status = "ACTIVE" =>
                 /\ assetRow'[u].address # NoAddress /\ assetRow'[u].address = Address(u)'
                 /\ stellar'[Address(u)'] > 1)
<1>1. /\ handed[u] \subseteq Keypairs /\ assetRow[u] \in AssetRow /\ Promised(u)
      /\ stellar \in [Keypairs -> Nat] /\ stellar' \in [Keypairs -> Nat]
  BY DEF Provisioned, ProvisionTyped
<1>2. NoAddress \notin Keypairs
  BY ProvisionsAssumption DEF Keypairs
<1>3. Address(u) # NoAddress => Address(u)' = Address(u)
  BY DEF Stable
<1>4. handed'[u] = handed[u] => \A k \in handed'[u] : k = Address(u)'
  BY <1>1, <1>2, <1>3 DEF Promised
<1>5. ASSUME assetRow[u].status = "ACTIVE"
      PROVE  /\ assetRow[u].address # NoAddress /\ assetRow[u].address = Address(u)'
             /\ stellar'[Address(u)'] > 1
  <2>1. /\ assetRow[u].address # NoAddress /\ assetRow[u].address = Address(u)
        /\ Address(u)' = Address(u) /\ stellar[Address(u)] > 1
    BY <1>1, <1>3, <1>5 DEF Promised
  <2>2. Address(u) \in Keypairs
    BY <1>1, <2>1 DEF AssetRow, MaybeKey
  <2>3. stellar'[Address(u)] >= stellar[Address(u)]
    BY <2>2 DEF Stable
  <2>4. stellar[Address(u)] \in Nat /\ stellar'[Address(u)] \in Nat
    BY <1>1, <2>2
  <2>5. QED
    BY <2>1, <2>3, <2>4
<1>6. QED
  BY <1>4, <1>5

\* A step of call c keeps the invariant when c itself holds what its new place asks for
\* and what it gives out or writes as ACTIVE is the address.
LEMMA CallKeeps ==
  ASSUME Provisioned, ProvisionTyped', NEW c \in Provisions,
         Others(c), QueueMoves(c), RowsMove(c),
         \A k \in Keypairs : \/ stellar'[k] = stellar[k]
                             \/ stellar'[k] >= stellar[k] /\ k = Address(c.user),
         InChain(c)', Waits(c)', Holds(c)',
         \A u \in Users : handed'[u] = handed[u] \/ \A k \in handed'[u] : k = Address(u)',
         \A u \in Users :
           \/ assetRow'[u] = assetRow[u]
           \/ assetRow'[u].status = "ACTIVE" =>
                /\ assetRow'[u].address # NoAddress /\ assetRow'[u].address = Address(u)'
                /\ stellar'[Address(u)'] > 1
  PROVE  Provisioned'
<1>1. /\ c.user \in Users /\ stellar \in [Keypairs -> Nat]
      /\ NoAddress \notin Keypairs
  BY ProvisionsAssumption DEF Provisioned, ProvisionTyped, Keypairs
<1>2. \A k \in Keypairs : stellar'[k] >= stellar[k]
  BY <1>1
<1>3. Stable
  BY <1>2, RowsAreStable DEF Stable
<1>4. \A d \in Provisions : InChain(d)' /\ Waits(d)' /\ Holds(d)'
  BY <1>3, OthersInChain, OthersHold
<1>5. \A u \in Users : OneRow(u)'
  BY OneRowStays
<1>6. \A u \in Users : Promised(u)'
  BY <1>3, PromisesStay DEF Promised
<1>7. AccountsHaveRows'
  <2>. SUFFICES ASSUME NEW k \in Keypairs, stellar'[k] > 0
                PROVE  \E u \in Users : k = Address(u)'
    BY DEF AccountsHaveRows
  <2>1. PICK u \in Users : k = Address(u)
    BY <1>1 DEF Provisioned, AccountsHaveRows
  <2>2. k # NoAddress
    BY <1>1
  <2>3. QED
    BY <1>3, <2>1, <2>2 DEF Stable
<1>8. QED
  BY <1>4, <1>5, <1>6, <1>7 DEF Provisioned

-----------------------------------------------------------------------------
\* The shapes of steps: only the caller moves, a run is queued, only the run moves.
LEMMA OnlyCallerMoves ==
  ASSUME Provisioned, NEW c \in Provisions, NEW label \in CallerLabels, OnlyCaller(c, label)
  PROVE  /\ caller' \in [Provisions -> CallerLabels] /\ caller'[c] = label
         /\ run' = run /\ queue' = queue
         /\ \A d \in Provisions \ {c} : caller'[d] = caller[d] /\ run'[d] = run[d]
         /\ QueueMoves(c) /\ InChain(c)'
<1>1. /\ caller \in [Provisions -> CallerLabels] /\ InChain(c)
  BY DEF Provisioned, ProvisionTyped
<1>2. caller' = [caller EXCEPT ![c] = label] /\ run' = run /\ queue' = queue
  BY DEF OnlyCaller, CallerAt
<1>3. QED
  BY <1>1, <1>2 DEF QueueMoves, InChain

\* A caller puts its run at the end of its user's chain.
LEMMA QueuedMoves ==
  ASSUME Provisioned, NEW c \in Provisions, Queued(c)
  PROVE  /\ caller' \in [Provisions -> CallerLabels] /\ caller'[c] = "waiting"
         /\ run' \in [Provisions -> RunLabels] /\ run'[c] = "queued"
         /\ queue' \in [Users -> Seq(Provisions)]
         /\ \A d \in Provisions \ {c} : caller'[d] = caller[d] /\ run'[d] = run[d]
         /\ QueueMoves(c) /\ InChain(c)'
<1>1. /\ caller \in [Provisions -> CallerLabels] /\ run \in [Provisions -> RunLabels]
      /\ queue \in [Users -> Seq(Provisions)] /\ c.user \in Users
  BY ProvisionsAssumption DEF Provisioned, ProvisionTyped
<1>2. /\ caller' = [caller EXCEPT ![c] = "waiting"] /\ run' = [run EXCEPT ![c] = "queued"]
      /\ queue' = [queue EXCEPT ![c.user] = Append(@, c)]
  BY DEF Queued, CallerAt, RunAt
<1>3. /\ caller' \in [Provisions -> CallerLabels] /\ caller'[c] = "waiting"
      /\ run' \in [Provisions -> RunLabels] /\ run'[c] = "queued"
      /\ \A d \in Provisions \ {c} : caller'[d] = caller[d] /\ run'[d] = run[d]
  BY <1>1, <1>2 DEF CallerLabels, RunLabels
<1>4. queue' \in [Users -> Seq(Provisions)] /\ queue'[c.user] = Append(queue[c.user], c)
  BY <1>1, <1>2
<1>5. InChain(c)'
  <2>1. queue[c.user] \in Seq(Provisions)
    BY <1>1
  <2>2. /\ Len(Append(queue[c.user], c)) = Len(queue[c.user]) + 1
        /\ Append(queue[c.user], c)[Len(queue[c.user]) + 1] = c
        /\ Len(queue[c.user]) \in Nat
    BY <2>1
  <2>3. QED
    BY <1>3, <1>4, <2>2 DEF InChain, Early
<1>6. QED
  BY <1>2, <1>3, <1>4, <1>5 DEF QueueMoves

\* A run goes on, at the head of the chain as long as it may write.
LEMMA OnlyRunMoves ==
  ASSUME Provisioned, NEW c \in Provisions, NEW label \in RunLabels,
         RunAt(c, label), WorkStep(c),
         label \in Early => Len(queue[c.user]) > 0 /\ queue[c.user][1] = c,
         label # "queued"
  PROVE  /\ run' \in [Provisions -> RunLabels] /\ run'[c] = label
         /\ caller' = caller /\ queue' = queue
         /\ \A d \in Provisions \ {c} : caller'[d] = caller[d] /\ run'[d] = run[d]
         /\ QueueMoves(c) /\ InChain(c)'
<1>1. run \in [Provisions -> RunLabels]
  BY DEF Provisioned, ProvisionTyped
<1>2. run' = [run EXCEPT ![c] = label] /\ caller' = caller /\ queue' = queue
  BY DEF WorkStep, RunAt
<1>3. QED
  BY <1>1, <1>2 DEF QueueMoves, InChain, Early

\* A run ends: the chain drops it if it is still the first, its caller hears if it waits.
LEMMA OverMoves ==
  ASSUME Provisioned, NEW c \in Provisions, NEW ok \in BOOLEAN, Over(c, ok)
  PROVE  /\ run' \in [Provisions -> RunLabels] /\ run'[c] = "none"
         /\ caller' \in [Provisions -> CallerLabels]
         /\ \/ caller'[c] = caller[c]
            \/ caller[c] = "waiting" /\ caller'[c] \in {"read", "threw"}
         /\ queue' \in [Users -> Seq(Provisions)]
         /\ \A d \in Provisions \ {c} : caller'[d] = caller[d] /\ run'[d] = run[d]
         /\ QueueMoves(c) /\ InChain(c)'
<1>1. /\ caller \in [Provisions -> CallerLabels] /\ run \in [Provisions -> RunLabels]
      /\ queue \in [Users -> Seq(Provisions)] /\ c.user \in Users
  BY ProvisionsAssumption DEF Provisioned, ProvisionTyped
<1>2. run' = [run EXCEPT ![c] = "none"]
  BY DEF Over, RunAt
<1>3. /\ run' \in [Provisions -> RunLabels] /\ run'[c] = "none"
      /\ \A d \in Provisions \ {c} : run'[d] = run[d]
  BY <1>1, <1>2 DEF RunLabels
<1>4. InChain(c)'
  BY <1>3 DEF InChain, Early
<1>5. CASE queue[c.user] # <<>> /\ Head(queue[c.user]) = c
  <2>1. queue' = [queue EXCEPT ![c.user] = Tail(@)]
    BY <1>5 DEF Over
  <2>2. \/ caller' = caller
        \/ /\ caller[c] = "waiting"
           /\ \E l \in {"read", "threw"} : caller' = [caller EXCEPT ![c] = l]
    <3>1. CASE caller[c] = "waiting"
      <4>1. caller' = [caller EXCEPT ![c] = IF ok THEN "read" ELSE "threw"]
        BY <1>5, <3>1 DEF Over, CallerAt
      <4>2. (IF ok THEN "read" ELSE "threw") \in {"read", "threw"}
        OBVIOUS
      <4>3. QED
        BY <3>1, <4>1, <4>2
    <3>2. CASE caller[c] # "waiting"
      BY <1>5, <3>2 DEF Over
    <3>3. QED
      BY <3>1, <3>2
  <2>3. Len(queue[c.user]) > 0 /\ queue[c.user][1] = c /\ Tail(queue[c.user]) \in Seq(Provisions)
    BY <1>1, <1>5
  <2>4. queue' \in [Users -> Seq(Provisions)]
    BY <1>1, <2>1, <2>3
  <2>5. QueueMoves(c)
    BY <1>3, <2>1, <2>3 DEF QueueMoves, Early
  <2>6. QED
    BY <1>1, <1>3, <1>4, <2>2, <2>4, <2>5 DEF CallerLabels
<1>6. CASE ~(queue[c.user] # <<>> /\ Head(queue[c.user]) = c)
  <2>1. queue' = queue /\ caller' = caller
    BY <1>6 DEF Over
  <2>2. QueueMoves(c)
    BY <2>1 DEF QueueMoves
  <2>3. QED
    BY <1>1, <1>3, <1>4, <2>1, <2>2
<1>7. QED
  BY <1>5, <1>6

-----------------------------------------------------------------------------
\* Steps of a caller: what its next place asks of it.
LEMMA CallerKeeps ==
  ASSUME Provisioned, NEW c \in Provisions, NEW label \in CallerLabels, OnlyCaller(c, label),
         UNCHANGED stellar, RowsMove(c), usdRows' \in [Users -> Seq(MaybeKey)],
         copy' \in [Provisions -> Copy], \A d \in Provisions \ {c} : copy'[d] = copy[d],
         handed' \in [Users -> SUBSET Keypairs], assetRow' \in [Users -> AssetRow],
         run[c] = "none" \/ (label \in {"waiting", "done", "threw", "failed"} /\ copy'[c] = copy[c]),
         copy'[c].runs <= 1 \/ label \in {"asset.active", "asset.unready", "threw", "failed", "done"},
         Holds(c)',
         \A u \in Users : handed'[u] = handed[u] \/ \A k \in handed'[u] : k = Address(u)',
         \A u \in Users :
           \/ assetRow'[u] = assetRow[u]
           \/ assetRow'[u].status = "ACTIVE" =>
                /\ assetRow'[u].address # NoAddress /\ assetRow'[u].address = Address(u)'
                /\ stellar'[Address(u)'] > 1
  PROVE  Provisioned'
<1>1. /\ caller' \in [Provisions -> CallerLabels] /\ caller'[c] = label
      /\ run' = run /\ queue' = queue
      /\ \A d \in Provisions \ {c} : caller'[d] = caller[d] /\ run'[d] = run[d]
      /\ QueueMoves(c) /\ InChain(c)'
  BY OnlyCallerMoves
<1>2. ProvisionTyped'
  BY <1>1 DEF Provisioned, ProvisionTyped
<1>3. Others(c)
  BY <1>1 DEF Others
<1>4. Waits(c)'
  BY <1>1 DEF Provisioned, Waits
<1>5. QED
  BY <1>1, <1>2, <1>3, <1>4, CallKeeps

\* A caller that moves on with what it had, and neither confirms nor activates.
LEMMA CallerGoesOn ==
  ASSUME Provisioned, NEW c \in Provisions,
         NEW label \in CallerLabels \ {"confirm", "asset.active"}, OnlyCaller(c, label),
         UNCHANGED <<usdRows, stellar, copy>>,
         label = "insert" => Inserting(c.user) = {} /\ usdRows[c.user] = <<>>,
         run[c] = "none" \/ label \in {"waiting", "done", "threw", "failed"},
         copy[c].runs <= 1 \/ label \in {"asset.unready", "threw", "failed", "done"},
         handed' \in [Users -> SUBSET Keypairs], assetRow' \in [Users -> AssetRow],
         \A u \in Users : handed'[u] = handed[u] \/ \A k \in handed'[u] : k = Address(u),
         \A u \in Users :
           \/ assetRow'[u] = assetRow[u]
           \/ assetRow'[u].status = "ACTIVE" =>
                /\ assetRow'[u].address # NoAddress /\ assetRow'[u].address = Address(u)
                /\ stellar[Address(u)] > 1
  PROVE  Provisioned'
<1>1. /\ caller'[c] = label /\ run' = run
  BY OnlyCallerMoves
<1>2. Address(c.user)' = Address(c.user) /\ \A u \in Users : Address(u)' = Address(u)
  BY DEF Address, HasRow
<1>3. Holds(c)'
  BY <1>1, <1>2 DEF Provisioned, Holds
<1>4. RowsMove(c)
  BY <1>1 DEF RowsMove, Inserts
<1>5. /\ copy' \in [Provisions -> Copy] /\ usdRows' \in [Users -> Seq(MaybeKey)]
      /\ \A d \in Provisions \ {c} : copy'[d] = copy[d]
  BY DEF Provisioned, ProvisionTyped
<1>6. QED
  BY <1>2, <1>3, <1>4, <1>5, CallerKeeps

\* A caller queues its first or second run.
LEMMA QueuedKeeps ==
  ASSUME Provisioned, NEW c \in Provisions, Queued(c),
         UNCHANGED <<usdRows, assetRow, stellar, handed>>,
         copy' \in [Provisions -> Copy], \A d \in Provisions \ {c} : copy'[d] = copy[d],
         copy'[c].runs <= 1,
         copy'[c].caller = copy[c].caller,
         copy'[c].asset # NoAddress => copy'[c].asset = Address(c.user)
  PROVE  Provisioned'
<1>1. /\ caller' \in [Provisions -> CallerLabels] /\ caller'[c] = "waiting"
      /\ run' \in [Provisions -> RunLabels] /\ run'[c] = "queued"
      /\ queue' \in [Users -> Seq(Provisions)]
      /\ \A d \in Provisions \ {c} : caller'[d] = caller[d] /\ run'[d] = run[d]
      /\ QueueMoves(c) /\ InChain(c)'
  BY QueuedMoves
<1>2. ProvisionTyped'
  BY <1>1 DEF Provisioned, ProvisionTyped
<1>3. Others(c)
  BY <1>1 DEF Others
<1>4. Waits(c)'
  BY <1>1 DEF Waits
<1>5. Address(c.user)' = Address(c.user)
  BY DEF Address, HasRow
<1>6. Holds(c)'
  BY <1>1, <1>5 DEF Provisioned, Holds
<1>7. RowsMove(c)
  BY <1>1 DEF RowsMove, Inserts
<1>8. QED
  BY <1>1, <1>2, <1>3, <1>4, <1>6, <1>7, CallKeeps

-----------------------------------------------------------------------------
\* The address is what the one USD row holds, and can be read from it anywhere.
LEMMA AddressIsTheRow ==
  ASSUME Provisioned, NEW u \in Users
  PROVE  /\ Address(u) \in MaybeKey
         /\ HasRow(u) <=> usdRows[u] # <<>>
         /\ \A i \in DOMAIN usdRows[u] : i = 1 /\ usdRows[u][i] = Address(u)
<1>1. usdRows[u] \in Seq(MaybeKey) /\ Len(usdRows[u]) <= 1
  BY DEF Provisioned, ProvisionTyped, OneRow
<1>2. \A i \in DOMAIN usdRows[u] : i = 1 /\ usdRows[u] # <<>>
  BY <1>1
<1>3. usdRows[u] # <<>> => usdRows[u][1] \in MaybeKey
  BY <1>1
<1>4. QED
  BY <1>2, <1>3 DEF Address, HasRow, MaybeKey

\* Where a caller is before its run, it has none; what it looks at may be there or not.
LEMMA CallersBefore ==
  ASSUME Provisioned, NEW c \in Provisions,
         caller[c] \notin {"waiting", "done", "threw", "failed"}
  PROVE  /\ run[c] = "none"
         /\ caller[c] \notin {"asset.active", "asset.unready"} => copy[c].runs <= 1
BY DEF Provisioned, Waits

\* Callers up to their run: they make the row where nobody else does, queue a run, or
\* give out what the row holds.
LEMMA CallerStarts ==
  ASSUME Provisioned, Misfortunes = {}, NEW c \in Provisions,
         \/ StartProvision(c) \/ InsertRow(c) \/ Ensured(c) \/ ReceiveScreen(c)
         \/ ReceiveLoad(c)
  PROVE  Provisioned'
<1>. USE CallersBefore
<1>1. /\ c.user \in Users /\ handed \in [Users -> SUBSET Keypairs]
      /\ assetRow \in [Users -> AssetRow] /\ usdRows \in [Users -> Seq(MaybeKey)]
      /\ copy \in [Provisions -> Copy]
  BY ProvisionsAssumption DEF Provisioned, ProvisionTyped
<1>2. CASE StartProvision(c)
  <2>1. UNCHANGED <<usdRows, assetRow, copy, stellar, handed>> /\ caller[c] = "start"
    BY <1>2 DEF StartProvision, dbVars
  <2>2. \/ \E l \in {"ensured", "asset.load", "receive.load"} : OnlyCaller(c, l)
        \/ OnlyCaller(c, "insert") /\ MayInsert(c.user) /\ ~HasRow(c.user)
    BY <1>2, ProvisionsAssumption DEF StartProvision, Kinds
  <2>3. ASSUME NEW l \in {"ensured", "asset.load", "receive.load"}, OnlyCaller(c, l)
        PROVE  Provisioned'
    BY <1>1, <2>1, <2>3, CallerGoesOn DEF CallerLabels
  <2>4. CASE OnlyCaller(c, "insert") /\ MayInsert(c.user) /\ ~HasRow(c.user)
    <3>1. Inserting(c.user) = {} /\ usdRows[c.user] = <<>>
      BY <2>4 DEF MayInsert, HasRow
    <3>2. QED
      BY <1>1, <2>1, <2>4, <3>1, CallerGoesOn DEF CallerLabels
  <2>5. QED
    BY <2>2, <2>3, <2>4
<1>3. CASE InsertRow(c)
  <2>1. /\ UNCHANGED <<assetRow, copy, stellar, handed>> /\ caller[c] = "insert"
        /\ usdRows' = [usdRows EXCEPT ![c.user] = Append(@, NoAddress)]
        /\ OnlyCaller(c, "ensured")
    BY <1>3 DEF InsertRow
  <2>2. caller'[c] = "ensured" /\ run' = run
    BY <2>1, OnlyCallerMoves DEF CallerLabels
  <2>3. run[c] = "none" /\ copy[c].runs <= 1
    BY <2>1
  <2>4. RowsMove(c)
    BY <2>1, <2>2, <2>3 DEF RowsMove, Inserts
  <2>5. usdRows' \in [Users -> Seq(MaybeKey)]
    <3>1. usdRows[c.user] \in Seq(MaybeKey) /\ NoAddress \in MaybeKey
      BY <1>1 DEF MaybeKey
    <3>2. Append(usdRows[c.user], NoAddress) \in Seq(MaybeKey)
      BY <3>1
    <3>3. QED
      BY <1>1, <2>1, <3>2
  <2>6. \A u \in Users : Address(u)' = Address(u)
    BY <2>3, <2>4, RowsAreStable
  <2>7. Holds(c)'
    BY <1>1, <2>1, <2>2, <2>3, <2>6 DEF Provisioned, Holds
  <2>8. QED
    BY <1>1, <2>1, <2>3, <2>4, <2>5, <2>7, CallerKeeps DEF CallerLabels
<1>4. CASE Ensured(c)
  <2>1. UNCHANGED <<usdRows, assetRow, copy, stellar, handed>> /\ caller[c] = "ensured"
    BY <1>4 DEF Ensured, dbVars
  <2>2. OnlyCaller(c, "done") \/ Queued(c)
    BY <1>4 DEF Ensured
  <2>3. copy[c].asset # NoAddress => copy[c].asset = Address(c.user)
    BY DEF Provisioned, Holds
  <2>4. CASE Queued(c)
    BY <1>1, <2>1, <2>3, <2>4, QueuedKeeps
  <2>5. CASE OnlyCaller(c, "done")
    BY <1>1, <2>1, <2>5, CallerGoesOn DEF CallerLabels
  <2>6. QED
    BY <2>2, <2>4, <2>5
<1>5. CASE ReceiveScreen(c)
  <2>1. /\ UNCHANGED <<usdRows, assetRow, copy, stellar>> /\ caller[c] = "ensured"
        /\ OnlyCaller(c, "done")
    BY <1>5 DEF ReceiveScreen, dbVars
  <2>2. PICK i \in DOMAIN usdRows[c.user] :
          handed' = [handed EXCEPT ![c.user] = @ \cup ({usdRows[c.user][i]} \ {NoAddress})]
    BY <1>5 DEF ReceiveScreen
  <2>3. usdRows[c.user][i] = Address(c.user) /\ Address(c.user) \in MaybeKey
    BY <1>1, AddressIsTheRow
  <2>4. handed' \in [Users -> SUBSET Keypairs]
    BY <1>1, <2>2, <2>3 DEF MaybeKey
  <2>5. \A u \in Users : handed'[u] = handed[u] \/ \A k \in handed'[u] : k = Address(u)
    BY <1>1, <2>2, <2>3 DEF Provisioned, Promised
  <2>6. QED
    BY <1>1, <2>1, <2>4, <2>5, CallerGoesOn DEF CallerLabels
<1>6. CASE ReceiveLoad(c)
  <2>1. UNCHANGED <<usdRows, assetRow, copy, stellar>> /\ caller[c] = "receive.load"
    BY <1>6 DEF ReceiveLoad, dbVars
  <2>2. CASE Address(c.user) = NoAddress
    <3>1. Queued(c) /\ UNCHANGED handed
      BY <1>6, <2>2 DEF ReceiveLoad
    <3>2. copy[c].asset # NoAddress => copy[c].asset = Address(c.user)
      BY DEF Provisioned, Holds
    <3>3. QED
      BY <1>1, <2>1, <3>1, <3>2, QueuedKeeps
  <2>3. CASE Address(c.user) # NoAddress
    <3>1. /\ handed' = [handed EXCEPT ![c.user] = @ \cup {Address(c.user)}]
          /\ OnlyCaller(c, "done")
      BY <1>6, <2>3 DEF ReceiveLoad
    <3>2. Address(c.user) \in Keypairs
      BY <1>1, <2>3, AddressIsTheRow DEF MaybeKey
    <3>3. /\ handed' \in [Users -> SUBSET Keypairs]
          /\ \A u \in Users : handed'[u] = handed[u] \/ \A k \in handed'[u] : k = Address(u)
      BY <1>1, <3>1, <3>2 DEF Provisioned, Promised
    <3>4. QED
      BY <1>1, <2>1, <3>1, <3>3, CallerGoesOn DEF CallerLabels
  <2>4. QED
    BY <2>2, <2>3
<1>7. QED
  BY <1>2, <1>3, <1>4, <1>5, <1>6

\* The activation of an asset: what it writes as ACTIVE, and gives out, is the address
\* that it saw trusting.
LEMMA AssetKeeps ==
  ASSUME Provisioned, NEW c \in Provisions,
         AssetLoad(c) \/ AssetPending(c) \/ AssetPersisted(c) \/ AssetAddress(c) \/ AssetActive(c)
  PROVE  Provisioned'
<1>. USE CallersBefore
<1>1. /\ c.user \in Users /\ handed \in [Users -> SUBSET Keypairs]
      /\ assetRow \in [Users -> AssetRow] /\ usdRows \in [Users -> Seq(MaybeKey)]
      /\ copy \in [Provisions -> Copy] /\ copy[c] \in Copy /\ Holds(c)
      /\ Address(c.user) \in MaybeKey
  BY ProvisionsAssumption, AddressIsTheRow DEF Provisioned, ProvisionTyped
<1>2. CASE AssetLoad(c)
  <2>1. UNCHANGED <<usdRows, assetRow, stellar, handed>> /\ caller[c] = "asset.load"
    BY <1>2 DEF AssetLoad, dbVars
  <2>2. \/ OnlyCaller(c, "done") /\ UNCHANGED copy
        \/ /\ OnlyCaller(c, "asset.pending")
           /\ copy' = [copy EXCEPT ![c].row = assetRow[c.user].address]
    BY <1>2 DEF AssetLoad
  <2>3. CASE OnlyCaller(c, "done") /\ UNCHANGED copy
    BY <1>1, <2>1, <2>3, CallerGoesOn DEF CallerLabels
  <2>4. CASE /\ OnlyCaller(c, "asset.pending")
             /\ copy' = [copy EXCEPT ![c].row = assetRow[c.user].address]
    <3>1. assetRow[c.user].address \in MaybeKey
      BY <1>1 DEF AssetRow
    <3>2. /\ copy' \in [Provisions -> Copy] /\ \A d \in Provisions \ {c} : copy'[d] = copy[d]
          /\ copy'[c].caller = copy[c].caller /\ copy'[c].run = copy[c].run
          /\ copy'[c].asset = copy[c].asset /\ copy'[c].runs = copy[c].runs
      BY <1>1, <2>4, <3>1 DEF Copy
    <3>3. caller'[c] = "asset.pending" /\ run' = run
      BY <2>4, OnlyCallerMoves DEF CallerLabels
    <3>4. Address(c.user)' = Address(c.user)
      BY <2>1 DEF Address, HasRow
    <3>5. Holds(c)'
      BY <1>1, <2>1, <3>2, <3>3, <3>4 DEF Holds
    <3>6. RowsMove(c)
      BY <2>1, <3>3 DEF RowsMove, Inserts
    <3>7. QED
      BY <1>1, <2>1, <2>4, <3>2, <3>5, <3>6, CallerKeeps DEF CallerLabels
  <2>5. QED
    BY <2>2, <2>3, <2>4
<1>3. CASE AssetPending(c)
  <2>1. /\ UNCHANGED <<usdRows, copy, stellar, handed>> /\ caller[c] = "asset.pending"
        /\ OnlyCaller(c, "asset.persisted")
        /\ assetRow' = [assetRow EXCEPT ![c.user] = [status |-> "PENDING", address |-> copy[c].row]]
    BY <1>3 DEF AssetPending, Upserted
  <2>2. /\ assetRow' \in [Users -> AssetRow]
        /\ \A u \in Users : assetRow'[u] = assetRow[u] \/ assetRow'[u].status # "ACTIVE"
    BY <1>1, <2>1 DEF AssetRow, Copy
  <2>3. QED
    BY <1>1, <2>1, <2>2, CallerGoesOn DEF CallerLabels
<1>4. CASE AssetPersisted(c)
  <2>1. UNCHANGED <<usdRows, assetRow, copy, stellar, handed>> /\ caller[c] = "asset.persisted"
    BY <1>4 DEF AssetPersisted, dbVars
  <2>2. OnlyCaller(c, "asset.address") \/ Queued(c)
    BY <1>4 DEF AssetPersisted
  <2>3. CASE OnlyCaller(c, "asset.address")
    BY <1>1, <2>1, <2>3, CallerGoesOn DEF CallerLabels
  <2>4. CASE Queued(c)
    BY <1>1, <2>1, <2>4, QueuedKeeps DEF Holds
  <2>5. QED
    BY <2>2, <2>3, <2>4
<1>5. CASE AssetAddress(c)
  <2>. DEFINE k == IF copy[c].runs = 0 THEN Address(c.user) ELSE copy[c].asset
  <2>1. /\ UNCHANGED <<usdRows, assetRow, stellar, handed>> /\ caller[c] = "asset.address"
        /\ copy' = [copy EXCEPT ![c].asset = k, ![c].runs = @ + 1]
    BY <1>5 DEF AssetAddress, dbVars
  <2>2. k \in MaybeKey /\ (k # NoAddress => k = Address(c.user))
    BY <1>1 DEF Holds, Copy
  <2>3. /\ copy' \in [Provisions -> Copy] /\ \A d \in Provisions \ {c} : copy'[d] = copy[d]
        /\ copy'[c].caller = copy[c].caller /\ copy'[c].run = copy[c].run
        /\ copy'[c].asset = k /\ copy'[c].runs = copy[c].runs + 1
    BY <1>1, <2>1, <2>2 DEF Copy
  <2>4. PICK ready \in LookAtAsset(k) :
             CASE k = NoAddress -> OnlyCaller(c, "threw")
               [] k # NoAddress /\ ready -> OnlyCaller(c, "asset.active")
               [] k # NoAddress /\ ~ready /\ copy[c].runs = 0 -> Queued(c)
               [] OTHER -> OnlyCaller(c, "asset.unready")
    BY <1>5 DEF AssetAddress
  <2>5. \/ \E l \in {"threw", "asset.unready"} : OnlyCaller(c, l)
        \/ OnlyCaller(c, "asset.active") /\ k # NoAddress /\ ready
        \/ Queued(c) /\ copy[c].runs = 0
    <3>1. \/ OnlyCaller(c, "threw") \/ OnlyCaller(c, "asset.unready")
          \/ OnlyCaller(c, "asset.active") /\ k # NoAddress /\ ready
          \/ Queued(c) /\ copy[c].runs = 0
      BY <2>4, Zenon
    <3>2. QED
      BY <3>1
  <2>6. Address(c.user)' = Address(c.user)
    BY <2>1 DEF Address, HasRow
  <2>7. ASSUME NEW l \in {"threw", "asset.unready", "asset.active"}, OnlyCaller(c, l),
               l = "asset.active" => k # NoAddress /\ ready
        PROVE  Provisioned'
    <3>1. caller'[c] = l /\ run' = run /\ run[c] = "none"
      BY <2>1, <2>7, OnlyCallerMoves DEF CallerLabels
    <3>2. l = "asset.active" => stellar[k] > 1
      BY <2>4, <2>7 DEF LookAtAsset
    <3>3. Holds(c)'
      BY <1>1, <2>1, <2>2, <2>3, <2>6, <2>7, <3>1, <3>2 DEF Holds
    <3>4. RowsMove(c)
      BY <2>1, <2>7, <3>1 DEF RowsMove, Inserts
    <3>5. QED
      BY <1>1, <2>1, <2>3, <2>7, <3>1, <3>3, <3>4, CallerKeeps DEF CallerLabels
  <2>8. CASE Queued(c) /\ copy[c].runs = 0
    BY <1>1, <2>1, <2>2, <2>3, <2>8, QueuedKeeps
  <2>9. QED
    BY <2>5, <2>7, <2>8
<1>6. CASE AssetActive(c)
  <2>1. /\ UNCHANGED <<usdRows, copy, stellar>> /\ OnlyCaller(c, "done")
    BY <1>6 DEF AssetActive
  <2>2. copy[c].asset \in MaybeKey
    BY <1>1 DEF Copy
  <2>3. CASE /\ caller[c] = "asset.active"
             /\ assetRow' = [assetRow EXCEPT ![c.user] = [status |-> "ACTIVE", address |-> copy[c].asset]]
             /\ handed' = [handed EXCEPT ![c.user] = @ \cup {copy[c].asset}]
    <3>1. /\ copy[c].asset # NoAddress /\ copy[c].asset = Address(c.user)
          /\ stellar[Address(c.user)] > 1 /\ copy[c].asset \in Keypairs
      BY <1>1, <2>2, <2>3 DEF Holds, MaybeKey
    <3>2. /\ handed' \in [Users -> SUBSET Keypairs]
          /\ \A u \in Users : handed'[u] = handed[u] \/ \A k \in handed'[u] : k = Address(u)
      BY <1>1, <2>3, <3>1 DEF Provisioned, Promised
    <3>3. assetRow' \in [Users -> AssetRow]
      BY <1>1, <2>2, <2>3 DEF AssetRow
    <3>4. \A u \in Users :
            \/ assetRow'[u] = assetRow[u]
            \/ assetRow'[u].status = "ACTIVE" =>
                 /\ assetRow'[u].address # NoAddress /\ assetRow'[u].address = Address(u)
                 /\ stellar[Address(u)] > 1
      BY <1>1, <2>3, <3>1
    <3>5. QED
      BY <1>1, <2>1, <2>3, <3>2, <3>3, <3>4, CallerGoesOn DEF CallerLabels
  <2>4. CASE /\ caller[c] = "asset.unready" /\ UNCHANGED handed
             /\ assetRow' = [assetRow EXCEPT ![c.user] = [status |-> "FAILED", address |-> copy[c].asset]]
    <3>1. /\ assetRow' \in [Users -> AssetRow]
          /\ \A u \in Users : assetRow'[u] = assetRow[u] \/ assetRow'[u].status # "ACTIVE"
      BY <1>1, <2>2, <2>4 DEF AssetRow
    <3>2. QED
      BY <1>1, <2>1, <2>4, <3>1, CallerGoesOn DEF CallerLabels
  <2>5. QED
    BY <1>6, <2>3, <2>4 DEF AssetActive, Upserted
<1>7. QED
  BY <1>2, <1>3, <1>4, <1>5, <1>6

\* Callers after their run: they read the address, look at it again, and may give it out.
LEMMA CallerEnds ==
  ASSUME Provisioned, NEW c \in Provisions,
         ReceiveGivesUp(c) \/ ReadAddresses(c) \/ ConfirmAddresses(c) \/ Failed(c)
  PROVE  Provisioned'
<1>. USE CallersBefore
<1>1. /\ c.user \in Users /\ handed \in [Users -> SUBSET Keypairs]
      /\ assetRow \in [Users -> AssetRow] /\ usdRows \in [Users -> Seq(MaybeKey)]
      /\ copy \in [Provisions -> Copy] /\ copy[c] \in Copy /\ Holds(c)
      /\ Address(c.user) \in MaybeKey
  BY ProvisionsAssumption, AddressIsTheRow DEF Provisioned, ProvisionTyped
<1>2. CASE ReceiveGivesUp(c)
  <2>1. UNCHANGED <<usdRows, assetRow, copy, stellar, handed>> /\ OnlyCaller(c, "done")
    BY <1>2 DEF ReceiveGivesUp, dbVars
  <2>2. QED
    BY <1>1, <2>1, CallerGoesOn DEF CallerLabels
<1>3. CASE ReadAddresses(c)
  <2>1. /\ UNCHANGED <<usdRows, assetRow, stellar, handed>> /\ caller[c] = "read"
        /\ copy' = [copy EXCEPT ![c].caller = Address(c.user)]
    BY <1>3 DEF ReadAddresses, dbVars
  <2>2. PICK l \in {"threw", "confirm"} :
          OnlyCaller(c, l) /\ (l = "confirm" => Address(c.user) # NoAddress)
    <3>1. CASE Address(c.user) = NoAddress
      BY <1>3, <3>1 DEF ReadAddresses
    <3>2. CASE Address(c.user) # NoAddress
      BY <1>3, <3>2 DEF ReadAddresses
    <3>3. QED
      BY <3>1, <3>2
  <2>3. /\ copy' \in [Provisions -> Copy] /\ \A d \in Provisions \ {c} : copy'[d] = copy[d]
        /\ copy'[c].caller = Address(c.user) /\ copy'[c].run = copy[c].run
        /\ copy'[c].asset = copy[c].asset /\ copy'[c].runs = copy[c].runs
    BY <1>1, <2>1 DEF Copy
  <2>4. caller'[c] = l /\ run' = run /\ run[c] = "none" /\ copy[c].runs <= 1
    BY <2>1, <2>2, OnlyCallerMoves DEF CallerLabels
  <2>5. Address(c.user)' = Address(c.user)
    BY <2>1 DEF Address, HasRow
  <2>6. Holds(c)'
    BY <1>1, <2>1, <2>2, <2>3, <2>4, <2>5 DEF Holds
  <2>7. RowsMove(c)
    BY <2>1, <2>4 DEF RowsMove, Inserts
  <2>8. QED
    BY <1>1, <2>1, <2>2, <2>3, <2>4, <2>6, <2>7, CallerKeeps DEF CallerLabels
<1>4. CASE ConfirmAddresses(c)
  <2>1. UNCHANGED <<usdRows, assetRow, copy, stellar>> /\ caller[c] = "confirm"
    BY <1>4 DEF ConfirmAddresses, dbVars
  <2>2. copy[c].caller \in Keypairs /\ copy[c].caller = Address(c.user)
    BY <1>1, <2>1 DEF Holds, Copy, MaybeKey
  <2>3. handed' = handed \/ handed' = [handed EXCEPT ![c.user] = @ \cup {copy[c].caller}]
    BY <1>4 DEF ConfirmAddresses
  <2>4. \E l \in {"threw", "asset.address", "done"} : OnlyCaller(c, l)
    <3>1. OnlyCaller(c, "threw") \/ OnlyCaller(c, "asset.address") \/ OnlyCaller(c, "done")
      <4>1. PICK ready \in Look(Address(c.user)) :
              OnlyCaller(c, CASE ~ready -> "threw"
                              [] ready /\ c.kind = "asset" -> "asset.address"
                              [] OTHER -> "done")
        BY <1>4 DEF ConfirmAddresses
      <4>2. CASE ~ready
        BY <4>1, <4>2
      <4>3. CASE ready /\ c.kind = "asset"
        BY <4>1, <4>3
      <4>4. CASE ready /\ c.kind # "asset"
        BY <4>1, <4>4
      <4>5. QED
        BY <4>2, <4>3, <4>4
    <3>2. QED
      BY <3>1
  <2>5. /\ handed' \in [Users -> SUBSET Keypairs]
        /\ \A u \in Users : handed'[u] = handed[u] \/ \A k \in handed'[u] : k = Address(u)
    <3>1. CASE handed' = handed
      BY <1>1, <3>1
    <3>2. CASE handed' = [handed EXCEPT ![c.user] = @ \cup {copy[c].caller}]
      BY <1>1, <2>2, <3>2 DEF Provisioned, Promised
    <3>3. QED
      BY <2>3, <3>1, <3>2
  <2>6. QED
    BY <1>1, <2>1, <2>4, <2>5, CallerGoesOn DEF CallerLabels
<1>5. CASE Failed(c)
  <2>1. /\ UNCHANGED <<usdRows, copy, stellar, handed>> /\ OnlyCaller(c, "failed")
        /\ \/ assetRow' = assetRow
           \/ assetRow' = [assetRow EXCEPT ![c.user] = [status |-> "FAILED", address |-> copy[c].row]]
    BY <1>5 DEF Failed, Upserted
  <2>2. /\ assetRow' \in [Users -> AssetRow]
        /\ \A u \in Users : assetRow'[u] = assetRow[u] \/ assetRow'[u].status # "ACTIVE"
    <3>1. CASE assetRow' = assetRow
      BY <1>1, <3>1
    <3>2. CASE assetRow' = [assetRow EXCEPT ![c.user] = [status |-> "FAILED", address |-> copy[c].row]]
      BY <1>1, <3>2 DEF AssetRow, Copy
    <3>3. QED
      BY <2>1, <3>1, <3>2
  <2>3. QED
    BY <1>1, <2>1, <2>2, CallerGoesOn DEF CallerLabels
<1>6. QED
  BY <1>2, <1>3, <1>4, <1>5

-----------------------------------------------------------------------------
\* Steps of a run within its own work: nothing but the run, its copy and the rows change.
LEMMA RunKeeps ==
  ASSUME Provisioned, NEW c \in Provisions, NEW label \in RunLabels \ {"none", "queued"},
         RunAt(c, label), WorkStep(c), run[c] # "none",
         label \in Early => Len(queue[c.user]) > 0 /\ queue[c.user][1] = c,
         UNCHANGED <<assetRow, handed>>,
         RowsMove(c), usdRows' \in [Users -> Seq(MaybeKey)],
         copy' \in [Provisions -> Copy], \A d \in Provisions \ {c} : copy'[d] = copy[d],
         copy'[c].runs = copy[c].runs,
         copy'[c].caller = copy[c].caller, copy'[c].asset = copy[c].asset,
         stellar' \in [Keypairs -> Nat],
         \A k \in Keypairs : \/ stellar'[k] = stellar[k]
                             \/ stellar'[k] >= stellar[k] /\ k = Address(c.user),
         label = "persist" => Address(c.user)' = NoAddress /\ copy'[c].run \in Keypairs,
         label \in {"fund", "trust"} =>
           copy'[c].run # NoAddress /\ copy'[c].run = Address(c.user)'
  PROVE  Provisioned'
<1>1. /\ run' \in [Provisions -> RunLabels] /\ run'[c] = label
      /\ caller' = caller /\ queue' = queue
      /\ \A d \in Provisions \ {c} : caller'[d] = caller[d] /\ run'[d] = run[d]
      /\ QueueMoves(c) /\ InChain(c)'
  BY OnlyRunMoves
<1>2. ProvisionTyped'
  BY <1>1 DEF Provisioned, ProvisionTyped
<1>3. Others(c)
  BY <1>1 DEF Others
<1>4. Waits(c) /\ Holds(c) /\ c.user \in Users
  BY ProvisionsAssumption DEF Provisioned
<1>5. caller[c] \in {"waiting", "done", "threw", "failed"} /\ copy[c].runs <= 1
  BY <1>4 DEF Waits
<1>6. Waits(c)'
  BY <1>1, <1>5 DEF Waits
<1>7. Address(c.user) # NoAddress => Address(c.user)' = Address(c.user)
  BY <1>4, RowsAreStable
<1>8. Holds(c)'
  BY <1>1, <1>4, <1>5, <1>7 DEF Holds
<1>9. QED
  BY <1>1, <1>2, <1>3, <1>6, <1>8, CallKeeps

\* A run that is over, whether or not it opened an account or made a trustline last.
LEMMA OverKeeps ==
  ASSUME Provisioned, NEW c \in Provisions, NEW ok \in BOOLEAN, Over(c, ok), run[c] # "none",
         UNCHANGED <<usdRows, assetRow, copy, handed>>,
         stellar' \in [Keypairs -> Nat],
         \A k \in Keypairs : \/ stellar'[k] = stellar[k]
                             \/ stellar'[k] >= stellar[k] /\ k = Address(c.user)
  PROVE  Provisioned'
<1>1. /\ run' \in [Provisions -> RunLabels] /\ run'[c] = "none"
      /\ caller' \in [Provisions -> CallerLabels]
      /\ \/ caller'[c] = caller[c]
         \/ caller[c] = "waiting" /\ caller'[c] \in {"read", "threw"}
      /\ queue' \in [Users -> Seq(Provisions)]
      /\ \A d \in Provisions \ {c} : caller'[d] = caller[d] /\ run'[d] = run[d]
      /\ QueueMoves(c) /\ InChain(c)'
  BY OverMoves
<1>2. ProvisionTyped'
  BY <1>1 DEF Provisioned, ProvisionTyped
<1>3. Others(c)
  BY <1>1 DEF Others
<1>4. Waits(c) /\ Holds(c)
  BY DEF Provisioned
<1>5. caller[c] \in {"waiting", "done", "threw", "failed"} /\ copy[c].runs <= 1
  BY <1>4 DEF Waits
<1>6. Waits(c)'
  BY <1>1, <1>5 DEF Waits
<1>7. Address(c.user)' = Address(c.user)
  BY DEF Address, HasRow
<1>8. Holds(c)'
  BY <1>1, <1>4, <1>5, <1>7 DEF Holds
<1>9. RowsMove(c)
  BY <1>1, <1>5 DEF RowsMove, Inserts
<1>10. QED
  BY <1>1, <1>2, <1>3, <1>6, <1>8, <1>9, CallKeeps

\* A run up to the write of new keys: it is the first of the chain all along.
LEMMA RunWrites ==
  ASSUME Provisioned, Misfortunes = {}, NEW c \in Provisions,
         \/ RunStarts(c) \/ RunInserts(c) \/ ensureCryptoKeyMaterial(c) \/ persistCryptoWallet(c)
  PROVE  Provisioned'
<1>1. /\ c.user \in Users /\ usdRows \in [Users -> Seq(MaybeKey)] /\ stellar \in [Keypairs -> Nat]
      /\ queue \in [Users -> Seq(Provisions)] /\ run \in [Provisions -> RunLabels]
      /\ copy \in [Provisions -> Copy] /\ copy[c] \in Copy /\ Holds(c) /\ InChain(c) /\ Waits(c)
  BY ProvisionsAssumption DEF Provisioned, ProvisionTyped
<1>2. /\ run[c] = "queued" \/ run[c] \in Early
      /\ Len(queue[c.user]) > 0 /\ queue[c.user][1] = c
  <2>1. CASE RunStarts(c)
    <3>1. run[c] = "queued" /\ Head(queue[c.user]) = c
      BY <2>1 DEF RunStarts
    <3>2. queue[c.user] \in Seq(Provisions) /\ Len(queue[c.user]) > 0
      BY <1>1, <3>1 DEF InChain
    <3>3. queue[c.user][1] = c
      BY <3>1, <3>2
    <3>4. QED
      BY <3>1, <3>2, <3>3
  <2>2. CASE RunInserts(c) \/ ensureCryptoKeyMaterial(c) \/ persistCryptoWallet(c)
    BY <1>1, <2>2 DEF InChain, Early, RunInserts, ensureCryptoKeyMaterial, persistCryptoWallet
  <2>3. QED
    BY <2>1, <2>2
<1>3. run[c] # "none" /\ caller[c] # "insert" /\ copy[c].runs <= 1
  BY <1>1, <1>2 DEF Early, Waits
<1>4. UNCHANGED <<assetRow, stellar, handed>> /\ WorkStep(c)
  BY DEF RunStarts, RunInserts, ensureCryptoKeyMaterial, persistCryptoWallet, dbVars
<1>5. caller' = caller
  BY <1>4 DEF WorkStep
<1>6. CASE RunStarts(c)
  <2>1. UNCHANGED <<usdRows, copy>>
    BY <1>6 DEF RunStarts, dbVars
  <2>2. PICK l \in {"keys", "insert"} :
          /\ RunAt(c, l)
          /\ l = "insert" => MayInsert(c.user) /\ ~HasRow(c.user)
    BY <1>6 DEF RunStarts
  <2>3. run'[c] = l
    BY <1>1, <2>2 DEF RunAt
  <2>4. l = "insert" => Inserting(c.user) = {} /\ usdRows[c.user] = <<>>
    BY <2>2 DEF MayInsert, HasRow
  <2>5. RowsMove(c)
    BY <1>3, <1>5, <2>1, <2>3, <2>4 DEF RowsMove, Inserts
  <2>6. QED
    BY <1>1, <1>2, <1>3, <1>4, <2>1, <2>2, <2>5, RunKeeps DEF RunLabels, Early
<1>7. CASE RunInserts(c)
  <2>1. /\ UNCHANGED copy /\ RunAt(c, "keys") /\ run[c] = "insert"
        /\ usdRows' = [usdRows EXCEPT ![c.user] = Append(@, NoAddress)]
    BY <1>7 DEF RunInserts
  <2>2. run'[c] = "keys"
    BY <1>1, <2>1 DEF RunAt
  <2>3. RowsMove(c)
    BY <1>3, <1>5, <2>1, <2>2 DEF RowsMove, Inserts
  <2>4. usdRows' \in [Users -> Seq(MaybeKey)]
    <3>1. usdRows[c.user] \in Seq(MaybeKey) /\ NoAddress \in MaybeKey
      BY <1>1 DEF MaybeKey
    <3>2. Append(usdRows[c.user], NoAddress) \in Seq(MaybeKey)
      BY <3>1
    <3>3. QED
      BY <1>1, <2>1, <3>2
  <2>5. QED
    BY <1>1, <1>2, <1>3, <1>4, <2>1, <2>3, <2>4, RunKeeps DEF RunLabels, Early
<1>8. CASE ensureCryptoKeyMaterial(c)
  <2>1. UNCHANGED usdRows /\ run[c] = "keys"
    BY <1>8 DEF ensureCryptoKeyMaterial, dbVars
  <2>2. Address(c.user)' = Address(c.user)
    BY <2>1 DEF Address, HasRow
  <2>3. CASE Address(c.user) # NoAddress
    <3>1. RunAt(c, "check") /\ UNCHANGED copy
      BY <1>8, <2>3 DEF ensureCryptoKeyMaterial
    <3>2. RowsMove(c)
      BY <1>1, <1>3, <1>5, <2>1, <3>1 DEF RowsMove, Inserts, RunAt
    <3>3. QED
      BY <1>1, <1>2, <1>3, <1>4, <2>1, <3>1, <3>2, RunKeeps DEF RunLabels, Early
  <2>4. CASE Address(c.user) = NoAddress
    <3>1. RunAt(c, "persist") /\ copy' = [copy EXCEPT ![c].run = NewKey(c)]
      BY <1>8, <2>4 DEF ensureCryptoKeyMaterial
    <3>2. NewKey(c) \in Keypairs
      <4>1. copy[c].runs \in Nat /\ copy[c].runs <= 1
        BY <1>1, <1>3 DEF Copy
      <4>2. copy[c].runs = 0 \/ copy[c].runs = 1
        BY <4>1
      <4>3. QED
        BY <4>2 DEF NewKey, Keypairs
    <3>3. /\ copy' \in [Provisions -> Copy] /\ \A d \in Provisions \ {c} : copy'[d] = copy[d]
          /\ copy'[c].run = NewKey(c) /\ copy'[c].runs = copy[c].runs
          /\ copy'[c].caller = copy[c].caller /\ copy'[c].asset = copy[c].asset
      BY <1>1, <3>1, <3>2 DEF Copy, MaybeKey
    <3>4. RowsMove(c)
      BY <1>1, <1>3, <1>5, <2>1, <3>1 DEF RowsMove, Inserts, RunAt
    <3>5. QED
      BY <1>1, <1>2, <1>3, <1>4, <2>1, <2>2, <2>4, <3>1, <3>2, <3>3, <3>4, RunKeeps
         DEF RunLabels, Early
  <2>5. QED
    BY <2>3, <2>4
<1>9. CASE persistCryptoWallet(c)
  <2>1. UNCHANGED copy /\ RunAt(c, "check") /\ run[c] = "persist"
    BY <1>9 DEF persistCryptoWallet
  <2>2. PICK i \in DOMAIN usdRows[c.user] :
          usdRows' = [usdRows EXCEPT ![c.user] = [@ EXCEPT ![i] = copy[c].run]]
    BY <1>9 DEF persistCryptoWallet
  <2>3. run'[c] = "check"
    BY <1>1, <2>1 DEF RunAt
  <2>4. RowsMove(c)
    BY <1>3, <1>5, <2>1, <2>2, <2>3 DEF RowsMove, Inserts
  <2>5. usdRows' \in [Users -> Seq(MaybeKey)]
    <3>1. usdRows[c.user] \in Seq(MaybeKey) /\ copy[c].run \in MaybeKey
      BY <1>1 DEF Copy
    <3>2. [usdRows[c.user] EXCEPT ![i] = copy[c].run] \in Seq(MaybeKey)
      BY <2>2, <3>1
    <3>3. QED
      BY <1>1, <2>2, <3>2
  <2>6. QED
    BY <1>1, <1>3, <1>4, <2>1, <2>4, <2>5, RunKeeps DEF RunLabels, Early
<1>10. QED
  BY <1>6, <1>7, <1>8, <1>9

\* A run from the write on: it funds and equips the account of its user's address.
LEMMA RunProvisions ==
  ASSUME Provisioned, NEW c \in Provisions,
         RunChecks(c) \/ RunReads(c) \/ fundStellarAccount(c) \/ addReceiveTrustlines(c)
  PROVE  Provisioned'
<1>1. /\ c.user \in Users /\ usdRows \in [Users -> Seq(MaybeKey)] /\ stellar \in [Keypairs -> Nat]
      /\ copy \in [Provisions -> Copy] /\ copy[c] \in Copy /\ Holds(c) /\ Waits(c)
      /\ run \in [Provisions -> RunLabels] /\ Address(c.user) \in MaybeKey
  BY ProvisionsAssumption, AddressIsTheRow DEF Provisioned, ProvisionTyped
<1>2. UNCHANGED <<usdRows, assetRow, handed>> /\ run[c] \in {"check", "row", "fund", "trust"}
  BY DEF RunChecks, RunReads, fundStellarAccount, addReceiveTrustlines, dbVars
<1>3. caller[c] # "insert"
  BY <1>1, <1>2 DEF Waits
<1>4. Address(c.user)' = Address(c.user)
  BY <1>2 DEF Address, HasRow
<1>5. ASSUME NEW l \in {"row", "fund", "trust"}, RunAt(c, l), WorkStep(c)
      PROVE  RowsMove(c)
  <2>1. run'[c] = l /\ caller' = caller
    BY <1>1, <1>5 DEF RunAt, WorkStep
  <2>2. QED
    BY <1>2, <1>3, <2>1 DEF RowsMove, Inserts
<1>6. CASE RunChecks(c)
  <2>1. UNCHANGED <<copy, stellar>>
    BY <1>6 DEF RunChecks
  <2>2. \/ Over(c, TRUE) \/ Over(c, FALSE)
        \/ RunAt(c, "row") /\ WorkStep(c)
    BY <1>6, Zenon DEF RunChecks
  <2>3. CASE Over(c, TRUE) \/ Over(c, FALSE)
    BY <1>1, <1>2, <2>1, <2>3, OverKeeps
  <2>4. CASE RunAt(c, "row") /\ WorkStep(c)
    BY <1>1, <1>2, <1>5, <2>1, <2>4, RunKeeps DEF RunLabels, Early
  <2>5. QED
    BY <2>2, <2>3, <2>4
<1>7. CASE RunReads(c)
  <2>1. UNCHANGED stellar
    BY <1>7 DEF RunReads
  <2>2. CASE Address(c.user) = NoAddress
    <3>1. Over(c, FALSE) /\ UNCHANGED copy
      BY <1>7, <2>2 DEF RunReads
    <3>2. QED
      BY <1>1, <1>2, <2>1, <3>1, OverKeeps
  <2>3. CASE Address(c.user) # NoAddress
    <3>1. /\ copy' = [copy EXCEPT ![c].run = Address(c.user)]
          /\ RunAt(c, "fund") /\ WorkStep(c)
      BY <1>7, <2>3 DEF RunReads
    <3>2. /\ copy' \in [Provisions -> Copy] /\ \A d \in Provisions \ {c} : copy'[d] = copy[d]
          /\ copy'[c].run = Address(c.user) /\ copy'[c].runs = copy[c].runs
          /\ copy'[c].caller = copy[c].caller /\ copy'[c].asset = copy[c].asset
      BY <1>1, <3>1 DEF Copy
    <3>3. RowsMove(c)
      BY <1>5, <3>1
    <3>4. QED
      BY <1>1, <1>2, <1>4, <2>1, <2>3, <3>1, <3>2, <3>3, RunKeeps DEF RunLabels, Early
  <2>4. QED
    BY <2>2, <2>3
<1>8. CASE fundStellarAccount(c) \/ addReceiveTrustlines(c)
  <2>. DEFINE k == copy[c].run
  <2>1. /\ UNCHANGED copy /\ run[c] \in {"fund", "trust"}
        /\ k # NoAddress /\ k = Address(c.user) /\ k \in Keypairs
    BY <1>1, <1>8 DEF fundStellarAccount, addReceiveTrustlines, Holds, MaybeKey
  <2>2. stellar[k] \in Nat
    BY <1>1, <2>1
  <2>3. \/ stellar' = stellar
        \/ stellar[k] = 0 /\ stellar' = [stellar EXCEPT ![k] = 1]
        \/ stellar' = [stellar EXCEPT ![k] = @ + 1]
    BY <1>8, Zenon DEF fundStellarAccount, addReceiveTrustlines
  <2>4. \/ RunAt(c, "trust") /\ WorkStep(c)
        \/ Over(c, TRUE) \/ Over(c, FALSE)
    BY <1>8, Zenon DEF fundStellarAccount, addReceiveTrustlines
  <2>5. stellar' = stellar \/ \E n \in Nat : stellar' = [stellar EXCEPT ![k] = n] /\ n >= stellar[k]
    BY <2>2, <2>3
  <2>6. /\ stellar' \in [Keypairs -> Nat]
        /\ \A x \in Keypairs : \/ stellar'[x] = stellar[x]
                               \/ stellar'[x] >= stellar[x] /\ x = Address(c.user)
    <3>1. CASE stellar' = stellar
      BY <1>1, <3>1
    <3>2. CASE \E n \in Nat : stellar' = [stellar EXCEPT ![k] = n] /\ n >= stellar[k]
      <4>1. PICK n \in Nat : stellar' = [stellar EXCEPT ![k] = n] /\ n >= stellar[k]
        BY <3>2
      <4>2. stellar' \in [Keypairs -> Nat] /\ stellar'[k] = n
        BY <1>1, <2>1, <4>1
      <4>3. \A x \in Keypairs \ {k} : stellar'[x] = stellar[x]
        BY <1>1, <4>1
      <4>4. QED
        BY <2>1, <4>1, <4>2, <4>3
    <3>3. QED
      BY <2>5, <3>1, <3>2
  <2>7. CASE RunAt(c, "trust") /\ WorkStep(c)
    BY <1>1, <1>2, <1>4, <1>5, <2>1, <2>6, <2>7, RunKeeps DEF RunLabels, Early
  <2>8. CASE Over(c, TRUE) \/ Over(c, FALSE)
    BY <1>2, <2>1, <2>6, <2>8, OverKeeps
  <2>9. QED
    BY <2>4, <2>7, <2>8
<1>9. QED
  BY <1>6, <1>7, <1>8

\* A run that is given up can write no address any more, and the next one may start.
LEMMA TimeOutKeeps ==
  ASSUME Provisioned, Misfortunes = {}, NEW c \in Provisions, RunTimesOut(c)
  PROVE  Provisioned'
<1>1. /\ c.user \in Users /\ queue \in [Users -> Seq(Provisions)]
      /\ caller \in [Provisions -> CallerLabels] /\ Holds(c) /\ Waits(c)
  BY ProvisionsAssumption DEF Provisioned, ProvisionTyped
<1>2. /\ run[c] \in {"check", "row", "fund", "trust"}
      /\ queue[c.user] # <<>> /\ Head(queue[c.user]) = c
      /\ queue' = [queue EXCEPT ![c.user] = Tail(@)]
      /\ UNCHANGED <<usdRows, assetRow, run, copy, stellar, handed>>
  <2>1. Slow = {"check", "row", "fund", "trust"}
    BY DEF Slow
  <2>2. QED
    BY <2>1 DEF RunTimesOut, dbVars
<1>3. caller' = [caller EXCEPT ![c] = IF caller[c] = "waiting" THEN "threw" ELSE caller[c]]
  BY DEF RunTimesOut, CallerAt
<1>4. caller[c] \in {"waiting", "done", "threw", "failed"} /\ copy[c].runs <= 1
  BY <1>1, <1>2 DEF Waits
<1>5. /\ caller' \in [Provisions -> CallerLabels] /\ caller'[c] \in {"done", "threw", "failed"}
      /\ \A d \in Provisions \ {c} : caller'[d] = caller[d]
  <2>1. (IF caller[c] = "waiting" THEN "threw" ELSE caller[c]) \in {"done", "threw", "failed"}
    BY <1>4
  <2>2. QED
    BY <1>1, <1>3, <2>1 DEF CallerLabels
<1>6. /\ Len(queue[c.user]) > 0 /\ queue[c.user][1] = c
      /\ Tail(queue[c.user]) \in Seq(Provisions)
  BY <1>1, <1>2
<1>7. queue' \in [Users -> Seq(Provisions)]
  BY <1>1, <1>2, <1>6
<1>8. ProvisionTyped'
  BY <1>2, <1>5, <1>7 DEF Provisioned, ProvisionTyped
<1>9. QueueMoves(c)
  BY <1>2, <1>6 DEF QueueMoves, Early
<1>10. Others(c) /\ InChain(c)' /\ Waits(c)'
  BY <1>2, <1>4, <1>5 DEF Others, InChain, Early, Waits
<1>11. Address(c.user)' = Address(c.user)
  BY <1>2 DEF Address, HasRow
<1>12. Holds(c)'
  BY <1>1, <1>2, <1>5, <1>11 DEF Holds
<1>13. RowsMove(c)
  BY <1>2, <1>5 DEF RowsMove, Inserts
<1>14. QED
  BY <1>2, <1>8, <1>9, <1>10, <1>12, <1>13, CallKeeps

-----------------------------------------------------------------------------
\* A restart ends every run and every caller, and no row.
LEMMA RestartKeeps ==
  ASSUME Provisioned, Restarts
  PROVE  Provisioned'
<1>1. /\ UNCHANGED <<usdRows, assetRow, copy, stellar, handed>>
      /\ queue' = [u \in Users |-> <<>>]
      /\ caller' = [c \in Provisions |-> IF caller[c] \in {"start", "done"} THEN caller[c] ELSE "failed"]
      /\ run' = [c \in Provisions |-> "none"]
  BY DEF Restarts, dbVars
<1>2. \A c \in Provisions :
        /\ run'[c] = "none" /\ caller'[c] \in {"start", "done", "failed"}
        /\ caller'[c] = "start" => caller[c] = "start"
  <2>. SUFFICES ASSUME NEW c \in Provisions
                PROVE  /\ run'[c] = "none" /\ caller'[c] \in {"start", "done", "failed"}
                       /\ caller'[c] = "start" => caller[c] = "start"
    OBVIOUS
  <2>1. CASE caller[c] \in {"start", "done"}
    BY <1>1, <2>1
  <2>2. CASE caller[c] \notin {"start", "done"}
    BY <1>1, <2>2
  <2>3. QED
    BY <2>1, <2>2
<1>3. ProvisionTyped'
  <2>1. queue' \in [Users -> Seq(Provisions)]
    <3>1. <<>> \in Seq(Provisions)
      OBVIOUS
    <3>2. QED
      BY <1>1, <3>1
  <2>2. run' \in [Provisions -> RunLabels]
    BY <1>1 DEF RunLabels
  <2>3. caller' \in [Provisions -> CallerLabels]
    BY <1>1, <1>2 DEF CallerLabels
  <2>4. QED
    BY <1>1, <2>1, <2>2, <2>3 DEF Provisioned, ProvisionTyped
<1>4. \A u \in Users : Address(u)' = Address(u)
  BY <1>1 DEF Address, HasRow
<1>5. ASSUME NEW c \in Provisions
      PROVE  InChain(c)' /\ Waits(c)' /\ Holds(c)'
  <2>1. InChain(c)' /\ Waits(c)'
    BY <1>1, <1>2 DEF Provisioned, InChain, Early, Waits
  <2>2. Holds(c)'
    BY <1>1, <1>2, <1>4, ProvisionsAssumption DEF Provisioned, Holds
  <2>3. QED
    BY <2>1, <2>2
<1>6. ASSUME NEW u \in Users
      PROVE  OneRow(u)' /\ Promised(u)'
  <2>1. Inserting(u)' = {}
    BY <1>2 DEF Inserting
  <2>2. OneRow(u)'
    BY <1>1, <2>1 DEF Provisioned, OneRow
  <2>3. Promised(u)'
    BY <1>1, <1>4 DEF Provisioned, Promised
  <2>4. QED
    BY <2>2, <2>3
<1>7. AccountsHaveRows'
  BY <1>1, <1>4 DEF Provisioned, AccountsHaveRows
<1>8. QED
  BY <1>3, <1>5, <1>6, <1>7 DEF Provisioned

\* At the start there is no row, no account and no promise.
LEMMA InitProvisioned == ProvisionInit => Provisioned
<1>. SUFFICES ASSUME ProvisionInit PROVE Provisioned
  OBVIOUS
<1>1. ProvisionTyped
  BY DEF ProvisionInit, ProvisionTyped, MaybeKey, AssetRow, NoAsset, Copy, CallerLabels, RunLabels
<1>2. ASSUME NEW c \in Provisions
      PROVE  InChain(c) /\ Waits(c) /\ Holds(c)
  BY <1>2 DEF ProvisionInit, InChain, Waits, Holds, Early
<1>3. ASSUME NEW u \in Users
      PROVE  OneRow(u) /\ Promised(u)
  BY <1>3 DEF ProvisionInit, OneRow, Promised, Inserting, NoAsset
<1>4. AccountsHaveRows
  BY DEF ProvisionInit, AccountsHaveRows
<1>5. QED
  BY <1>1, <1>2, <1>3, <1>4 DEF Provisioned

\* Every step of callers and runs keeps the invariant.
LEMMA NextProvisioned ==
  ASSUME Misfortunes = {}, Provisioned, [ProvisionNext]_provisionVars
  PROVE  Provisioned'
<1>1. ASSUME NEW c \in Provisions, CallerStep(c)
      PROVE  Provisioned'
  BY <1>1, CallerStarts, AssetKeeps, CallerEnds DEF CallerStep
<1>2. ASSUME NEW c \in Provisions, RunStep(c)
      PROVE  Provisioned'
  BY <1>2, RunWrites, RunProvisions, TimeOutKeeps DEF RunStep
<1>3. CASE UNCHANGED provisionVars
  <2>1. UNCHANGED <<usdRows, assetRow, queue, caller, run, copy, stellar, handed>>
    BY <1>3 DEF provisionVars, dbVars, callVars
  <2>2. \A u : Address(u)' = Address(u) /\ Inserting(u)' = Inserting(u)
    BY <2>1 DEF Address, HasRow, Inserting
  <2>3. ProvisionTyped' /\ AccountsHaveRows'
    BY <2>1, <2>2 DEF Provisioned, ProvisionTyped, AccountsHaveRows
  <2>4. ASSUME NEW c \in Provisions
        PROVE  InChain(c)' /\ Waits(c)' /\ Holds(c)'
    BY <2>1, <2>2, <2>4 DEF Provisioned, InChain, Waits, Holds
  <2>5. ASSUME NEW u \in Users
        PROVE  OneRow(u)' /\ Promised(u)'
    BY <2>1, <2>2, <2>5 DEF Provisioned, OneRow, Promised
  <2>6. QED
    BY <2>3, <2>4, <2>5 DEF Provisioned
<1>4. ASSUME Restarts
      PROVE  Provisioned'
  BY <1>4, RestartKeeps
<1>5. QED
  BY <1>1, <1>2, <1>3, <1>4 DEF ProvisionNext

\* The invariant says what users were promised.
LEMMA ProvisionedIsForGood == Provisioned => AddressForGood
<1>. SUFFICES ASSUME Provisioned PROVE AddressForGood
  OBVIOUS
<1>1. NoAddress \notin Keypairs
  BY ProvisionsAssumption DEF Keypairs
<1>2. \A u \in Users : handed[u] \subseteq {Address(u)}
  BY DEF Provisioned, Promised
<1>3. \A u \in Users : assetRow[u].status = "ACTIVE" =>
        assetRow[u].address = Address(u) /\ stellar[Address(u)] > 1
  BY DEF Provisioned, Promised
<1>4. ASSUME NEW k \in Keypairs, stellar[k] > 0
      PROVE  \E u \in Users : k \in Held(u)
  <2>1. PICK u \in Users : k = Address(u)
    BY <1>4 DEF Provisioned, AccountsHaveRows
  <2>2. usdRows[u] # <<>> /\ k = usdRows[u][1] /\ k # NoAddress
    BY <1>1, <2>1 DEF Address, HasRow
  <2>3. 1 \in DOMAIN usdRows[u]
    BY <2>2 DEF Provisioned, ProvisionTyped
  <2>4. QED
    BY <2>2, <2>3 DEF Held
<1>5. QED
  BY <1>2, <1>3, <1>4 DEF AddressForGood

\* "Generate keys once, persist to DB before any on-chain funding (retries reuse same
\* address)", for any users, calls and trustlines: an address that was given out is the
\* user's for good, what says ACTIVE can receive, and no account was paid for whose key no
\* row holds.  It needs rows that are made once and runs whose statements end in time: the
\* code orders neither two first INSERTs nor a run that was given up in one.
THEOREM AddressesAreForGood == Misfortunes = {} => (ProvisionSpec => []AddressForGood)
<1>. SUFFICES ASSUME Misfortunes = {} PROVE ProvisionSpec => []AddressForGood
  OBVIOUS
<1>1. ProvisionInit => Provisioned
  BY InitProvisioned
<1>2. Provisioned /\ [ProvisionNext]_provisionVars => Provisioned'
  BY NextProvisioned
<1>3. Provisioned => AddressForGood
  BY ProvisionedIsForGood
<1>4. QED
  BY <1>1, <1>2, <1>3, PTL DEF ProvisionSpec
=============================================================================
