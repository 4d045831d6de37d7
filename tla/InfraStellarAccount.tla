------------------------- MODULE InfraStellarAccount -------------------------
(***************************************************************************)
(* The organisations' Stellar accounts: provisionOrgStellarAccount in mode *)
(* live with runLiveProvision (src/modules/infra/                          *)
(* infraStellarAccountService.ts) and the custody vault                    *)
(* (infraStellarCustody.ts), beside the deposits that such accounts        *)
(* receive.                                                                *)
(*                                                                         *)
(* A provisioner is one call at a time on one node of the server.  Calls   *)
(* of one node share the map provisionLocks, calls of two nodes share the  *)
(* database alone.  A node may stop at any await.                          *)
(***************************************************************************)
EXTENDS InfraStellarDeposit

CONSTANTS
  Newcomers,      \* wallets that may be without an account at the start
  Provisioners,   \* calls of provisionOrgStellarAccount
  Node,           \* provisioner -> the node it runs on
  MaxKeys         \* bound: keypairs that may be made

ASSUME NewcomersAssumption ==
  /\ Newcomers \subseteq Wallets
  /\ \A q \in OnchainRequests : q.from \notin Newcomers /\ q.to \notin Newcomers

VARIABLES
  acct,       \* wallet -> its infra_stellar_accounts row
  vault,      \* keys whose secret infra_stellar_custody holds
  opened,     \* key -> what Stellar has of it: "absent", "open", "trusting"
  prov,       \* provisioner -> where it is, for which wallet, with which key
  locks,      \* node -> wallet -> the run that provisionLocks holds
  paidTo      \* deposit -> the key it was paid to

accountVars == <<acct, vault, opened, prov, locks, paidTo>>
bankVars == <<everyVar, accountVars>>

NoKey == 0
NoRun == "none"
NoAccount == [status |-> "none", key |-> NoKey]
Resting == [at |-> "idle", wallet |-> Revenue, key |-> NoKey, behind |-> NoRun]

\* A wallet that has its account already has it under a key of its own name.
AccountInit ==
  /\ DepositInit
  /\ \E waiting \in SUBSET Newcomers :
       acct = [w \in Wallets |-> IF w \in waiting THEN NoAccount
                                ELSE [status |-> "active", key |-> w]]
  /\ vault = {w \in Wallets : acct[w] # NoAccount}
  /\ opened = [k \in Wallets \cup 1..MaxKeys |->
                 IF k \in vault THEN "trusting" ELSE "absent"]
  /\ prov = [p \in Provisioners |-> Resting]
  /\ locks = [n \in {Node[p] : p \in Provisioners} |-> [w \in Newcomers |-> NoRun]]
  /\ paidTo = [d \in Deposits |-> NoKey]

-----------------------------------------------------------------------------
At(p, label) == prov[p].at = label
MyRow(p) == acct[prov[p].wallet]
MoveOn(p, label) == prov' = [prov EXCEPT ![p].at = label]
RowIs(p, row) == acct' = [acct EXCEPT ![prov[p].wallet] = row]
Patched(p, status) == RowIs(p, [MyRow(p) EXCEPT !.status = status])

\* The run of p is over and leaves the map, whoever is in it by now.  A call that waited
\* for it looks at the row again, or throws what the run threw.
End(p, ok) ==
  /\ prov' = [x \in Provisioners |->
                IF x = p THEN Resting
                ELSE IF prov[x].behind # p THEN prov[x]
                ELSE IF ok THEN [prov[x] EXCEPT !.at = "again", !.behind = NoRun]
                ELSE Resting]
  /\ locks' = [locks EXCEPT ![Node[p]][prov[p].wallet] = NoRun]

provisionOrgStellarAccount(p, w) ==
  /\ At(p, "idle")
  /\ LET other == locks[Node[p]][w]
     IN IF other = NoRun
          THEN /\ prov' = [prov EXCEPT ![p] = [Resting EXCEPT !.at = "load", !.wallet = w]]
               /\ locks' = [locks EXCEPT ![Node[p]][w] = p]
          ELSE /\ prov' = [prov EXCEPT ![p] = [at |-> "waiting", wallet |-> w, key |-> NoKey,
                                               behind |-> other]]
               /\ UNCHANGED locks
  /\ UNCHANGED <<acct, vault, opened>>

LoadAgain(p) ==
  /\ At(p, "again")
  /\ IF MyRow(p).status = "active" THEN prov' = [prov EXCEPT ![p] = Resting] /\ UNCHANGED locks
     ELSE MoveOn(p, "load") /\ locks' = [locks EXCEPT ![Node[p]][prov[p].wallet] = p]
  /\ UNCHANGED <<acct, vault, opened>>

\* The row that is loaded first, or after a unique violation.
LoadAccount(p) ==
  /\ At(p, "load") \/ At(p, "reload")
  /\ CASE MyRow(p).status = "active" -> End(p, TRUE)
       [] MyRow(p) = NoAccount -> MoveOn(p, "create") /\ UNCHANGED locks
       [] OTHER -> /\ prov' = [prov EXCEPT ![p].at = "fund", ![p].key = MyRow(p).key]
                   /\ UNCHANGED locks
  /\ UNCHANGED <<acct, vault, opened>>

createKeypairAndStore(p) ==
  /\ At(p, "create")
  /\ \E k \in 1..MaxKeys :
       /\ k = Cardinality(vault \cap 1..MaxKeys) + 1
       /\ vault' = vault \cup {k}
       /\ prov' = [prov EXCEPT ![p].at = "insert", ![p].key = k]
  /\ UNCHANGED <<acct, opened, locks>>

\* Mutant: the later of two inserts wins.
InsertAccountOver(p) ==
  /\ At(p, "insert")
  /\ RowIs(p, [status |-> "provisioning", key |-> prov[p].key])
  /\ MoveOn(p, "fund")
  /\ UNCHANGED <<vault, opened, locks>>

InsertAccount(p) ==
  /\ At(p, "insert")
  /\ IF MyRow(p) = NoAccount
       THEN RowIs(p, [status |-> "provisioning", key |-> prov[p].key]) /\ MoveOn(p, "fund")
       ELSE MoveOn(p, "reload") /\ UNCHANGED acct
  /\ UNCHANGED <<vault, opened, locks>>

-----------------------------------------------------------------------------
(* runLiveProvision: what throws in it leads to the status 'failed'. *)

\* Friendbot, which does nothing for an account that is open; its answer may be lost.
fundWithFriendbot(p) ==
  /\ At(p, "fund")
  /\ \/ /\ opened' = [opened EXCEPT ![prov[p].key] = IF @ = "absent" THEN "open" ELSE @]
        /\ (MoveOn(p, "funded") \/ MoveOn(p, "failed"))
     \/ UNCHANGED opened /\ MoveOn(p, "failed")
  /\ UNCHANGED <<acct, vault, locks>>

\* The trustline is there already, or a transaction makes it; its answer may be lost too.
ensureUsdcTrustline(p) ==
  /\ At(p, "trust")
  /\ \/ /\ opened' = [opened EXCEPT ![prov[p].key] = "trusting"]
        /\ (MoveOn(p, "trusted") \/ MoveOn(p, "failed"))
     \/ UNCHANGED opened /\ MoveOn(p, "failed")
  /\ UNCHANGED <<acct, vault, locks>>

\* patchStatus: by id alone, whatever the status is by now.
patchStatus(p) ==
  /\ \/ At(p, "funded") /\ Patched(p, "xlm_ready") /\ MoveOn(p, "trust") /\ UNCHANGED locks
     \/ At(p, "trusted") /\ Patched(p, "trustline_ready") /\ MoveOn(p, "ready") /\ UNCHANGED locks
     \/ At(p, "ready") /\ Patched(p, "active") /\ End(p, TRUE)
     \/ At(p, "failed") /\ Patched(p, "failed") /\ End(p, FALSE)
  /\ UNCHANGED <<vault, opened>>

NodeStops(n) ==
  /\ \E p \in Provisioners : Node[p] = n /\ ~At(p, "idle")
  /\ prov' = [p \in Provisioners |-> IF Node[p] = n THEN Resting ELSE prov[p]]
  /\ locks' = [locks EXCEPT ![n] = [w \in Newcomers |-> NoRun]]
  /\ UNCHANGED <<acct, vault, opened>>

ProvisionStep(p) ==
  \/ LoadAgain(p) \/ LoadAccount(p) \/ createKeypairAndStore(p) \/ InsertAccount(p)
  \/ fundWithFriendbot(p) \/ ensureUsdcTrustline(p) \/ patchStatus(p)

-----------------------------------------------------------------------------
\* What arrives is paid to the address of the row, which Stellar allows once it trusts
\* USDC; creditVerifiedDeposit refuses what was paid to a wallet that is not active.
DepositsSeeAccounts ==
  LET came == arrived' \ arrived
      taken == {doc'[p] : p \in {x \in Procs : doc'[x] \notin {doc[x], NoRequest}}}
  IN /\ \A d \in came : acct[d.to] # NoAccount /\ opened[acct[d.to].key] = "trusting"
     /\ \A d \in taken : acct[d.to].status = "active"
     /\ paidTo' = [d \in Deposits |-> IF d \in came THEN acct[d.to].key ELSE paidTo[d]]

ProvisionAccount ==
  \/ \E p \in Provisioners, w \in Newcomers : provisionOrgStellarAccount(p, w)
  \/ \E p \in Provisioners : ProvisionStep(p)
  \/ \E n \in DOMAIN locks : NodeStops(n)

AccountNext ==
  \/ DepositNext /\ DepositsSeeAccounts /\ UNCHANGED <<acct, vault, opened, prov, locks>>
  \/ ProvisionAccount /\ UNCHANGED <<everyVar, paidTo>>

AccountSpec == AccountInit /\ [][AccountNext]_bankVars

-----------------------------------------------------------------------------
\* "Idempotent org Stellar wallet provisioning": an account that says "active" can receive
\* USDC, its secret is in custody, and an address that was paid is the wallet's still,
\* however calls of several nodes overlap and wherever they stop.
AddressIsKept ==
  /\ \A w \in Wallets :
       acct[w].status = "active" => acct[w].key \in vault /\ opened[acct[w].key] = "trusting"
  /\ \A d \in arrived : paidTo[d] = acct[d.to].key
=============================================================================
