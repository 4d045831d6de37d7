------------------------ MODULE CryptoWalletProvision ------------------------
(***************************************************************************)
(* A consumer's deposit addresses: the USD wallet row, its keys, the       *)
(* Stellar account and its trustlines (src/modules/payment/                *)
(* cryptoWalletProvision.ts), and the wallets per asset that are activated *)
(* on top of them (ensureWallet.ts, cryptoAssetWalletStore.ts).            *)
(*                                                                         *)
(* A provision is a caller and the run it asks for: a sign-in, a job that  *)
(* the app enqueues, the activation of an asset, a request for a deposit   *)
(* address, or the receive screen, which asks for none.  The runs for one  *)
(* user are chained in memory.  A run that takes too long is given up by   *)
(* its caller and by the chain, and goes on.                               *)
(***************************************************************************)
EXTENDS Naturals, Sequences, FiniteSets

CONSTANTS
  Users,
  Provisions,    \* [id, user, kind]
  Trustlines,    \* buildReceiveTrustlineAssets, counted; assets are activated on the first
  MasterFunds,   \* accounts that the master wallet can open
  NoAddress,
  Misfortunes    \* "rows": look-up and insert of a USD row overlap with another's;
                 \* "stall": a database statement outlasts PROVISION_HARD_TIMEOUT_MS

Kinds == {"sign-in", "job", "asset", "receive", "screen"}

ASSUME ProvisionsAssumption ==
  /\ \A c \in Provisions : c.user \in Users /\ c.kind \in Kinds
  /\ Trustlines \in Nat \ {0} /\ MasterFunds \in Nat
  /\ Misfortunes \subseteq {"rows", "stall"}
  /\ NoAddress \notin Provisions \X {0, 1}

VARIABLES
  usdRows,    \* user -> the keys in the USD rows of wallets, oldest row first
  stellar,    \* key -> 0, or 1 and the number of trustlines of an account on Stellar
  master,     \* accounts the master wallet can still open
  queue,      \* user -> the calls whose runs wait or run, provisionLocks
  caller,     \* call -> where its caller is
  run,        \* call -> where its run is
  copy,       \* call -> the keys that its caller and its run hold, those that the
              \* activation of an asset has from its row and for it, and earlier runs
  assetRow,   \* user -> its crypto_asset_wallets row of the asset
  handed      \* user -> the addresses it was given to receive at

dbVars == <<usdRows, assetRow>>
callVars == <<queue, caller, run, copy>>
provisionVars == <<dbVars, callVars, stellar, master, handed>>

NoAsset == [status |-> "none", address |-> NoAddress]

\* A key is named for the run that made it: a call has two runs at most, one after the
\* other, and each makes one key at most.
Keypairs == Provisions \X {0, 1}

ProvisionInit ==
  /\ usdRows = [u \in Users |-> <<>>]
  /\ assetRow = [u \in Users |-> NoAsset]
  /\ stellar = [k \in Keypairs |-> 0]
  /\ master = MasterFunds
  /\ queue = [u \in Users |-> <<>>]
  /\ caller = [c \in Provisions |-> "start"]
  /\ run = [c \in Provisions |-> "none"]
  /\ copy = [c \in Provisions |-> [caller |-> NoAddress, run |-> NoAddress,
                                  row |-> NoAddress, asset |-> NoAddress, runs |-> 0]]
  /\ handed = [u \in Users |-> {}]

-----------------------------------------------------------------------------
\* loadWalletRow: the oldest row.  The addresses of Stellar and of EVM are made and
\* written together and stand for each other.
HasRow(u) == usdRows[u] # <<>>
Address(u) == IF HasRow(u) THEN usdRows[u][1] ELSE NoAddress

Held(u) == {usdRows[u][i] : i \in DOMAIN usdRows[u]} \ {NoAddress}

\* A look at Horizon, which may fail.
FullyProvisioned(k) == k # NoAddress /\ stellar[k] = 1 + Trustlines
Look(k) == {FullyProvisioned(k), FALSE}
LookAtAsset(k) == {k # NoAddress /\ stellar[k] > 1, FALSE}

CallerAt(c, label) == caller' = [caller EXCEPT ![c] = label]
RunAt(c, label) == run' = [run EXCEPT ![c] = label]

\* queueProvisionForUser.
Queued(c) ==
  /\ queue' = [queue EXCEPT ![c.user] = Append(@, c)]
  /\ CallerAt(c, "waiting") /\ RunAt(c, "queued")

OnlyCaller(c, label) == CallerAt(c, label) /\ UNCHANGED <<queue, run>>

-----------------------------------------------------------------------------
(* Callers, up to the run. *)

\* The statements between which another caller may make the row too.
Inserting(u) ==
  {c \in Provisions : c.user = u /\ (caller[c] = "insert" \/ run[c] = "insert")}

MayInsert(u) == Inserting(u) = {} \/ "rows" \in Misfortunes

\* ensureUserLedgerWallets of a sign-in and of the receive screen, ensureUsdWalletRow of
\* a job; the others look at what they want first.
StartProvision(c) ==
  /\ caller[c] = "start"
  /\ CASE c.kind \in {"sign-in", "job", "screen"} ->
            IF HasRow(c.user) THEN OnlyCaller(c, "ensured")
            ELSE MayInsert(c.user) /\ OnlyCaller(c, "insert")
       [] c.kind = "asset" -> OnlyCaller(c, "asset.load")
       [] c.kind = "receive" -> OnlyCaller(c, "receive.load")
  /\ UNCHANGED <<dbVars, copy, stellar, master, handed>>

InsertRow(c) ==
  /\ caller[c] = "insert"
  /\ usdRows' = [usdRows EXCEPT ![c.user] = Append(@, NoAddress)]
  /\ OnlyCaller(c, "ensured")
  /\ UNCHANGED <<assetRow, copy, stellar, master, handed>>

\* bootstrapWalletsOnAuth goes on to provision; enqueueCryptoWalletProvision answers at
\* once if there is nothing to do.
Ensured(c) ==
  /\ caller[c] = "ensured" /\ c.kind # "screen"
  /\ \/ c.kind = "job" /\ FullyProvisioned(Address(c.user)) /\ OnlyCaller(c, "done")
     \/ Queued(c)
  /\ UNCHANGED <<dbVars, copy, stellar, master, handed>>

\* getReceiveCrypto shows what a USD row holds, read without an order.
ReceiveScreen(c) ==
  /\ caller[c] = "ensured" /\ c.kind = "screen"
  /\ \E i \in DOMAIN usdRows[c.user] :
       handed' = [handed EXCEPT ![c.user] = @ \cup ({usdRows[c.user][i]} \ {NoAddress})]
  /\ OnlyCaller(c, "done")
  /\ UNCHANGED <<dbVars, copy, stellar, master>>

\* resolveDayfiDepositAddress: an EVM address is given out as soon as it is stored.
ReceiveLoad(c) ==
  /\ caller[c] = "receive.load"
  /\ IF Address(c.user) = NoAddress THEN Queued(c) /\ UNCHANGED handed
     ELSE /\ handed' = [handed EXCEPT ![c.user] = @ \cup {Address(c.user)}]
          /\ OnlyCaller(c, "done")
  /\ UNCHANGED <<dbVars, copy, stellar, master>>

\* upsertCryptoAssetWallet.
Upserted(c, status, address) ==
  assetRow' = [assetRow EXCEPT ![c.user] = [status |-> status, address |-> address]]

\* stellarDayfiStrategy: an active row that can still receive is answered, any other is
\* written as PENDING first.
AssetLoad(c) ==
  /\ caller[c] = "asset.load"
  /\ LET row == assetRow[c.user]
     IN \/ /\ row.status = "ACTIVE" /\ TRUE \in LookAtAsset(row.address)
           /\ OnlyCaller(c, "done") /\ UNCHANGED copy
        \/ /\ OnlyCaller(c, "asset.pending")
           /\ copy' = [copy EXCEPT ![c].row = row.address]
  /\ UNCHANGED <<dbVars, stellar, master, handed>>

AssetPending(c) ==
  /\ caller[c] = "asset.pending"
  /\ Upserted(c, "PENDING", copy[c].row)
  /\ OnlyCaller(c, "asset.persisted")
  /\ UNCHANGED <<usdRows, copy, stellar, master, handed>>

AssetPersisted(c) ==
  /\ caller[c] = "asset.persisted"
  /\ \E ready \in Look(Address(c.user)) :
       IF ready THEN OnlyCaller(c, "asset.address") ELSE Queued(c)
  /\ UNCHANGED <<dbVars, copy, stellar, master, handed>>

-----------------------------------------------------------------------------
(* runProvisionWork. *)

WorkStep(c) == UNCHANGED <<queue, caller>>

\* A run starts when the one before it in the chain ended, or was given up.
RunStarts(c) ==
  /\ run[c] = "queued" /\ Head(queue[c.user]) = c
  /\ \/ HasRow(c.user) /\ RunAt(c, "keys")
     \/ ~HasRow(c.user) /\ MayInsert(c.user) /\ RunAt(c, "insert")
  /\ WorkStep(c) /\ UNCHANGED <<dbVars, copy, stellar, master, handed>>

RunInserts(c) ==
  /\ run[c] = "insert"
  /\ usdRows' = [usdRows EXCEPT ![c.user] = Append(@, NoAddress)]
  /\ RunAt(c, "keys")
  /\ WorkStep(c) /\ UNCHANGED <<assetRow, copy, stellar, master, handed>>

\* Keypair.random and its like: a key that nobody had before.
NewKey(c) == <<c, copy[c].runs>>

\* Mutant: keys are made anew until the account is ready.
ensureCryptoKeyMaterialAnew(c) ==
  /\ run[c] = "keys"
  /\ IF FullyProvisioned(Address(c.user)) THEN RunAt(c, "check") /\ UNCHANGED copy
     ELSE RunAt(c, "persist") /\ copy' = [copy EXCEPT ![c].run = NewKey(c)]
  /\ WorkStep(c) /\ UNCHANGED <<dbVars, stellar, master, handed>>

\* "Generate keys once": the keys of the oldest row are used if it has them.
ensureCryptoKeyMaterial(c) ==
  /\ run[c] = "keys"
  /\ IF Address(c.user) # NoAddress THEN RunAt(c, "check") /\ UNCHANGED copy
     ELSE RunAt(c, "persist") /\ copy' = [copy EXCEPT ![c].run = NewKey(c)]
  /\ WorkStep(c) /\ UNCHANGED <<dbVars, stellar, master, handed>>

\* The UPDATE picks a USD row without an order.
persistCryptoWallet(c) ==
  /\ run[c] = "persist"
  /\ \E i \in DOMAIN usdRows[c.user] : usdRows' = [usdRows EXCEPT ![c.user][i] = copy[c].run]
  /\ RunAt(c, "check")
  /\ WorkStep(c) /\ UNCHANGED <<assetRow, copy, stellar, master, handed>>

\* The run of c is over: its caller hears of it, and the next run may start, unless both
\* gave it up before.
Over(c, ok) ==
  /\ RunAt(c, "none")
  /\ IF queue[c.user] # <<>> /\ Head(queue[c.user]) = c
       THEN /\ queue' = [queue EXCEPT ![c.user] = Tail(@)]
            /\ IF caller[c] = "waiting"
                 THEN CallerAt(c, IF ok THEN "read" ELSE "threw")
                 ELSE UNCHANGED caller
       ELSE UNCHANGED <<queue, caller>>

\* isCryptoFullyProvisioned ends the run; else the master wallet must afford another
\* account.
RunChecks(c) ==
  /\ run[c] = "check"
  /\ \/ FullyProvisioned(Address(c.user)) /\ Over(c, TRUE)
     \/ IF master > 0 THEN RunAt(c, "row") /\ WorkStep(c) ELSE Over(c, FALSE)
     \/ Over(c, FALSE)
  /\ UNCHANGED <<dbVars, copy, stellar, master, handed>>

RunReads(c) ==
  /\ run[c] = "row"
  /\ IF Address(c.user) = NoAddress THEN Over(c, FALSE) /\ UNCHANGED copy
     ELSE /\ copy' = [copy EXCEPT ![c].run = Address(c.user)]
          /\ RunAt(c, "fund") /\ WorkStep(c)
  /\ UNCHANGED <<dbVars, stellar, master, handed>>

\* fundStellarAccount: an account that is open gets no more; a createAccount may be
\* refused, or its answer be lost.
fundStellarAccount(c) ==
  /\ run[c] = "fund"
  /\ LET k == copy[c].run
     IN \/ stellar[k] > 0 /\ RunAt(c, "trust") /\ WorkStep(c) /\ UNCHANGED <<stellar, master>>
        \/ /\ stellar[k] = 0 /\ master > 0
           /\ stellar' = [stellar EXCEPT ![k] = 1] /\ master' = master - 1
           /\ (RunAt(c, "trust") /\ WorkStep(c)) \/ Over(c, FALSE)
        \/ Over(c, FALSE) /\ UNCHANGED <<stellar, master>>
  /\ UNCHANGED <<dbVars, copy, handed>>

\* One trustline after the other, those that are there are passed over.
addReceiveTrustlines(c) ==
  /\ run[c] = "trust"
  /\ LET k == copy[c].run
     IN \/ FullyProvisioned(k) /\ Over(c, TRUE) /\ UNCHANGED stellar
        \/ /\ ~FullyProvisioned(k) /\ stellar' = [stellar EXCEPT ![k] = @ + 1]
           /\ (RunAt(c, "trust") /\ WorkStep(c)) \/ Over(c, FALSE)
        \/ Over(c, FALSE) /\ UNCHANGED stellar
  /\ UNCHANGED <<dbVars, copy, master, handed>>

\* raceWithTimeout: caller and chain give the run up.  Before it first asks Horizon it has
\* only the database to wait for.
Slow ==
  {"check", "row", "fund", "trust"}
    \cup IF "stall" \in Misfortunes THEN {"insert", "keys", "persist"} ELSE {}

RunTimesOut(c) ==
  /\ run[c] \in Slow
  /\ queue[c.user] # <<>> /\ Head(queue[c.user]) = c
  /\ queue' = [queue EXCEPT ![c.user] = Tail(@)]
  /\ CallerAt(c, IF caller[c] = "waiting" THEN "threw" ELSE caller[c])
  /\ UNCHANGED <<dbVars, run, copy, stellar, master, handed>>

-----------------------------------------------------------------------------
(* Callers, after the run. *)

\* A chat message does not wait for long (PROVISION_TIMEOUT_MS); its run goes on.
ReceiveGivesUp(c) ==
  /\ c.kind = "receive" /\ caller[c] = "waiting"
  /\ OnlyCaller(c, "done")
  /\ UNCHANGED <<dbVars, copy, stellar, master, handed>>

\* provisionCryptoWalletsForUser reads the row, and looks at Horizon once more.
ReadAddresses(c) ==
  /\ caller[c] = "read"
  /\ copy' = [copy EXCEPT ![c].caller = Address(c.user)]
  /\ OnlyCaller(c, IF Address(c.user) = NoAddress THEN "threw" ELSE "confirm")
  /\ UNCHANGED <<dbVars, stellar, master, handed>>

ConfirmAddresses(c) ==
  /\ caller[c] = "confirm"
  /\ \E ready \in Look(Address(c.user)) :
       /\ handed' = IF ready /\ c.kind = "receive"
                      THEN [handed EXCEPT ![c.user] = @ \cup {copy[c].caller}] ELSE handed
       /\ OnlyCaller(c, CASE ~ready -> "threw"
                          [] ready /\ c.kind = "asset" -> "asset.address"
                          [] OTHER -> "done")
  /\ UNCHANGED <<dbVars, copy, stellar, master>>

\* The activation of an asset reads the addresses again and looks for the trustline; if
\* it is not seen, there is one more run.
AssetAddress(c) ==
  /\ caller[c] = "asset.address"
  /\ LET k == IF copy[c].runs = 0 THEN Address(c.user) ELSE copy[c].asset
     IN /\ copy' = [copy EXCEPT ![c].asset = k, ![c].runs = @ + 1]
        /\ \E ready \in LookAtAsset(k) :
             CASE k = NoAddress -> OnlyCaller(c, "threw")
               [] k # NoAddress /\ ready -> OnlyCaller(c, "asset.active")
               [] k # NoAddress /\ ~ready /\ copy[c].runs = 0 -> Queued(c)
               [] OTHER -> OnlyCaller(c, "asset.unready")
  /\ UNCHANGED <<dbVars, stellar, master, handed>>

AssetActive(c) ==
  /\ \/ /\ caller[c] = "asset.active"
        /\ Upserted(c, "ACTIVE", copy[c].asset)
        /\ handed' = [handed EXCEPT ![c.user] = @ \cup {copy[c].asset}]
     \/ /\ caller[c] = "asset.unready"
        /\ Upserted(c, "FAILED", copy[c].asset) /\ UNCHANGED handed
  /\ OnlyCaller(c, "done")
  /\ UNCHANGED <<usdRows, copy, stellar, master>>

\* What went wrong is told to the caller, and kept in the row of an asset.
Failed(c) ==
  /\ caller[c] = "threw"
  /\ IF c.kind = "asset" THEN Upserted(c, "FAILED", copy[c].row) ELSE UNCHANGED assetRow
  /\ OnlyCaller(c, "failed")
  /\ UNCHANGED <<usdRows, copy, stellar, master, handed>>

\* A restart: chain, callers and runs are gone.
Restarts ==
  /\ \E c \in Provisions : caller[c] \notin {"start", "done", "failed"} \/ run[c] # "none"
  /\ queue' = [u \in Users |-> <<>>]
  /\ caller' = [c \in Provisions |-> IF caller[c] \in {"start", "done"} THEN caller[c] ELSE "failed"]
  /\ run' = [c \in Provisions |-> "none"]
  /\ UNCHANGED <<dbVars, copy, stellar, master, handed>>

-----------------------------------------------------------------------------
CallerStep(c) ==
  \/ StartProvision(c) \/ InsertRow(c) \/ Ensured(c) \/ ReceiveScreen(c) \/ ReceiveLoad(c)
  \/ AssetLoad(c) \/ AssetPending(c) \/ AssetPersisted(c) \/ ReceiveGivesUp(c) \/ ReadAddresses(c)
  \/ ConfirmAddresses(c) \/ AssetAddress(c) \/ AssetActive(c) \/ Failed(c)

RunStep(c) ==
  \/ RunStarts(c) \/ RunInserts(c) \/ ensureCryptoKeyMaterial(c) \/ persistCryptoWallet(c)
  \/ RunChecks(c) \/ RunReads(c) \/ fundStellarAccount(c) \/ addReceiveTrustlines(c)
  \/ RunTimesOut(c)

ProvisionNext == (\E c \in Provisions : CallerStep(c) \/ RunStep(c)) \/ Restarts

ProvisionSpec == ProvisionInit /\ [][ProvisionNext]_provisionVars

-----------------------------------------------------------------------------
\* "Generate keys once, persist to DB before any on-chain funding (retries reuse same
\* address)": an address that a user was given is the one of its row for good, what says
\* ACTIVE can receive, and no account was opened whose key no row holds.
AddressForGood ==
  /\ \A u \in Users : handed[u] \subseteq {Address(u)}
  /\ \A u \in Users : assetRow[u].status = "ACTIVE" =>
       assetRow[u].address = Address(u) /\ stellar[Address(u)] > 1
  /\ {k \in Keypairs : stellar[k] > 0} \subseteq UNION {Held(u) : u \in Users}
=============================================================================
