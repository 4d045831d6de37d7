---------------------------- MODULE MCInfraWallets ----------------------------
(* Small instances, for TLC, of what keeps Stellar accounts for somebody: the            *)
(* organisations' accounts, their transfers and deposits, and the consumers' addresses.  *)
EXTENDS InfraStellarAccount, CryptoWalletProvision

CONSTANTS alice, bob, carol, revenue, k1, k2, k3, d1

R(from, to, amount, key, mode) ==
  [from |-> from, to |-> to, amount |-> amount, key |-> key, mode |-> mode]

\* Two on-chain transfers from one Stellar account, of which the wallet can pay one and a
\* half, one of them with the key of a transfer inside the ledger from another sender.
Mixed ==
  {R(alice, bob, 2, k1, "onchain"), R(alice, bob, 1, k2, "onchain"),
   R(carol, alice, 1, k1, "ledger")}

\* Two calls may overlap on the ledger transfer; the on-chain ones are each called, and
\* called again, by one process.
OneEach ==
  [q \in Requests |-> IF q.mode = "ledger" THEN Procs
                      ELSE IF q.key = k1 THEN {"p1"} ELSE {"p2"}]

Outside == {[to |-> carol, amount |-> 2, id |-> d1]}

\* Bound: at most two of the transfers and deposits of one behaviour are started; beside
\* the deposit only the transfer from its wallet, since the others share no row with it.
Started == transfers \cup ({req[p] : p \in Procs} \ {NoRequest})
AtMostTwo ==
  /\ Cardinality(Started) + Cardinality(arrived) <= 2
  /\ arrived # {} => Started \cap OnchainRequests = {}

\* What a release that threw has left locked.
Failing(q) == onrow[q] = "failed" \/ \E p \in Procs : req[p] = q /\ pc[p] = "fail.row"
KeepsLock(q) ==
  /\ Failing(q)
  /\ \/ HasKey(SenderTx(q), "lock") /\ ~HasKey(SenderTx(q), "release")
     \/ HasKey(SenderTx(q), "fee_lock") /\ ~HasKey(SenderTx(q), "fee_release")

\* Bound: a submission that throws in doubt, or a release that throws, comes in behaviours
\* of one transfer.
DoubtAlone ==
  \A q \in OnchainRequests :
    Doubtful(pays[q]) \/ KeepsLock(q) => Started = {q} /\ arrived = {}

-----------------------------------------------------------------------------
\* Three calls that provision an organisation, two of them on one node.
NodeOf == [p \in Provisioners |-> IF p = "c" THEN "n2" ELSE "n1"]

Busy == {p \in Provisioners : prov[p].at # "idle"}
Quiet == transfers = {} /\ \A p \in Procs : req[p] = NoRequest
Unprovisioned == \E w \in Newcomers : acct[w].key # w

\* Bound: no transfers beside the provisioning of an organisation, three calls of it
\* only if one waits, and one beside a deposit that one process looks at.
FewProvisioners ==
  /\ Busy # {} \/ Unprovisioned => Quiet
  /\ Cardinality(Busy) = 3 => \E p \in Busy : At(p, "waiting")
  /\ arrived # {} => Cardinality(Busy) <= 1
  /\ arrived # {} /\ Busy # {} => Cardinality({p \in Procs : pc[p] # "idle"}) <= 1

\* One user, and a call of each kind.
MCProvisions ==
  {[id |-> 1, user |-> "u", kind |-> "sign-in"], [id |-> 2, user |-> "u", kind |-> "job"],
   [id |-> 3, user |-> "u", kind |-> "asset"], [id |-> 4, user |-> "u", kind |-> "receive"],
   [id |-> 5, user |-> "u", kind |-> "screen"]}

Called == {c \in Provisions : caller[c] # "start"}
Going == {c \in Called : caller[c] \notin {"done", "failed"} \/ run[c] # "none"}

\* Bound: at most three calls of one user, of which two go on at a time.
FewCalls == Cardinality(Called) <= 3 /\ Cardinality(Going) <= 2

Calm == AtMostTwo /\ DoubtAlone /\ FewProvisioners /\ FewCalls

\* Bound: organisations and consumers share one server and one database, but no row, no
\* account and no funds on Stellar, and are not interleaved.
NothingOfOrganisations == Quiet /\ Busy = {} /\ arrived = {} /\ ~Unprovisioned

MCNext ==
  \/ Called = {} /\ AccountNext /\ UNCHANGED provisionVars
  \/ NothingOfOrganisations /\ ProvisionNext /\ UNCHANGED bankVars

MCInit == AccountInit /\ ProvisionInit

MCSpec == MCInit /\ [][MCNext]_<<bankVars, provisionVars>>

Txs == {"out", "in"} \X Wallets \X {k1, k2, k3}

MCKeys ==
  ({k1, k2, k3} \X {"debit", "credit", "fee", "revenue"})
    \cup (Wallets \X {"seed"})
    \cup (Txs \X {"lock", "fee_lock", "finalize", "credit", "fee_finalize", "fee_revenue",
                  "release", "fee_release"})
    \cup (Hashes \X {"pending", "available"})

MCRefs == Txs \cup ({"fee"} \X Wallets \X {k1, k2, k3}) \cup Hashes
=============================================================================
