----------------------------- MODULE InfraLedger -----------------------------
(***************************************************************************)
(* What the infrastructure ledger promises its callers: every operation is *)
(* one atomic step that posts all of its movements or none, once per       *)
(* idempotency key.  InfraLedgerTx, the ledger as concurrent database      *)
(* transactions, implements this specification.                            *)
(***************************************************************************)
EXTENDS InfraLedgerOps

CONSTANT Legs   \* the postings callers ask for

ASSUME LegsAssumption == Legs \subseteq Leg

VARIABLE ledger

Init == ledger = EmptyLedger

\* bootstrapOrgWallets, getOrgBalance: create the row on first access.
Ensure(w) == ledger' = ensureWalletAccount(ledger, w)

\* An operator freezes, reactivates or closes an existing wallet.
SetStatus(w, s) ==
  /\ ledger.rows[w].status # "absent"
  /\ ledger' = [ledger EXCEPT !.rows[w].status = s]

\* One of the seven single-wallet operations.
PostOne(l) ==
  LET L == ensureWalletAccount(ledger, l.wallet)
  IN Admissible(L, l) /\ ledger' = Post(L, l)

EnsureBoth(L, d, c) == ensureWalletAccount(ensureWalletAccount(L, d.wallet), c.wallet)

\* A transfer needs two active wallets when it is posted; the fee asks earlier only.
BothActive(L, d, c) ==
  d.type = "internal_transfer_debit" =>
    L.rows[d.wallet].status = "active" /\ L.rows[c.wallet].status = "active"

AdmissiblePair(L, d, c) ==
  IsPair(d, c) /\ Admissible(L, d) /\ Admissible(L, c) /\ BothActive(L, d, c)

\* A debit and a credit of the same amount on two wallets, or neither.
Transfer(d, c) ==
  LET L == EnsureBoth(ledger, d, c)
  IN AdmissiblePair(L, d, c) /\ ledger' = PostPair(L, d, c)

\* A transfer and the fee charged for it, in the caller's database transaction.
TransferWithFee(d, c, fd, fc) ==
  LET L == EnsureBoth(ledger, d, c)
      M == EnsureBoth(PostPair(L, d, c), fd, fc)
  IN /\ AdmissiblePair(L, d, c)
     /\ AdmissiblePair(M, fd, fc)
     /\ ledger' = PostPair(M, fd, fc)

Next ==
  \/ \E w \in Wallets : Ensure(w)
  \/ \E w \in Wallets, s \in Statuses \ {"absent"} : SetStatus(w, s)
  \/ \E l \in Legs : PostOne(l)
  \/ \E d, c \in Legs : Transfer(d, c)
  \/ \E d, c, fd, fc \in Legs : TransferWithFee(d, c, fd, fc)

Spec == Init /\ [][Next]_ledger

-----------------------------------------------------------------------------
\* The ledger variable holds wallet rows with non-negative buckets (the CHECK
\* constraints of infra_wallet_accounts) and sequences of movements.
TypeOK == ledger \in Ledger

\* Each wallet's movements form an unbroken audit trail from zero to the row's
\* present buckets: no lost update, no balance that no movement explains.
AuditTrail == Audited(ledger)

\* No idempotency key was posted twice, on any wallet.
OncePerKey == KeysOnce(ledger)

\* One money event per (org, env, reference, movement type).
OncePerSlot == SlotsOnce(ledger)

\* Replays under one key and repeats under another post once: "idempotency_key UNIQUE",
\* and one movement of a type per reference.
OncePerKeyAndSlot == OncePerKey /\ OncePerSlot

\* No step rewrites or removes a movement that was posted.  Here that is plain, insertMovement
\* appends; InfraLedgerTx has it of the statements of concurrent transactions.
AppendOnly ==
  [][\A w \in Wallets :
       /\ Len(ledger.movements[w]) <= Len(ledger'.movements[w])
       /\ \A i \in 1..Len(ledger.movements[w]) :
            ledger'.movements[w][i] = ledger.movements[w][i]]_ledger
=============================================================================
