--------------------------- MODULE InfraLedgerOps ---------------------------
(***************************************************************************)
(* The operations of the infrastructure ledger                             *)
(* (src/modules/infra/infraLedgerService.ts) as pure operators.            *)
(*                                                                         *)
(* A wallet row keeps three buckets, available / pending / locked; every   *)
(* operation moves an amount between them and appends one movement that    *)
(* records a snapshot of the buckets after it.  Amounts are natural        *)
(* numbers: USDC in units of 1e-7, the precision parseAmount rounds to     *)
(* and the column type NUMERIC(28,7) keeps.                                *)
(*                                                                         *)
(* A ledger value is [rows, movements]: the wallet rows and, per wallet,   *)
(* the sequence of its movements.  The modules that hold a ledger in a     *)
(* variable (InfraLedger, InfraLedgerTx, InfraPayout, InfraCollection,     *)
(* InfraTransfer and what extends them) all use these operators.           *)
(***************************************************************************)
EXTENDS Naturals, Sequences

CONSTANTS
  Wallets,    \* one element per (org, environment, asset): a wallet row's identity
  Keys,       \* idempotency keys
  Refs,       \* reference ids a movement may carry
  Amounts,    \* amounts an operation may be asked to move
  Opened,     \* wallets that exist from the start (bootstrapOrgWallets)
  NoRef       \* a movement without reference_id

ASSUME AmountsAssumption == Amounts \subseteq Nat \ {0}   \* parseAmount refuses the rest

-----------------------------------------------------------------------------
(* Wallet rows and movements. *)

Balance == [available : Nat, pending : Nat, locked : Nat]

ZeroBalance == [available |-> 0, pending |-> 0, locked |-> 0]

\* "absent": no row yet, ensureWalletAccount inserts it when it is first needed.
Statuses == {"absent", "active", "frozen", "closed"}

Row == [status : Statuses, bal : Balance]

OpNames == {"credit", "creditPending", "releasePending", "debit", "lock", "release", "finalize"}

MovementTypes ==
  {"adjustment", "collection_pending", "collection_credit", "funds_lock", "funds_release",
   "payout_settle", "deposit_pending", "deposit_credit", "internal_transfer_debit",
   "internal_transfer_credit", "fee_debit", "fee_revenue"}

Movement ==
  [key : Keys, op : OpNames, type : MovementTypes, ref : Refs \cup {NoRef},
   amount : Amounts, after : Balance]

Leg ==   \* the parameters of one posting
  [wallet : Wallets, op : OpNames, type : MovementTypes, key : Keys,
   ref : Refs \cup {NoRef}, amount : Amounts]

Ledger == [rows : [Wallets -> Row], movements : [Wallets -> Seq(Movement)]]

EmptyLedger ==
  [rows |-> [w \in Wallets |->
     [status |-> IF w \in Opened THEN "active" ELSE "absent", bal |-> ZeroBalance]],
   movements |-> [w \in Wallets |-> <<>>]]

-----------------------------------------------------------------------------
(* What each operation does to the buckets, and when it may. *)

creditOrgWallet(b, a) == [b EXCEPT !.available = @ + a]

creditOrgWalletPending(b, a) == [b EXCEPT !.pending = @ + a]

releasePendingToAvailable(b, a) ==
  [available |-> b.available + a, pending |-> b.pending - a, locked |-> b.locked]

debitOrgWallet(b, a) == [b EXCEPT !.available = @ - a]

lockOrgFunds(b, a) ==
  [available |-> b.available - a, pending |-> b.pending, locked |-> b.locked + a]

releaseOrgFunds(b, a) ==
  [available |-> b.available + a, pending |-> b.pending, locked |-> b.locked - a]

\* Mutant: the finished payout is taken from available, the lock stays.
finalizeFromAvailable(b, a) == [b EXCEPT !.available = @ - a]

finalizeLockedDebit(b, a) == [b EXCEPT !.locked = @ - a]

CoversAvailable(op, b, a) ==
  /\ op \in {"debit", "lock"} => b.available >= a
  /\ op = "releasePending" => b.pending >= a

\* The INSUFFICIENT_* checks made on the row read under FOR UPDATE.
Covers(op, b, a) ==
  /\ op \in {"debit", "lock"} => b.available >= a
  /\ op = "releasePending" => b.pending >= a
  /\ op \in {"release", "finalize"} => b.locked >= a

After(op, b, a) ==
  CASE op = "credit"         -> creditOrgWallet(b, a)
    [] op = "creditPending"  -> creditOrgWalletPending(b, a)
    [] op = "releasePending" -> releasePendingToAvailable(b, a)
    [] op = "debit"          -> debitOrgWallet(b, a)
    [] op = "lock"           -> lockOrgFunds(b, a)
    [] op = "release"        -> releaseOrgFunds(b, a)
    [] op = "finalize"       -> finalizeLockedDebit(b, a)

-----------------------------------------------------------------------------
(* The two unique indexes of infra_ledger_movements. *)

\* findMovementByIdempotency: the key is unique over all wallets.
Posted(L, key) ==
  \E w \in Wallets : \E i \in 1..Len(L.movements[w]) : L.movements[w][i].key = key

\* Mutant: the index holds the idempotency key as well.
SlotTakenSameKey(L, l) ==
  /\ l.ref # NoRef
  /\ \E i \in 1..Len(L.movements[l.wallet]) :
        /\ L.movements[l.wallet][i].ref = l.ref
        /\ L.movements[l.wallet][i].type = l.type
        /\ L.movements[l.wallet][i].key = l.key

\* One movement per (org, env, reference, movement_type), where there is a reference.
SlotTaken(L, l) ==
  /\ l.ref # NoRef
  /\ \E i \in 1..Len(L.movements[l.wallet]) :
        /\ L.movements[l.wallet][i].ref = l.ref
        /\ L.movements[l.wallet][i].type = l.type

-----------------------------------------------------------------------------
(* Writing to the ledger. *)

\* ensureWalletAccount: an absent row is inserted active and empty.
ensureWalletAccount(L, w) ==
  IF L.rows[w].status = "absent" THEN [L EXCEPT !.rows[w].status = "active"] ELSE L

\* The row a leg adds to infra_ledger_movements.
MovementOf(l, after) ==
  [key |-> l.key, op |-> l.op, type |-> l.type, ref |-> l.ref,
   amount |-> l.amount, after |-> after]

\* Mutant: the snapshot is the balance before the operation.
insertMovementBefore(L, l, after) ==
  [rows |-> [L.rows EXCEPT ![l.wallet] = [@ EXCEPT !.bal = after]],
   movements |-> [L.movements EXCEPT ![l.wallet] =
     Append(@, MovementOf(l, L.rows[l.wallet].bal))]]

\* insertMovement with its snapshot, and the UPDATE of the wallet row.
insertMovement(L, l, after) ==
  [rows |-> [L.rows EXCEPT ![l.wallet] = [@ EXCEPT !.bal = after]],
   movements |-> [L.movements EXCEPT ![l.wallet] = Append(@, MovementOf(l, after))]]

Post(L, l) == insertMovement(L, l, After(l.op, L.rows[l.wallet].bal, l.amount))

Admissible(L, l) ==
  /\ L.rows[l.wallet].status # "absent"
  /\ Covers(l.op, L.rows[l.wallet].bal, l.amount)
  /\ ~Posted(L, l.key)
  /\ ~SlotTaken(L, l)

\* transferAvailableBalance and applyDayfiTransactionFee compute both rows from
\* what they read under the two row locks, and then write the debit and the credit.
PostPair(L, d, c) ==
  insertMovement(Post(L, d), c, After(c.op, L.rows[c.wallet].bal, c.amount))

\* A debit and a credit of one amount, on two wallets and under two keys.
IsPair(d, c) ==
  /\ d.op = "debit" /\ c.op = "credit"
  /\ d.amount = c.amount /\ d.key # c.key /\ d.wallet # c.wallet

-----------------------------------------------------------------------------
(* What a ledger promises. *)

Before(ms, i) == IF i = 1 THEN ZeroBalance ELSE ms[i - 1].after

Current(ms) == IF ms = <<>> THEN ZeroBalance ELSE ms[Len(ms)].after

\* Every movement was covered by the balance before it, and its snapshot is
\* that balance with the operation's effect: nothing was lost or invented.
ChainOK(ms) ==
  \A i \in 1..Len(ms) :
    /\ Covers(ms[i].op, Before(ms, i), ms[i].amount)
    /\ ms[i].after = After(ms[i].op, Before(ms, i), ms[i].amount)

Audited(L) ==
  \A w \in Wallets : ChainOK(L.movements[w]) /\ L.rows[w].bal = Current(L.movements[w])

KeysOnce(L) ==
  \A v, w \in Wallets :
    \A i \in 1..Len(L.movements[v]), j \in 1..Len(L.movements[w]) :
      L.movements[v][i].key = L.movements[w][j].key => v = w /\ i = j

SlotsOnce(L) ==
  \A w \in Wallets :
    \A i, j \in 1..Len(L.movements[w]) :
      /\ L.movements[w][i].ref # NoRef
      /\ L.movements[w][i].ref = L.movements[w][j].ref
      /\ L.movements[w][i].type = L.movements[w][j].type
      => i = j
=============================================================================
