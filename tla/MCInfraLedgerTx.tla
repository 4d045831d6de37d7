--------------------------- MODULE MCInfraLedgerTx ---------------------------
(* Small instances of InfraLedgerTx for TLC. *)
EXTENDS InfraLedgerTx, TLC

Symmetry == Permutations(Sessions)

MCWallets == {1, 2}

L(w, op, type, key, ref, a) ==
  [wallet |-> w, op |-> op, type |-> type, key |-> key, ref |-> ref, amount |-> a]

One(w, op, type, key, ref, a) == << <<L(w, op, type, <<key, "op">>, ref, a)>> >>

Pair(d, c, key, a) ==
  <<L(d, "debit", "internal_transfer_debit", <<key, "debit">>, NoRef, a),
    L(c, "credit", "internal_transfer_credit", <<key, "credit">>, NoRef, a)>>

Fee(d, c, key, a) ==
  <<L(d, "debit", "fee_debit", <<key, "fee">>, NoRef, a),
    L(c, "credit", "fee_revenue", <<key, "revenue">>, NoRef, a)>>

\* Keys are built from these roots, as the callers build theirs from an id.
MCKeys ==
  ({"k1", "k2", "k3", "k4", "k5", "k6", "k7"} \X {"op"}) \cup
  ({"t1", "t2", "t3"} \X {"debit", "credit", "fee", "revenue"})

\* One wallet, every single-wallet operation, a key used with two references
\* and a reference used with two keys.
SingleRequests ==
  {One(1, "credit", "adjustment", "k1", NoRef, 2),
   One(2, "credit", "adjustment", "k1", NoRef, 1),
   One(1, "creditPending", "collection_pending", "k2", "c", 1),
   One(1, "releasePending", "collection_credit", "k3", "c", 1),
   One(1, "lock", "funds_lock", "k4", "p", 2),
   One(1, "finalize", "payout_settle", "k5", "p", 2),
   One(1, "release", "funds_release", "k6", "p", 2),
   One(1, "debit", "adjustment", "k7", NoRef, 1),
   One(1, "credit", "collection_credit", "k7", "c", 1)}

\* Two wallets that send to each other, the fee for one of the transfers, and a
\* transfer to wallet 1, which holds the fees and is created on the way.
TransferRequests ==
  {One(2, "credit", "adjustment", "k1", NoRef, 2),
   <<Pair(2, 3, "t1", 1), Fee(2, 1, "t1", 1)>>,
   <<Pair(3, 2, "t2", 1)>>,
   <<Pair(3, 1, "t3", 1)>>}

TransferWallets == {1, 2, 3}

MCRefs == {"c", "p"}
=============================================================================
