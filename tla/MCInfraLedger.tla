---------------------------- MODULE MCInfraLedger ----------------------------
(* A small instance of the atomic ledger for TLC. *)
EXTENDS InfraLedger

MCWallets == {1, 2}

L(w, op, type, key, ref, a) ==
  [wallet |-> w, op |-> op, type |-> type, key |-> key, ref |-> ref, amount |-> a]

\* A payout of wallet 1, locked under two keys for one reference and finalized,
\* and a transfer of wallet 1 to wallet 2, which also receives the fee.
MCLegs ==
  {L(1, "credit", "adjustment", "k1", NoRef, 2),
   L(1, "lock", "funds_lock", "k2", "p", 1),
   L(1, "lock", "funds_lock", "k3", "p", 1),
   L(1, "finalize", "payout_settle", "k4", "p", 1),
   L(1, "debit", "internal_transfer_debit", "t:debit", "out", 1),
   L(2, "credit", "internal_transfer_credit", "t:credit", "in", 1),
   L(1, "debit", "fee_debit", "t:fee", "out", 1),
   L(2, "credit", "fee_revenue", "t:revenue", "fee", 1)}

MCKeys == {l.key : l \in MCLegs}
MCRefs == {"p", "out", "in", "fee"}
=============================================================================
