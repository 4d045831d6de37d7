---------------------------- MODULE MCInfraBills ----------------------------
(* Small instances of InfraBills, and of InfraPayout inside it, for TLC. *)
EXTENDS InfraBills

MCKeys == ({"a", "b", "c", "d", "e"} \X {"lock", "release", "finalize"}) \cup {<<"funding", "credit">>}

\* FX drifts for a payout; what a bill locks is quoted once, before its row exists.
DriftingQuotes ==
  [t \in Payouts |-> IF t = "d" THEN {2} ELSE IF t = "e" THEN {1} ELSE {1, 2}]

OneCreator ==
  [t \in Payouts |-> IF t \in Bills THEN {} ELSE IF t = "a" THEN {"p1"} ELSE {"p2"}]

OnePayer == [t \in Bills |-> {"p1"}]

\* Bound: at most two of the payouts and bills of one behaviour are asked for, and at most
\* one of them is a bill.
AtMostTwo ==
  LET started == {t \in Payouts : tx[t] # NoTx} \cup ({cur[p] : p \in Procs} \ {NoOne})
  IN Cardinality(started) <= 2 /\ Cardinality(started \cap Bills) <= 1
=============================================================================
