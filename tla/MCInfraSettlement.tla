-------------------------- MODULE MCInfraSettlement --------------------------
(* Small instances of InfraSettlement for TLC. *)
EXTENDS InfraSettlement

MCKeys == ({"a", "b"} \X {"lock", "release", "finalize"}) \cup {<<"funding", "credit">>}

FixedQuotes == [t \in Payouts |-> IF t = "a" THEN {2} ELSE {1}]

OneCreator == [t \in Payouts |-> {"p1"}]
=============================================================================
