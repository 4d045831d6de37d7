----------------------------- MODULE MCInfraBulk -----------------------------
(* A small instance of InfraBulk for TLC. *)
EXTENDS InfraBulk

MCKeys == ({"a", "b", "c"} \X {"lock", "release", "finalize"}) \cup {<<"funding", "credit">>}

\* The USDC amounts: "a" and "b" together are all the wallet has.
FixedQuotes == [t \in Payouts |-> IF t = "a" THEN {2} ELSE {1}]

OneCreator == [t \in Payouts |-> {"p1"}]

\* A LIVE or a TEST batch.
LiveOrTest == {<<"a", "b">>, <<"c">>}
=============================================================================
