--------------------------- MODULE MCInfraTreasury ---------------------------
(* A small instance of InfraTreasury, which holds InfraCollection, for TLC. *)
EXTENDS InfraTreasury

MCKeys == {"a", "b", "c"} \X {"credit", "creditPending", "releasePending"}

\* The amount is quoted again on every call, except for collection "a".
MixedQuotes == [c \in Collections |-> IF c = "a" THEN {2} ELSE {1, 2}]

\* Two calls race to create collection "a"; the others have one caller.
RacedCreators == [c \in Collections |-> IF c = "a" THEN Procs ELSE {"p1"}]

RebalanceOfTwo == [r \in Rebalances |-> 2]

Begun(c) == tx[c] # NoTx \/ \E p \in Procs : Mine(p) = c \/ payin[c][p] # "none"

Requested(r) == reb[r] # NoRebalance \/ \E p \in Procs : Mine(p) = r

\* Bound: one collection is made, which one is open.  A rebalance, on which two calls may
\* overlap, is made without one, or with collection "a", and then one process has the
\* collection's calls, the other the rebalance's, and each sends once.
OneOrFunded ==
  /\ Cardinality({c \in Collections : Begun(c)}) <= 1
  /\ (\E c \in Collections, r \in Rebalances : Begun(c) /\ Requested(r)) =>
       /\ Begun("a") /\ payin["a"]["p2"] = "none"
       /\ Mine("p1") \notin Rebalances /\ Mine("p2") \notin Collections
       /\ \A x \in DOMAIN chain : Len(chain[x]) <= 1
=============================================================================
