-------------------------- MODULE MCInfraCollection --------------------------
(* A small instance of InfraCollection for TLC. *)
EXTENDS InfraCollection

MCKeys == {"a", "b", "c"} \X {"credit", "creditPending", "releasePending"}

\* The amount is quoted again on every call.
DriftingQuotes == [c \in Collections |-> {1, 2}]

Begun(c) == tx[c] # NoTx \/ \E p \in Procs : Mine(p) = c

\* Bounds: two collections are made, a payment nobody saw landing is not sent again, and
\* the last payment MaxSends allows for is not refused.
TwoSeen ==
  /\ Cardinality({c \in Collections : Begun(c)}) <= 2
  /\ \A p \in Procs : pc[p] # "idle" => loc[p].st.status # "submitted"
  /\ \A p \in Procs : pc[p] = "fund.submit" => Len(chain[Mine(p)]) < MaxSends

OneCreator == [c \in Collections |-> {"p1"}]
=============================================================================
