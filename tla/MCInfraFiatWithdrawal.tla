------------------------ MODULE MCInfraFiatWithdrawal ------------------------
(* Small instances of InfraFiatWithdrawal for TLC. *)
EXTENDS InfraFiatWithdrawal

MCKeys == ({"a", "b", "c"} \X {"lock", "release", "finalize"}) \cup {<<"funding", "credit">>}

\* Each costs all the wallet holds: one is in flight at a time.
FixedQuotes == [t \in Payouts |-> {2}]

OneCreator == [t \in Payouts |-> {"p1"}]

Begun(t) == tx[t] # NoTx \/ \E p \in Procs : cur[p] = t

\* Bound: a behaviour has withdrawals to a bank, or crypto payouts.
OneKind == \A t \in Payouts \ Banked : Begun(t) => \A u \in Banked : ~Begun(u)

\* Bound: a submission that throws in doubt comes in behaviours of one withdrawal.
DoubtAlone == \A t, u \in Payouts : Doubted(t) /\ Begun(u) => u = t

\* Every label but "leg.patch": stopping there leaves no more than a call that is made again.
BetweenAwaits ==
  {"insert", "lock.load", "lock.post", "lock.patch", "fin.load", "fin.post", "fin.patch",
   "rel.load", "rel.post", "rel.patch", "off.mark", "off.rail",
   "leg.insert", "leg.mark", "leg.prepare", "leg.save", "leg.submit", "leg.submitted",
   "leg.landed", "leg.failed", "leg.verify", "leg.confirm",
   "prov.find", "prov.insert", "prov.submit", "prov.submitted", "prov.failed", "prov.await",
   "prov.confirm", "paid.prov", "paid.patch", "unpaid.patch", "unpaid.prov",
   "stl.find", "stl.recheck", "stl.insert", "stl.submit", "stl.submitted", "stl.landed",
   "stl.failed", "stl.verify", "stl.confirm"}
=============================================================================
