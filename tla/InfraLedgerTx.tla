---------------------------- MODULE InfraLedgerTx ----------------------------
(***************************************************************************)
(* The infrastructure ledger as its code runs it: every call is a Postgres *)
(* transaction under READ COMMITTED, one statement per step, interleaved   *)
(* with the statements of other calls.                                     *)
(*                                                                         *)
(* A request is a sequence of groups of legs: <<<<leg>>>> is one of the    *)
(* single-wallet operations, <<<<d, c>>>> transferAvailableBalance, and    *)
(* <<<<d, c>>, <<fd, fc>>>> a transfer followed by                         *)
(* applyDayfiTransactionFee in the same database transaction.  Wallet ids  *)
(* are naturals, for the order in which the two rows are locked.           *)
(***************************************************************************)
EXTENDS InfraLedgerOps, FiniteSets

CONSTANTS
  Sessions,   \* calls that may be in progress at once
  Requests,   \* what a call may ask for
  Freezable,  \* wallets whose status an operator changes
  NoRequest

ASSUME WalletIdsAssumption == Wallets \subseteq Nat

ASSUME FreezableAssumption == Freezable \subseteq Wallets

\* The legs of transferAvailableBalance, and those of applyDayfiTransactionFee.
IsTransfer(g) ==
  /\ Len(g) = 2 /\ IsPair(g[1], g[2])
  /\ g[1].type = "internal_transfer_debit" /\ g[2].type = "internal_transfer_credit"

IsFee(g) ==
  /\ Len(g) = 2 /\ IsPair(g[1], g[2])
  /\ g[1].type = "fee_debit" /\ g[2].type = "fee_revenue"

\* The keys of a transfer and of its fee are built from one id with different suffixes.
\* A transfer to the same organisation is refused (SELF_TRANSFER).  That the payer of a fee
\* is not the revenue organisation, which no code checks, is an assumption here.
ASSUME RequestsAssumption ==
  \A r \in Requests :
    /\ r \in Seq(Seq(Leg))
    /\ \/ Len(r) = 1 /\ (Len(r[1]) = 1 \/ IsTransfer(r[1]))
       \/ /\ Len(r) = 2 /\ IsTransfer(r[1]) /\ IsFee(r[2])
          /\ \A i, j \in 1..2 : r[1][i].key # r[2][j].key

VARIABLES
  ledger,   \* the committed wallet rows and movements
  pc,       \* session -> where its transaction is
  req,      \* session -> the request it serves
  grp,      \* session -> index of the group it is working on
  at,       \* session -> index of the leg within the group
  hit,      \* session -> keys of the group found already posted
  seen,     \* session -> wallet statuses read by ensureWalletAccount
  mine,     \* session -> the rows it holds locked, with its uncommitted changes
  after,    \* session -> the snapshots computed for the group's legs
  ins,      \* session -> its uncommitted movements, by wallet
  out       \* session -> outcome of its last call

vars == <<ledger, pc, req, grp, at, hit, seen, mine, after, ins, out>>

None == [w \in {} |-> ZeroBalance]

NoMovements == [w \in Wallets |-> <<>>]

Init ==
  /\ ledger = EmptyLedger
  /\ pc = [s \in Sessions |-> "idle"]
  /\ req = [s \in Sessions |-> NoRequest]
  /\ grp = [s \in Sessions |-> 1]
  /\ at = [s \in Sessions |-> 1]
  /\ hit = [s \in Sessions |-> {}]
  /\ seen = [s \in Sessions |-> {}]
  /\ mine = [s \in Sessions |-> None]
  /\ after = [s \in Sessions |-> <<>>]
  /\ ins = [s \in Sessions |-> NoMovements]
  /\ out = [s \in Sessions |-> "none"]

-----------------------------------------------------------------------------
Group(s) == req[s][grp[s]]

ThisLeg(s) == Group(s)[at[s]]

LastLeg(s) == at[s] = Len(Group(s))

Set(f, s, v) == [f EXCEPT ![s] = v]

\* What a statement of session s reads: its own changes, else what is committed.
Visible(s, w) == IF w \in DOMAIN mine[s] THEN mine[s][w] ELSE ledger.rows[w]

FreeFor(s, w) == \A t \in Sessions \ {s} : w \notin DOMAIN mine[t]

Hold(s, w, row) == mine' = Set(mine, s, [v \in DOMAIN mine[s] \cup {w} |->
                                           IF v = w THEN row ELSE mine[s][v]])

\* Mutant: the connection goes back to the pool with its row locks held.
EndTxHolding(s, result) ==
  /\ pc' = Set(pc, s, "idle")
  /\ out' = Set(out, s, result)
  /\ ins' = Set(ins, s, NoMovements)
  /\ after' = Set(after, s, <<>>)
  /\ hit' = Set(hit, s, {})
  /\ seen' = Set(seen, s, {})
  /\ grp' = Set(grp, s, 1)
  /\ at' = Set(at, s, 1)
  /\ UNCHANGED <<req, mine>>

\* The transaction is over, by COMMIT or ROLLBACK: its row locks are released.
EndTx(s, result) ==
  /\ pc' = Set(pc, s, "idle")
  /\ out' = Set(out, s, result)
  /\ mine' = Set(mine, s, None)
  /\ ins' = Set(ins, s, NoMovements)
  /\ after' = Set(after, s, <<>>)
  /\ hit' = Set(hit, s, {})
  /\ seen' = Set(seen, s, {})
  /\ grp' = Set(grp, s, 1)
  /\ at' = Set(at, s, 1)
  /\ UNCHANGED req

Rollback(s, result) == EndTx(s, result) /\ UNCHANGED ledger

\* The group is done: the next one, or COMMIT.
NextGroup(s) ==
  /\ IF grp[s] < Len(req[s])
       THEN grp' = Set(grp, s, grp[s] + 1) /\ pc' = Set(pc, s, "find")
       ELSE pc' = Set(pc, s, "commit") /\ UNCHANGED grp
  /\ at' = Set(at, s, 1)
  /\ hit' = Set(hit, s, {})
  /\ seen' = Set(seen, s, {})
  /\ after' = Set(after, s, <<>>)
  /\ UNCHANGED <<ledger, req, mine, out>>

-----------------------------------------------------------------------------
\* db.tx opens a transaction for a call.
Begin(s, r) ==
  /\ pc[s] = "idle"
  /\ req' = Set(req, s, r)
  /\ pc' = Set(pc, s, "find")
  /\ out' = Set(out, s, "none")
  /\ UNCHANGED <<ledger, grp, at, hit, seen, mine, after, ins>>

\* What the keys found mean: all posted, a duplicate; for transferAvailableBalance
\* exactly one posted is TRANSFER_INCONSISTENT; anything else goes on.
Duplicate(s, found) == \A i \in 1..Len(Group(s)) : Group(s)[i].key \in found

Inconsistent(s, found) == Len(Group(s)) = 2 /\ grp[s] = 1 /\ found # {}

\* findMovementByIdempotency, one SELECT per key.
Find(s) ==
  /\ pc[s] = "find"
  /\ LET l == ThisLeg(s)
         found == IF Posted(ledger, l.key) THEN hit[s] \cup {l.key} ELSE hit[s]
     IN IF ~LastLeg(s)
          THEN /\ hit' = Set(hit, s, found)
               /\ at' = Set(at, s, at[s] + 1)
               /\ UNCHANGED <<ledger, pc, req, grp, seen, mine, after, ins, out>>
          ELSE IF Duplicate(s, found)
                 THEN IF Len(Group(s)) = 1
                        THEN Rollback(s, "duplicate")
                        ELSE NextGroup(s) /\ UNCHANGED ins
                 ELSE IF Inconsistent(s, found)
                        THEN Rollback(s, "error")
                        ELSE /\ pc' = Set(pc, s, "ensure")
                             /\ at' = Set(at, s, 1)
                             /\ UNCHANGED <<ledger, req, grp, hit, seen, mine, after, ins, out>>

\* The wallet row of the leg is there with this status: the next leg, or, when
\* all are there, the status checks before the rows are locked.
Ensured(s, status) ==
  /\ seen' = Set(seen, s, seen[s] \cup {status})
  /\ IF LastLeg(s)
       THEN pc' = Set(pc, s, "active") /\ at' = Set(at, s, 1)
       ELSE pc' = Set(pc, s, "ensure") /\ at' = Set(at, s, at[s] + 1)
  /\ UNCHANGED <<ledger, req, grp, hit, after, ins, out>>

\* ensureWalletAccount, its SELECT.
EnsureSelect(s) ==
  /\ pc[s] = "ensure"
  /\ LET row == Visible(s, ThisLeg(s).wallet)
     IN IF row.status # "absent"
          THEN Ensured(s, row.status) /\ UNCHANGED mine
          ELSE /\ pc' = Set(pc, s, "insertRow")
               /\ UNCHANGED <<ledger, req, grp, at, hit, seen, mine, after, ins, out>>

\* Mutant: ON CONFLICT DO UPDATE also resets the balances.
EnsureInsertResets(s) ==
  /\ pc[s] = "insertRow"
  /\ LET w == ThisLeg(s).wallet
     IN FreeFor(s, w) /\ Hold(s, w, [status |-> "active", bal |-> ZeroBalance])
                     /\ Ensured(s, "active")

\* ensureWalletAccount, its INSERT ... ON CONFLICT DO UPDATE: waits for a
\* concurrent insert of the same row; either way the row is then locked.
EnsureInsert(s) ==
  /\ pc[s] = "insertRow"
  /\ LET w == ThisLeg(s).wallet
         row == IF Visible(s, w).status = "absent"
                  THEN [status |-> "active", bal |-> ZeroBalance] ELSE Visible(s, w)
     IN FreeFor(s, w) /\ Hold(s, w, row) /\ Ensured(s, row.status)

\* WALLET_INACTIVE / RECIPIENT_INACTIVE on the statuses read without a lock.
CheckActive(s) ==
  /\ pc[s] = "active"
  /\ IF seen[s] = {"active"}
       THEN /\ pc' = Set(pc, s, "lock")
            /\ UNCHANGED <<ledger, req, grp, at, hit, seen, mine, after, ins, out>>
       ELSE Rollback(s, "error")

GroupWallets(s) == {Group(s)[i].wallet : i \in 1..Len(Group(s))}

\* Mutant: the sender's row is locked first.
LockSenderFirst(s, todo) ==
  IF Group(s)[1].wallet \in todo THEN Group(s)[1].wallet ELSE CHOOSE w \in todo : TRUE

\* [sender.id, recipient.id].sort(): the smaller id first.
LockNext(s, todo) == CHOOSE w \in todo : \A v \in todo : w <= v

\* lockWalletRow: SELECT ... FOR UPDATE reads the row once the lock is granted.
LockRow(s) ==
  /\ pc[s] = "lock"
  /\ LET todo == GroupWallets(s) \ DOMAIN mine[s]
     IN IF todo = {}
          THEN pc' = Set(pc, s, "check") /\ UNCHANGED mine
          ELSE LET w == LockNext(s, todo)
               IN FreeFor(s, w) /\ Hold(s, w, ledger.rows[w]) /\ UNCHANGED pc
  /\ UNCHANGED <<ledger, req, grp, at, hit, seen, after, ins, out>>

\* Mutant: the statuses read before the locks are trusted.
NoRecheck(s) == TRUE

\* Only transferAvailableBalance looks at the status again under the locks.
Recheck(s) ==
  Len(Group(s)) = 2 /\ grp[s] = 1 => \A w \in GroupWallets(s) : mine[s][w].status = "active"

Sufficient(s) ==
  \A i \in 1..Len(Group(s)) :
    LET l == Group(s)[i] IN Covers(l.op, mine[s][l.wallet].bal, l.amount)

\* The balances the legs leave, each computed from what was read under the locks.
Snapshots(s) ==
  LET g == Group(s)
  IN [i \in 1..Len(g) |-> After(g[i].op, mine[s][g[i].wallet].bal, g[i].amount)]

LastOf(g, w) ==
  CHOOSE i \in 1..Len(g) : g[i].wallet = w /\ \A j \in 1..Len(g) : g[j].wallet = w => j <= i

\* The held rows with those of the group updated: the last UPDATE of a row stays.
Updated(s) ==
  [w \in DOMAIN mine[s] |->
     IF w \in GroupWallets(s)
       THEN [mine[s][w] EXCEPT !.bal = Snapshots(s)[LastOf(Group(s), w)]]
       ELSE mine[s][w]]

\* The checks on the locked rows, then the UPDATE of every row of the group.
CheckAndUpdate(s) ==
  /\ pc[s] = "check"
  /\ IF Recheck(s) /\ Sufficient(s)
       THEN /\ after' = Set(after, s, Snapshots(s))
            /\ mine' = Set(mine, s, Updated(s))
            /\ pc' = Set(pc, s, "insert")
            /\ UNCHANGED <<ledger, req, grp, at, hit, seen, ins, out>>
       ELSE Rollback(s, "error")

Inserted(t, key) == \E w \in Wallets : \E i \in 1..Len(ins[t][w]) : ins[t][w][i].key = key

InFlight(s, key) == \E t \in Sessions \ {s} : Inserted(t, key)

\* The unique indexes refuse the row: 23505.
UniqueViolation(l) == Posted(ledger, l.key) \/ SlotTaken(ledger, l)

\* insertMovement.  The index makes the statement wait for a transaction that
\* has inserted the same key and has not ended.
InsertMovement(s) ==
  /\ pc[s] = "insert"
  /\ LET l == ThisLeg(s)
     IN /\ ~InFlight(s, l.key)
        /\ IF UniqueViolation(l)
             THEN IF Len(Group(s)) = 1
                    THEN \* the transaction is rolled back, then the catch block looks again
                         /\ pc' = Set(pc, s, "refind")
                         /\ mine' = Set(mine, s, None)
                         /\ ins' = Set(ins, s, NoMovements)
                         /\ after' = Set(after, s, <<>>)
                         /\ UNCHANGED <<ledger, req, grp, at, hit, seen, out>>
                    ELSE Rollback(s, "error")
             ELSE /\ ins' = [ins EXCEPT ![s][l.wallet] = Append(@, MovementOf(l, after[s][at[s]]))]
                  /\ IF LastLeg(s)
                       THEN NextGroup(s)
                       ELSE /\ at' = Set(at, s, at[s] + 1)
                            /\ UNCHANGED <<ledger, pc, req, grp, hit, seen, mine, after, out>>

\* Mutant: every unique violation counts as a duplicate.
RefindAssumed(s) == pc[s] = "refind" /\ Rollback(s, "duplicate")

\* The catch block of a single-wallet operation: the other call's movement.
Refind(s) ==
  /\ pc[s] = "refind"
  /\ Rollback(s, IF Posted(ledger, ThisLeg(s).key) THEN "duplicate" ELSE "error")

\* COMMIT publishes the held rows and the inserted movements.
Commit(s) ==
  /\ pc[s] = "commit"
  /\ ledger' = [rows |-> [w \in Wallets |-> Visible(s, w)],
                movements |-> [w \in Wallets |-> ledger.movements[w] \o ins[s][w]]]
  /\ EndTx(s, IF ins[s] = NoMovements THEN "duplicate" ELSE "posted")

-----------------------------------------------------------------------------
(* The environment. *)

\* The connection or the process is lost inside a transaction: Postgres rolls
\* it back, the caller gets no answer and may call again.
Lost(s) == pc[s] # "idle" /\ Rollback(s, "error")

\* s waits for a lock or an index entry of t.
WaitsFor(s, t) ==
  /\ s # t
  /\ \/ /\ pc[s] = "lock" /\ GroupWallets(s) \ DOMAIN mine[s] # {}
        /\ LockNext(s, GroupWallets(s) \ DOMAIN mine[s]) \in DOMAIN mine[t]
     \/ pc[s] = "insertRow" /\ ThisLeg(s).wallet \in DOMAIN mine[t]
     \/ pc[s] = "insert" /\ Inserted(t, ThisLeg(s).key)

\* Each session of C waits for another one of C.
Deadlocked(C) == C # {} /\ \A s \in C : \E t \in C : WaitsFor(s, t)

\* Postgres's deadlock detector cancels one transaction of a cycle.
DeadlockAbort(s) ==
  /\ \E C \in SUBSET Sessions : s \in C /\ Deadlocked(C)
  /\ Rollback(s, "error")

\* An operator changes a wallet's status; the UPDATE waits for the row lock.
SetStatus(w, st) ==
  /\ ledger.rows[w].status \notin {"absent", st}
  /\ \A s \in Sessions : w \notin DOMAIN mine[s]
  /\ ledger' = [ledger EXCEPT !.rows[w].status = st]
  /\ UNCHANGED <<pc, req, grp, at, hit, seen, mine, after, ins, out>>

Step(s) ==
  \/ Find(s)
  \/ EnsureSelect(s)
  \/ EnsureInsert(s)
  \/ CheckActive(s)
  \/ LockRow(s)
  \/ CheckAndUpdate(s)
  \/ InsertMovement(s)
  \/ Refind(s)
  \/ Commit(s)
  \/ DeadlockAbort(s)

Next ==
  \/ \E s \in Sessions, r \in Requests : Begin(s, r)
  \/ \E s \in Sessions : Step(s)
  \/ \E s \in Sessions : Lost(s)
  \/ \E w \in Freezable, st \in {"active", "frozen"} : SetStatus(w, st)

Spec == Init /\ [][Next]_vars

\* Postgres runs every statement that can run, grants a row lock to a waiter in
\* the end (its lock queue is first come, first served), and breaks deadlocks.
FairSpec == Spec /\ \A s \in Sessions : WF_vars(Step(s)) /\ SF_vars(LockRow(s))
                                        /\ SF_vars(EnsureInsert(s))

-----------------------------------------------------------------------------
AllLegs ==
  UNION {UNION {{r[g][i] : i \in 1..Len(r[g])} : g \in 1..Len(r)} : r \in Requests}

Abstract == INSTANCE InfraLedger WITH Legs <- AllLegs

\* The concurrent ledger implements the atomic one: every change of the
\* committed state is one atomic posting, transfer or transfer with its fee,
\* computed from the balances it replaces, under keys not used before.
ImplementsLedger == Abstract!Spec

\* A caller that was told "posted" or "duplicate" finds every movement it asked
\* for in the ledger, whoever posted it.
AckedIsPosted ==
  \A s \in Sessions :
    out[s] \in {"posted", "duplicate"} =>
      \A g \in 1..Len(req[s]) : \A i \in 1..Len(req[s][g]) : Posted(ledger, req[s][g][i].key)

\* Transfers between wallets that exist never wait for each other in a cycle: the rows are
\* locked in the order of their ids.  The fee revenue row is locked outside that order, and
\* so is a row that a call inserts, unless it is the lowest.
NoWaitCycle == \A C \in SUBSET Sessions : Deadlocked(C) => \E s \in C : grp[s] = 2

\* Every call ends: no call waits for ever for a row lock or for another call.
CallsEnd == \A s \in Sessions : (pc[s] # "idle") ~> (pc[s] = "idle")
=============================================================================
