--------------------------- MODULE InfraLifecycle ---------------------------
(***************************************************************************)
(* The payout half of src/modules/infra/infraLifecycleService.ts:          *)
(* lockPayoutFunds, finalizePayoutDebit and releasePayoutLock.             *)
(*                                                                         *)
(* Each of the three reads the infra_transactions row, makes its ledger    *)
(* call (one atomic step: see InfraLedgerTx) and patches the row, with an  *)
(* await between each two: three steps, between which other handlers run.  *)
(* The checks on the row's metadata are made on the copy that was read.    *)
(*                                                                         *)
(* Processes are the handlers in progress.  A module that EXTENDS this one *)
(* says which handlers call the three functions and where they continue:   *)
(* cont[p].ok after success, cont[p].err after a throw.                    *)
(***************************************************************************)
EXTENDS InfraLedgerOps, FiniteSetsExt

CONSTANTS
  Procs,      \* handlers that may be in progress at once
  Payouts,    \* payout rows, one per client Idempotency-Key
  Quotes,     \* payout -> USDC amounts the FX service may quote for it
  Org,        \* the organisation's wallet
  Funds,      \* what the wallet holds at the start
  NoOne       \* no external id

ASSUME QuotesAssumption ==
  /\ Org \in Wallets
  /\ Funds \in Amounts
  /\ \A t \in Payouts : Quotes[t] \subseteq Amounts

\* Keys and references are made from the ids of payouts; no id is NULL.
ASSUME PayoutKeysAssumption ==
  /\ NoRef \notin Payouts
  /\ <<"funding", "credit">> \in Keys
  /\ \A t \in Payouts : t \in Refs /\ \A op \in {"lock", "release", "finalize"} : <<t, op>> \in Keys

VARIABLES
  ledger,   \* wallet rows and movements
  tx,       \* payout -> its infra_transactions row
  pc,       \* process -> where its handler is
  cur,      \* process -> the payout it works on
  row,      \* process -> the copy of the row it read
  amt,      \* process -> the USDC amount it computed
  cont      \* process -> where its handler goes after the lifecycle call

lifeVars == <<ledger, tx, pc, cur, row, amt, cont>>

NoTx == [status |-> "none", ext |-> NoOne, usdc |-> 0, fundsLocked |-> FALSE,
         ledgerLockId |-> FALSE, fundsFinalized |-> FALSE, fundsReleased |-> FALSE]

TxRow == [status : {"none", "pending", "processing", "settled", "failed"},
          ext : Procs \cup {NoOne}, usdc : Amounts \cup {0}, fundsLocked : BOOLEAN,
          ledgerLockId : BOOLEAN, fundsFinalized : BOOLEAN, fundsReleased : BOOLEAN]

Idle == [ok |-> "idle", err |-> "idle"]

FundingLeg ==
  [wallet |-> Org, op |-> "credit", type |-> "adjustment", key |-> <<"funding", "credit">>,
   ref |-> NoRef, amount |-> Funds]

LifeInit ==
  /\ ledger = Post(ensureWalletAccount(EmptyLedger, Org), FundingLeg)
  /\ tx = [t \in Payouts |-> NoTx]
  /\ pc = [p \in Procs |-> "idle"]
  /\ cur = [p \in Procs |-> NoOne]
  /\ row = [p \in Procs |-> NoTx]
  /\ amt = [p \in Procs |-> 0]
  /\ cont = [p \in Procs |-> Idle]

-----------------------------------------------------------------------------
Goto(p, label) == pc' = [pc EXCEPT ![p] = label]

\* A handler that ends forgets its local variables.
Finish(p) ==
  /\ Goto(p, "idle")
  /\ cur' = [cur EXCEPT ![p] = NoOne]
  /\ row' = [row EXCEPT ![p] = NoTx]
  /\ amt' = [amt EXCEPT ![p] = 0]
  /\ cont' = [cont EXCEPT ![p] = Idle]

\* Back to the caller, at its continuation or at its catch block.
Return(p, label) ==
  IF label = "idle" THEN Finish(p) ELSE Goto(p, label) /\ UNCHANGED <<cur, row, amt, cont>>

\* The last await of the three functions, getOrgBalance, may still throw.
Returned(p) == Return(p, cont[p].ok) \/ Return(p, cont[p].err)

Call(p, t, fn, continuation) ==
  /\ Goto(p, fn)
  /\ cur' = [cur EXCEPT ![p] = t]
  /\ cont' = [cont EXCEPT ![p] = continuation]

\* The key, reference and movement type each lifecycle function posts with.
PayoutLeg(t, op, a) ==
  [wallet |-> Org, op |-> op, key |-> <<t, op>>, ref |-> t, amount |-> a,
   type |-> CASE op = "lock" -> "funds_lock"
              [] op = "release" -> "funds_release"
              [] op = "finalize" -> "payout_settle"]

HasPosted(t, op) == Posted(ledger, <<t, op>>)

\* One ledger call: a duplicate succeeds without effect, an uncovered one throws.
LedgerCall(p, op, okLabel, errLabel) ==
  LET l == PayoutLeg(cur[p], op, amt[p])
  IN \/ /\ HasPosted(cur[p], op)
        /\ Goto(p, okLabel)
        /\ UNCHANGED <<ledger, cur, row, amt, cont>>
     \/ /\ ~HasPosted(cur[p], op)
        /\ Covers(op, ledger.rows[Org].bal, amt[p])
        /\ ledger' = Post(ledger, l)
        /\ Goto(p, okLabel)
        /\ UNCHANGED <<cur, row, amt, cont>>
     \/ /\ ~HasPosted(cur[p], op)
        /\ ~Covers(op, ledger.rows[Org].bal, amt[p])
        /\ Return(p, errLabel)
        /\ UNCHANGED ledger

-----------------------------------------------------------------------------
(* lockPayoutFunds *)

LockLoad(p) ==
  /\ pc[p] = "lock.load"
  /\ row' = [row EXCEPT ![p] = tx[cur[p]]]
  /\ \E a \in IF tx[cur[p]].usdc # 0 THEN {tx[cur[p]].usdc} ELSE Quotes[cur[p]] :
       amt' = [amt EXCEPT ![p] = a]
  /\ Goto(p, "lock.post")
  /\ UNCHANGED <<ledger, tx, cur, cont>>

LockPost(p) ==
  /\ pc[p] = "lock.post"
  /\ LedgerCall(p, "lock", "lock.patch", cont[p].err)
  /\ UNCHANGED tx

\* patchTx with the status that was read before the ledger call.
LockPatch(p) ==
  /\ pc[p] = "lock.patch"
  /\ tx' = [tx EXCEPT ![cur[p]] =
              [@ EXCEPT !.status = row[p].status, !.usdc = amt[p],
                        !.fundsLocked = TRUE, !.ledgerLockId = TRUE]]
  /\ Returned(p)
  /\ UNCHANGED ledger

-----------------------------------------------------------------------------
(* finalizePayoutDebit *)

FinalizeLoad(p) ==
  /\ pc[p] = "fin.load"
  /\ LET r == tx[cur[p]]
     IN IF r.fundsReleased \/ r.usdc = 0
          THEN Return(p, cont[p].err)    \* PAYOUT_ALREADY_RELEASED, or no locked amount
          ELSE /\ row' = [row EXCEPT ![p] = r]
               /\ amt' = [amt EXCEPT ![p] = r.usdc]
               /\ Goto(p, "fin.post")
               /\ UNCHANGED <<cur, cont>>
  /\ UNCHANGED <<ledger, tx>>

FinalizePost(p) ==
  /\ pc[p] = "fin.post"
  /\ LedgerCall(p, "finalize", "fin.patch", cont[p].err)
  /\ UNCHANGED tx

FinalizePatch(p) ==
  /\ pc[p] = "fin.patch"
  /\ tx' = [tx EXCEPT ![cur[p]] =
              [@ EXCEPT !.status = "settled", !.fundsLocked = FALSE, !.fundsFinalized = TRUE]]
  /\ Returned(p)
  /\ UNCHANGED ledger

-----------------------------------------------------------------------------
(* releasePayoutLock; every caller passes status 'failed' or leaves the default. *)

ReleaseLoad(p) ==
  /\ pc[p] = "rel.load"
  /\ LET r == tx[cur[p]]
     IN IF r.fundsFinalized \/ r.usdc = 0
          THEN Return(p, cont[p].err)    \* PAYOUT_ALREADY_FINALIZED, or no locked amount
          ELSE /\ row' = [row EXCEPT ![p] = r]
               /\ amt' = [amt EXCEPT ![p] = r.usdc]
               /\ Goto(p, "rel.post")
               /\ UNCHANGED <<cur, cont>>
  /\ UNCHANGED <<ledger, tx>>

ReleasePost(p) ==
  /\ pc[p] = "rel.post"
  /\ LedgerCall(p, "release", "rel.patch", cont[p].err)
  /\ UNCHANGED tx

ReleasePatch(p) ==
  /\ pc[p] = "rel.patch"
  /\ tx' = [tx EXCEPT ![cur[p]] =
              [@ EXCEPT !.status = "failed", !.fundsLocked = FALSE, !.fundsReleased = TRUE]]
  /\ Returned(p)
  /\ UNCHANGED ledger

LifeStep(p) ==
  \/ LockLoad(p) \/ LockPost(p) \/ LockPatch(p)
  \/ FinalizeLoad(p) \/ FinalizePost(p) \/ FinalizePatch(p)
  \/ ReleaseLoad(p) \/ ReleasePost(p) \/ ReleasePatch(p)

InLifecycle ==
  {"lock.load", "lock.post", "lock.patch", "fin.load", "fin.post", "fin.patch",
   "rel.load", "rel.post", "rel.patch"}

\* The FX service or the database fails an await: the caller's catch block runs.
Throw(p) == pc[p] \in InLifecycle /\ Return(p, cont[p].err) /\ UNCHANGED <<ledger, tx>>

\* The server stops in the middle of a handler; what it wrote stays.
Crash(p) == pc[p] # "idle" /\ Finish(p) /\ UNCHANGED <<ledger, tx>>

-----------------------------------------------------------------------------
(* Properties of the lifecycle, whoever calls it. *)

PostedAmount(t, op) ==
  LET ms == ledger.movements[Org]
  IN ms[CHOOSE i \in 1..Len(ms) : ms[i].key = <<t, op>>].amount

\* A lock is consumed or returned, never both: header of infraLedgerService.ts,
\* "Send locks funds first, then finalizes or releases".
LockEndsOnce ==
  \A t \in Payouts : ~(HasPosted(t, "finalize") /\ HasPosted(t, "release"))

InFlightPayouts ==
  {t \in Payouts : HasPosted(t, "lock") /\ ~HasPosted(t, "finalize") /\ ~HasPosted(t, "release")}

\* The locked bucket is what the payouts in flight have locked: nothing stays
\* locked for a payout that ended, nothing was unlocked for one that did not.
LockedIsInFlight ==
  ledger.rows[Org].bal.locked =
    SumFunction([t \in InFlightPayouts |-> PostedAmount(t, "lock")])
=============================================================================
