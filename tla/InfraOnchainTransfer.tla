------------------------- MODULE InfraOnchainTransfer -------------------------
(***************************************************************************)
(* Transfers between organisations on Stellar: the STELLAR_ONCHAIN branch  *)
(* of createInternalTransfer, and executeOnchainInternalTransfer with      *)
(* failTransfer, finalizeConfirmed and confirmOnchainInternalTransfer      *)
(* (src/modules/infra/infraOnchainTransferService.ts), next to the         *)
(* transfers inside the ledger of InfraTransfer, with which they share     *)
(* wallets, transfer rows and fee rows.                                    *)
(*                                                                         *)
(* Amount and fee are locked, the sender's USDC is sent on Stellar, and    *)
(* only then the locks are consumed and the recipient is credited.  Every  *)
(* await is a step; a call may stop at each, and its caller may call again *)
(* with the same Idempotency-Key.                                          *)
(***************************************************************************)
EXTENDS InfraTransfer, StellarAdapter

CONSTANTS
  Callers,        \* request -> processes that may call for it
  OnchainFee,     \* quoteDayfiTransactionFee: always charged here
  OutcomeNames,   \* names of the outcomes a submission may have
  MaxSends        \* bound: envelopes signed per transfer

ASSUME OnchainFeeAssumption == OnchainFee \in Nat \ {0}

ASSUME MaxSendsAssumption == MaxSends \in Nat

\* A sender uses an Idempotency-Key for one on-chain request.
ASSUME OnchainKeysAssumption ==
  \A q, x \in Requests :
    q.mode = "onchain" /\ x.mode = "onchain" /\ q.from = x.from /\ q.key = x.key => q = x

VARIABLES
  onrow,     \* request -> status of its infra_internal_transfers row
  settle,    \* request -> its settlement row (key stellar:internal_transfer:{id})
  pays,      \* request -> the payments signed and sent for it
  snap,      \* process -> the copy of the settlement row it read
  hash       \* process -> the transaction it submits or verifies

onVars == <<onrow, settle, pays, snap, hash>>
walletVars == <<vars, onVars>>

OnchainRequests == {q \in Requests : q.mode = "onchain"}

NoSettlement == [status |-> "none", ref |-> 0]

OnchainInit ==
  /\ Init
  /\ onrow = [q \in OnchainRequests |-> "none"]
  /\ settle = [q \in OnchainRequests |-> NoSettlement]
  /\ pays = [q \in OnchainRequests |-> <<>>]
  /\ snap = [p \in Procs |-> NoSettlement]
  /\ hash = [p \in Procs |-> 0]

-----------------------------------------------------------------------------
Stop(p) ==
  /\ Finish(p)
  /\ snap' = [snap EXCEPT ![p] = NoSettlement]
  /\ hash' = [hash EXCEPT ![p] = 0]

Onward(p, label) == Goto(p, label) /\ UNCHANGED <<req, snap, hash>>

\* The rows outside the call's own variables.
rows == <<ledger, transfers, fees, onrow, settle, pays>>

\* The ids of the two infra_transactions rows, and the keys made from them.
SenderTx(q) == <<"out", q.from, q.key>>
RecipientTx(q) == <<"in", q.from, q.key>>

LegOf(w, op, type, tx, step, ref, a) ==
  [wallet |-> w, op |-> op, type |-> type, key |-> <<tx, step>>, ref |-> ref, amount |-> a]

\* What each posting label posts.  ref holds the reference type too: that of a fee
\* is "fee".
LegAt(label, q) ==
  LET s == SenderTx(q) r == RecipientTx(q) f == <<"fee", q.from, q.key>>
  IN CASE label = "on.lock" ->
            LegOf(q.from, "lock", "funds_lock", s, "lock", s, q.amount)
       [] label = "on.feeLock" ->
            LegOf(q.from, "lock", "funds_lock", s, "fee_lock", f, OnchainFee)
       [] label = "fin.debit" ->
            LegOf(q.from, "finalize", "internal_transfer_debit", s, "finalize", s, q.amount)
       [] label = "fin.credit" ->
            LegOf(q.to, "credit", "internal_transfer_credit", r, "credit", r, q.amount)
       [] label = "fin.feeDebit" ->
            LegOf(q.from, "finalize", "fee_debit", s, "fee_finalize", f, OnchainFee)
       [] label = "fin.revenue" ->
            LegOf(Revenue, "credit", "fee_revenue", s, "fee_revenue", f, OnchainFee)
       [] label = "fail.release" ->
            LegOf(q.from, "release", "funds_release", s, "release", s, q.amount)
       [] label = "fail.feeRelease" ->
            LegOf(q.from, "release", "funds_release", s, "fee_release", f, OnchainFee)

PostingLabels ==
  {"on.lock", "on.feeLock", "fin.debit", "fin.credit", "fin.feeDebit", "fin.revenue",
   "fail.release", "fail.feeRelease"}

\* The ids of transaction rows are made by the server: no client's key is one of them.
ASSUME OnchainLegsAssumption ==
  /\ \A q \in OnchainRequests, label \in PostingLabels : LegAt(label, q) \in Leg
  /\ \A q, x \in Requests : x.key # RecipientTx(q)

AfterPosting ==
  [on \in PostingLabels |->
     CASE on = "on.lock" -> "on.feeLock"
       [] on = "on.feeLock" -> "on.recheck"
       [] on = "fin.debit" -> "fin.credit"
       [] on = "fin.credit" -> "fin.feeDebit"
       [] on = "fin.feeDebit" -> "fin.revenue"
       [] on = "fin.revenue" -> "fin.fee"
       [] on = "fail.release" -> "fail.feeRelease"
       [] on = "fail.feeRelease" -> "fail.row"]

\* A duplicate succeeds without effect; a refusal throws.  releaseLocks goes on after
\* whatever a release throws, a database error too: the lock is held then, for good.
Posting(p) ==
  /\ pc[p] \in PostingLabels
  /\ LET l == LegAt(pc[p], req[p])
     IN \/ /\ Posted(ledger, l.key)
           /\ Onward(p, AfterPosting[pc[p]]) /\ UNCHANGED ledger
        \/ /\ Admissible(ledger, l)
           /\ ledger' = Post(ledger, l)
           /\ Onward(p, AfterPosting[pc[p]])
        \/ /\ l.op = "release"
           /\ Onward(p, AfterPosting[pc[p]]) /\ UNCHANGED ledger
        \/ /\ l.op # "release" /\ ~Posted(ledger, l.key) /\ ~Admissible(ledger, l)
           /\ Stop(p) /\ UNCHANGED ledger
  /\ UNCHANGED <<transfers, fees, onrow, settle, pays>>

-----------------------------------------------------------------------------
(* createInternalTransfer and executeOnchainInternalTransfer up to the locks *)

\* A completed or failed transfer is returned as a duplicate; a key used for another
\* request is refused.
createOnchainTransfer(p, q) ==
  /\ pc[p] = "idle" /\ p \in Callers[q]
  /\ q.mode = "onchain" /\ onrow[q] \notin {"completed", "failed"}
  /\ \A x \in loadTransferByIdempotency(q) : x = q
  /\ req' = [req EXCEPT ![p] = q]
  /\ Goto(p, "on.check")
  /\ UNCHANGED <<rows, snap, hash>>

\* Both wallets active, and the sender's available balance covers amount and fee: also
\* when an earlier call has locked them already.
OnCheck(p) ==
  /\ pc[p] = "on.check"
  /\ IF /\ ledger.rows[req[p].from].status = "active"
        /\ ledger.rows[req[p].to].status = "active"
        /\ ledger.rows[req[p].from].bal.available >= req[p].amount + OnchainFee
       THEN Onward(p, "on.insert")
       ELSE Stop(p)
  /\ UNCHANGED rows

\* Transfer, transactions and settlement rows in one transaction.  A unique violation leads
\* to the row of the sender and the key, whatever it was written for: that of an earlier call
\* for this request (OnchainKeysAssumption), or of a ledger transfer, which is completed and
\* returned; the recipient's index has no such row, and the violation is thrown.
OnInsert(p) ==
  /\ pc[p] = "on.insert"
  /\ LET q == req[p]
     IN \/ /\ q \in transfers
           /\ IF onrow[q] \in {"completed", "failed"} THEN Stop(p) ELSE Onward(p, "on.read")
           /\ UNCHANGED <<transfers, onrow, settle>>
        \/ /\ q \notin transfers /\ RowConflict(q)
           /\ Stop(p)
           /\ UNCHANGED <<transfers, onrow, settle>>
        \/ /\ ~RowConflict(q)
           /\ transfers' = transfers \cup {q}
           /\ onrow' = [onrow EXCEPT ![q] = "processing"]
           /\ settle' = [settle EXCEPT ![q].status = "pending"]
           /\ Onward(p, "on.read")
  /\ UNCHANGED <<ledger, fees, pays>>

OnRead(p) ==
  /\ pc[p] = "on.read"
  /\ snap' = [snap EXCEPT ![p] = settle[req[p]]]
  /\ Goto(p, "on.lock")
  /\ UNCHANGED <<rows, req, hash>>

-----------------------------------------------------------------------------
(* Submission *)

\* A hash left by an earlier call that has not failed is looked up first.
OnRecheck(p) ==
  /\ pc[p] = "on.recheck"
  /\ IF snap[p].ref = 0 \/ snap[p].status = "failed"
       THEN Onward(p, "on.prepare")
       ELSE \E answer \in verifyUsdcPayment(pays[req[p]], snap[p].ref) :
              Onward(p, IF answer = "SUCCESS" THEN "on.confirm" ELSE "on.prepare")
  /\ UNCHANGED rows

\* confirmOnchainInternalTransfer looks the hash up once more.
OnConfirm(p) ==
  /\ pc[p] = "on.confirm"
  /\ \E answer \in verifyUsdcPayment(pays[req[p]], settle[req[p]].ref) :
       \/ answer = "SUCCESS" /\ Onward(p, "fin.debit")
       \/ answer = "FAILED" /\ Onward(p, "fail.settlement")
       \/ answer = "NOT_FOUND" /\ Stop(p)
  /\ UNCHANGED rows

\* Transactions of a wallet's Stellar account that have landed.
Sent(w) ==
  MapThenSumSet(LAMBDA q : Cardinality(Landed(pays[q])), {q \in OnchainRequests : q.from = w})

\* The envelope saved by an earlier call is used again, else one is signed.
OnPrepare(p) ==
  /\ pc[p] = "on.prepare"
  /\ LET q == req[p]
     IN IF snap[p].ref # 0
          THEN /\ hash' = [hash EXCEPT ![p] = snap[p].ref]
               /\ Goto(p, "on.send")
               /\ UNCHANGED pays
          ELSE /\ Len(pays[q]) < MaxSends
               /\ pays' = [pays EXCEPT ![q] =
                             prepareSponsoredUsdcPayment(@, q.amount, Sent(q.from))]
               /\ hash' = [hash EXCEPT ![p] = Len(pays[q]) + 1]
               /\ Goto(p, "on.save")
  /\ UNCHANGED <<ledger, transfers, fees, onrow, settle, req, snap>>

OnSave(p) ==
  /\ pc[p] = "on.save"
  /\ settle' = [settle EXCEPT ![req[p]].ref = hash[p]]
  /\ Onward(p, "on.send")
  /\ UNCHANGED <<ledger, transfers, fees, onrow, pays>>

OnSend(p) ==
  /\ pc[p] = "on.send"
  /\ \E r \in submitPreparedSponsoredPayment(pays[req[p]], hash[p], Sent(req[p].from),
                                             OutcomeNames) :
       /\ pays' = [pays EXCEPT ![req[p]] = r.chain]
       /\ Onward(p, CASE r.reply = "error"     -> "fail.settlement"
                      [] r.reply = "submitted" -> "on.sent"
                      [] r.reply = "confirmed" -> "on.landed")
  /\ UNCHANGED <<ledger, transfers, fees, onrow, settle>>

\* UPDATE of the settlement, then of the transfer.
OnSent(p) ==
  /\ pc[p] \in {"on.sent", "on.landed"}
  /\ settle' = [settle EXCEPT ![req[p]] = [status |-> "submitted", ref |-> hash[p]]]
  /\ Onward(p, IF pc[p] = "on.sent" THEN "on.sentRow" ELSE "on.landedRow")
  /\ UNCHANGED <<ledger, transfers, fees, onrow, pays>>

OnSentRow(p) ==
  /\ pc[p] \in {"on.sentRow", "on.landedRow"}
  /\ onrow' = [onrow EXCEPT ![req[p]] = "submitted"]
  /\ Onward(p, IF pc[p] = "on.sentRow" THEN "on.verify" ELSE "fin.debit")
  /\ UNCHANGED <<ledger, transfers, fees, settle, pays>>

\* Mutant: a transaction nobody has seen yet counts as failed.
OnVerifyImpatient(p) ==
  /\ pc[p] = "on.verify"
  /\ \E answer \in verifyUsdcPayment(pays[req[p]], hash[p]) :
       Onward(p, IF answer = "SUCCESS" THEN "fin.debit" ELSE "fail.settlement")
  /\ UNCHANGED rows

\* Not known yet: the transfer is returned 'submitted', the next call goes on.
OnVerify(p) ==
  /\ pc[p] = "on.verify"
  /\ \E answer \in verifyUsdcPayment(pays[req[p]], hash[p]) :
       \/ answer = "SUCCESS" /\ Onward(p, "fin.debit")
       \/ answer = "FAILED" /\ Onward(p, "fail.settlement")
       \/ answer = "NOT_FOUND" /\ Stop(p)
  /\ UNCHANGED rows

-----------------------------------------------------------------------------
(* The end of finalizeConfirmed and of failTransfer.  The two transaction rows change *)
(* with the transfer row; nothing here reads their status.                            *)

FinFee(p) ==
  /\ pc[p] = "fin.fee"
  /\ fees' = fees \cup {req[p].key}
  /\ Onward(p, "fin.settlement")
  /\ UNCHANGED <<ledger, transfers, onrow, settle, pays>>

FinSettlement(p) ==
  /\ pc[p] = "fin.settlement"
  /\ settle' = [settle EXCEPT ![req[p]].status = "confirmed"]
  /\ Onward(p, "fin.row")
  /\ UNCHANGED <<ledger, transfers, fees, onrow, pays>>

FinRow(p) ==
  /\ pc[p] = "fin.row"
  /\ onrow' = [onrow EXCEPT ![req[p]] = "completed"]
  /\ Stop(p)
  /\ UNCHANGED <<ledger, transfers, fees, settle, pays>>

FailSettlement(p) ==
  /\ pc[p] = "fail.settlement"
  /\ settle' = [settle EXCEPT ![req[p]].status = "failed"]
  /\ Onward(p, "fail.release")
  /\ UNCHANGED <<ledger, transfers, fees, onrow, pays>>

FailRow(p) ==
  /\ pc[p] = "fail.row"
  /\ onrow' = [onrow EXCEPT ![req[p]] = "failed"]
  /\ Stop(p)
  /\ UNCHANGED <<ledger, transfers, fees, settle, pays>>

-----------------------------------------------------------------------------
OnchainStep(p) ==
  \/ OnCheck(p) \/ OnInsert(p) \/ OnRead(p) \/ Posting(p) \/ OnRecheck(p) \/ OnConfirm(p)
  \/ OnPrepare(p) \/ OnSave(p) \/ OnSend(p) \/ OnSent(p) \/ OnSentRow(p) \/ OnVerify(p)
  \/ FinFee(p) \/ FinSettlement(p) \/ FinRow(p) \/ FailSettlement(p) \/ FailRow(p)

\* The server stops, or an await throws: what was written stays.
OnchainStop(p) == req[p] # NoRequest /\ Stop(p) /\ UNCHANGED rows

\* The network includes a transaction that was sent, or drops it.
PaymentResolves(q, i) ==
  /\ pays[q][i].state = "sent"
  /\ \E ch \in Resolutions(pays[q], i, Sent(q.from)) : pays' = [pays EXCEPT ![q] = ch]
  /\ UNCHANGED <<vars, onrow, settle, snap, hash>>

LedgerTransferNext ==
  \/ \E p \in Procs, q \in Requests : p \in Callers[q] /\ createInternalTransfer(p, q)
  \/ \E p \in Procs : assertCustomerCanPay(p)
  \/ \E p \in Procs : FindTransfer(p)
  \/ \E p \in Procs : TransferTx(p)

OnchainNext ==
  \/ LedgerTransferNext /\ UNCHANGED onVars
  \/ \E p \in Procs, q \in OnchainRequests : createOnchainTransfer(p, q)
  \/ \E p \in Procs : OnchainStep(p)
  \/ \E p \in Procs : OnchainStop(p)
  \/ \E q \in OnchainRequests : \E i \in 1..Len(pays[q]) : PaymentResolves(q, i)

-----------------------------------------------------------------------------
HasKey(tx, step) == Posted(ledger, <<tx, step>>)

\* "Bob is credited only after Stellar confirmation": the recipient's credit and the
\* sender's debit stand for a payment that landed, and only one did.
CreditedIsLanded ==
  \A q \in OnchainRequests :
    /\ q \in transfers /\ (HasKey(RecipientTx(q), "credit") \/ HasKey(SenderTx(q), "finalize"))
         => Landed(pays[q]) # {}
    /\ Cardinality(Landed(pays[q])) <= 1

\* A transfer that failed consumed neither of its locks, which it gave back or holds, and
\* neither paid nor will pay the recipient, wherever earlier calls for it stopped: what else
\* was signed for it, by a call that stopped before it saved the envelope, is not sent.
FailedMovedNothing ==
  \A q \in OnchainRequests :
    onrow[q] = "failed" /\ ~Doubtful(pays[q]) =>
      /\ ~HasKey(SenderTx(q), "finalize") /\ ~HasKey(SenderTx(q), "fee_finalize")
      /\ ~HasKey(RecipientTx(q), "credit")
      /\ \A i \in 1..Len(pays[q]) :
           \/ pays[q][i].state = "failed"
           \/ pays[q][i].state = "signed" /\ i # settle[q].ref

\* What was locked for a transfer is consumed or given back, not both.
LocksEndOnce ==
  \A q \in OnchainRequests :
    q \in transfers /\ ~Doubtful(pays[q]) =>
      /\ ~(HasKey(SenderTx(q), "finalize") /\ HasKey(SenderTx(q), "release"))
      /\ ~(HasKey(SenderTx(q), "fee_finalize") /\ HasKey(SenderTx(q), "fee_release"))

\* A transfer on Stellar is all or nothing, in the ledger and on the chain; of one whose
\* submission threw for less than a dead envelope only the first part is said.
AllOrNothing == CreditedIsLanded /\ FailedMovedNothing /\ LocksEndOnce

\* A completed transfer, of either mode, debited the sender, credited the recipient and,
\* on chain, collected its fee.
EveryCompletedIsMoved ==
  /\ CompletedIsMoved
  /\ \A q \in OnchainRequests :
       onrow[q] = "completed" =>
         /\ HasMovement(q.from, "internal_transfer_debit", SenderTx(q), q.amount)
         /\ HasMovement(q.to, "internal_transfer_credit", RecipientTx(q), q.amount)
         /\ HasMovement(q.from, "fee_debit", <<"fee", q.from, q.key>>, OnchainFee)
         /\ HasMovement(Revenue, "fee_revenue", <<"fee", q.from, q.key>>, OnchainFee)
=============================================================================
