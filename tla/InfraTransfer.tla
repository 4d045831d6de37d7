---------------------------- MODULE InfraTransfer ----------------------------
(***************************************************************************)
(* Transfers between organisations inside the ledger:                      *)
(* createInternalTransfer (src/modules/infra/infraInternalTransferService  *)
(* .ts, settlement mode INTERNAL_LEDGER) with recordTransferFee            *)
(* (infraFeeService.ts).                                                   *)
(*                                                                         *)
(* The checks before the database transaction are steps of their own; the  *)
(* transaction, which holds the transfer row, the two movements and the    *)
(* fee, is one step, as InfraLedgerTx shows it may be.                     *)
(***************************************************************************)
EXTENDS InfraLedgerOps, FiniteSetsExt

CONSTANTS
  Procs,       \* calls that may be in progress at once
  Requests,    \* what clients ask for: [from, to, amount, key, mode]
  Revenue,     \* the fee revenue wallet (ensureFeeRevenueOrg)
  Fee,         \* the fee; 0 when internal transfers are free
  Funded,      \* wallets that hold Funds at the start
  Funds,
  NoRequest

\* SELF_TRANSFER is refused before anything else happens.
ASSUME RequestsAssumption ==
  /\ Revenue \in Wallets /\ Fee \in Nat
  /\ \A q \in Requests : q.from \in Wallets /\ q.to \in Wallets /\ q.from # q.to

VARIABLES
  ledger,
  transfers,   \* the rows of infra_internal_transfers; those of mode "ledger" are 'completed'
  fees,        \* idempotency keys of infra_transaction_fees
  pc,          \* process -> where its call is
  req          \* process -> the request it serves

vars == <<ledger, transfers, fees, pc, req>>

SeedMovement(w) ==
  [key |-> <<w, "seed">>, op |-> "credit", type |-> "adjustment", ref |-> NoRef,
   amount |-> Funds, after |-> [ZeroBalance EXCEPT !.available = Funds]]

Init ==
  /\ ledger = [rows |-> [w \in Wallets |->
                 IF w \in Funded THEN [status |-> "active", bal |-> SeedMovement(w).after]
                 ELSE EmptyLedger.rows[w]],
               movements |-> [w \in Wallets |->
                 IF w \in Funded THEN <<SeedMovement(w)>> ELSE <<>>]]
  /\ transfers = {}
  /\ fees = {}
  /\ pc = [p \in Procs |-> "idle"]
  /\ req = [p \in Procs |-> NoRequest]

-----------------------------------------------------------------------------
Goto(p, label) == pc' = [pc EXCEPT ![p] = label]

Finish(p) == Goto(p, "idle") /\ req' = [req EXCEPT ![p] = NoRequest]

\* Idempotency keys of clients are unique per sender and environment...
SameClientKey(q, x) == x.from = q.from /\ x.key = q.key

loadTransferByIdempotency(q) == {x \in transfers : SameClientKey(q, x)}

\* getTransferSettlementMode: the mode "onchain" is that of InfraOnchainTransfer.
createInternalTransfer(p, q) ==
  /\ pc[p] = "idle" /\ q.mode = "ledger"
  /\ req' = [req EXCEPT ![p] = q]
  /\ Goto(p, IF Fee > 0 THEN "canPay" ELSE "find")
  /\ UNCHANGED <<ledger, transfers, fees>>

\* assertCustomerCanPay on a balance that is read (and its row created) without a lock.
assertCustomerCanPay(p) ==
  /\ pc[p] = "canPay"
  /\ ledger' = ensureWalletAccount(ledger, req[p].from)
  /\ IF ledger.rows[req[p].from].bal.available >= req[p].amount + Fee
       THEN Goto(p, "find") /\ UNCHANGED req
       ELSE Finish(p)
  /\ UNCHANGED <<transfers, fees>>

\* A transfer with this key is returned as a duplicate, or refused if it differs.
FindTransfer(p) ==
  /\ pc[p] = "find"
  /\ IF loadTransferByIdempotency(req[p]) # {}
       THEN Finish(p)
       ELSE Goto(p, "tx") /\ UNCHANGED req
  /\ UNCHANGED <<ledger, transfers, fees>>

-----------------------------------------------------------------------------
\* ... but the ledger keys of a transfer and of its fee hold the client's key
\* alone.  The reference ids are the ids of the two new transaction rows.
DebitLeg(q) ==
  [wallet |-> q.from, op |-> "debit", type |-> "internal_transfer_debit",
   key |-> <<q.key, "debit">>, ref |-> <<"out", q.from, q.key>>, amount |-> q.amount]

CreditLeg(q) ==
  [wallet |-> q.to, op |-> "credit", type |-> "internal_transfer_credit",
   key |-> <<q.key, "credit">>, ref |-> <<"in", q.from, q.key>>, amount |-> q.amount]

FeeDebitLeg(q) ==
  [wallet |-> q.from, op |-> "debit", type |-> "fee_debit",
   key |-> <<q.key, "fee">>, ref |-> <<"out", q.from, q.key>>, amount |-> Fee]

FeeRevenueLeg(q) ==
  [wallet |-> Revenue, op |-> "credit", type |-> "fee_revenue",
   key |-> <<q.key, "revenue">>, ref |-> <<"fee", q.from, q.key>>, amount |-> Fee]

Ready(L, d, c) == ensureWalletAccount(ensureWalletAccount(L, d.wallet), c.wallet)

PairAdmissible(L, d, c) ==
  /\ Admissible(L, d) /\ Admissible(L, c)
  /\ L.rows[d.wallet].status = "active" /\ L.rows[c.wallet].status = "active"

\* Postings and what the wallets start with are what the ledger takes.
ASSUME LedgerLegsAssumption ==
  /\ Funded \subseteq Wallets /\ Funds \in Nat
  /\ \A w \in Funded : SeedMovement(w) \in Movement
  /\ \A q \in Requests :
       q.mode = "ledger" =>
         /\ DebitLeg(q) \in Leg /\ CreditLeg(q) \in Leg
         /\ Fee > 0 => FeeDebitLeg(q) \in Leg /\ FeeRevenueLeg(q) \in Leg

BothPosted(L, d, c) == Posted(L, d.key) /\ Posted(L, c.key)

\* The ledgers a pair may lead to: itself for a duplicate, none when it throws.
PairResults(L, d, c) ==
  IF BothPosted(L, d, c) THEN {L}
  ELSE IF PairAdmissible(Ready(L, d, c), d, c) THEN {PostPair(Ready(L, d, c), d, c)} ELSE {}

\* The unique indexes on the transfer row (sender, key) and on the recipient's
\* transaction row (recipient, "key:in").
RowConflict(q) == \E x \in transfers : SameClientKey(q, x) \/ (x.to = q.to /\ x.key = q.key)

ChargesFee(q) == Fee > 0 /\ q.key \notin fees

FeeResults(L, q) ==
  IF ChargesFee(q) THEN PairResults(L, FeeDebitLeg(q), FeeRevenueLeg(q)) ELSE {L}

\* What the transaction commits: transfer row, movements and fee, all or nothing; when
\* there is no outcome it rolls back and the call throws.
Outcomes(q) ==
  IF RowConflict(q) THEN {}
  ELSE UNION {FeeResults(L, q) : L \in PairResults(ledger, DebitLeg(q), CreditLeg(q))}

TransferTx(p) ==
  /\ pc[p] = "tx"
  /\ \E L \in Outcomes(req[p]) : ledger' = L
  /\ transfers' = transfers \cup {req[p]}
  /\ fees' = IF Fee > 0 THEN fees \cup {req[p].key} ELSE fees
  /\ Finish(p)

-----------------------------------------------------------------------------
HasMovement(w, type, ref, amount) ==
  \E i \in 1..Len(ledger.movements[w]) :
    LET m == ledger.movements[w][i] IN m.type = type /\ m.ref = ref /\ m.amount = amount

\* A transfer that is recorded as completed moved its amount: the sender was
\* debited and the recipient credited for this very transfer.  It needs keys that no
\* two organisations share.
CompletedIsMoved ==
  \A q \in {x \in transfers : x.mode = "ledger"} :
    /\ HasMovement(q.from, "internal_transfer_debit", <<"out", q.from, q.key>>, q.amount)
    /\ HasMovement(q.to, "internal_transfer_credit", <<"in", q.from, q.key>>, q.amount)
=============================================================================
