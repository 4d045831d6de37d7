--------------------------- MODULE ConsumerProducts ---------------------------
(***************************************************************************)
(* Beside the payments: locked investments (investmentService.ts), crypto  *)
(* sends that pay on chain first and are mirrored into the ledger          *)
(* afterwards (sendCrypto, cryptoOutboundLedgerService.ts), and what comes *)
(* in from the chains (cryptoInflowSyncService.ts,                         *)
(* evmInflowSyncService.ts) and the banks (flutterwaveInflowService.ts,    *)
(* greyWebhook).                                                           *)
(*                                                                         *)
(* A request carries the client's idempotency key as ref: two requests     *)
(* with one ref are a call and its retry, which may overlap.               *)
(***************************************************************************)
EXTENDS ConsumerPayments

CONSTANTS
  Requests,        \* [id, kind, ref, from, to, amount, position, rail]
  Positions,       \* refs of deposits; each makes one position at most
  OpenPositions,   \* positions that exist at the start, one unit each
  Outside,         \* everyone who is not a wallet here
  MaxLocked,       \* getMaxUserLockedUsd, getMaxTvlUsd
  Interest,        \* calculateMaturityInterest
  Fee,             \* DAYFI_TRANSFER_FEE_USD
  EarlyEffects     \* transfers to oneself that land between a sync's two look-ups

RequestKinds == {"invest", "claim", "crypto", "inflow", "bank"}

ASSUME RequestsAssumption ==
  /\ MaxLocked \in Nat /\ Interest \in Nat /\ Fee \in Nat
  /\ IsFiniteSet(Positions) /\ OpenPositions \in [Accounts -> SUBSET Positions]
  /\ \A v, w \in Accounts : v # w => OpenPositions[v] \cap OpenPositions[w] = {}
  /\ Outside \notin Accounts /\ EarlyEffects \subseteq Requests
  /\ \A r \in Requests : /\ r.kind \in RequestKinds /\ r.amount \in Nat
                         /\ r.kind \in {"invest", "claim", "crypto"} => r.from \in Accounts
                         /\ r.kind = "bank" => r.to \in Accounts
                         /\ r.kind = "invest" => r.ref \in Positions
                         /\ r.kind = "claim" => r.position \in Positions
  /\ \A r, q \in Requests :                \* a retry asks for the same
       r.kind = "invest" /\ q.kind = "invest" /\ r.ref = q.ref => r.from = q.from /\ r.amount = q.amount

VARIABLES
  at,          \* request -> where it is
  position,    \* ref -> its investment_positions row
  pocket,      \* wallet -> investment_pockets.balance of its owner
  claims,      \* refs of the claims in investment_movements
  landed       \* payments that have landed on a chain or a bank account

productVars == <<at, position, pocket, claims, landed>>
appVars == <<vars, productVars>>

NoPosition == [status |-> "none", owner |-> Outside, principal |-> 0, matures |-> 0]

Held(w) == SumFunctionOnSet([x \in Positions |-> position[x].principal],
                            {x \in Positions : position[x].owner = w /\ position[x].status = "active"})

ProductInit ==
  /\ Init
  /\ \E asked \in SUBSET Requests :
       /\ Cardinality(asked) + Cardinality({c \in Calls : pc[c] = "start"}) <= MaxCalls
       /\ at = [r \in Requests |-> IF r \in asked THEN "start" ELSE "done"]
  /\ position = [x \in Positions |->
                   IF \E w \in Accounts : x \in OpenPositions[w]
                     THEN [status |-> "active", principal |-> 1, matures |-> 0,
                           owner |-> CHOOSE w \in Accounts : x \in OpenPositions[w]]
                     ELSE NoPosition]
  /\ pocket = [w \in Accounts |-> Cardinality(OpenPositions[w])]
  /\ claims = {}
  /\ landed = {}

GotoR(r, label) == at' = [at EXCEPT ![r] = label]

-----------------------------------------------------------------------------
(* Investments. *)

\* depositToInvestment: the caps, then the position of an earlier call with this key.
\* One cap stands for the pool's and the user's.
InvestLook(r) ==
  /\ at[r] = "start" /\ r.kind = "invest"
  /\ GotoR(r, IF Held(r.from) + r.amount > MaxLocked \/ position[r.ref] # NoPosition
                THEN "done" ELSE "debit")
  /\ UNCHANGED <<vars, position, pocket, claims, landed>>

InvestDebit(r) ==
  /\ at[r] = "debit"
  /\ IF debits(<<r.ref, "investment">>, r.from, r.amount)
       THEN debit(<<r.ref, "investment">>, r.from, r.amount) /\ GotoR(r, "place")
       ELSE GotoR(r, "done") /\ UNCHANGED ledgerVars
  /\ UNCHANGED <<payVars, potVars, position, pocket, claims, landed>>

\* Mutant: the pocket takes the deposit before the position's key is known to be new.
InvestPlaceTwice(r) ==
  /\ at[r] = "place"
  /\ position' = IF position[r.ref] = NoPosition
                   THEN [position EXCEPT ![r.ref] = [status |-> "active", owner |-> r.from,
                                                     principal |-> r.amount, matures |-> day + 1]]
                   ELSE position
  /\ pocket' = [pocket EXCEPT ![r.from] = @ + r.amount]
  /\ GotoR(r, "done")
  /\ UNCHANGED <<vars, claims, landed>>

\* One database transaction: the INSERT of a position whose key exists undoes the pocket too.
InvestPlace(r) ==
  /\ at[r] = "place"
  /\ IF position[r.ref] = NoPosition
       THEN /\ position' = [position EXCEPT ![r.ref] = [status |-> "active", owner |-> r.from,
                                                        principal |-> r.amount,
                                                        matures |-> day + 1]]
            /\ pocket' = [pocket EXCEPT ![r.from] = @ + r.amount]
       ELSE UNCHANGED <<position, pocket>>
  /\ GotoR(r, "done")
  /\ UNCHANGED <<vars, claims, landed>>

\* Bound: claims of one position under different keys do not overlap.
ClaimAlone(r) == \A q \in Requests : at[q] = "pay" /\ q.position = r.position => q.ref = r.ref

\* claimInvestmentPosition: known key, unknown, claimed and unripe positions end the call.
ClaimLook(r) ==
  /\ at[r] = "start" /\ r.kind = "claim" /\ ClaimAlone(r)
  /\ LET x == position[r.position]
     IN GotoR(r, IF r.ref \notin claims /\ x.status = "active" /\ x.owner = r.from
                      /\ x.matures <= day
                   THEN "pay" ELSE "done")
  /\ UNCHANGED <<vars, position, pocket, claims, landed>>

\* One database transaction again, undone by a known key.  It credits the wallet by its
\* own statements and does not look whether its UPDATE of the position met a row.
ClaimPay(r) ==
  /\ at[r] = "pay"
  /\ LET paid == position[r.position].principal + Interest
         key == <<r.ref, "yield">>
     IN IF pocket[r.from] < position[r.position].principal \/ r.ref \in claims
             \/ findMovementByKey(key)
          THEN UNCHANGED <<ledgerVars, position, pocket, claims>>
          ELSE /\ position' = [position EXCEPT ![r.position].status = "claimed"]
               /\ pocket' = [pocket EXCEPT ![r.from] = @ - position[r.position].principal]
               /\ credit(key, r.from, paid)
               /\ claims' = claims \cup {r.ref}
  /\ GotoR(r, "done")
  /\ UNCHANGED <<payVars, potVars, landed>>

-----------------------------------------------------------------------------
(* Crypto sends: the chain first, the ledger after. *)

\* routeCryptoSend: the network takes the payment, or refuses it and nothing was done.
SendOnChain(r) ==
  /\ at[r] = "start" /\ r.kind = "crypto"
  /\ \/ landed' = landed \cup {r} /\ GotoR(r, "mirror")
     \/ UNCHANGED landed /\ GotoR(r, "done")
  /\ UNCHANGED <<vars, position, pocket, claims>>

\* recordCryptoOutboundLedger, under the hash; a transfer to oneself is skipped, and a
\* debit that is refused leaves a payment without one.
Mirror(r) ==
  /\ at[r] = "mirror"
  /\ IF r.to # r.from /\ debits(<<r.id, "out">>, r.from, r.amount)
       THEN debit(<<r.id, "out">>, r.from, r.amount) /\ GotoR(r, "fee")
       ELSE GotoR(r, "done") /\ UNCHANGED ledgerVars
  /\ UNCHANGED <<payVars, potVars, position, pocket, claims, landed>>

MirrorFee(r) ==
  /\ at[r] = "fee"
  /\ IF debits(<<r.id, "fee">>, r.from, Fee) THEN debit(<<r.id, "fee">>, r.from, Fee)
     ELSE UNCHANGED ledgerVars
  /\ GotoR(r, "done")
  /\ UNCHANGED <<payVars, potVars, position, pocket, claims, landed>>

-----------------------------------------------------------------------------
(* Inflows: from the chains by looking, from the banks by webhook. *)

\* Somebody outside pays a deposit address or a virtual account.
PaidIn(r) ==
  /\ at[r] = "start" /\ r.kind \in {"inflow", "bank"}
  /\ landed' = landed \cup {r}
  /\ GotoR(r, "done")
  /\ UNCHANGED <<vars, position, pocket, claims>>

\* Horizon lists a payment under its operation, and the effect it had on the account
\* under the operation and a running number.
Forms == {"payment", "effect"}
RecordId(r, form) == [operation |-> r.id, effect |-> IF form = "effect" THEN 1 ELSE 0]

\* Mutant: the number of the effect is part of the reference.
pickInflowEffectRef(id) == id.operation + 100 * id.effect

\* normalizeHorizonOperationId and pickInflowIdempotencyRef: the operation alone.
pickInflowIdempotencyRef(id) == id.operation

\* syncStellarInflowsToLedger, one record of one run: runs overlap and see the same
\* records again.  A payment from oneself is passed over; an effect does not tell who
\* paid, and is looked at when the list of payments, read before, does not have it.
InflowSynced(r, form) ==
  /\ r \in landed /\ r.kind \in {"crypto", "inflow"} /\ r.rail = "stellar"
  /\ r.to \in Accounts
  /\ r.from = r.to => r \in EarlyEffects /\ form = "effect"
  /\ credit(<<pickInflowIdempotencyRef(RecordId(r, form)), "in">>, r.to, r.amount)
  /\ UNCHANGED <<payVars, potVars, productVars>>

\* syncChainUsdcInflows, one log of one run: its transaction and index name it.
LogSynced(r) ==
  /\ r \in landed /\ r.kind \in {"crypto", "inflow"} /\ r.rail = "evm"
  /\ r.to \in Accounts /\ r.from # r.to
  /\ credit(<<r.id, "in">>, r.to, r.amount)
  /\ UNCHANGED <<payVars, potVars, productVars>>

\* processFlutterwaveDeposit and greyWebhook, delivered once or more.  A deposit whose
\* owner is found only through Flutterwave's own record takes that record's reference
\* (bound: every delivery of a deposit is resolved in the same way).
BankWebhook(r) ==
  /\ r \in landed /\ r.kind = "bank"
  /\ credit(<<r.id, IF r.rail = "looked up" THEN "flw_ref" ELSE "tx_ref">>, r.to, r.amount)
  /\ UNCHANGED <<payVars, potVars, productVars>>

\* The server stops, or a statement throws: the request ends where it is.
RequestStops(r) ==
  /\ at[r] \notin {"start", "done"}
  /\ GotoR(r, "done")
  /\ UNCHANGED <<vars, position, pocket, claims, landed>>

ProductStep(r) ==
  \/ InvestLook(r) \/ InvestDebit(r) \/ InvestPlace(r)
  \/ ClaimLook(r) \/ ClaimPay(r)
  \/ SendOnChain(r) \/ Mirror(r) \/ MirrorFee(r)
  \/ PaidIn(r) \/ LogSynced(r) \/ BankWebhook(r) \/ RequestStops(r)

ProductNext ==
  \/ Next /\ UNCHANGED productVars
  \/ \E r \in Requests : ProductStep(r)
  \/ \E r \in Requests, form \in Forms : InflowSynced(r, form)

ProductSpec == ProductInit /\ [][ProductNext]_appVars

-----------------------------------------------------------------------------
\* A pocket holds what its owner's unclaimed positions promise, each position was debited
\* once in its amount, and each claimed one was paid out once: whatever call of a retried
\* deposit or claim stops between the wallet's debit and the position.
PocketIsLocked ==
  /\ \A w \in Accounts : pocket[w] = Held(w)
  /\ \A x \in Positions \ UNION {OpenPositions[w] : w \in Accounts} :
       position[x] # NoPosition =>
         Movement(<<x, "investment">>, "debit", position[x].owner, position[x].principal)
           \in movements
  /\ Cardinality({x \in Positions : position[x].status = "claimed"}) = Cardinality(claims)

Mirrored(r) == Movement(<<r.id, "out">>, "debit", r.from, r.amount) \in movements

\* Wallets, pots, pockets and what left never exceed what was there, what came in from
\* outside and the interest; what a crypto send paid without its debit is the only excess.
BooksBalance ==
  LET sent == {c \in Payouts : order[c] \in {"open", "paid"}}
      came == {c \in TopUps : order[c] = "paid"}
      onChain == {r \in landed : r.kind = "crypto" /\ r.from # r.to}
      mirrored == {r \in onChain : Mirrored(r)}
  IN Total(LAMBDA w : balance[w] + pocket[w], Accounts)
       + Total(LAMBDA x : PotBalance(pot[x]), Pots)
       + Total(LAMBDA c : c.amount, sent)
       + Total(LAMBDA r : r.amount, {r \in onChain : r.to = Outside})
     <= Total(LAMBDA w : Opening[w] + Cardinality(OpenPositions[w]), Accounts)
          + 2 * Cardinality(OpenPots) + Interest * Cardinality(claims)
          + Total(LAMBDA c : c.amount, came) + Total(LAMBDA x : pot[x].credits, Pots)
          + Total(LAMBDA r : r.amount, {r \in landed : r.kind # "crypto"})
          + Total(LAMBDA r : r.amount, onChain \ mirrored)
=============================================================================
