# TLA+ models of the Dayfi backend: ledgers, payments and settlement

Dayfi's backend is a TypeScript/Express service on Postgres.  It has two sides.

* **Infrastructure** (`src/modules/infra`) gives organisations a USDC balance: they
  *collect* (a payer pays in, the organisation is credited), *send* (a payout is
  locked, handed to a provider or to the Stellar network, and then consumed or
  returned), *transfer* to each other, inside the ledger or on Stellar, and *receive*
  deposits from outside.
* **Consumers** (`src/modules/payment`, `four`, `dayflow`) hold wallets: they send to
  people and banks, pay bills, save in pots and locked positions, and do the same by
  schedule or in a conversation.

Money is moved by handlers that `await` between reading a row, calling the ledger, a
provider or a chain, and writing the row back, while webhooks, retries, timers and
other requests do the same.  This directory models those handlers: which
interleavings the database excludes, which it does not, and what the money does in
both.

Paths below are relative to the repository root; `src/modules/` is left out of them.

## 1. Inventory

| Component | State | Operations | Talks to |
|---|---|---|---|
| Ledger, `infra/infraLedgerService.ts` | `infra_wallet_accounts` (available, pending, locked, status), `infra_ledger_movements` | credit, credit pending, release pending, debit, lock, release, finalize; transfer; fee | Postgres: row locks, unique indexes on key and on (org, env, reference, type) |
| Lifecycle, `infra/infraLifecycleService.ts` | `infra_transactions` (status, metadata flags) | lock, finalize and release of a payout, credit of a collection, provider webhooks | ledger, FX, funding |
| Money API, `infra/infraMoneyService.ts` | the same rows, keyed by Idempotency-Key | createPayout, createCollection, simulateSettlement | lifecycle, Yellow Card, Flutterwave |
| Bills, `infra/infraBillsService.ts` | the same rows | payInfraBill, refresh | lifecycle, Flutterwave |
| Bulk, `infra/infraBulkService.ts` | batches and items | create, preflight, confirm, cancel, refresh | createPayout |
| Funding, `infra/infraStellarFundingService.ts` | `infra_settlements` of collections | treasury to organisation payment, confirmation, release of pending | adapter, ledger |
| Treasury, `infra/infraTreasuryService.ts` | `infra_treasury_rebalances` | request, approve, submit, execute | adapter; the account that funds collections |
| Settlement, `infra/infraSettlementService.ts` | `infra_settlements` of payouts | settlePayoutOnStellar, confirmStellarSettlement | adapter, lifecycle |
| Off-ramp, `infra/infraFiatWithdrawalService.ts` | settlement row and transaction metadata | Stellar leg to the treasury, then provider leg; retries | adapter, Yellow Card, lifecycle |
| Transfers, `infra/infraInternalTransferService.ts`, `infraOnchainTransferService.ts`, `infraFeeService.ts` | `infra_internal_transfers`, `infra_transaction_fees` | transfer in one database transaction, or lock, send on Stellar, finalize or fail | ledger, adapter |
| Deposits, `infra/infraStellarDepositService.ts` | `infra_stellar_deposits` | verify, credit pending, make available; the poll | Horizon, ledger |
| Accounts, `infra/infraStellarAccountService.ts`, `infraStellarCustody.ts` | `infra_stellar_accounts`, `infra_stellar_custody`; a map of runs per node | provision: key, row, XLM, trustline, 'active' | Friendbot, Horizon; deposits |
| Adapter, `infra/stellarSettlementAdapter.ts` | none; the chain | plain and sponsored payments, verification | Soroban RPC, Horizon |
| Reconciliation, `infra/infraReconciliationService.ts` | `infra_reconciliation_items` | observes provider, ledger and settlement, classifies | reads all of the above |
| Consumer ledger, `payment/balanceService.ts` | `wallets.balance`, `ledger_movements` | keyed credit and debit, reversal | Postgres |
| Consumer payments, `payment/services.ts`, `p2pService.ts`, `billsService.ts`, `walletActivityService.ts`, `dayearnService.ts` | `wallet_transactions`, `dayearn_pots` | send, bank transfer, bill, tag transfer, swap, top-up, pots; webhook, status sync, repair | consumer ledger, Yellow Card, Flutterwave |
| Consumer products, `payment/investmentService.ts`, `cryptoSendService.ts`, the inflow services | `investment_positions`, pocket, synced inflows | locked deposit, claim, crypto send and its mirror, inflow syncs | consumer ledger, Stellar, EVM, Flutterwave |
| Deposit addresses, `payment/cryptoWalletProvision.ts`, `ensureWallet.ts`, `cryptoAssetWalletStore.ts` | the USD row's keys, `crypto_asset_wallets`; a chain of runs per user | provision, enqueue, activate an asset, give out an address | Horizon, the master wallet |
| Dayflow, `dayflow/` | flows with schedules (one JSON column) | tick, manual run, edit, cancel | consumer payments |
| Four, `four/engine/`, `finance/`, `intent/` and routers | `four_active_intents`, one row per conversation | messages, buttons, deposit addresses; review, confirm, authorise with PIN | consumer payments |
| Organisations, API keys, recipients, corridors, admin; engines of `azap` and `dayx`, authentication, KYC, notifications | CRUD tables, sessions, text | HTTP handlers | see section 7 |

What is hard here:

* **Concurrency in the database.**  READ COMMITTED, `SELECT ... FOR UPDATE`, look-ups
  of an idempotency key that precede the insert, rows created on first use.
* **Concurrency in the handlers.**  Guards such as `fundsReleased` are evaluated on a
  copy of the row; the ledger call and the write of the row come after further awaits,
  and most UPDATEs look at nothing but the id.
* **Failure.**  A crash or a throwing await between any two steps; a call whose answer
  is lost; webhooks that are late, repeated or out of order; no recovery job.
* **Several books.**  Ledger, provider and chain must tell one story, and a reader that
  looks at them one after the other must not be told another.

`PROJECT.json` lists each hazard at its line with the properties aimed at it.

## 2. Modules

"Holds" means EXTENDS: the composed module has the variables and actions of both, on
the same wallets.

| Module | Models | State and actions in terms of the code |
|---|---|---|
| `InfraLedgerOps` | arithmetic and records of the ledger | one operator per operation on the three buckets; `Covers` is its balance check, `Post` its two writes, `Posted`/`SlotTaken` the unique indexes; `Audited`, `KeysOnce`, `SlotsOnce` say what a sound ledger is |
| `InfraLedger` | what the ledger promises | abstract specification, one atomic step per operation |
| `InfraLedgerTx` | how the ledger runs | one action per SQL statement of a session: find, ensure (select, insert), check status, lock, check and update, insert movement, commit; lost connections, deadlock detector, an operator who freezes wallets |
| `InfraLifecycle` | lock, finalize, release of a payout | three steps each: load, ledger call, patch; `row[p]` is the copy the guards look at |
| `InfraPayout` | createPayout, Yellow Card, webhooks, simulation | holds `InfraLifecycle`; `order` is the provider's book |
| `InfraBills` | payInfraBill and its refresh | holds `InfraPayout`; a bill is a payout with a provider that has no webhook |
| `InfraBulk` | a batch of payouts | holds `InfraPayout`; `item` and `batch` rows against the payouts they stand for |
| `StellarAdapter` | submission and verification | relations between a call, its answer and the chain; a payment carries the sequence number of its source account |
| `InfraSettlement` | crypto payouts on Stellar | holds `InfraPayout` and `StellarAdapter` |
| `InfraFiatWithdrawal` | off-ramp | holds `InfraSettlement`: Stellar leg, provider leg, the webhook's off-ramp branches |
| `Reconciliation` | classify | a pure operator over the three legs |
| `InfraReconciliation` | a run of it, beside the rest | holds `InfraFiatWithdrawal` and `Reconciliation`; `audit` is the run in progress |
| `InfraCollection` | createCollection, webhooks, credit, funding | the ledger, the provider and `StellarAdapter` |
| `InfraTreasury` | rebalances | holds `InfraCollection`: both spend one account |
| `InfraTransfer` | transfers inside the ledger, with fees | the checks before the transaction are steps, the transaction is one |
| `InfraOnchainTransfer` | transfers on Stellar | holds `InfraTransfer`: lock, send, finalize or fail, every await a step |
| `InfraStellarDeposit` | deposits | holds both transfer modules: same wallets, same chain |
| `InfraStellarAccount` | provisioning of organisations | holds `InfraStellarDeposit`; `acct` is the row, `locks` the map of runs of each node, `opened` what Stellar has of a key |
| `CryptoWalletProvision` | consumers' deposit addresses | a caller and its run are two programs, since a run that was given up goes on; `queue` is the chain of runs |
| `ConsumerLedger` | keyed credit and debit | one atomic step each: the transaction rolls back on a key that exists |
| `ConsumerPayments` | the consumer's payments and pots | one process per call, a step per await; webhooks, sync and repair are handlers |
| `ConsumerProducts` | positions, crypto sends, inflows | holds `ConsumerPayments` |
| `Dayflow` | a flow and its runs | a run makes payments of `ConsumerPayments` one by one and writes the flow at its end |
| `Conversation` | handleUserText: rules, drafts, reviews, deposits | a message is handled from a copy of the row to one write of it; amounts and recipients are kept as the number of the message that named them |
| `PaymentIntents` | from review to receipt | holds `Conversation`, which writes the same row; an authorisation makes a payment of `ConsumerPayments` |
| `ConsumerApp` | the consumer side as one system | holds products, flow and intent |
| `LedgerLemmas` | lemmas | what a posting does to a ledger, what submissions and outcomes do to a chain of envelopes, and sums over finite sets; cited by the proofs of every module with a ledger |
| `InfraLedgerProofs`, `LedgerTxProofs`, `PayoutProofs`, `CollectionProofs`, `TransferProofs`, `AddressProofs`, `ConsumerProofs` | theorems | section 6 |
| `MC*` | instances for TLC | requests, quotes, creators, bounds |

Abstractions.  Amounts are small naturals: the code's numbers are decimals that are only added,
subtracted and compared in what is modelled.  Database ids are the model's own keys; client keys are
values that two requests may share.  A ledger call is one atomic step above `InfraLedgerTx`, whose
refinement, proved in section 6, shows that it may be.  FX is a set of quotes.  An action is named
after the function, or the part of it between two awaits, that it stands for.  Definitions marked
"Mutant" are plausible bugs that a property was tried against; no specification uses them.

External, modelled from how the code uses it: Postgres's locks, index waits and
deadlock detector; providers, billers and payers; the Stellar network and its nodes.

## 3. Properties

*Ledger.*  `AuditTrail`: each wallet's movements form an unbroken chain from zero to
the row's buckets, each link covered and computed from the one before.
`OncePerKeyAndSlot`: no key, and no (reference, type) of a wallet, is posted twice.
`AckedIsPosted`: who is told "posted"
or "duplicate" finds the movement.  `NoWaitCycle`, `CallsEnd`: of wallets that exist, only
the fee row can close a wait cycle, and every call ends.  `ImplementsLedger`: the interleaved
statements are the atomic ledger, pairs whole and frozen wallets unmoved included.

*Payouts, bills, bulk.*  `LockEndsOnce`: a lock is consumed or returned, once, for its
amount.  `LockedIsInFlight`: the locked bucket is the sum over payouts in flight.
`LockFollowsOrder`: a released lock is of an order that was not and will not be paid, a
debit is of one that is, and nothing is ordered without a lock.
`OrdersAreSettled`: what the provider ends is finalized or released.
`BatchTellsOutcomes`: a batch ends telling what the ledger tells.

*Collections and treasury.*  `CreditNeedsPayment`, `SettledIsAvailable`, `AvailableNeedsFunding`
(and the pending bucket is what is not available yet), `FundedAsCredited`, `PaidIsAvailable`: payer,
ledger and chain agree, and what is paid becomes available. `ConfirmedRebalanceLanded`: a rebalance
said to be confirmed landed, with that hash.

*Settlement and off-ramp.*  `ConfirmedIsLanded`, `SentOnce`;
`ReceivedOnce`: the treasury receives a withdrawal once, however often the leg is
retried; `OrderAfterReceipt`: the provider is asked only then; `ReceiptKeepsLock`:
what the treasury has received is not given back, unless the submission threw while the
envelope could still land (`Doubted`); `DebitedIsDelivered`:
a debit means that the USDC landed and, for a withdrawal, that the bank was paid;
`ReconciledIsDelivered`: a run that calls a payout reconciled is right, although it
read the three legs at three moments.

*Transfers and deposits.*  `AllOrNothing` (what is credited landed; a failed transfer
debited nobody and, unless its submission threw in doubt, cannot land any more and has no
lock both consumed and returned),
`DoneIsMoved` and `NothingInvented` (the wallets hold no more than was there, or came in
from outside).

*Addresses.*  `AddressIsKept`: an organisation's account that says "active" can receive,
its secret is in custody, and what was paid went to the address it still has.
`AddressForGood`: an address that a consumer was given is the one of its row for good, an
asset that says ACTIVE can be received, and no account was opened whose key no row holds.

*Consumers.*  `BooksBalance`: all wallets, pots and pockets together hold what came in
less what went out, apart from crypto sends not mirrored yet.  `ReversalIsOfFailed` and
`FailedSendIsReversed`: a failed send (the second: one that users ask for themselves), and no
other, is credited back, in the end.
`PocketIsLocked`: the pocket holds what its positions promise.  `SchedulePaidOnce`: no date is
paid twice.  `ReviewPaidOnce`: nor is a review, however messages and attempts
interleave.  `PaidAsShown`: what is paid is what the page showed when the PIN was entered.
`FreshAmount`: an amount that the user cancelled, or replaced by another request, is in no
later draft or review, if no other message was being handled when the cancellation came.

`TypeOK` is checked where it has weight: no bucket and no consumer wallet goes below zero
although callers check without a lock.

## 4. Runs

| Run | Instance | Shows |
|---|---|---|
| `ledger_atomic` | 2 wallets, 8 legs | the abstract ledger keeps its invariants |
| `ledger_tx_singles` | 2 sessions, 9 requests, rows not yet created | the statements of the single-wallet operations implement the atomic ledger; creation races, key and slot collisions, lost connections included |
| `ledger_tx_transfers` | 2 sessions, opposite transfers, a fee whose revenue row is created on the way, a freeze | the same for transfers and fees; wait cycles; every call ends |
| `payout_send` | two at a time of a LIVE, a TEST and an unconfigured payout, a LIVE and a TEST bill, of 1 or 2 USDC on 3 USDC; 2 handlers | locks and orders, with crashes, throws, refusals and late or repeated webhooks |
| `payout_steady` | a batch of two LIVE payouts or of one TEST payout, an operator, overlapping refreshes, no failure on our side | liveness of orders and of a batch |
| `collect_fund` | one funded collection, one on each provider without funding, a rebalance of 2 on a treasury of 3; every outcome of a submission, crashes | availability only after a payment landed; the pending bucket; rebalances |
| `collect_steady` | two at a time of three collections, one handler, no crash, drifting FX | funded as credited, available in the end, also after a refused payment |
| `offramp` | one of: two bank payouts (LIVE, TEST) of 2 USDC together on 2 USDC, or a crypto payout; 2 handlers, 2 submissions with every outcome, refused and lost ones included; a reconciliation | receipts, orders, locks and what reconciliation concludes |
| `wallets` | two at a time of two on-chain transfers, one inside the ledger and a deposit, on four wallets; fees; one key shared by senders of different modes; or an organisation that is provisioned by three calls on two nodes, beside its deposit; or a consumer with five kinds of calls for its addresses | transfers end whole or undone; no money is made; addresses are kept |
| `consumer` | up to three of nine user payments, or three of thirteen requests for products, or one of each; or a flow run twice, by ticks or a user; or a conversation of up to three messages out of 31 utterances, which may overlap, with two attempts to pay | the consumer properties, with stops at every await |
| `offramp_crash` | violation of `ReceiptKeepsLock` | section 5 |
| `settle_replay` | violation of `SentOnce` | section 5 |

**Bounds.**  Two sessions or handlers: every race found or excluded is between two of
them (one reads before the other writes); a third would repeat the role of one.
Two money movements at a time: one to go wrong and one whose locked, pending or
unspent USDC could be taken by mistake; amounts and funds are such that the wallet may cover one and
not both.  `MaxSends` = 2 submissions is what a double payment needs (1 in
`wallets`, where a transfer has one envelope).  Keys are finite and each is posted once,
so the ledger needs no other bound.  State constraints, each named and commented in its `MC` module:

| Constraint | Bound |
|---|---|
| `AtMostTwo`, `TwoSeen`, `OneOrFunded` | how many of the instance's movements one behaviour has; in `wallets`, beside the deposit only the transfer from its wallet, since the others share no row with it |
| `FewProvisioners`, `FewCalls` (wallets) | three calls that provision an organisation only if one of them waits, one beside a deposit, which one process looks at then; three calls for a consumer's addresses, two at a time |
| `NothingOfOrganisations` (wallets) | organisations and consumers, which share no row and no account, are not interleaved |
| `OneKind` (off-ramp) | withdrawals or a crypto payout, not both |
| `DoubtAlone` (off-ramp, wallets) | a submission that throws while its envelope may still land, or a release that throws, comes in behaviours of one withdrawal, or one transfer |
| `NoMismatch` (off-ramp) | a behaviour is followed no further than the first mismatch that reconciliation reports |
| `OneKind` (consumer) | user calls, a flow of which two runs are made, or a conversation; of pots and top-ups at most two |
| `Brief` (consumer) | messages are handled before or after a payment, whose steps neither read nor write what handlers do; three messages only for a send to another country (`SEND_YC`), which takes three (`MaxMessages`), and the third overlaps another only if one of the two cancels or gives an amount; the second attempt comes second |

In a conversation messages overlap (`Doubled` has "message"): a handler may read the row, another
answer, and the first then write.  A user has one Mini App open and
leaves it to write in the chat; what handlers do in the background, and buttons,
interleave with all of it.  A draft of one message and its change by the next are what
`FreshAmount` and `PaidAsShown` need to fail (their mutants do).

What a run leaves out by its *constants*, because the property would not hold, is listed
in section 5; nothing else is left out by them.

**Deadlock checking** is on for the ledger runs.  The other flows do stop: when all
movements of the instance have ended and no webhook is due, nothing is left to do.

**Fairness.**  `FairSpec` of `InfraLedgerTx`: a statement that can run is run; a row
lock, or the insert that waits for one, is granted in the end although others take it in
between (strong fairness), since Postgres queues waiters in order; a deadlock is
broken by the detector.  `BulkSpec` and `SteadySpec`: a handler that started runs on (these
specifications have no crash), the provider ends every order and repeats a webhook until
a delivery is handled, so strong fairness on delivery; in `BulkSpec` also, a client
looks at its batch again.  `AppFairSpec`: every look at the consumer's wallet runs the status sync
and the repair, and users go on looking; single runs may be cut off, hence strong
fairness of fetch, apply and repair.  Nothing is assumed of clients otherwise: no
fairness on creating anything, nor on simulations.

## 5. What does not hold

Two runs end in a violation, each a disagreement between the code and what its own
comments or tests say.

* `settle_replay`.  settlePayoutOnStellar looks at the settlement row once, before it
  submits; a row that is pending, because another call is submitting or a crash
  came before the hash was saved, does not stop another payment.  The test "does not
  double-send on settle replay" replays only after the confirmation.
* `offramp_crash`.  The settlement row says 'confirmed' before the transaction's metadata
  says `stellarConfirmed`.  A call that stops in between leaves a payout whose next
  settle call skips the Stellar leg; when the provider then fails, its webhook
  releases a lock whose USDC the treasury has.

The passing runs exclude, by constants, bounds or fairness, cases in which a property fails
or in which the code promises nothing.  They are limits of what the runs show.  Where a
constant is named, changing it repeats the case.

*Ledger and payouts*

| Where | Case | What no longer holds |
|---|---|---|
| `InfraLedgerTx` | a fee whose payer is the revenue wallet | `AuditTrail`: one row is updated twice from balances read before both |
| `InfraLedgerTx` | calls that open wallets on the way, not the lowest alone (`Opened` = {}) | `NoWaitCycle`: ensureWalletAccount's INSERT (`infra/infraLedgerService.ts:228`) holds the new row before lockWalletRow sorts the ids, so two transfers between two wallets that are not there yet can wait for each other.  bootstrapOrgWallets opens test wallets alone.  The detector ends one of the two, whose caller gets an error |
| `InfraPayout` | `SubmitResults` with "timeout" | `LockFollowsOrder`, `LockEndsOnce`: createPayout's catch block releases a lock whose order was taken, and finalize and release check each other's flags on old copies |
| `InfraPayout` | two processes in `Creators["a"]` | overlapping calls with one Idempotency-Key share row and lock and place two orders; with drifting `Quotes` `LockedIsInFlight` fails too, since the loser overwrites `usdcAmount` |
| `InfraBills` | `Blind` with more than "paid"; `Asked` "early", "simulate"; `BillAnswers` "lost" | a refresh during the payment, or with an unreachable provider, releases (`infra/infraBillsService.ts:616`); a lost createBillPayment answer releases (`:464`); a stored "pending" outweighs a later "success" (`:81`); the lines around `:547` say the lock is kept |
| `InfraBulk` | calls that change a batch overlap | two confirms place double orders; a refresh of a draft writes 'processing' (`infra/infraBulkService.ts:775`) and the batch is stuck; cancel or preflight during a confirm; a child that throws after its order fails its item though it is paid |
| `InfraSettlement` | a failed submission, then another settle call | a released payout is paid: `ledgerLockId` is never cleared and counts as a lock; also, POST /settlements/:id/confirm finalizes rows of other kinds |
| `InfraFiatWithdrawal` | two first calls at once: `Settlers` with both processes | each prepares an envelope, and both land (`ReceivedOnce`) |
| `InfraFiatWithdrawal` | a submission that throws though its envelope is not dead: FORCE_FAIL (`infra/stellarSettlementAdapter.ts:485`), no connection, 429, 5xx, tx_insufficient_fee, or taken while the answer is lost.  In the run, but `ReceiptKeepsLock` and `OrderAfterReceipt` say nothing of the lock of such a payout (`Doubted`) | the catch block (`infra/infraFiatWithdrawalService.ts:442-463`) returns the lock; the next settle finds `ledgerLockId` (`:844-849`), submits the saved envelope again (`:404-413`), and it lands: the treasury has the USDC, the provider is asked to pay, and the organisation has its lock back |
| `InfraFiatWithdrawal` | `ConfirmCalls` with a withdrawal | POST /settlements/:id/confirm finalizes it when its USDC has landed, before the bank is paid (`DebitedIsDelivered`) |
| `InfraFiatWithdrawal` | a retry after the provider failed | the failed order is found again by its sequenceId, so nothing is sent again; the USDC stays locked and received until an operator acts |
| `InfraReconciliation` | any | a late 'submitted' overwrites 'confirmed', a late "timeout" writes 'failed' over a settled payout: a settled payout is reported as pending or failed; only "reconciled implies delivered" is stated |

*Collections, treasury, transfers, deposits*

| Where | Case | What no longer holds |
|---|---|---|
| `InfraCollection` | `Spec` instead of `SteadySpec`, funding live | a row left pending or submitted is funded again; with drifting `Quotes`, a crash between credit and patch makes the retry quote again (`FundedAsCredited`) |
| `InfraCollection` | drifting `Quotes` for a funded collection, two webhooks of it at once | each quotes; the one whose credit was a duplicate may insert the settlement row first, and confirmCollectionFunding releases its amount, not what was credited: the pending bucket keeps or lacks the difference (`AvailableNeedsFunding`, second half) |
| `InfraTreasury` | two submits overlap, or a retry of a row whose lost payment lands | a rebalance is paid twice, against the comment at `infra/infraTreasuryService.ts:810`; approve's UPDATE (`:793`) resets a confirmed row; nothing writes status 'submitted', so `:849-879` never runs |
| transfers | one client key in two organisations | ledger keys of transfers and fees hold no organisation: the second fee is skipped as a duplicate (`infra/infraFeeService.ts:198`) |
| `InfraOnchainTransfer` | a submission that throws though its envelope is not dead (as for `InfraFiatWithdrawal`).  In the run; `AllOrNothing` says nothing of what such a transfer released, nor of its envelope | it is marked failed and released while the payment lands |
| `InfraOnchainTransfer` | releaseOrgFunds throws for a database error.  In the run | failTransfer swallows it (`infra/infraOnchainTransferService.ts:145-172`) and writes 'failed' with fundsReleased (`:212-219`): the lock of a failed transfer is held for good.  So no property says that what failed has its lock back |
| `InfraOnchainTransfer` | two calls that both prepare an envelope; a retry | paid twice; refused for a balance that its own lock has taken |
| `InfraOnchainTransfer` | two requests of one sender with one client key (`OnchainKeysAssumption`) | on a unique violation the code takes the processing row of that sender and key over without comparing fingerprints (`:718-732`), so a second request that races the first continues with the first one's row, and locks and sends by its own amount and recipient |
| `InfraStellarDeposit` | `Watched` with wallets that on-chain transfers pay | the poll takes payments of on-chain transfers and funding for deposits and credits them again, against `:325` "Same hash never credits twice"; the poll is called by a script and by tests |
| `InfraStellarAccount` | calls of two nodes, one of which fails late | patchStatus writes 'failed' or 'xlm_ready' by id over 'active' (`infra/infraStellarAccountService.ts:420`): deposits are refused until it is provisioned again.  `AddressIsKept` says what an account that is active can do, not that it stays so |

*Consumers*

| Where | Case | What no longer holds |
|---|---|---|
| `ConsumerPayments` | `Answers` with "lost" | `ReversalIsOfFailed`: the catch blocks (`payment/services.ts:1756`, `:735`, `billsService.ts:135`) credit back what is paid |
| `ConsumerPayments` | a stop between debit and credit of a tag transfer or swap, or between order and row of a send | the money is in neither wallet; a send without a row is never synced.  `BooksBalance` counts it as under way |
| `ConsumerPayments` | two withdrawals of one pot; a deposit to a pot being closed; createDayEarnPot stopped after its debit | both pay out; the deposit is lost (`payment/dayearnService.ts:498`); debited without a pot (`:408`) |
| `ConsumerProducts` | two claims of one position under different keys (`ClaimAlone`) | both pay (`payment/investmentService.ts:458`) |
| `ConsumerProducts` | `EarlyEffects`: a transfer to oneself lands between two look-ups of a sync | it is credited as an inflow |
| `ConsumerProducts` | a crypto send whose mirror is refused | it was paid on chain and is never debited; a deposit resolved in two ways is credited twice (`payment/flutterwaveInflowService.ts:135`); caps are read before the debit |
| `CryptoWalletProvision` | `Misfortunes` with "rows" | `wallets` has no unique index on user and currency: two look-ups of the USD row (`payment/services.ts:271`, `cryptoWalletProvision.ts:152`) before either insert make two rows.  loadWalletRow reads the oldest, the UPDATE of persistCryptoWallet and the receive screen take one without an order: keys are made again, against the comment at `cryptoWalletProvision.ts:193`, and an address is shown whose account is never opened |
| `CryptoWalletProvision` | `Misfortunes` with "stall" | a database statement that outlasts 90 seconds: the run that was given up overwrites the keys of its successor |
| `Dayflow` | `Overlaps` with "stop", "manual", "edit" | a stop before the UPDATE, or a manual run beside a tick, pays twice; an edit is overwritten by a running tick, or writes an old date back.  The second UPDATE of createAndActivateFlow (`dayflow/dayflowFlowService.ts:484-489`) is such an edit |
| `Dayflow` | `Overlaps` with "throw" | what a payment awaits after its money moved may throw (`payment/p2pService.ts:177-225`, `payment/services.ts:1353`, `payment/billsService.ts:205`): the catch (`dayflow/dayflowFlowService.ts:718`) leaves the schedule due and its amount out of spent_amount, and the next tick pays it again (`SchedulePaidOnce`) |
| `PaymentIntents` | `Doubled` with "confirm" or "authorize" | check (`four/intent/authorizeService.ts:43`) and unconditional claim (`:63`) let two PIN calls pay; a confirmation during which the page is opened authorises a newer review than is shown |
| `PaymentIntents` | a confirmation, a claim or a completion after the row was cancelled or written anew | updateIntent looks at the id alone: it revives the cancelled row (`Write`: such a row counts as not cancelled), or marks the intent that replaced its own |
| `PaymentIntents` | an append to the conversation that throws | FAILED though paid: the user agrees again |
| `Conversation` | a cancellation that comes while another message is handled: the webhook controller does not wait for its handlers (`four/controller.ts:374`), and the row is read without a lock (`four/engine/conversationEngine.ts:362-370`).  In the run; `FreshAmount` counts a cancellation only when no other message was being handled (`closed`) | the other handler, which awaits a look-up (`:287`), writes the row it has read over the cancellation (`:374`), with the cancelled amount (`:184`) |
| `Conversation` | DepositAddressReady after the user went on | it overwrites the newer draft or review (`four/finance/cryptoDepositFlow.ts:388`) |
| `Conversation` | "send to X" while a transfer is under review | it inherits the amount, although the comment at `four/engine/conversationEngine.ts:1219` says "only ... when this utterance did not name a new destination" |
| `Conversation` | a balance request while a deposit is collected | the interruption (`:387`) cancels what `:1050` means to keep; likewise `:492` "Continue only when still collecting the *same* bill category" is reached for reviews alone |
| `Conversation` | any message while a crypto send is open | a complete one is put up for review again, also when it was being paid (`:615`) |

## 6. Proofs

TLAPS checks the following for every value of the constants.

`InfraLedgerProofs`, on the lemmas of `LedgerLemmas`:

* `LedgerWell`: `Spec => [](TypeOK /\ AuditTrail /\ OncePerKey /\ OncePerSlot)`, and from
  it `LedgerTyped` and `LedgerPostsOnce`, the two facts that the run states.

Assumed: `AmountsAssumption` (amounts are positive naturals: `parseAmount` refuses
others) and `LegsAssumption` (legs have the fields of a ledger call).

The inductive invariant is `Well`, the conjunction of the four facts.  They support
each other: the new movement's snapshot is right because the row equals the end of the
chain, buckets stay natural because the operation is covered, and uniqueness needs the
look-up over all wallets that typing makes meaningful.  The argument is about one posting.
`AfterType`: a covered operation leaves natural buckets.  `PostFields` and
`PostMovements` say what a posting changes.  `PostAudited`, `PostKeysOnce` and
`PostSlotsOnce` carry one fact each, `PostWell` joins them.  A pair reduces to two
postings, because neither leg disturbs the other (`OtherLegAdmissible`, from different
wallets and different keys: exactly what a fee charged to the revenue organisation
lacks), which gives `PairWell`; `NextWell` goes through the actions.  The lemma
`LedgerAppendOnly` (no step rewrites a movement), plain of the atomic ledger, is there for
`TxAppendOnly`.

`LedgerTxProofs`, for any sessions, requests, wallets, keys and amounts:

* `TxImplementsLedger`: `Spec => ImplementsLedger`, where `Spec` is that of `InfraLedgerTx`;
* `TxAcked`: `Spec => []AckedIsPosted`;
* `TxAudited`, `TxAppendOnly`: the rows that concurrent calls leave are what their movement
  chains add up to, keys and slots are used once, and movements are permanent;
* `TxNeverDeadlocks`: `Opened = Wallets` and `KeysByPlace` give `Spec => []NoWaitCycle`.

Assumed: `AmountsAssumption`; wallet ids are ordered (`WalletIdsAssumption`, which `LockNext`
needs); the operator's wallets are wallets (`FreezableAssumption`); and `RequestsAssumption`:
a call is one leg, a transfer, or a transfer and its fee, each pair is a debit and a credit
of one amount on two wallets under two keys, and the fee has other keys than the transfer.
The code sees to all of it but one: nothing checks that the payer of a fee is not the
revenue organisation, and without that the theorems are false (section 5).  TLC evaluates
the assumptions on the requests of both runs.

What has to be shown is that the statements of a transaction, between which other transactions
commit, amount to one step at its COMMIT.  `Base(L, r, D)` is the ledger that results when the
groups `D` of request `r` are posted on `L` at once.  The invariant `TxOK` (`TxInvariant`) relates
every session in progress to `Base` of the ledger that is committed *now*, whatever it was when the
session read it: `Done` says which groups were posted and which were found to be duplicates,
`Working` that on the wallets the session holds, its rows and its movements are those of `Base`, and
what of the current group is read, computed and inserted so far.  Three facts make this inductive. A
row that is held is written by nobody else (`Apart`), so commits and changes of status by others
leave the held wallets as they were (`SameOn`, `BaseSame`).  What they add elsewhere has other keys,
because the index makes a session wait for an uncommitted one, and slots are those of a held wallet
(`OthersStable`).  Statuses read without a lock may be stale, but a wallet that was seen does not go
away; only `Recheck`'s wallets need be active. `Published` says that COMMIT turns the ledger into
`Base`, and `BaseIsAbstractStep` that `Base` is `PostOne`, `Transfer` or `TransferWithFee` of the
atomic ledger, or no step. `NextOK` goes through the statements, most of which one of `Quiet`,
`Skip`, `Update`, `InsertNext`, `InsertLast` and `LooksAgain` covers.  `TxAudited` and
`TxAppendOnly` take the theorems of `InfraLedgerProofs` over the refinement, by an instance whose
legs are those of the requests.

`TxNeverDeadlocks` is about wallets that exist (`Opened = Wallets`; section 5 says what happens
otherwise) and keys that tell a debit from a credit, as the callers build them
(`KeysByPlace`).  Its invariant, `WaitInv`, stands on `TxOK`: a session in its first group takes
rows from the lowest up and has inserted nothing before it holds them all (`InOrder`), and
finitely many calls are in progress, of however many sessions.  A session that waits for a key
waits for one that has inserted its first leg (`KeyWait`), and that one, at its second leg,
could only wait for a second key among first ones.  So all of a cycle wait for rows, each
for a higher one than it holds, and among finitely many rows one is the highest (`Greatest`).

`PayoutProofs`, for any payouts, bills, quotes and handlers:

* `LocksFollowOrders`: `OneCaller /\ AnswersArrive => (BillSpec => []LockFollowsOrder)`;
* `LocksEndOnce`: the same for `LockEndsOnce`;
* `LockedAsInFlight`: the same for `LockedIsInFlight`.

Assumed: `QuotesAssumption` (the wallet and the amounts are the ledger's),
`PayoutKeysAssumption` (an id of a payout is a reference and not NULL, and makes its keys:
TLC evaluates both in every run with payouts), and two conditions of section 5: a payout is asked for by
one process (`OneCaller`), and every answer of a provider arrives, a status query failing
at most for a bill that was paid, as in `payout_send` (`AnswersArrive`).  Without either
the theorems are false.

Each handler checks the row's flags on a copy that it read before an await, so the flags
cannot be what keeps finalize and release apart; the proof does not use them for that.
`PayoutInv` says what does: one process may place an order, so there is one at most
(`Settling`); a finalize that can still post has a payout that was paid or, in TEST, will
never have an order (`PaidOrNever`); a release has one that is `Dead`: its order failed or
will not be placed, nobody is before the order and nobody will finalize.  Both stay true
(`DeadStays`, `PaidStays`) of whatever a step of one handler may do (`Moves`), which
`OthersWork`, `SettlingStays` and `TruthfulStays` use for everything the step does not
touch; so an action has to show its own frame and what its handler counts on next
(`StepKeeps`).  `FailedIsDead`, `AloneBefore` and `OutcomeOf` are the three places where
something is concluded from the provider: a failure webhook or status, a refusal, and the
reading of a bill's two answers.

`LockedIsInFlight` is about a sum.  `AmountInv` adds to `PayoutInv` that a row's amount, once
it is locked, is the lock's (`Priced`) and that a handler that finalizes or releases holds
the lock's amount too (`Holding`), whatever was quoted in between; so what leaves the bucket
is the term that leaves the sum.  The sum theory is in `LedgerLemmas`.  `SumRemove` and
`SumAdd` take one term from or add one to `SumFunctionOnSet`, which the library defines by
a fold.  They need induction over finite sets: `SetInduction` gets it from the fact
that strict inclusion of the subsets of a finite set is well founded, and states it for a
family of sets in place of a predicate.

The second part of `PayoutProofs` is about withdrawals and crypto payouts on Stellar, for any
payouts, handlers, quotes, outcomes and numbers of submissions, with reconciliation beside them:

* `ReceiptsKeepLocks`, `DebitsAreDelivered`, `OrdersFollowReceipts`, `ReceivedAtMostOnce`,
  `ConfirmedHaveLanded`: `OneSettler` gives `ReconSpec => []P` for `ReceiptKeepsLock`,
  `DebitedIsDelivered`, `OrderAfterReceipt`, `ReceivedOnce` and `ConfirmedIsLanded`;
* `ReconciledPayouts`: `OneSettler /\ Reviewed \subseteq Payouts => (ReconSpec /\ []CryptoLocksEndOnce =>
  []ReconciledIsDelivered)`, and `ReconciledWithdrawals`: the same when `Reviewed \subseteq
  Banked`, without `CryptoLocksEndOnce`.

Assumed, beside the ledger's, `QuotesAssumption` and `PayoutKeysAssumption`: `PayoutAssumption`
(LIVE payouts and withdrawals are payouts).  `OneSettler` collects what run `offramp` excludes and
section 5 explains: one process settles withdrawals, no call stops between the receipt in the
settlement row and that in the metadata, and no client confirms the Stellar row of a withdrawal by
its id.  Without any of the three a theorem is false; submissions may come to anything.  What a
throw in doubt breaks is said in the properties themselves: `Doubted` payouts are excepted from what
`ReceiptKeepsLock` and `OrderAfterReceipt` say of returned locks, and from nothing else; crypto
payouts may be sent and confirmed by any number of processes.  That a crypto payout's lock is not
both consumed and returned is not among these facts (section 5, `InfraSettlement`), so of the crypto
payouts that reconciliation looks at it is assumed (`CryptoLocksEndOnce`); of withdrawals it is
proved.

The argument rests on three things that are for good: what the network has decided of an envelope,
the envelope a withdrawal's row names, and "confirmed" in that row.  `Guarded` says that no other
envelope of a withdrawal was ever handed to the network, and that a lock is returned only after that
one is dead or its submission threw in doubt; a dead one cannot also land, so `ReceiptKeepsLock` and
`ReceivedOnce` follow.  `Honest` says what the rows promise of the chain, the orders and the ledger:
a debit rests on a payment that landed and a bank that was paid, an order on the mark in the
metadata.  That mark comes one await after "confirmed"; in between the settler is at "leg.patch",
which is the state `offramp_crash` stops in.  `Settles`, `Sends` and `Acting` say, label by label,
what a handler may count on; all of it is about such lasting facts (`Lasts`), so it outlasts the
steps of others (`HandlerStays`).  There is one lemma for each kind of write (`QuietKeepsOff`,
`RowKeeps`, `ChainKeeps`, `SendKeeps`, `OrderKeeps`, `PostingKeepsOff`) and one for each action.
Reconciliation adds `AuditInv`: what a run has read of the ledger still holds when it reads the
settlement, because a debit stays posted (`DebitsLast`), and a verdict without a mismatch needs that
debit (`ReconciledIsPresent`); the rest follows from what a debit rests on.

`CollectionProofs`, for any collections, rebalances, quotes, handlers and crashes:

* `CreditsArePaidFor`: `TreasurySpec => []CreditNeedsPayment`;
* `SettledAreAvailable`: `TreasurySpec => []SettledIsAvailable`;
* `RebalancesLanded`: `TreasurySpec => []ConfirmedRebalanceLanded`;
* `ReleasesAreFunded`: what is released from pending has landed on chain;
* `CollectedIsFunded`: `SteadyQuotes => (TreasurySpec => []AvailableNeedsFunding)`;
* `CollectionsFundedAsCredited`: `NothingLost => (TreasurySpec /\ []SettledApart /\ []RetriedWhenFailed /\ [][NotCutShort]_treasuryVars => []FundedAsCredited)`.

Assumed: `CollectionAssumption`, `CollectionKeysAssumption` (an id of a collection is a
reference, and makes its keys) and `AmountsAssumption`, which TLC evaluates in every run with
collections.  Only the last two theorems need more.  `CollectedIsFunded` needs
`SteadyQuotes`, that a collection funded on chain is quoted once, as the one of
`collect_fund` is.  Without it, its second half, the sum, is false (section 5); the first
is `ReleasesAreFunded`.

`CollectionsFundedAsCredited` names the ways in which the code may fund a collection twice
or for another amount (section 5), and shows that there are no others.  `SettledApart`: one
handler at a time settles a collection, which the code leaves to the provider's webhooks
not overlapping.  `NotCutShort`: no handler stops between the credit and the patch of the
row, nor between the submission and the UPDATE with its hash; anywhere else it may.
`NothingLost`: a submission that throws has sent nothing, for the row then says 'failed' and
is funded again.  `RetriedWhenFailed`: a row found 'submitted' is funded again only when
its payments have failed; `fundCollectionStellarWallet` does not look.  TLC finds
`FundedAsCredited` violated when any one of the four is dropped; `collect_steady` satisfies all.
The quotes may drift.  `FundingInv`: the row keeps the amount credited, unless a handler
is about to write it, all payments are of it, and the settlement row, or a handler about to
write it, tells of the one payment that has landed or may (`Funded`); a handler works with
the amount credited, and none may land while it is on its way to send one (`Funds`).

The handlers act on copies of the row and of the settlement that are old by then.  What
makes it right is that all they act on is for good: a pay-in that was paid stays paid and
stays the row's, a posted key keeps its amount, a settlement row is never removed, and a
payment that landed stays landed (`Grows`).  `CollectionInv` says of the shared state that
it is `Sound` and `Moved`, and of each handler what it may count on where it is (`Working`),
which outlasts the steps of all others (`GrowsWorks`, `StepKeeps`).  An action then
has to show what it writes, one lemma for each thing there is to write (`RowWritten`,
`PostWritten`, `SettlementWritten`, `ChainWritten`, `PayinWritten`, `RebalanceWritten`),
and what its handler counts on next.  A row that two calls race to create has the pay-in
account of its creator: the loser's account is nobody's, and its payment credits
nothing.  `PendingFits`, the sum, is inductive beside `CollectionInv`: a credit adds a term
(`PendingAdds`), a release takes it (`PendingTaken`).

`TransferProofs`, for any wallets, fees, transfers and deposits, on one ledger and one chain:

* `TransfersAllOrNothing`: `OneCall /\ FeeApart => (DepositSpec => []AllOrNothing)`;
* `DoneTransfersMoved`: with `OneSender` besides, `DepositSpec => []DoneIsMoved`;
* `LockedAsTransfers`: with `NoLost` in its place, each wallet's locked bucket is the sum of the
  amounts and fees of its transfers that are neither finalized nor released (`LockedFits`), those
  whose release threw included;
* `TransfersBalance`, `NothingIsInvented`: under the first two, with `WatchedApart` and finitely many
  wallets, `DepositSpec => [](Balanced /\ Known)` and `DepositSpec => []NothingInvented`.

Assumed, beside the ledger's assumptions: a request names wallets, and its legs and keys are the
ledger's (`RequestsAssumption`, `OnchainFeeAssumption`, `LedgerLegsAssumption`,
`OnchainLegsAssumption`, `DepositLegsAssumption`), deposits have ids of their own
(`DepositsAssumption`), and `MaxSends` is a number (`MaxSendsAssumption`).  TLC evaluates them in
run `wallets`.  The hypotheses are the cases of section 5: one call works on an on-chain transfer at
a time (`OneCall`; it may stop at any await and be taken up again), the revenue organisation does
not pay its own fee (`FeeApart`), and, for what is only true then, two senders do not share a client
key (`OneSender`), no on-chain transfer pays a wallet whose payments are taken for deposits
(`WatchedApart`), or a submission throws only when its envelope is dead (`NoLost`). A sender uses a
client key for one on-chain request (`OnchainKeysAssumption`).  Without them the theorems are false.

Nothing in the code ties the legs of a transfer together but their keys: each is a commit of its
own.  So the proof starts from the ledger: `Explained` says that every movement is that of a leg of
a recorded transfer or of a deposit, and `Grown` that a step adds only movements of its own legs;
since keys tell legs apart (`KeyIsLeg`), a key that is posted is this leg's posting, and
`Made(label, q)` becomes a reliable flag.  `Sound` relates these flags to the chain: what was
finalized has an envelope that landed (`Paid`), what was given up one that is dead or whose
submission threw in doubt (`Lost`), and the settlement row points at the only envelope of a transfer
that was ever handed to the network.  An outcome of the network is for good, so both stay.
`Working` says, label by label, what a call may count on.  `LockedFits` makes every release and
finalize covered; it needs `NoLost`, since a transfer that was released may otherwise land and be
finalized from other locks.  There is one lemma for each action and, under it, one for each part of
`TransferInv`.

`NothingInvented` bounds the wallets' sum from above, which no posting preserves by itself: a
credit would have to know that its debit came before, and a deposit that its payment has arrived.
`Balanced` is the equation behind it.  What the wallets hold (`Total`), with the halves of
finalized transfers that were debited and not yet credited (`Underway`), is what they held at
the start with every deposit that is credited (`Credited`).  A posting moves its amount between
two of these terms: the first half of a pair from `Total` to `Underway`, the second half
back (`BooksPosting`, which needs from `Working` that the first was made), the transaction of
a transfer inside the ledger takes and gives the same (`TotalPair`), and only the credit of a
deposit adds to both sides (`BooksDeposit`).  `Known` says that a call processes what has
arrived; so `Credited` is a part of `arrived`, and its sum at most that of all of them (`SumPart`).

`AddressProofs`, for any organisations, nodes and calls, and for any users, callers and
restarts:

* `AddressesAreKept`: `AccountSpec => []AddressIsKept`;
* `AddressesAreForGood`: `Misfortunes = {}` gives `ProvisionSpec => []AddressForGood`.

The first is about organisations.  The invariant `Custody` adds to it that a row's secret is in
custody and that a run past its INSERT works under the key of its wallet's row (`RunsHoldRows`): no
UPDATE of a run touches a key, and the INSERT does nothing where there is a row.

The second is about consumers.  `Misfortunes = {}` excludes what section 5 lists: two first INSERTs
that overlap, and a statement that outlasts the time limit of its run.  The invariant `Provisioned`
says that there is one row per user (`OneRow`), that the chain of a user's runs has one run at its
head that writes (`InChain`, `Waits`), and that this run knows the row's key (`Holds`).

`ConsumerProofs`, for any calls, wallets, pots, product requests, messages, attempts, flows and
opening balances, all of them at once (`AppSpec`):

* `WalletsAreSound`: `AppSpec => []TypeOK`;
* `PocketsAreLocked`: `AppSpec => []PocketIsLocked`;
* `AmountsAreFresh`: `AppSpec => []FreshAmount`;
* `WhatIsPaidWasShown`, `ReviewsArePaidOnce`: `"confirm"` and `"authorize"` not in `Doubled` gives
  `AppSpec => []PaidAsShown` and `AppSpec => []ReviewPaidOnce`, however messages overlap;
* `ReversalsAreOfFailed`: `"lost" \notin Answers` gives `AppSpec => []ReversalIsOfFailed`;
* `SchedulesArePaidOnce`: `Overlaps = {}` and finitely many runs give `AppSpec => []SchedulePaidOnce`;
* `BooksAddUp`: `FiniteBooks`, `"lost" \notin Answers` and `EarlyEffects = {}` give
  `AppSpec /\ []PotsAlone => []BooksBalance`.

Assumed: `CallsAssumption` (calls have accounts and amounts, references are fresh),
`RequestsAssumption` (a product request has an owner, an amount and a position of its own, and the
retry of a request asks for the same; positions are finite and no two users open with the same one),
`IntentsAssumption` and `DayflowAssumption` (what a review or a schedule may pay is a payment of the
app; schedules of a flow are a sequence, their amounts positive, since
`dayflow/dayflowFlowService.ts:621` pays no other), `AppAssumption` (keys of the parts differ), and
the ledger's assumptions on opening balances.  The conditions on `Doubled`, `Answers`, `Overlaps`,
`EarlyEffects` and pots are those of section 5: with two overlapping confirmations, a lost answer, a
run that another run or an edit overlaps, that stops before its UPDATE or whose payment throws after
its money moved, a transfer to oneself that a sync takes for an inflow, or two withdrawals of one
pot that read it before either writes it (`PotsAlone`), these facts are false. `FiniteBooks` says
that wallets, calls, requests and pots are finitely many, that payments have different hashes, and
that calls name existing pots and attempts execute payouts.

Five invariants carry these theorems, each over every step of the composition.

`AppSound` is what holds whatever is lost: types, `KeyedMovements` (a movement under a key of a call
is of that call's wallet, amount and direction), and `TalkLive` (neither the row of an intent nor
the copy of it that any message has read and is about to write holds an amount named before the last
cancellation that counts; `FreshAmount` alone says nothing of the copies.  One that counts came
while no copy but its own was out, so those read later cannot be older).  `PocketInv` stands on it:
under the key of a deposit stands the movement its requests ask for, a call about to place a
position has debited, a call about to pay out a claim that is not paid finds the position active,
and a pocket is the sum of its owner's positions.  `PlaceKeeps` and `ClaimKeeps` are the two steps
that move that sum.

`IntentInv` is about the row of an intent under its readers: `PageIsTheRow` (while a review can be
authorized, the page that is open shows what the row holds), and what an attempt has copied before
it checks the PIN and after.  That a review is paid once needs one more part: a review has the
number of the message that made it, and a review that an attempt has taken is no other's and is not
offered again (`ReviewIsRead`).

`MoneyInv` joins the parts for reversals.  `ReversalIsOfFailed` is not inductive: that a debit of
the same amount exists says nothing about a call that is about to credit.  `IInv` adds, per payout,
`PayoutAt` (where the call is against its debit and its order: before the debit there is no order,
in the catch block none was taken), `FailureIsTrue` (whoever says "failed", the row, a status sync's
copy or a handler, says it of an order that can no longer be paid) and `ReversalAt`. Flows and
conversations start payouts, so `FreshCalls` says that a call nobody has made yet has left no trace,
under any key.  `CreditOne` and `DebitOne` are about one balance change, `KeysDiffer` makes
references of different calls different keys, `PayoutStays` is the frame of a payout that a step
does not touch.

`ScheduleInv` is about a flow between its row and the run that works on a copy of it.
`SchedulePaidOnce` compares two sums over all payments, and is no invariant of one step: the run has
paid and its copy does not yet say so, or its copy says so and the row does not. `Agrees` relates a
list of schedules to a count of payments: `spent` is their worth (`Worth`), and a date that is still
due was not paid (`Unpaid`).  While a run works, it holds of that run's copy and of the row's sum
with the run's own (`RunHolds`); while none does, of the row alone.  `CallsAt` says that a payment
of a run is started by this run, which waits for its end, so no other step can make `Counted` grow;
`SendsOnly` that it is of a kind that comes to an end in the caller.  Paid means that the money of
the call moved for good (`Moved`); a payment may throw before that.  Lost answers are allowed: such
a call is credited back in its catch block before it throws, and whether the provider paid it all
the same is `ReversalIsOfFailed`'s question.

`BooksInv` is about the money of all of it.  `BooksBalance` bounds a sum by another, and a posting
moves only one wallet, so alone it says nothing of the next step: a credit would have to know what
it is paid from.  `InHands` gives every amount a place.  It adds up what wallets and pockets hold
(`Wealth`), what calls have taken and not passed on, less what top-ups brought (`Floats`), what
payments on a chain took from one wallet and have not given to another (`Passes`), deposits that
were debited and do not stand yet (`Deposits`), and what pots hold beyond their interest
(`PotsNet`).  `Books` says that this never exceeds what was there at the start and the interest paid
out.  Each step moves at most one term of each sum (`Moves`), and what one sum gains another loses
(`BooksStep`); there is a lemma per action, from `DebitBooks` to `ClaimTurn`, and `SumBound`,
`SumShift` and `SumOfPart` are the facts about sums they rest on.  `Facts` is what keeps a term from
being given out twice: where a call is against its own keys (`CallFacts`), that a withdrawal read no
more in a pot than is there (`HeldFacts`), and that what a payment moved has landed
(`RequestFacts`).  The equation then follows part by part: what was sent to a bank was debited and
not reversed (`SentIsCovered`, from `ReversalIsOfFailed`), what left over a chain was taken from a
wallet or is unmirrored (`GoneIsCovered`).

Only model-checked: the liveness properties, which need fairness and are outside the prover's reach.

## 7. Not modelled, and why

* Mode `mock` of the Stellar adapter: it is the outcome "confirmed" alone.
* Choice of the signing key, destination look-up: they fail before anything is written,
  which is a call that does not happen.  Provisioning in mode `mock`, the encryption of
  keys, recovery phrases, and the EVM addresses, which are made and written with the Stellar keys.
* KYC, corridor and limit checks, bank resolution, quotes, hosted pages: the same.
* Organisations, API keys, recipients, corridors, webhook endpoints of customers, admin
  views: CRUD and read-only, no state shared with the money paths.  The repository holds
  no code that delivers to customers' endpoints.
* Treasury position, reconciliation reports, consumer statements of activity: read-only.
  Reconciliation of collections, deposits and internal transfers repeats, on fewer
  legs, what is modelled for payouts.
* How `four` parses text, the wording of replies, its channels, OTP, onboarding, and the
  24 hours after which an intent expires: a message is one of some kinds of utterance, and
  whatever the parsers make of it is covered by another kind.
* The conversation engines of `azap` and `dayx`, plans drafted by a language model: slot
  filling over text.  What they end in, an intent or a flow, is modelled.
* The flow mode of `dayflow` that holds a flow's total: no code creates such flows.
* Older Paystack and Grey payment paths, except Grey's deposit webhook.
* Authentication, KYC and notifications of the consumer app: sessions and messages;
  balances do not depend on them once a request is authenticated.

## 8. What is left

* Larger compositions: collections, transfers and payouts on one organisation's wallet.
* Reconciliation of the other kinds of transaction; fee refunds; OTP of `four`.
