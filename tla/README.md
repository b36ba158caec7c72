# Verification of the off-chain service

This directory is a TLA+ development of the server in `src/`: the state
machines of its cron jobs and requests, the properties they must keep, small
instances that TLC checks completely, and proofs, checked by TLAPS, that the
most important properties hold for every size of the system. Paths below are
relative to `src/` of the repository's sources.

## 1. The system

The service sells KNN tokens. A user places an order and pays it by PIX; the
server reads the payment off the bank statement, and locks the tokens in a sale
contract (order identified by e-mail, `EA`) or delivers them (order identified
by wallet, `CW`). Locked tokens are claimed later with a signature of the
server, given out after a challenge by e-mail. Other jobs copy what happens on
the chain into the database.

One Node.js process runs everything: NestJS controllers whose constructors
start cron jobs, and HTTP requests. State that lasts is in PostgreSQL and on two
chains (Ethereum, Polygon); everything else is in the memory of the process.

Three traits of the code decide what can go wrong:

* **There are no database transactions.** A use case is a sequence of
  statements; between any two of them another job or request may run, and the
  process may stop.
* **A job is guarded against itself by a flag in memory** (`running`), not
  against another process. `buildspec.yml` deploys by replacing the containers of
  a service, so that an old and a new process overlap.
* **A failed call is caught close to where it happens**, and the loop or job
  goes on with what it read before.

### Components

| Component | State | Operations | Hard behaviour | What makes it correct | Module |
|---|---|---|---|---|---|
| Order creation (`domain/order/usecases/create-brazilian-pix-order`) | row of `"order"`: status, expires_at, created_at | create, read | ages while it is paid | an order is payable until it expires | `OrderPipeline` (its entry into the pipeline) |
| Clearing (`domain/clearing`) | row of `clearing` (hash, offset, status), cache of handled credits in memory | cron 15 s: read statement page by page, handle each credit concurrently | pages fail, statement grows while it is read, process stops; two credits of one order at once | every exact credit reaches its order, once | `OrderPipeline` |
| Payment (`domain/payment`) | row of `payment`, unique per order and credit | insert | two inserts race | one payment per order | `OrderPipeline` |
| Settlement (`domain/settlement`, `domain/supply/usecases/dispatch-supply`) | rows `lock`, `claim`, `receipt`; the chain | cron 3 s: per order verify, insert row, send, store receipt, set hash, set status | the transaction is mined but nobody hears of it; process stops; two processes | one dispatch per order, only for a paid order, and rows that agree with the chain | `OrderPipeline`, `Fulfilment` |
| Expiration (`domain/order/usecases/expire-orders`) | status | cron 15 min | writes the status of orders read earlier | does not undo a confirmation made in time | `OrderPipeline` |
| Claim of locked supply (`claim-locked-supply.usecase.ts`) | rows `challenge`, `answer`, status; bans in memory | PUT challenge, PATCH answer | overlapping requests, stale orders | signatures only for the owner of the e-mail, one wallet per code | `LockedSupplyClaim` |
| Import of claims (`import-reconciled-claims`, `reconcile-delegate-signature-claim`, `fetchable-delegate-claim-event.adapter.ts`) | rows `user_receipt`, `claim`, status; block cursors in memory | cron 45 s | one cursor for several contracts, three statements per claim | every claim is stored, rows agree with the chain | `ClaimImport` |
| Import of purchases (`import-purchases.usecase.ts`, `fetchable-onchain-purchase-event.adapter.ts`) | row `purchase`; nothing in memory | cron 55 s | asks above the newest row, imports contract by contract, a failed insert falls behind a newer row, two processes | a transaction is stored once, and a purchase is lost only by its own failed import, a cut-off run, or a late block | `PurchaseImport` |
| Ledger (`domain/ledger`) | rows `balance`, `journal`; nothing in memory | cron 45 s | balance written before its entry, newest blocks read again, an event left out, two processes | the journal has no hole and balances are the sums of its rows | `LedgerSync`, `JournalBook` |
| Badges (`domain/badge`) | row `mint_history`; static caches of eligibility | sign a mint, fetch a signature | requests check before either writes, answers of the chain grow old while they are waited for | a permission is recorded before it is signed, asking again does not extend it, what is minted is not signed for | `BadgeSigning` (the pre-sale badge) |
| Quotes (`domain/price`, `fixed-point-calculus.adapter.ts`) | caches of prices, per process | quote an order, convert tokens for the statistics | prices of different age in one quote, rounding, calls that fail | tokens never below the fallback price, a total covers its tokens and its gas | `Quotes` |
| Authentication (`domain/upstream-domains/identity`) | rows `auth_challenge`, `access_token`; counters in memory | challenge, token, validate | memory lost at restart | a token only for an answered challenge | no (section 6) |
| Audit pool events (`domain/upstream-domains/impactful-cultivation`) | row `audit_pool_event` | import, fingerprint | cursor | fingerprint over all events | no (section 6) |
| Tokenomics (`domain/statistics`) | cache of two minutes | read | expiry | - | no |
| Signed delegate orders, order queries, receipts by mail, health check, CLI, worker | none | reads | - | - | no |
| Adapters, generated contract bindings | none | input and output | a call fails | - | as calls that fail |

### Interaction

Users and the bank feed the clearing through the statement; clearing hands
orders to settlement through `"order".status = Confirmed`; expiration competes
with clearing for the same column. Settlement leaves `Locked`, from which a
user's requests lead to `Challenged` and `Owned` and the import of claims to
`Claimed`. The column is updated without looking at the value it replaces
(`persistable-order-status-transition.adapter.ts`), by whoever holds an order
object, however old.

## 2. Modules

| File | What it is |
|---|---|
| `Fulfilment.tla` | abstract specification of a purchase: credited once, then delivered once, then acknowledged |
| `OrderPipeline.tla` | clearing, settlement and expiration of any number of processes over the shared tables |
| `ClaimImport.tla` | the import of claims by any number of processes, from the contracts' events to the rows |
| `LockedSupplyClaim.tla` | the challenge and answer requests of one process, and the claims they lead to |
| `LedgerSync.tla` | the journal and the balances, from the Transfer events of the networks |
| `JournalBook.tla` | abstract specification of the ledger: movements are entered in the order of their chain, and stay |
| `PurchaseImport.tla` | the import of purchases by any number of processes |
| `BadgeSigning.tla` | requests for the signature that mints a badge, of any number of processes |
| `Quotes.tla` | the quotes of one process: its fetches and caches, and the fixed-point arithmetic |
| `MCOrderPipeline.tla` ... `MCQuotes.tla` | the instances of these modules for TLC: who pays or owns what, the events of the chains, the prices, and the symmetries |
| `OrderPipeline_proofs.tla` ... `Quotes_proofs.tla` | for each of the seven modules its inductive invariant, theorems and proofs |

The operators ending in `_Something` that stand before a definition
(`Acceptable_AnyAmount`, `Advance_BlockBefore`) are the same definition with a
plausible bug. Putting one in the place of the original must violate a
property; that shows that the property depends on the code and that the bounds
of its run are large enough. `PROJECT.json` lists which belongs to which, and
for every definition the lines of the source it stands for.

All modules follow one convention: an action is what the code does between two
points at which another job, request or process may run, that is, between two
`await`s on the database, the chain or the mail server. A call that fails is an
action of its own, limited by `MaxFaults` and by the set `FaultKinds` of calls
that may fail in an instance.

### OrderPipeline

| State | In the code |
|---|---|
| `status`, `age` | `"order".status`; how the clock stands to `expires_at` (15 minutes) and to a day after `created_at` |
| `payment`, `sequence` | row of `payment` (unique `order_id`, unique `provider_id`), its serial `sequence`, which becomes the nonce of the dispatch |
| `dispatch`, `receipt` | row of `lock` or `claim` without and with `transaction_hash`; row of `receipt` |
| `lastHash` | hash of the newest clearing that ended in RanToCompletion, standing for the length of the statement it saw |
| `statement`, `sent` | the bank's statement, the transactions mined with the order's nonce |
| `clrPc` ... `cache` | the variables of `CreateClearingUseCase`: page, whether a credit matched, the state of every credit's handler, the cache of handled credits; a handler that has not looked at the clock yet is in the state of its copy of the order, `Requested` or `Expired` |
| `stlPc`, `stlOrder`, `batch` | the settlement loop: its place in `DispatchSupplyUseCase`, its order, the orders left |
| `expiring` | orders past `expires_at` that `ExpireOrdersUseCase` has read and neither dropped nor written |

`ClearingStart`/`ClearingNextPage` read the orders of a page and give each payable
credit a handler with its copy. When the answer is there, all handlers of the page
run up to their first call in one turn of the event loop: `ClearingCheck` compares
the clock with the copies, which another process may have made out of date.
`HandlerExpire`, `HandlerRequote`, `HandlerPay`, `HandlerConfirm` are the four
calls of `ProcessStatementTransactionUseCase`, `HandlerSkip` its catch.
`SettlementVerify` ... `SettlementStatus` are the calls of
`DispatchSupplyUseCase` and `ProcessOrderSettlementUseCase` in their order,
`SettlementSkip` the catch of the loop, `SettlementTimeout` a transaction that
was mined though the wait for it failed. `ExpirationFetch` reads, `ExpirationFilter`
looks at the clock, `ExpirationWrite` writes one order.
`Crash` empties the memory of a process. The running flags make
each job a single thread of its process: a job starts only in its idle state.

A page and its orders are read in one step, though they are two calls: the bank only
appends to its statement, so that a page read earlier is the same with fewer
entries at its end, and orders that were read when the later entries
were not there yet are read again in the next run. An order that is payable when the
expiration reads it is not followed either: only orders a day past their creation
pass the filter, which would take the read more than 23 hours.

What is abstracted: amounts (a credit is `Exact` or not), quotes, mail,
logging. A statement's hash is its length: it only grows within a day, and
`NewDay` makes every older hash differ, because the date range is hashed too.

### ClaimImport

`claimedAt` is the block of an order's Claim event and `height` the newest such
block; `userReceipt` and `claimRow` are the two rows with unique `order_id`;
`cursor` is `lastEthereumBlockNumber` (or `lastPolygonBlockNumber`), which starts
at 0 in a new process. `Start`, `ReadOrders`, `Query` (one contract answers),
`Advance` (the cursor moves), `Reconcile`, and then per order
`InsertUserReceipt`, `InsertClaim`, `SetClaimed`; `FetchFails` and `ImportFails`
are the catches. One network is modelled, as the networks share nothing but the
job that asks both.

### LockedSupplyClaim

A slot of `request` is a request being served, with the `pc`, the address and
code it was sent and the orders it read. `issuedTo`, `active`, `answered` are the
tables `challenge` and `answer`; `errorAttempts` and `banlist` the maps of
`ClaimLockedSupplyUseCase`; `handed` collects the signatures returned. The
actions `Challenge...` and `Answer...` follow `executeChallenge` and
`validateAnswer` call by call. `ReportFailure` is the body of `reportFailure` up
to its `await`; because its callers do not await it, the deactivation that
follows (`BanDeactivate`) runs beside later requests, and when it fails nobody
handles the rejection and the process ends (`Restart`). The import appears with its
two writes only (`ImportRows`, `ImportStatus`); `ClaimImport` has it in full.

### LedgerSync

A Transfer event is two movements, a credit and a debit (`splitCreditDebit`),
numbered in the order of `JournalEntry.compare`.

| State | In the code |
|---|---|
| `head` | the newest block of each network |
| `journal` | how many rows of `journal` a movement has; the table has no unique key |
| `balance` | `balance.uint256_total` by account and group, the key of the upsert |
| `pc`, `cursor`, `todo`, `seen` | one run of a process: the blocks it starts from, the movements left, the total it read |
| `torn`, `dropped`, `overlapped` | history: saves cut between their two statements, movements a fetch left out, whether two runs were at work at once |

`Start` is `fetchLastBlocks`, `Fetch` the query of every network,
`FetchWithout` the same when the block of one event cannot be read and the event
is left out. Per movement: `Check` or `Skip` (is it in the journal?),
`ReadBalance`, `UpsertBalance` and `InsertJournal`, the two statements of `save`,
and `Underflow`, the exception of the fixed-point library for a negative total.
`RunFails` is any other error, which ends the run; `Restart` ends the process.
`ReadBalance` reads by account alone, hence any of its rows when it has two.
Addresses are reduced to the group the code derives from them.

`Book` maps these variables to `JournalBook`: its chain is what is mined, its book
the movements with a row, `lost` what a fetch left out.

### PurchaseImport

`purchase` is the set of events that have a row, whose transaction hash is
unique. A run starts above the newest row of each network (`Start`: `from`),
asks one contract after the other (`Query`), and goes through the answers
contract by contract (`Check`, `Skip`, `Insert`). `FetchFails` ends the run;
`ImportFails` is the catch within the loop, which goes on with the next event.
`late` and `failed` are history: events mined while a run asked, and events
whose own import failed or was cut off. An event stands for its amounts and
prices.

### BadgeSigning

The rows, caches and contracts of two wallets or badges never meet, so one
wallet and the pre-sale badge are modelled. A request is a POST (`sign`) or a GET
(`fetch`) with its network.

| State | In the code |
|---|---|
| `mint_history` | rows with a due date; the rows that record refusals are left out, as `fetchLast` leaves them out |
| `cachedHasPreSaleEvents`, `cachedAlreadyMinted` | the static maps of `FetchPreSaleBadgeEligibilityUseCase`, per process |
| `bought`, `minted` | the events of the pre-sale and the badge contracts |
| `pc`, `look`, `chain`, `hasEvents`, `asked`, `isVerified`, `lastSignatureHistory`, `dueDate` | a request: the call it waits for, in which of its verifications, for which network, and what it has learned |
| `signed` | signatures handed out |
| `held`, `extends`, `mintedBefore`, `again` | history of a request |

`Begin`, `PreSaleEvents`, `Eligibility`, `FetchLast` and `Found` are
`VerifyAggregatedBadgeMintUseCase`: the caches, the two reads of the chain, the
last row, and what the clock says of that row when it has arrived: between the last
two, time passes and other requests insert theirs.
`Fetched`, `Refused`, `Verified`, `Insert`, `Again` and `Sign` are
`SignAggregatedMintUseCase.execute`, which verifies, records, verifies again, and
then signs or calls itself. Each answer of a network reflects the chain at some
moment since it was asked. `fetchLast` orders by due date alone, so that of rows
with equal due dates any may be the last. `Mint` is external: a contract accepts
a signature until its due date, once, if its type is that of the contract's layer.

### Quotes

| State | In the code |
|---|---|
| `feed` | the prices outside: three oracles, two gas prices, the exchange's price of KNN |
| `cache`, `knnCache` | `getCachedBasis` of the adapters, with the time each price expires |
| `slot` | the fetches of the `Promise.all` of a quote, each asked, done or failed |
| `knnAt`, `ticker`, `knn` | the fetch of the price of KNN: the exchange first, then the dollar and ETH |
| `quote` | the answer: tokens, total, net total, gas, and the prices they rest on |

`Receive` and `Refuse` are `validateEntry` and the start of all fetches;
`Answer`, `TickerAnswers`, `TickerFails` (the fallback price) and `Derive` their
continuations, each of which writes its cache; `FetchFails` refuses the request
while its other fetches go on. `QuoteWithCachedGas`, or `AskGas` and
`QuoteWithGas`, end it; `Convert` is the conversion for the statistics.
`Multiply`, `Divide` and the five `Calculate...` are
`FixedPointCalculusAdapter` and its strategies operation by operation, with
`Scale` for 10^18 and every operation rounding down, as the library does.
An oracle's answer and its number of decimals are two calls in the code and one
step here. Two prices no quote uses (MATIC in USD, ETH in BRL) are left out.

## 3. Runs

"Distinct" is the number of distinct states; every passing run explores all.

| Run | Instance | Checks | Distinct |
|---|---|---|---|
| `order_faults` | one process, a wallet order with an exact credit and an e-mail order with an inexact one, any two calls fail, two restarts | `TypeOK`, `DispatchedOnce`, `RecordsAgree`, `DispatchBacked`, `PipelineFulfils` | 172 k |
| `order_overlap` | two processes, one order paid twice, both credits on one page, one lost transaction | `ConfirmedBeforeDispatch`, `ConfirmedInTimeStays`, `PipelineFulfils` | 1.42 M |
| `order_live` | one process, two orders, batches and pages of one, cache limit one, a page or a gas estimate fails, a restart | `NothingShelved`, `PaidIsCredited`, `ConfirmedIsSettled` | 303 k |
| `order_stale` | two processes, one order with one credit, nothing fails | `ExpiredIsPaidLate` is violated | - |
| `order_skipped` | one process, a handler's call fails | `SkippedWasProcessed` is violated | - |
| `import_overlap` | two processes, two contracts, any call fails, one restart | `TypeOK`, `ImportedIsClaimed`, `NewestIsRetried`, `NoClaimPassedOver` | 376 k |
| `import_cursor` | one process, two contracts, no fault | `EventsStored` is violated | - |
| `claim_requests` | two requests at once, two addresses, codes and wallets, ban after one failure, a fault, a restart | `TypeOK`, `HandedToOwner`, `OneWalletPerCode`, `StatusHasChallenge`, `AttemptsBounded` | 1.54 M |
| `ledger_sync` | one process, two networks, tokens minted, bridged and back, any two calls fail, one restart | `TypeOK`, `NoHole`, `JournalledOnce`, `BalanceIsJournal`, `NoFalseUnderflow`, `JournalCatchesUp`, `KeepsBook`, `RunsMissNothing` | 95 k |
| `purchases_import` | two processes, two contracts, the last with the older blocks, a transaction on both, a fault, a restart | `TypeOK`, `StoredOnce`, `LossHasCause`, `TableCatchesUp` | 267 k |
| `badge_signing` | two processes, two networks, two POSTs and a GET, a fault, a restart | `TypeOK`, `SignatureRecorded`, `NotExtended`, `NotSignedAfterMint`, `CallsItselfOnce` | 1.56 M |
| `quotes` | two requests, one of them in each currency, a price that moves or a call that fails, one tick | `TypeOK`, `FloorKept`, `TotalCovers` | 2.15 M |

### What the properties say

* `DispatchedOnce`, `DispatchBacked`: tokens leave the contract once per order,
  and only for a payment by an exact credit of that order. The danger is a
  second attempt, by the next run or by the other process of a deployment, when
  nobody knows whether the first transaction was mined.
* `RecordsAgree`: status, hash, receipt and chain agree at every point at which
  a settlement can stop.
* `ConfirmedBeforeDispatch`: an order never becomes Confirmed after its dispatch
  began. The update to Confirmed does not look at the status it replaces; what
  protects it is the unique payment.
* `ConfirmedInTimeStays`: expirations and clearings work on orders read earlier,
  and their unconditional update must not hit an order that was confirmed in time.
  That order is safe, that is, no job holds an older version of it, unless a
  clearing has still to compare an unpaid copy with the clock; and no step makes a
  safe order unsafe, in time or late. Such a clearing is the one thing that does
  take the confirmation back (`ExpiredIsPaidLate`, section 5). An order confirmed
  *after* `expires_at` has no such protection: see section 6.
* `PipelineFulfils`: the pipeline, seen through payment, transaction and
  receipt, is a behaviour of `Fulfilment`. That includes `DispatchedOnce`.
* `NothingShelved`: a credit in the cache, or in the statement a clearing left its
  hash of, is not looked at again. Pages fail, the statement grows between two
  pages, a hash is left by whoever ends last: still no credit that can pay an order
  gets there before the order is paid, unless a handler's own call failed (the
  finding of section 5).
* `PaidIsCredited`, `ConfirmedIsSettled`: an exact credit reaches its order, and a
  confirmed order is settled.
* `ImportedIsClaimed`, `NewestIsRetried`: rows refer to rows and events that
  exist; the newest claim is tried again by every run.
* `NoClaimPassedOver`: the cursor moves before anything is imported, and orders and
  events are read at different times. No step of a run leaves the newest claim, or one
  the run found, behind without its first row, unless a call failed.
* `HandedToOwner`, `OneWalletPerCode`: a signature needs a code that was sent to
  the owner, and a code serves one wallet even when requests with it overlap.
* `StatusHasChallenge`: requests overwrite each other's status; what they leave
  still fits the challenges and answers there are.
* `AttemptsBounded`: requests under way when an IP is banned are served to the
  end, and no others.
* `NoHole`, `JournalledOnce`, `JournalCatchesUp`: the ledger has no cursor but its
  newest row, so a movement missing below that row would never be asked for
  again. Whatever fails, there is none unless a fetch left an event out; reading
  the newest blocks twice journals nothing twice, as long as runs do not overlap;
  and the journal catches up.
* `KeepsBook`, `RunsMissNothing`: the journal implements `JournalBook`, in which a
  movement is entered only after all earlier ones of its network; and a run is
  done with a movement the chain had when it read it only when the journal has it,
  unless a call failed or an account whose books are not in order stopped the run.
* `BalanceIsJournal`, `NoFalseUnderflow`: the balance is written before the
  row it accounts for, and credits of one network may be read long after debits
  of another. Only an account whose own save was cut in two is off, and only
  such an account, one that lost an event or one in several groups can make a run
  stop for a negative total.
* `StoredOnce`, `LossHasCause`, `TableCatchesUp`: two processes and two contracts
  store a transaction once; a purchase that no run will ask for again was
  lost to its own failed import, to a run that was cut off, or because it was
  mined between the answers of two contracts, and never to the failure of another
  purchase, to the order of the contracts or to a race.
* `SignatureRecorded`, `NotExtended`, `NotSignedAfterMint`, `CallsItselfOnce`: what
  the two verifications around the insert are for. A signature has its row
  before anybody has it; a request that follows a live permission gets its due date
  and no later one; a badge minted before the last verification is not signed
  for, though the caches may be written by slower answers; and the recursion of
  `execute` ends after one turn.
* `FloorKept`: tokens do not become cheaper than the fallback price of KNN. The
  price of KNN is in a cache in dollars, the dollar in another, and a quote
  may combine two of different age. The bound holds at the dollar the price
  was converted with, up to the rounding of three operations; at the dollar of
  the quote it does not, when the dollar has fallen in between.
* `TotalCovers`: rounding down in operation after operation never makes the total of
  a quote smaller than what its tokens are worth at its own prices, with the gas
  where that is taken off the amount (BRL, USD).

### Bounds, and why they are enough

The hazards are races between two holders of one order, or a stop between two
steps; two processes, two credits and one failure or restart produce every pair
of them. Pages of one entry make the statement grow between pages; the page of
two in `order_overlap` puts two credits of an order into one concurrent batch.
`CacheLimit = 1` lets the cache overflow, `SettlementBatch = 1` lets orders
compete for a batch, `ExpirationBatch = 1` makes the choice of orders that are
looked at arbitrary, as the query has a limit and no order. `age` stops at 2,
as nothing in the code looks beyond a day. Each property has a mutant that
violates it within the bounds of its run. Where a theorem states the property,
the bounds matter less still: the runs then guard the model, the theorem covers
every size.

The wallet order of `order_faults` is paid exactly and the e-mail order is not, so
that the inexact credit has every chance to be taken for a payment; an e-mail order's
lock meets a restart in `order_live` and a lost transaction in `order_overlap`.

The four transfers of `ledger_sync` have two in one block (the newest block is
read in part twice), a balance that returns to zero (a debit read early would
underflow) and one network behind the other. It has one process: what the
balances add up to is claimed only for runs that do not overlap, as two at once may
both journal a movement (`journal` has no unique key), and a restart in place of the
second process repeats runs all the same. `NoHole` and `KeepsBook` are proved for any
number of processes. In
`purchases_import` one transaction buys from both contracts and one block holds
two transactions, the least for a failed insert behind a stored row.
`badge_signing` has an expiration of two ticks and three ticks of time: two due
dates can be live at once, one of them expires, and a request spans an expiry.
The prices of `quotes` are fixed-point numbers with a scale of twenty, so
that every division has a remainder; one event and one tick suffice for two
dollars in one quote, a cache that expires between two requests, and each
failure. The amounts make each currency pass its checks and one ask fail them.

Restarts are left out of `order_overlap` (they multiply its states, and
`order_faults` has them); the theorems cover both together.

Symmetry is used for processes and for the two exact credits of one order
(`order_overlap`), and for requests, wallets and codes
(`claim_requests`): no definition tells their members apart,
and no liveness property is checked there. Deadlock is not checked:
a system whose orders are all placed, paid and settled, with its budgets used up, stops;
so do requests that are all answered, and with them the clock at its bound.

### Fairness

`FairSpec` of `OrderPipeline` and `ClaimImport` assumes weak fairness of each cron
job of each process. The code justifies it: the intervals (clearing 15 s,
settlement 3 s, expiration 15 min, import 45 s) start the job again whenever its
running flag is down, the flag is cleared in a `finally`, and every call it
awaits returns or throws. Users, the bank, the clock, failures and restarts owe
nothing. Weak fairness of a job as a whole is enough: within a job the next
step is enabled until it is taken.

`FairSpec` of `LedgerSync` and `PurchaseImport` is the same assumption of their jobs
(45 s and 55 s). `BadgeSigning` and `Quotes` assume none: a request is answered
when its calls are, and what could go on for ever there, the recursion, is bounded
by a safety property, `CallsItselfOnce`.

`ConfirmedIsSettled` has three premises, each a limit of the code rather than of
the model: no row yet (an order whose settlement stopped after the row was
written is never taken up again, section 6), no stale expiry on its way, and no
further restart.

## 4. Proofs

`tlapm` checks all of them; assumptions are the `ASSUME`s on the constants
(finite orders or requests, budgets in `Nat`, a page or batch of at least one),
which TLC evaluates in every run. `LedgerSync` has one about the outside, `ChainAllows`:
the token contract of a network lets no account send more than it received there
before, other than by minting or through the bridge. The repository has only bindings of
that contract, an ERC20; without this no reader of its events could keep unsigned
balances.

**OrderPipeline.** `IInv` strengthens `TypeOK` by `PaymentsExact` (a handler
that got past its checks holds an exact credit of its order), `QueuePaid`
(whatever waits for settlement is paid), `RowsOrdered` (rows and chain of an
order), and `OwnerKnows`. The last one is the point: the lock or claim row is
inserted once, so the process that inserted it is alone in the steps behind it
and knows what `dispatch`, `sent` and `receipt` are; without it a step such as
`SettlementSend` would not keep `DispatchedOnce`. Theorems: `TypeCorrect`,
`DispatchedAtMostOnce`, `DispatchesAreBacked`, `RecordsAlwaysAgree`,
`PipelineImplementsPromise` (every step of the pipeline is a step or a stutter of
`Fulfilment`) and `ConfirmedOnlyBeforeDispatch`, an action property, for which
`ConfirmPending` adds that a handler about to confirm precedes any dispatch.
`ConfirmedInTimeIsSafe` is `ConfirmedInTimeStays`: before its expiry an order is
`Unthreatened` (`Punctual`: no handler is about to write it back and no expiration has
taken it, `NoEarlyThreat`), an order that is confirmed and of which no clearing holds an
unchecked copy gets no new threat (`NoLateThreat`), and only a threat writes Expired
(`StatusWritten`); so an order that is `Safe` stays so (`SafeStep`), and its status is
never taken back (`ConfirmedInTimeIsFinal`).
`SoleProcessConfirms` shows that with one process the premise about copies is
always met: while a process holds copies, no handler of its page has begun
(`CopiesFresh`), so that nobody can have paid an order it read unpaid.
`CreditsAreNotShelved` is
`NothingShelved`, by `ShelfInv`: while no handler failed, every payable credit on the
pages a clearing has opened is paid or still in its handler (`Handled`), a clearing
that reached its last page has opened all that its hash speaks of (`HashesInside`), and
it leaves the page only when no handler is at work.

**ClaimImport.** `RowsAgreeWithChain`: `ImportedIsClaimed`, by `WorksOnClaims`
(what a process fetched is on the chain, where it stays) and `InOrder` (each of
the three statements comes after the one it refers to). `ImportTypes`: `TypeOK`,
the cursor included. `ClaimsAreNotPassedOver` is `NoClaimPassedOver`, by
`FetchInv`: a cursor is never beyond the newest claim (`CursorIsClaim`), an order
without a receipt is in the snapshot of every run that has read the orders
(`SnapshotSuffices`), and a run keeps nothing from one phase to a later run (`Tidy`).

**LockedSupplyClaim.** `Invariance` shows `IInv`, that is, `TypeOK` with: what a
request knows of the rows at each of its steps (`RequestsKnow`), that a code with an
answer row is owned by at most one request and by none once its signatures are
out (`OneOwner`), and that handed orders have left the status Locked
(`HandedNotLocked`). From it: `TypeCorrect`, `SignaturesGoToOwner`,
`CodeBuysOneWallet`, `StatusesHaveChallenges`. `AttemptsStayBounded` counts: a
banned IP's attempts and its requests under way together stay below the
threshold plus the number of slots (`Limited`), as each failure ends a request.

**LedgerSync.** `JournalHasNoHole` rests on `HoleInv`: movements of a network are
numbered by block (`NumberedByBlock`, from the assumption that a chain's events
come in block order), every run starts at or before each missing movement of its
network (`Resumes`) and goes by number, so it never journals past one it found.
`MovementsJournalledOnce` rests on `OnceInv`: while runs do not overlap, the one at work
is alone between the look at the journal and the insert. `LedgerTypes`: balances
stay natural numbers.
`BalancesAreTheJournal` and `DebitsNeverUnderflow` speak of sums of amounts. The laws
of such sums (a movement more, a smaller set) are proved without induction, by looking
at a smallest set that breaks them. `RowInv` then adds to `OnceInv` that an account in one group has one row, which is
the sum of its journal rows, but for the movement whose save is under way. For the
second, `ByNumber` says that the journal has a movement only after all earlier ones of
its network; and a set of movements like that never adds up to less than zero, in
whatever order the networks were read (`NeverBelowZero`, where `ChainAllows` is used).
`NothingIsPassedOver` needs only `HoleInv` and the order in which a run goes.
`JournalIsABook` is the refinement of `JournalBook`, by `BookInv`: every action is a step
of the book or a stutter; `InsertJournal` is an `Enter`, by `ByNumber`, or, for a
movement two runs overlap on, a stutter. It holds for overlapping runs too.

**PurchaseImport.** `LossesHaveCauses`, by `LossInv`: a run asks from above a row
(`StartsAboveRow`), has found all that was there when a contract answered
(`FoundAll`), and an event that leaves its list is stored or has failed
(`NoneOvertaken`). `PurchasesStoredOnce`: rows are of the chain and distinct in
their transaction.

**BadgeSigning.** `IInv` is `TypeOK` with a part for each property: `Recorded` (a
second verification has its row), `LastRead` (the row that was read as the last is due
no earlier than the request's own, nor than what had been handed out when it began,
though others are inserted before the clock is looked at),
`Extending` (a due date of one's own is chosen when the last row is dead; what was
handed out before has a row, hence is dead too), `Seen` and `Once` (mints and
purchases are never undone, so that a verification finds what was there when
it began, whatever the caches hold). Theorems: `BadgeTypes`, `SignaturesRecorded`,
`PermissionsNotExtended`, `MintedIsNotSigned`, `ExecuteEnds`, for any number of
requests, processes and networks, and any time.

**Quotes.** First the laws of rounding (`DivideLaw`, `MultiplyLaw`, monotony, and what
a product of a quotient is), then two facts of the arithmetic: `WorthCovered` (going
from an amount to tokens and back never yields more) and `QuotationWorth` (a
quotation loses at most a unit in each operation). `IInv` adds to the types that
every price of KNN in a cache or a request was derived from the exchange's price or the
fallback at the dollar it remembers (`Derived`), that prices a request holds are
prices of the market (`Known`), and what an answered quote promises at its own
prices (`Answered`). Theorems `TypeCorrect`, `FloorIsKept`,
`TotalIsCovering`, for all prices, amounts, lifetimes and numbers of requests, under
two assumptions: prices do not round the price of KNN to zero
(`PriceAssumption`: with 18 decimals even its price in ETH has some 14 digits), and
the statistics ask in KNN (`ConvertAssumption`).

**Only model-checked.** The liveness properties (`PaidIsCredited`,
`ConfirmedIsSettled`, `NewestIsRetried`, `JournalCatchesUp`, `TableCatchesUp`), as
TLAPS does not reason about `ENABLED`. What each of them needs of safety is proved:
nothing is put where no job looks for it any more (`NothingShelved`,
`NoClaimPassedOver`, `RunsMissNothing`, `LossHasCause`). What is left to the runs
is that a fair job comes to its end.

## 5. Findings

* **A failed call is taken for a duplicate** (`order_skipped`). The catch of
  `process-statement-transaction.usecase.ts:187` logs "already processed" for any
  error, and the credit is cached: an exact credit may stay without payment until
  the cache is dropped or the process restarts.
* **A clearing expires an order another process confirmed in time**
  (`order_stale`). `process-statement-transaction.usecase.ts:93` compares the clock with a
  copy of the order read before. Of two processes of a deployment, one reads the order
  Requested, the other pays and confirms it, `expires_at` passes, and the first writes
  Expired, with the reason "[clearing] paid after expiration" (line 103), which is not
  true of this order. Its own payment fails on the unique key, and every later credit
  finds the order paid: it stays Expired and is not settled.
* **Contracts share a cursor** (`import_cursor`). An event mined after its
  contract answered, but before the other one did, falls behind the cursor.

## 6. What is not modelled, and known limits

* An order confirmed after `expires_at` can be written back to Expired by the
  expiration job, which read it as Requested; its payment exists, so no later
  credit or clearing confirms it again. The same becomes of an order that a clearing of
  another process read before it was confirmed (section 5).
  `ConfirmedInTimeStays` therefore speaks of orders confirmed in time, and of the
  moments from which no such clearing is under way.
* A Confirmed order with a lock or claim row but without a receipt is never
  settled again: `fetchPendingSettlement` leaves it out. That is what keeps
  `DispatchedOnce`, at the price of a manual repair after a crash.
* A request that read its orders before the import wrote Claimed overwrites
  it with Challenged or Owned. The claim row still keeps the order out of later
  requests, so `StatusHasChallenge` allows it.
* The history row of a status (`order_status_transition`) is inserted before the
  update; only the update is modelled, as nothing reads the history. The
  amounts a late order is quoted again with, the comparison of a claimed
  amount with the locked one, e-mail and validation of input are data and
  left out.
* A mailed code may be useless: an answer under way, to an older code or to the
  first of two overlapping challenges, writes Owned after a new challenge wrote
  Challenged. The code that was mailed then finds no order that is Challenged
  (`claim-locked-supply.usecase.ts:193`), and trying it counts towards a ban. The owner
  can ask for another one. `StatusHasChallenge` allows it.
* `LockedSupplyClaim` has one process. With two, bans and counters are per
  process and `AttemptsBounded` holds for each.
* The claim and the receipt insert of an imported claim are one step in
  `LockedSupplyClaim`, which reads only the claim row.
* Contracts are external: they accept a nonce or a payment sequence once and
  emit one event for it. Their generated bindings, the adapters for mail, settings and
  logging, the CLI and the worker hold no logic to check.
* When the claim insert of an import fails after its receipt insert, the unique
  `order_id` of the receipt fails every retry: that claim stays half imported.
* Ledger: reorganisations of a chain are not handled. An account that is in different
  groups on the two networks has two balance rows, and the second starts from a
  copy of whichever was read (`fetchable-balance.adapter.ts:48`); the balance
  properties are about accounts in one group. Overlapping runs may journal a
  movement twice. A balance whose journal row failed is counted again by
  the next run.
* Badges: two overlapping requests for different networks are both
  verified before either has a row, and both are signed, with due dates of their own.
  A signature for a network other than the one asked for has the
  type of the asked layer (`sign-aggregated-mint.usecase.ts:101`, `:115`), and
  no contract accepts it. `onHold` is never set
  (`verify-aggregated-badge-mint.usecase.ts:62`). The two strategies for audit pool
  badges ask for other events through the same steps and are left out.
* Quotes: the lower bound of the check on the dollar in the on-chain adapters compares
  an 18-decimal number with one of the feed's eight decimals and never refuses.
  An amount in KNN is answered with a total without gas (the net total has it), an
  amount in ETH or MATIC pays none. `forceReload` has no effect on the dollar, the
  price of ETH and Polygon's gas. The answer of an older call may replace
  a newer one in a cache.
* Signed delegate orders sign a price asked after their quote, possibly
  from a newer price of KNN; they keep no state, and what accepts the signature is a
  contract.
* Authentication: no token is issued at this commit. `validateRequestedScopes`
  (`generate-auth-token.usecase.ts:457`) compares `Number(scope)` with role values
  that are strings, so every scope is refused, and nothing past it is reached.
* Audit pool import: the insert names a `fingerprint` column that no migration
  creates, and the raw result of the query for the last block is read as if it were
  an array. No run completes.
* Tokenomics: a cache of two minutes over reads of the chain; nothing depends on it.
* Some 60% of the TypeScript is generated contract bindings; controllers,
  factories, DTOs, mappers and migrations hold no logic either. What is modelled are
  the use cases that keep, move, sign or price something, and the queries and
  statements they decide by.

## 7. Plan

The order of work follows the value at stake: first the money of an order
(`OrderPipeline` over `Fulfilment`), then what is claimed (`ClaimImport`,
`LockedSupplyClaim`), then the books (`LedgerSync`, `PurchaseImport`), then what the
server signs and promises (`BadgeSigning`, `Quotes`). All of these are done, and each has its
proofs. What is left, in order:

1. An abstract specification of a claim's rows that both `ClaimImport` and
   `LockedSupplyClaim` implement; then a composition of the two, for the life of an
   order's status from Locked to Claimed, over the two processes of a deployment.
2. Signed delegate orders on top of `Quotes`: how old the signed price may be.
3. The validation of an order at its creation, in front of `OrderPipeline`.
4. The audit pool strategies of `BadgeSigning`, once their events are imported.
5. `Authentication`, once a requested scope can be granted: challenge, token,
   validation, bans, along the lines of `LockedSupplyClaim`.
