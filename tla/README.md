# OmenBackend in TLA+

OmenBackend is the back end of a market for tokenized real-world assets. This
directory holds TLA+ models of what the service does to orders, balances,
markets, swaps, settlements and transactions, and of the process it does it in,
with the TLC instances that check them and TLAPS proofs. All paths below are
relative to `src/marketBackend/src/` unless they name a document.

    OrderMatching      submission, cancellation, ledger, matching worker
    MarketLifecycle    approval, activation, token deployment
    SwapLifecycle      swap requests, the swap worker, settling the ledger
    Settlement         settling trades on chain: worker, client, rate limiter
    Reconciliation     the ledger compared with the chain and overwritten
    Service            one process: start and stop, transactions, requests
      ServiceLifecycle   server.ts and bootstrap.ts
      TransactionQueue   the transaction manager
      OrderGate          expiry and nonce of an order
    AtLeastOnce        what swaps, settlements and deployments promise (abstract)
    JobQueue           a BullMQ job: attempts, stalls (shared)
    RateLimiter        the token bucket (shared)
    FiniteSums         lemmas about sums over finite sets
    MC<Module>, *.cfg  the instances; <Module>Proofs the theorems

## 1. The system

One Node.js process, or several, serve the HTTP API and run BullMQ workers.
They share a PostgreSQL database, a Redis (queues, caches, nonces), the
Sapphire chain, and Entity Permissions Core, which decides on markets. Nothing
holds a lock across an `await`, and `executeTrade`'s transaction encloses
nothing: it runs `BEGIN` on one pooled connection while every statement goes
through `getDatabasePool()`. So the atomic steps are single SQL statements,
single Redis commands, and the code between two awaits. The client it took for
`BEGIN` is held all the same until the trade ends.

| Component | State | Operations |
|---|---|---|
| Order API (`services/tradingService.ts`) | `orders`, a list of open orders in Redis | `submitOrder`, `cancelOrder` |
| Matching worker (`infra/queue/matchingWorkerHandler.ts`) | `orders`, `trades`, queue `order-matching`, a Redis order book | `processMatchingJob`: open, match, trade, schedule the orders it met |
| Ledger (`services/tokenService.ts`, `tokenRepository.ts`) | `user_balances` (available, locked), `token:balance:*` in Redis | lock, unlock, update, read through the cache |
| Markets (`services/marketService.ts`) | `markets.status`, `approved_by`, `rejected_reason`, contract | register, decide, activate, pause, archive |
| Approval events (`webhookController.ts`, `eventListenerService.ts`) | `processed_events` | deliver, poll, record |
| Deployment worker (`tokenDeploymentHandler.ts`) | `markets`, `tokens`, `trading_pairs`, queue `deploy-token` | deploy, activate, create rows, revert |
| Swaps (`swapService.ts`) | `token_swaps`, ledger, queue `process-token-swap` | request, process, settle, fail |
| Settlement (`settlementService.ts`) | `trades.settlement_status` | settle on chain |
| Reconciliation (`blockchainReconciliationService.ts`) | ledger, settlement status | compare with the chain, overwrite |
| Transactions (`transactionManager.ts`) | `transactions`, dead-letter queue | enqueue, process, failed listener |
| Nonces (`nonceService.ts`) | Redis keys with a TTL | look up, set if absent |
| Sapphire client (`sapphireRpcClient.ts`, `rateLimiter.ts`) | a token bucket | acquire, call, repeat |
| Process (`server.ts`, `bootstrap.ts`) | what is initialised, signals | boot, listen, close, stop |
| Wrapping (`wrapperService.ts`) | ledger, wrap queues | never constructed |
| Market data, publishers, HTTP layer | read-through caches, publications | no state that others read |

How they interact:

* The API enqueues a job for each order; the worker's jobs enqueue jobs for the
  orders they met; a trade enqueues settlement, notification and analytics
  jobs. Only `deploy-token`, settlement, reconciliation, matching, swap and
  transaction queues have workers (`infra/bootstrap.ts`).
* Orders, swaps, wrapping and reconciliation all write `user_balances`, and all
  but the last through the same cache.
* A decision reaches `MarketService` from the webhook or an admin request; the
  poller records it and nothing more. An approval activates the market at once,
  which enqueues its deployment, and the worker writes the market's status.

What is hard in it:

* reads before an await, checks and blind writes after it: balances, fills,
  market statuses;
* failures between steps, none of which is undone: the ROLLBACK undoes nothing,
  `submitOrder` has no catch, the loop of `executeMatching` swallows errors;
* retries and repetitions: BullMQ's attempts and stalls, webhook redeliveries,
  fixed job ids that the queue keeps;
* order of arrival: opposite decisions, a poller against a webhook, a
  cancellation against a trade, a status QUEUED written after the job is done;
* effects outside the database: a swap or a settlement whose answer is lost is
  made again;
* a resource held while another of the same kind is awaited: a trade keeps a
  client of the connection pool while each of its statements takes another;
* a process that stops under what it runs: shutdowns that overlap, listeners
  nobody awaits.

What makes each part correct:

* Matching: fills correspond to trades, fit the order and respect limits; no
  accepted order is forgotten; only trades whose balances moved are settled;
  what an order locked covers what its trades take; matching ends, as long as
  the pool has a connection more than trades hold. Checked and, but for the
  last, proved.
* Ledger: never negative; what a user holds follows the balance updates of
  trades, unless one was computed from a total that had changed since; no
  update lost; supply conserved. The first two are proved; the others do not
  hold (section 3).
* Markets: nothing unapproved is deployed; a bounded number of contracts; every
  pair has its token; no acknowledged decision is lost; activations settle.
* Swaps: the ledger never runs ahead of the chain; locks and refunds conserve
  it; a swap is made at most once per run of its job, and completed only when
  it was settled.
* Settlement: a trade says SETTLED only after it was settled, and for good; the
  number of calls is bounded, and so is their rate.
* Reconciliation: nothing stays locked for nobody, but for what a trade or a
  swap wrote back that read it earlier, and the ledger converges to the chain.
* Transactions: a dead letter is for a job that has used up its attempts.
* Nonces: two acceptances under one Redis key are a life of the key apart.
* Process: connected requests, transactions and jobs have their components, a
  shutdown interrupts no transaction, and it ends if what it waits for does.

## 2. The models

### OrderMatching

One trading pair, several users, orders, worker executions and cancellations.

| Variable | Code |
|---|---|
| `row` | `orders.status`, `filled_quantity`, rank of `created_at` |
| `bal`, `cache` | `user_balances` and `token:balance:*` |
| `trades`, `settling` | `trades` rows with the count of their balance updates made; settlement jobs |
| `jobs` | BullMQ jobs `match-<o>` (`<<o, o>>`) and `match-<o>-trigger-<p>` (`<<o, p>>`) |
| `sub`, `can`, `run` | program counter and live locals of each call and execution |
| `pairActive` | `trading_pairs.is_active` |
| `traded` | history: traded quantity of each order |
| `overlapped` | history: balances that an update overwrote with a total that was no longer theirs |
| `faults` | faults so far, bounded by `MaxFaults` |

Submission: `SubmitRefused` or `SubmitLock` (the conditional UPDATE),
`SubmitCache`, `SubmitCreate`, `SubmitEnqueue`. Cancellation: `CancelRead`,
`CancelUnlock`, `CancelCache`, `CancelMark`. Worker: `TakeJob`, `LoadOrder`,
`CancelInactive` or `OpenOrder`, `FetchOpposing`, then for each opposing order
`NextOpposing` (pass it over, or connect) and `InsertTrade`, four times
`ReadAvailable`, `ReadLocked`, each with a `FillCache` when it had to ask the
table, `WriteBalance`, `CacheBalance`, then `FillBuyer`, `FillSeller`, `EnqueueSettlement`,
`TradeExecuted`; at the end `FinishMatching` and `ScheduleOpposing`. Faults:
`SubmitFault`, `CancelFault`, `InsertFault`, `TradeFault`, `AttemptFault`,
`Crash`.

Decisions a reader should know:

* The Redis order book is not a variable. `mapOrderRow`
  (`tradingRepository.ts:363`) gives `orderNumber` as a BigInt, on which
  `JSON.stringify` throws; the worker's `addOrderToOrderBook`,
  `cacheOrdersInRedis` and `removeOrderFromOrderBook` catch it, so nothing is
  ever stored and `getOpposingOrders` is always the query. In `cancelOrder` it
  is not caught: the call fails after it wrote CANCELLED.
* `getUserBalance` is the cached entry or, since an entry can expire after any
  time, the row, which `FillCache` then caches whatever has been written since.
  The two columns are read by two calls and can come from different moments.
* `Clients` are the executions that hold a connection: `executeTrade` connects
  before `BEGIN` and releases in its `finally`. Every statement, theirs and the
  API's, needs one more (`PoolFree`), which it returns at once; the pool has
  `PoolMax` and no timeout. Lookups in Redis and enqueued jobs need none.
* A price of 0 stands for NULL. A limit order without a price and a market buy
  without one never reach the ledger.
* `OrderStatusCheck` is the CHECK of `orders.status`. Migration 002 does not
  admit `PENDING_MATCH`: with it, nothing after the lock happens
  (`SubmitSchema`). The other runs give it every status, so that they examine
  the code behind it.
* BullMQ is external: `Add` ignores an id that is kept, a throw counts an
  attempt, a death a stall. The matching queue drops a completed job after an
  hour or a thousand others; behaviours within that window are modelled.
  `MaxStalls` stands for BullMQ's default or the configured value.
* The limits of 50 opposing orders and 10 triggered jobs are above the size of
  every instance and are not modelled.

### MarketLifecycle

| Variable | Code |
|---|---|
| `market` | status; whether an approval and a rejection were written; contract |
| `deployed` | contracts deployed on Sapphire for each market |
| `token`, `pairs` | rows of `tokens` by symbol; markets with a row in `trading_pairs` |
| `job` | the BullMQ job `deploy-<market>` |
| `processed` | `processed_events.processing_status` |
| `call`, `poll`, `run` | requests in flight, the poller, worker executions |

A call returns to idle when it ends, so the instances make any number of calls,
`Call` of them at a time. A webhook and an admin request run the same
`CheckPending`, `NotAuthorized`, `WriteDecision`, `CheckApproved`,
`StartActivation`, `EnqueueDeployment`; they differ in what `Succeeded` and
`Refused` do. Event rows inserted by `publishEvent` are folded into the step
before them, and their failures are `CallFault` and `DeployFault`. The worker is
`TakeJob`, `LoadMarket`, `DeployToken`, `ActivateMarket`, `FindToken`,
`CreateToken`, `FindUsdc`, `CreateUsdc`, `FindPair`, `CreatePair`,
`PublishActivated`, and the catch is `Revert`. A deployment that fails may have
been mined (`DeployFault`). Overlapping polls are one poll, since they write the
same values. A pair's symbol is derived from the token's, so the two UNIQUE
constraints of `trading_pairs` are one test in `CreatePair`. Nothing is assumed of symbols:
`registerMarket` accepts the quote token's own, and such a market is paired
with whatever row of that symbol it finds. `Failures` says which kinds of
failure an instance has: of API calls, of other calls, and deaths of a process.

### SwapLifecycle

| Variable | Code |
|---|---|
| `quote`, `signer` | the quote of each request; whether a signer key is configured |
| `status` | `token_swaps.status` |
| `bal` | `user_balances`, by account (a user and a token) |
| `chain` | how often each swap was made on Sapphire |
| `job`, `req`, `run` | job of `process-token-swap`; where each `requestSwap` and execution is |
| `taken`, `credited`, `overlapped` | history: settlements of the ledger, and accounts where one overwrote another |

`requestSwap` is `RequestRefused`, `LockSource`, `CreateSwap` (with `buildQuote`,
which comes after the lock and may throw), `EnqueueSwap`, `MarkQueued`.
`processSwapJob` is `TakeJob`, `LoadSwap`, `StartProcessing`, `SwapOnChain`,
`RecordTransaction`, `ReadSource`, `TakeSource`, `ReadTarget`, `CreditTarget`,
`MarkCompleted`, `AuditCompleted`; its catch is `Requeue`, or `MarkFailed`,
`UnlockSource`, `ReportFailure` in the last attempt. Faults are `RequestFault`,
`TryFault` (a swap may have been made), `HandlerFault`, `UnlockFault`, `Crash`.
`TotalFee` and `ConvertAmount` are the arithmetic of `buildQuote`. A client may
send an `expectedTargetAmount` of its own, which nobody validates: it can be
negative, and where it would make the balance so, the CHECK refuses the update
and `CreditTarget` is an attempt that failed. The
balance cache is not a variable: `settleBalances` reads the row itself.

### Settlement and RateLimiter

`status` is `trades.settlement_status`, `chain` counts settlements on Sapphire,
`job` and `run` are the queue and the executions of `executeSettlement`, which
share one process, one client and one bucket. An execution is `TakeJob`, then
`Acquire` and `SettleTrade` or `RpcFault` up to `RpcAttempts` times, then
`SaveSettlement`, `PublishSettled`. `Caught` is the catch: it compares
`attemptsMade`, which counts from 0 while the processor runs, with 5, so FAILED
is never written. `RateLimiter` counts time in ticks; its `debt` is a history
variable: each granted call adds `Interval` and each tick pays one back, so a
bound of it bounds the calls of every window of time.

### AtLeastOnce

The abstract specification of an operation with an effect outside the
database: `Effect` at most `Bound` times, `Record` only after an effect,
nothing once the job is `over`. `SwapLifecycle` implements it with
`effects <- chain` and a credit as the record, `Settlement` with SETTLED as the
record and the product of runs and client attempts as the bound,
`MarketLifecycle` with `effects <- deployed` and the contract on the market's
row as the record, however often the market is activated.

### Reconciliation

One worker runs a round at a time: `StartRound`, for each token `ListRows`, for
each row `AskChain`, `Compare`, `Overwrite`; `SkipToken`, `SkipRow` and
`AbortRound` are its caught and uncaught failures. Orders lock and unlock
(`OpenOrder`, `CloseOrder`). `Credit` and `Trade` are what trades and swaps
write through `updateBalanceInternal`: both columns, the available one any
amount, the locked one as it was read at some earlier moment, from the row or
from its cached copy, less what the order had locked when a `Trade` takes from
it. `past` are the locked amounts a row has had, which such a write may still
have in hand, and `stale` the rows where the last such write brought back more
than was locked (history variables). An order that was traded is `traded` until
a late cancellation closes it. `ChainMoves` stands for the chain, which may set
any amount. The review
of pending settlements writes nothing: it looks for a PENDING trade with a hash,
and the hash is written together with SETTLED.

### Service

Three modules in one process. `ServiceLifecycle`: `BootStep` and `StopStep` are
the awaits of `bootstrapInfrastructure` and `shutdownInfrastructure`; `up` is
what is initialised. A signal calls `server.close`, whose callback waits for
the last connection, not for the handlers of requests: `left` are the requests
whose client disconnected, and whose handlers run on under the shutdown until
a call of theirs fails (`Disconnect`, `RequestFault`). `MaxLeft` bounds how
many there are at a time. The event listener's `stop()` clears its interval and
does not await a poll that is running; a poll keeps no state and its errors are
caught, so it has none in the model. Every further signal adds a callback, and
each callback runs the whole shutdown, so that two run side by side and the
second `pool.end()` ends the process early (`StopTwice`). `TransactionQueue`: `enq`,
`txStatus`, `hash`, `txJob`, `txRun` are the row, the job and the two handlers;
`calls` are the calls of the `failed` listener, which BullMQ does not await.
`OrderGate`: `key` is when a Redis key of the form `nonce:<address>:<nonce>`
expires, `sub` where each request is; `KeyOf` gives the key of a request, with
the address as the request spells it. The composition says what a process that
ends takes with it (`Gone`: requests, runs, listener calls) and what stays
(rows, jobs, keys), and which components each step uses (`ProcessNext`, `ListenerNext`, `StopNext`).
An order that passed the gate continues in `OrderMatching`.

## 3. What TLC checks

| Run | Instance | Shows |
|---|---|---|
| `MatchOverlap` | market ask of 1, bid of 2, quotes rounded, two workers | `TypeOK`, `FillsWereTraded`, `FillsFitTheOrder`, `LocksCoverTrades` |
| `MatchFaults` | ask of 2, bid of 1, one cancellation, one fault or crash, two attempts | `SettlementFollowsLedger`, `NoStrandedOrder`, `LedgerMatchesTrades`, `JobsEnd` |
| `SubmitSchema` | the statuses migration 002 admits | violates `SubmissionsCreateOrders` |
| `SupplyOverlap` | two overlapping workers | violates `SupplyNeverGrows` |
| `PoolExhausted` | two overlapping workers, two connections | violates `CancellationsAnswered` |
| `MarketRaces` | one market, two calls, opposite events, one polled, faults | `TypeOK`, `DeployedWasApproved`, `SuccessWasDecided`, `DeploymentsKeepPromise` |
| `MarketShared` | two markets with the default symbol, two workers, two attempts, crashes | `PairsHaveTokens`, `ActivationSettles` |
| `MarketRetry` | two markets with the default symbol, no failures | violates `ActivatingHasJob` |
| `Swap` | two opposite swaps on two accounts, two workers, two faults | `TypeOK`, `CompletedWasSettled`, `CreditsWereSwapped`, `LedgerMatchesSettlements`, `SwapsKeepPromise`, `SwapQueueDrains` |
| `Settlement` | two trades, two workers, two client attempts, three faults | `TypeOK`, `RateBounded`, `SettlementsKeepPromise`, `SettlementQueueDrains` |
| `Reconciliation` | two users, two tokens, two orders on one row, two moves, one fault | `TypeOK`, `LockedIsHeld`, `LedgerConverges` |
| `Service` | one transaction, two requests with one key, one client that may leave, two signals, two faults | `TypeOK`, `DeadLettersWereExhausted`, `WorkHasItsComponents`, `ShutdownsInterruptNothing`, `NoncesApart`, `ShutdownEnds` |

Why the bounds are enough.

* Matching: two orders and two workers make every overlap of two trades of one
  user; partial fills, and jobs that schedule one another, occur with one order
  larger than the other. A fee of a half makes fees non-zero with quantities of
  1 and 2. In `MatchOverlap` a `Scale` of 2 rounds the quote of one unit and of
  two overlapping trades of it; the other instances have a `Scale` of 1. A
  balance computed from a stale total (`overlapped`) is reached with two workers
  and, through the cache, with one. `PoolMax` is one more than the workers,
  so that every overlap is possible and none exhausts the pool, except in
  `PoolExhausted`, where it is their number, as in the configuration (a
  concurrency of 10, a pool of 10).
* Faults: one fault reaches every await once; two, with two attempts and one
  stall, give a failure after a failure, a crash in a retry and a job that is
  given up.
* Markets: two calls at a time make each race of check and write, and they
  repeat; two opposite events on one market are the worst case. In
  `MarketShared` the failed calls are the INSERTs that the UNIQUE symbol
  refuses; each is followed by a retry that finds the market handed back. A
  market with the quote token's symbol is in no instance; that case of
  `PairsHaveTokens` rests on the theorem.
* Swaps: the swaps run in opposite directions, so each settles the account the
  other one took from; one is too small for its fees, with and without a quote
  of the client. Decimals of 3 and 2 make the conversion divide and multiply.
* Settlement: two of each number (attempts, client attempts, tokens, ticks)
  reach every boundary; the clock is bounded by the time that fills the bucket.
* Reconciliation: both orders lock one row, which cannot hold both at first, so
  that one order's stale locked amount meets the other's lock; the second token
  has a row of its own for rounds to move on to. Amounts up to 2 tell a stale
  answer from a current one. Two moves (`MaxMoves`) are a write of a stale
  amount and a second one on top of it, or the chain moving under one. It never
  rests, so deadlock is checked.
* Service: two signals make two shutdowns overlap at any two steps; a `Ttl` of 1
  and a clock of 1 let a key expire within the life of the signature of one
  request; one of the two requests may lose its client (`MaxLeft`).

Workers and calls are symmetric in the runs that say so. Where deadlock is not
checked, the instance may come to rest when all jobs are done.

Fairness. Weak fairness of each worker's own steps: Node.js resumes every
awaited call and BullMQ gives waiting jobs to idle workers. `Settlement` adds
the clock, `Reconciliation` the repeatable job, `PoolExhausted` the steps of a
cancellation that was accepted. Three conditions are in the models rather than
in the fairness:

* A statement waits for a connection. In `OrderMatching` it is disabled without
  one, so fairness promises nothing then, and `JobsEnd` holds because `PoolMax`
  is larger than the number of executions. The other modules have no pool:
  their liveness presupposes that the trades of the process do not exhaust it.
* `Service` assumes only that a shutdown goes on when what it awaits is over and
  that a server whose last connection closed calls back. `ShutdownEnds` is
  conditional on jobs and transactions ending and on clients leaving, since a
  job may wait for ever for a connection or for the chain.
* `SwapQueueDrains` and `ActivationSettles` take for granted that the chain
  answers: `tx.wait()` in `sapphireTokenClient.ts` has no timeout.

Nothing is assumed of users, administrators, Entity Permissions Core, API calls
or new processes, and faults are never owed.

What the documents promise and the code does not do, each shown by a violation
run:

* `SubmitSchema`: the status `PENDING_MATCH` that `submitOrder` inserts is refused by
  the CHECK of `orders`, and the funds stay locked (`ARCHITECTURE.md:521`).
* `SupplyOverlap`: balance updates are not atomic
  (`TRADING_SYSTEM_IMPLEMENTATION.md:638`).
* `PoolExhausted`: a trade keeps a client of the pool while its statements take
  others (`matchingWorkerHandler.ts:335`). With as many trades at once as the
  pool has connections, which the worker's concurrency of 10 and the default
  `DATABASE_POOL_MAX` of 10 allow, they wait for one another for ever, and so
  does the API, which the worker was not to block (`:40`, `:55`).
* `MarketRetry`: an activation after the first job ended has no job
  (`ARCHITECTURE.md:197`).

Real behaviours of the models that no property states, because it would be
false:

* fills are overwritten with a stale fill plus the trade's quantity, and not
  incremented (`ARCHITECTURE.md:593` says increment): an order that sweeps two
  others ends with the fill of the last trade;
* a cancellation can be overwritten by a trade; an order cancelled for its
  inactive pair keeps its lock;
* a rejected market can be approved by a decision that checked before; a polled
  event is recorded as a success and never decided; a market can become active
  without a trading pair after a crash; pause and archive accept any status;
* a swap may be made and taken off the ledger more than once, a completed or
  failed one may say QUEUED, and a request that fails after the lock keeps it;
* a trade is never marked FAILED; one whose settlement job was not enqueued
  stays PENDING;
* reconciliation frees what open orders locked, and their cancellation then
  throws; a trade or a swap can write back a lock that was freed or cancelled
  since it read it, and it stays until a round overwrites the row;
* the Redis key of a nonce spells the user's address as the request does, while
  the signature check compares it in lower case (`nonceService.ts:17`,
  `eip712.ts:161`), and the key lives an hour, while an order's expiry has no
  upper limit (`eip712.ts:170`). `NoncesApart` speaks of keys and their life; it
  is less than "Same signature cannot be used twice"
  (`TRADING_SYSTEM_IMPLEMENTATION.md:624`) and "Nonces prevent signature reuse"
  (`ARCHITECTURE.md:477`);
* the handler of a request whose client has left, and a poll that is running,
  may find the components gone and fail;
* a confirmed transaction may be overwritten by in_progress, failed or dropped;
  a dead letter is lost when the process ends before its listener; a stalled
  job has none; a listener that throws ends the process.

## 4. What is proved

Six modules hold the theorems of the specifications, and two the lemmas that
several of them cite: `JobQueueProofs` about a BullMQ job (`TakenJob`,
`EndedJob`, `RunsBounded`: a job starts `Attempts + MaxStalls` runs at most)
and `FiniteSums` about sums. All of them hold for every value of the constants
that satisfies the named assumptions of the module; the bounds of the
instances, `MaxFaults` and the like, are any natural numbers. The
specifications are those without fairness. Each argument is an inductive
invariant, one lemma per action or group of actions, and consequences.

### FiniteSums

What a ledger holds is a sum over orders, swaps or balance updates, and the
library has no usable theorem about `SumFunctionOnSet`. `NaturalsBySteps` and
`FiniteSubsetsBySteps` are induction for a set instead of a predicate: a set of
numbers that holds 0 and is closed under + 1 holds every number, because < is
well founded. The sum is a function that the fold chooses; `StepsExist` builds
it one size of subset at a time, `StepsAgree` shows that its domain does not
matter. The algebra follows: `SumWithout` takes any element out of a sum,
`SumOfSame` and `SumOfChanged` compare the sums of two functions,
`SumOfNaturals` and `SumOfZeros` say what a sum can be.

### OrderMatchingProofs

`OrderMatchingProofs` proves, for every value of the constants that satisfies
`OrderAssumption` and `NumberAssumption` (finitely many orders, any users,
workers, cancellations, prices, quantities, attempts, connections and faults):

* `InductiveInvariant`: `Spec => []IInv`
* `TypeCorrect`, `NoPhantomFill`, `FillsFit`, `OnlyCompleteTradesSettle`,
  `NoOrderForgotten`: the safety invariants of `MatchOverlap` and `MatchFaults`;
  `LimitsRespected`: no recorded trade crosses a limit (no run checks it, since
  prices are constants)
* `LocksSuffice`: what an order locked covers what its trades take off and what
  a cancellation gives back, however quotes are rounded
* `LedgerFollowsTrades`: what a user holds is what the user started with and
  the sum of the balance updates that trades made, unless one of them was
  computed from a total that had changed since it was read

None of them is inductive, because each speaks of a write that was computed
from an earlier read. `IInv` adds what the executions in between know:

* `RowsFollowSubmissions`, `JobsFollowRows`: a row exists once its submission
  passed the INSERT, and jobs, runs and trades are about such rows;
* `RowsSound`, `TradesSound`: fills are covered by trades, trades are between
  opposite sides and within limits;
* `CancelsSound`: a cancellation's read fill is covered and fits;
* `RunsSound` (`ReadSound`, `RemainingSound`, `ExecutionSound`, `LegSound`): an
  execution's copy of a fill is covered by trades, what remains fits the
  order, its trade is one of its order's, and the count of balance updates of
  that trade is the leg it is at;
* `OneExecution`: a trade in progress belongs to one execution;
* `LocksCover`: the trades of an order took no more off its lock than a lock of
  what it traded would be;
* `SettlementFollowsLedger` itself.

The key to fills is that `traded` only grows (`Forward`), so what was covered
when it was read is covered when it is written; `FillsFitTheOrder` needs in
addition that an execution subtracts each trade from what remains. Each step
lemma has one case per action.

`LocksCover` is kept by a new trade because rounding down is superadditive: the
quotes of two parts come to no more than the quote of the whole, and a limit
order trades at its limit or better. `LedgerMatchesTrades` is inductive beside
`IInv`: `LegSound` says that an update being written is the next of its trade,
so that it enters the sum once (`OneMore`), and every other action leaves both
the sum and what a user holds alone, since locks and unlocks only move funds
between the two columns.

### MarketLifecycleProofs

`TypeCorrect`, `OnlyApprovedDeploys`, `SuccessIsDecided`, `PairsKeepTokens`:
every invariant of the two passing market runs; and `KeepsPromise`, the refinement of `AtLeastOnce`: a deployment
is an `Effect`, the first contract written on a row a `Record`, the end of the
job its closing, the rest a stutter. `MarketInv` says what is still true of what a handler read:

* `CallsSound` (`Knows`): a request about to activate, or to record a success,
  has its decision on the row. That survives every race because nothing takes
  an approval or a rejection off a row, whatever its status becomes;
* `MarketsSound`: a status from `approved` on, or a job, has an approval behind
  it;
* `RunsSound` (`Holds`), `OneRun`: a run has the one active job of its market,
  carries a contract that was deployed, and the token rows it found are there;
* `JobsBounded`: each deployment was paid for with an attempt or a stall, but
  for one that the active or completed job may have ahead of them;
* `TokensSound`, `PairsSound`: rows refer to what exists.

`PairsKeepTokens` is for any symbols. Where a market's symbol is the quote
token's, the base token it finds may be the quote token, which has no contract:
the property says so, and of every other pair that its contract was deployed.

### SwapLifecycleProofs

`TypeCorrect`, `LedgerNeverAhead`, `CompletedIsSettled`, `LedgerIsSettled` (a
balance is what it was at first, less what swaps took and plus what they
credited, unless an update overlapped another), and `KeepsPromise`: the
refinement of `AtLeastOnce`. `SwapInv` orders the counts of one swap by where
the run that holds its job is (`InRun`): swaps on chain are fewer than the runs
until this one makes its own, takings fewer than swaps until it takes, credits
fewer than takings until it credits. `KeepsPromise` maps `SwapOnChain` to
`Effect`, `CreditTarget` to `Record`, the end of a job to its closing, and the
rest to a stutter. A computed quote is a whole number because a power of ten
is a positive one (`PowersArePositive`). The provers know nothing of `^`, so
`PowerOfTen` is a recursive function, and the lemma an induction over its
tables: one exists for each length, and they agree where they overlap.

### SettlementProofs

`RateIsBounded` for the limiter alone, and `TypeCorrect`, `CallsAreBounded`,
`KeepsPromise` for the settlement worker with it. The rate is that of the life
of one process: a restart ends every window, since the next process starts with
a full bucket. `LimiterInv` bounds the debt
by an allowance, `Interval` for each missing token plus `Interval - 1` less the
time since the last refill: `RateBounded` alone is not inductive, since it does
not see that a full bucket owes nothing. In `SettlementInv` the calls of a
trade stay within `Budget`, the runs of its job times `RpcAttempts`, less what
the run in progress has left.

### ServiceProofs

`NoncesAreApart` for the gate alone, from `KeysOutlive`: the key of a request
that was let through expires `Ttl` after that moment or later. For the whole
process: `TypeCorrect`, `ComponentsOutliveWork`, `ShutdownsWait`,
`DeadLettersAreFinal`, `NoncesStayApart`. `ServiceInv` consists of

* `LifecycleInv`: while booting, `up` is a prefix of `Boot`; while stopping,
  it holds all that no shutdown has passed (`Passed`), however many run;
* `RunningInv`: a run needs components that come after the step of the shutdown
  that waits for it, and no shutdown is past that step;
* `TransactionsInv`: a job is active exactly while the worker has it, the
  `failed` listener's calls know attempts that were made, and one call at most
  sees the last;
* `GateInv`, which carries over because each step of the composition is a step
  of the gate or leaves it alone.

### ReconciliationProofs

`TypeCorrect` and `NothingLockedForNobody`: for any users, tokens, orders and
amounts, a row has nothing locked beyond what its open orders hold or, after a
write of a stale amount and until a round overwrites the row, beyond what its
orders ever locked. `ReconInv` adds to the two invariants `RowAtHand`, that a
round that compares or overwrites knows its row, where the type admits none,
and `PastWasLocked`: every amount in `past` is bounded by what the orders of the
row locked. A write of such an amount keeps that bound, and orders only join
`Lockers`. The sums change by one order at a time
(`HeldByOpening`, `HeldByClosing`).

### Only model-checked

Liveness: `JobsEnd`, `ActivationSettles`, `SwapQueueDrains`,
`SettlementQueueDrains`, `LedgerConverges`, `ShutdownEnds`. Liveness under
fairness is out of the proof system's reach. Every invariant of a passing run,
the three refinements and the action property `NoncesApart` are proved.

## 5. Not modelled, and why

* Signature verification: cryptography.
* The authorization cache: no route mounts it. Wrapping: `setWrapperService` is
  never called. `eventProcessingService`: a stub nothing calls. The matching
  methods of `TradingService` behind `processMatching`: nothing calls them.
* Mint, transfer, wrap, notification and analytics jobs: no worker takes them.
* Market data: `MarketDataService` is never constructed. Token administration:
  every handler of `tokenController` answers 501. Publishers and logs: nothing
  reads what they write.
* HTTP routing, parsing and configuration: no state. The chain, Entity
  Permissions Core, PostgreSQL, Redis and BullMQ: external, modelled as the
  outcomes the code handles.
* Values: prices never change, quotes are rounded in one matching instance
  only, backoff delays and priorities of jobs are left out, which only adds
  orders of events.
