# TLA+ model of the flash-sale service

These modules model the allocation engine of the flash-sale service. That engine is the
two-phase checkout/purchase flow. The checks run with the TLC model checker. Each
definition is translated from the Go source under `src/`, and `PROJECT.json` maps it to
the lines it stands for.

## The system

| Part | Source | What it does |
|---|---|---|
| Checkout handler | `internal/application/commands/checkout_command.go` `Handle` | Validates the request against the bloom filter, the Redis slot count, the Redis checked-items set and the item row. Finds or creates the user's checkout code and stores the item in `checkout_attempts`/`checkout_items`. Then bumps the Redis checkout count. |
| Purchase use case | `internal/application/use_cases/purchase_use_case.go` | `ExecutePurchase` takes a Redis lock on the code and runs `attemptPurchase` up to 2 times. It then cleans the checkout up. `attemptPurchase` logs the attempt and pre-checks the Redis counters. It then opens a SERIALIZABLE transaction, marks each item sold, increments the Redis counters, updates `sales.items_sold`, saves the purchase result and commits. |
| PostgreSQL repositories | `persistence/postgres/sale_repository.go`, `unnamed/part_004` (CheckoutRepository), `migrations/001_initial_schema.up.sql` | Holds the durable state: items, sales, checkout rows, purchase results. |
| Redis cache | `infrastructure/monitoring/middleware.go` (`Cache`) | Holds the counters, checkout-code keys, the checked-items set, the `SETNX` lock with a 3 s TTL, and `IncrementCounters` (a Lua script). |
| Redis bloom filter | `persistence/postgres/connection.go` `RedisBloomFilter` | Holds the sold-items filter, a bitset in Redis. |
| HTTP layer | `http/server/server.go`, `http/handlers/*.go` | Routes, parameter validation, and a 90 s `http.TimeoutHandler`. |
| Start-up | `cmd/server/main.go`, `persistence/postgres/migrations.go` | `main` runs `RunMigrations`, then starts the scheduler and the HTTP server; any error before that is `log.Fatal`. |
| Scheduler, monitoring, load tests | `unnamed/part_001`, `monitoring/*`, `scripts/` | Creates the hourly sale. Metrics and tooling. |

How the parts interact: any number of HTTP requests run concurrently, and each runs one
handler. Every call from a handler to PostgreSQL or Redis is a point where another request can
run. The two flows share all of the durable and cache state. The purchase flow alone uses
transactions, and only for the item, sale and result rows. The checkout rows and every Redis
write sit outside any transaction.

The hard behaviours:
- concurrent purchases racing for an item or for the `sales` row;
- serialization failures and the retry loop;
- transactions that the deferred rollback fails to close;
- Redis writes made before the commit they depend on;
- cache reads whose errors are only logged (fail-open);
- the lock TTL expiring under a slow purchase;
- the 90 s request timeout.

## Modules

`FlashSale.tla` models the checkout handler and the purchase use case as concurrent
requests (`Procs`), over the durable store and the cache.

* **State.**
  * Durable store: `soldTo` (items.sold / sold_to_user_id), `saleSold` (sales.items_sold),
    `results` (purchase_results), `coAttempts`/`coItems` (checkout_attempts / checkout_items
    rows by code, in `added_at` order) and `txs` (open serializable transactions).
  * Cache: `saleCount`, `userCount`, `ckCount`, `userCode`, `codeKey`, `checked`, `bloom`
    and `lock`, one variable per Redis key family.
  * Requests: `pc`/`req`, the program counter and locals of each handler.
  * History: `issued`, `owner`, `soldVia`, plus the bounds `nreq` and `faults`.
* **Actions.** There is one action per store call, or per group of calls that no other
  request could tell apart.
  * Checkout: `CkValidate`, `CkCode`, `CkNewCode`, `CkLoad`, `CkWrite`, `CkCount`.
  * Purchase: `PLoad`, `PLock`, `PPre`, `PTx`, `PBloom`, `PMark`, `PIncr`, `PUpdate`, `PSave`,
    `PCommit`, `PCleanup`, `PRelease`.
  * `Fail` is the retry loop's error path. `isBusinessLogicError` compares with `==`
    (`IsBusinessLogicError`), so an error wrapped with `%w` (`Wrap`) is always retried.
  * The HTTP reply: `StartCheckout` and `StartPurchase` are the handlers' entry with the
    query parameters present. An early return of the use case is `Respond(p, e)`; the purchase
    loop reaches the same `"reply"` state through `PRelease`. `Reply` is the handler writing
    the answer: `Status` is `MapDomainError`'s code for the error (`ErrorMappings`, matched
    with `errors.Is`, 500 for anything else), and the 200 body is `PurchaseResponse`, built by
    `CalculatePurchaseResult` from the loaded items and the last attempt's successes.
  * Errors are records `[is, wrapped]` (`ErrVals`): a domain error of `errors.go` (`Err`),
    one wrapped by `fmt.Errorf` (`Wrap`), or another error (`OtherErr`).
  * The environment: `Timeout` (http.TimeoutHandler), `LockExpire` (the lock's TTL), and
    `Finished`, which stutters once every request has returned.
* **Store helpers.** The repository and cache calls the actions make are operators named
  after the methods: `GetPurchaseResult`, `GetSaleByID`, `LogCheckoutAttempt` (one new
  `checkout_attempts` row per item id), `DeleteCheckout` (the rows of a code, with their items by
  cascade), and one operator per `Cache` method.
* **SERIALIZABLE transactions.** Each transaction has a snapshot, taken at its first query in
  `PTx`.
  * `MarkItemAsSold` (`MarkOutcome`) finds no row when the item was sold in the snapshot or by
    this transaction. It waits on an open writer of the row. It fails with a serialization
    error when a transaction that committed after the snapshot sold the item.
  * `UpdateSale` (`UpdateSaleSucceeds`) fails unless the row is unchanged since the snapshot.
  * A failing statement leaves the transaction aborted. The item loop logs the error and goes
    on; the next statement then fails.
  * PostgreSQL's deadlock detector appears as `InDeadlock`: the statement whose wait closes a
    cycle of transactions is aborted.
* **The leaked transaction.** `attemptPurchase`'s deferred rollback tests an `err` that is nil
  after `GetSaleByID`, so a failed attempt does not roll back. The model keeps its transaction
  open until `PRelease`, the point where the handler returns, the request context is cancelled
  and database/sql rolls back. Waits on such a transaction are `ProcWaits`.
* **Faults** (`Faults`, at most `MaxFaults` of them):
  * `counter_write`: IncrementCounters fails, and the error is only logged.
  * `commit`: a serialization failure at COMMIT.
  * `lock_ttl`: the lock expires while its holder still works.
  * `slots_read`: a failed GetAvailableCheckoutSlots read, ignored.
  * `bloom_read`: a failed ItemExistsInBloomFilter read, ignored.

  The bloom filter answers from `BloomPositions`: `ItemExistsInBloomFilter(i)` holds when every
  bit position of i is among those of the items added so far.

  Cache reads fail only where the failure changes the outcome.

`MCFlashSale.tla` instantiates `FlashSale` for TLC:
* **Symmetry.** `MCSymmetry` covers users, items and request handlers. Codes are drawn with
  `CHOOSE` from the unused ones, so the model needs no symmetry over them.
* **Bloom positions.** `MCBloomPositions` takes each item's bit positions from a `BloomFilter`
  instance, with 4-bit hash words, `m = 5` and `k = 3`. They are disjoint for the two items.
  `MCCollidingPositions` uses hashes under which i2's positions lie among i1's.
* **`OppositeOrderInit`.** The state after four checkouts. c1 holds i1 then i2, and c2 holds
  i2 then i1. Two purchases that start from it mark the items in opposite orders.

`AllocationSpec.tla` is the abstract promise of the engine:
* `Issue` hands a code to a user.
* `Purchase` is the one purchase of a code. It atomically sells a set of free items, within
  the user and sale caps, and freezes that set as the code's result.

`FlashSale` refines it through `Alloc == INSTANCE AllocationSpec WITH sold <- soldTo,
result <- results, holder <- owner`. The safety run checks `AllocationRefined == Alloc!Spec`
as a property. Every commit of a purchase is the step that maps to `Purchase`; every other
step of `FlashSale` is a stutter of the abstract spec, or `Issue` at `CkNewCode`.

`BloomFilter.tla` models both filters.
* **`RedisBloomFilter`.** `getHashes` computes `h1 + i*h2` with W-bit wrap-around, and the
  bit is that value mod m. `Add` and `Contains` are pipelines of k commands. Redis executes
  the commands one at a time, interleaved with other clients' commands, and a failed `Exec`
  leaves any prefix of them applied (`AddBit`, `ContainsBit`, `ExecFail`).
* **`pkg/bloom` `BloomFilter`.** It holds a mutex, so `Add`, `Contains` and `Clear` are each
  one step. The seeded FNV hashes are constants.

`MCBloomFilter.tla` picks hash words under which e1's third hash wraps past 2^W and e2
collides with e1.

`SaleLifecycle.tla` models how sales come to exist.
* **Scheduler** (`unnamed/part_001`). `Start` makes the first call, then runs the hourly
  ticker, whose channel buffers one tick (`Tick`, `STick`). `createSaleIfNeeded` is `SGet`,
  `SCreate` and `SItems`: `GetActiveSale`, the `INSERT INTO sales`, and `CreateItems` in its
  own transaction, each with its error path. `serr` is the `err` of `GetActiveSale`: any
  error other than `ErrSaleNotFound` goes on to the insert, as `part_001:69` does.
* **Admin handler.** `HandleCreateSale` is `AStart` (parameter and window validation), `AGet`,
  `ACreate` and `AItems`.
* **Start-up** (`migrations.go`, `main.go:34-60`). `Init` is a process about to run
  `RunMigrations`, on a database that is either empty or was set up by the docker
  entrypoint, which runs the `.up.sql` files without recording them in `migrations`.
  `MList` is everything up to the loop: `CREATE TABLE IF NOT EXISTS migrations`, the
  `SELECT name`, and the sorted `*.up.sql` files (`Files`, named by their prefix) minus the
  recorded ones. `MApply` is one file's transaction: its SQL, the `INSERT INTO migrations` and
  the `COMMIT`. `MCommitFails` is a `COMMIT` that returns an error having committed or not.
  `MFail` is any earlier error, rolled back. After either, `main` exits through `log.Fatal`.
  `MDone` is `RunMigrations` returning nil and `main` starting the scheduler and the server;
  `AStart` needs the server up.
* **Process.** `Restart` crashes, stops or exits the process and runs `main` again; the
  `sales` and `migrations` tables and the schema survive.
* **Clock.** `TimeUp` advances a discrete clock of `Hour` ticks per hour.

`GetActiveSale` is the query `started_at <= now AND ended_at > now`.

## Runs

| Run | Config | Expect | What it shows |
|---|---|---|---|
| safety | `MCFlashSale.cfg` | pass | Setting: 2 users, 2 items, 2 concurrent handlers, 4 requests and one fault of any kind. No item is sold twice. Each code's frozen result is exactly what its commit sold, to that code's user, even when the lock TTL lets two purchases of one code overlap (`ResultsMatchItems`). `sales.items_sold` is exact (`SaleCountMatches`). A purchase answered 200 lists as sold exactly the items of its code's result row, all owned by the code's user, and counts them (`PurchaseReplyTruthful`), across retries, overlapping purchases and failed commits. Every step is one `AllocationSpec` allows (`AllocationRefined`). About 124,000 states, 40 s. |
| tx_liveness | `MCFlashSale_live.cfg` | pass | Setting: `OppositeOrderInit`, so PostgreSQL's deadlock detector aborts one of two purchases. Holds under one fault of any kind and `Fairness`: every transaction is eventually closed, the deadlock victim's and the leaked ones included (`TxsEventuallyClosed`). `sales.items_sold` stays exact on the deadlock path. About 11,700 states, 35 s. |
| sale_lifecycle | `SaleLifecycle.cfg` | pass | Setting: scheduler, one admin request, two migration files, one restart and one failure of `GetActiveSale`, an insert or a migration step. Two sales of the scheduler overlap only when one of them was inserted after a `GetActiveSale` error (`SchedulerSalesDisjoint`): restarts, the ticker's phase and admin sales never cause it. Each row carries a history field `blind`, set when the insert followed such an error; without that exclusion TLC finds the overlap the error produces. No file is recorded twice in `migrations`, which has no UNIQUE constraint, and none is recorded without its tables, even after a `COMMIT` error or an entrypoint-initialised database (`MigrationsRecordedOnce`). Neither the scheduler nor a handler runs before every file is applied and recorded (`MigratedBeforeServing`). About 517,000 states, 10 s. |
| bloom_filter | `MCBloomFilter.cfg` | pass | Holds despite concurrent and partially failed pipelines and hash wrap-around: a `Contains` that begins after an `Add` of the same item returned nil answers true. The in-process filter contains what was added since `Clear` (`NoFalseNegative`). |
| counters_ahead | `MCFlashSale_counters.cfg` | violation | `CountersNotAhead`. With no fault, a purchase whose `UpdateSale` loses to a concurrent commit has already incremented the Redis counters, and nothing undoes that. |
| user_cap | `MCFlashSale_usercap.cfg` | violation | `UserCap`. Two overlapping checkouts by one user get two codes, and two overlapping purchases both pass the advisory count check. |
| hidden_wait | `MCFlashSale_hiddenwait.cfg` | violation | `NoHiddenWait`. A retry blocks on a row lock held by its own leaked transaction, a wait PostgreSQL cannot detect. |
| purchase_reply | `MCFlashSale_reply.cfg` | violation | `PurchaseReplyAsSpecified`, with no fault. A purchase whose items are all taken commits an empty result and returns `ErrAllItemsSold`, which is retried. The retry answers 409 `CheckoutAlreadyProcessed`, where spec example E3 says `AllItemsSold` and E4 reserves `CheckoutAlreadyProcessed` for a second invocation, and skips `cleanupCheckout`, so the user's code stays current. |
| cleanup_race | `MCFlashSale_cleanup.cfg` | violation | `CheckedItemsObtainable`: once no request runs, each item a user checked out is sold, known sold, or in an unprocessed code of the user's that a purchase could still buy. The run's trace: a checkout that adds an item to the code while its purchase runs is deleted by `cleanupCheckout`. The same property, restricted to codes holding one item more than `MaxUserItems` allows, is violated with five requests by two concurrent checkouts of one item by one user, which both insert a row. The purchase of that code then fails with `ErrUserLimitExceeded` every time. |
| false_positive_checkout | `MCFlashSale_falsepos.cfg` | violation | `CheckoutRefusesOnlySold`, with no fault. Checkout refuses an unsold item as `ErrItemAlreadySold` on the filter's answer alone. The shortest trace has a purchase add the item to the filter before its commit. With `MCCollidingPositions`, a collision does the same (checked by restricting the property to items never added). |
| sale_overlap | `SaleLifecycle_overlap.cfg` | violation | `AtMostOneActive`. An admin request and the scheduler both find no active sale and both create one. With no admin request, a `GetActiveSale` error does the same to the scheduler alone. |
| sale_no_items | `SaleLifecycle_noitems.cfg` | violation | `ActiveSaleHasItems`. A restart between `INSERT INTO sales` and `CreateItems` leaves an active sale with no items. |

Each violation run is a finding in `PROJECT.json`. Each property of a passing run has a mutant
there, and TLC finds each of them:

| Property | Mutant |
|---|---|
| `TypeOK` (FlashSale) | The retry loop is off by one. |
| `ResultsMatchItems` | `MarkItemAsSold` is missing `sold = FALSE`. |
| `SaleCountMatches` | `UpdateSale` is a blind write. |
| `PurchaseReplyTruthful` | `total_purchased` counts the attempted items. |
| `AllocationRefined` | The code generator reuses codes. |
| `TxsEventuallyClosed` | `PRelease` does not roll the transaction back. |
| `TypeOK` (SaleLifecycle) | `CreateSale` reads the last row. |
| `SchedulerSalesDisjoint` | `GetActiveSale` uses a strict `started_at < now`. |
| `MigrationsRecordedOnce` | `RunMigrations` ignores `appliedMigrations`. |
| `MigratedBeforeServing` | The migration loop stops one file early. |
| `TypeOK` (BloomFilter) | `Add` skips `% m`. |
| `NoFalseNegative` | `Contains` reads the hashes from 1 to k. |

### Observations not kept as runs

These were found while modelling and are listed as hazards in `PROJECT.json`:
* **Duplicate checkout items.** `LogCheckoutAttempt` writes another `checkout_attempts` row
  with the checkout's code. `GetCheckoutByCode` returns the items of all the rows, so every
  purchase attempt duplicates the checkout's items. Within one purchase the loop skips each
  duplicate: the filter now reports the item, or `MarkItemAsSold` finds no unsold row. But a
  purchase that ends unprocessed leaves the doubled rows, and the next purchase loads more
  items than the user limit allows. `CheckedItemsObtainable` counts such a code as unable to
  deliver its items.
* **Empty sale window.** `HandleCreateSale` accepts `started_at == ended_at`, a sale that
  is never active.
* **Metric over-count.** `MarkItemAsSold` calls `RecordItemSold` inside the purchase
  transaction, so `sale_items_sold_total` also counts items of attempts that roll back.
* **Active at the start instant.** `HandleGetSale` computes `active` with a strict
  `StartedAt.Before(now)`, while `GetActiveSale` uses `started_at <= NOW()`. At the instant
  a sale starts, `/sales/current` returns it and `/sales/{id}` reports it inactive.
* **Ticker phase.** The ticker's phase comes from when `Start` began, not from the clock
  hour. A tick that arrives while the channel is full is dropped. Between the end of one
  hourly sale and the next tick, no sale is active.

### Bounds

* **Requests.** Four is the least that lets two checkouts be followed by two overlapping
  purchases, and every FlashSale violation needs that much. The liveness run starts after
  four checkouts and allows two more requests, which the two purchases use.
* **Codes.** `Codes` has as many elements as there are requests (an ASSUME checks this), so
  the generator never runs out.
* **Users, items and handlers.** Two of each lets items be contested and lets a user hold
  two codes.
* **Caps.** In the safety run, `MaxSaleItems = 3` keeps the sale cap from cutting the retry
  path short. `MaxUserItems = 2` lets one checkout hold both items. With two items the sale cap of 3 is never reached, so the cap conjunct of
  `AllocationRefined` is not exercised; its item, result and owner parts are.
* **Sales.** `Hour = 2` and `MaxTime = 5` span three hours, so the scheduler creates and ends
  sales and a restart lands mid-hour.
* **Migrations.** Two files are enough for a stop between them. A restart after a `COMMIT`
  error, or after a completed run, makes `RunMigrations` run again over a table that has rows.
* **Bloom.** `m = 5`, `k = 3` and `W = 4` keep the wrap of `h1 + i*h2` reachable. Two
  clients with four calls give partial pipelines on both sides of a concurrent call.

### Fairness

`Fairness` is weak fairness on every handler step, on `Timeout` and on `LockExpire`.
* **Handler steps.** A running goroutine keeps making progress, and a store call returns or
  fails.
* **`Timeout`.** `http.TimeoutHandler` cancels a request after 90 s. The model lets it fire
  only for a request that is stuck. A request is stuck when it waits in a cycle PostgreSQL
  cannot see, or on the open transaction of a request that has already returned. A request
  that merely runs slowly is not timed out.
* **`LockExpire`.** The lock has a 3 s TTL, which Redis enforces whatever the clients do.

No fairness is assumed for new requests; `TxsEventuallyClosed` is about the ones that came.

## Not modelled

* The metrics and tracing: they do not affect the flows' state.
* The sale GET handlers (`handlers/sale.go`): they only read. The 400 for a missing query
  parameter and the 405 for a wrong method: they change no state. Error messages and
  JSON layout.
* The Lua limit scripts and `DecrementCounters`: no flow calls them.
* The connection pool.
* A sale ending while a purchase is in flight. `FlashSale` keeps one sale active throughout,
  and `SaleLifecycle` models the sales table without purchases. Composing them would multiply
  two state spaces that each already take most of a run.
* A failed `HasUserCheckedOutItem` read. It is fail-open like the other cache reads, but
  `CkLoad`'s in-memory check catches the same case.
* Process crashes in `FlashSale`. Nothing is persisted outside the two stores, and a crash
  looks like a request that stops between two steps, which the model already allows.
  `SaleLifecycle` does model restarts, because the scheduler's first call and
  `RunMigrations` rerun on each start.
* The SQL of a migration file. It is one idempotent schema: every statement is
  `IF NOT EXISTS`, so `MApply` always succeeds on tables that already exist. A file that
  failed half-way would roll back inside its transaction, which `MFail` covers.
* Configuration loading and the load-test tool: they read the environment or drive the
  service from outside, and have no state of the running system.
