# StoreLink in TLA+

Specifications of StoreLink, a web shop whose orders are delivered by a robot
(`webapp/`), and of the worker that load-tests it (`benchmarker/worker/`).
The modules are read from the Go and JavaScript sources; TLC checks them on
small instances and TLAPS proves the central invariants for every value of the
constants.

    tlc -config MCOrderStore.cfg MCOrderStore      # a run of PROJECT.json
    tlapm OrderStore_proofs.tla                    # the proofs
    tlapm OrderOffer_proofs.tla
    tlapm RobotDelivery_proofs.tla
    tlapm Sessions_proofs.tla
    tlapm LoadTestWorker_proofs.tla
    tlapm PageStable_proofs.tla
    tlapm Listing_proofs.tla
    tlapm PlanSelection_proofs.tla

Paths below are relative to the repository; `internal/` is short for
`webapp/backend/internal/`.

## 1. Inventory

| Part | Code | State | Operations |
|---|---|---|---|
| Order cache | `internal/cache.go` | `ShippingOrderProductId` (offers), `UserOrders` (history per user), `OrderIdUserId` (where an order's slot is), products, password maps, the lock `Order` | `InitCache`, `UpdateOrder` |
| Order repository | `internal/repository/order.go`, `store.go` | table `orders`, its AUTO_INCREMENT, transactions | `CreateMany`, `UpdateStatuses`, `GetShippingOrders`, `CountShippingOrders`, `ListOrders`, `ExecTx` |
| Robot service | `internal/service/robot.go`, `service/utils/timeout.go` | the plan of a call | `GenerateDeliveryPlan`, `selectOrdersForDelivery`, `UpdateOrderStatus`, `HasShippingOrders`, `WithTimeout` |
| Handlers and routes | `internal/handler/`, `internal/server/`, `internal/middleware/` | none of their own | one per route |
| Listing | `repository/order.go`, `repository/product.go` | none (reads) | `ListOrders`, `PageStable`, `ListProducts`, `SearchProducts` |
| Login and sessions | `internal/service/auth.go`, `repository/session.go` | `Cache.IsHashed`, `Cache.Password`, table `user_sessions` | `Login`, `FindUserBySessionID` |
| Start-up | `cmd/main.go`, `internal/db/db.go`, `internal/cache.go` | connection pool, how far `InitCache` is | `InitCache` in a goroutine, the server |
| Scripts | `restore_and_migration.sh`, `webapp/restart_container.sh`, `run.sh`, `webapp/mysql/migration/0_sample.sql` | the next command; the data and the table `cache` | restart, restore, migrate |
| Robot (client) | `benchmarker/worker/scenarios/robot.js` | the orders of its plan | plan, report each, start over |
| Load-test worker | `benchmarker/worker/*.go` | queue messages, table entities, dead letters | `pollQueue`, `processMessage`, `markFailedAndDrop` |
| Score | `benchmarker/worker/score/` | none | `ComputeFinalScoreFromK6` |

The parts meet at four places. The handlers, each in a goroutine of its
own, share the order cache under one lock and the table through a pool of
connections. The robot drives the plan and the status call and gives up on
errors, while the goroutines that serve it go on. Workers share an Azure queue
and table, which fail independently and redeliver. The restore script and
`InitCache` meet in a table called `cache`: the migration creates it when the
data is complete, sleeps and drops it, and `InitCache` polls for it.

What is hard in this code, and what would make it correct:

* **Table and cache are written apart.** A statement, then (later, under the
  lock) the cache. Correct means: the table is first, the gap is one a request
  is working on, and neither a rolled-back transaction nor a lost reply leaves
  a difference nobody knows of.
* **A plan is computed outside the lock.** It must not use an id that the cache
  does not have, since an unknown id ends the process.
* **New orders are cached without their id.** Index and history must stay
  inverse to each other all the same.
* **Calls are given up while they run.** No order may be handed out twice or
  return from "completed".
* **Locks, rows and connections** are held across each other.
* **The hand-over through the table `cache`** is all that tells a server that
  the data is there, and nobody looks at what became of the other side, nor at
  whether the restart replaced the server. A server that is loaded must work on the
  data in the tables, and one that a failed restart has left must not mix.
* **The cache is replaced as a whole**, its mutex included, in a server that
  takes requests already. None may be under way then.
* **Logins write two maps without a lock.** A digest must be that of the password
  in the table before anybody trusts it, and a right password must be accepted.
* **A page of a sorted list** is found by two quickselects without bounds checks;
  a search collects its matches from goroutines through one channel. No match may
  be lost or doubled, and the block must be the one a full sort would give.
* **The knapsack** has two algorithms, a threshold between them and a shortcut, and
  its recursive calls share an array: `append(solution1, solution2...)` writes into it
  when `solution1` is a slice of the orders themselves.
* **Workers** lose calls, crash and receive messages again: a request must not
  be lost, not be shown finished without a score, and not be tested beside
  another one of its team.

`PROJECT.json` lists the components and every hazard with its line.

## 2. Plan

In this order, the most important behaviour first. Done: 1-10; proved are the
safety properties of all modules.

1. `OrderStore`: table, cache and the three kinds of request that write them;
   its invariants proved in `OrderStore_proofs` and `OrderOffer_proofs`.
2. `PlanSelection`: the knapsack against its definition.
3. `RobotDelivery`, composing `OrderStore` with one robot, shown to implement
   the abstract `OrderLifecycle`.
4. `LoadTestWorker`.
5. `PageStable` and, on top of it, `Listing`.
6. `CacheBoot`, the scripts beside `InitCache`, and on top of it `Sessions`, the
   logins and sessions of the clients; proofs in `Sessions_proofs`.
7. `ListOrders` beside the writers of `OrderStore` (`SlotsKeepOrders`), and the
   proofs about `LoadTestWorker` in `LoadTestWorker_proofs`.
8. The proofs about the composition with the robot (`RobotDelivery_proofs`: the
   step simulation behind `KeepsPromise` and what it rests on), about the
   quickselects (`PageStable_proofs`) and the search (`Listing_proofs`).
9. The proofs about the plan selection (`PlanSelection_proofs`).
10. The pool that runs out under the cache lock, and the requests that free it again
   by being given up (`Answered`); restarts that fail and leave the old server.
11. Left: `Score`, the fold of `calcScore.go`; the listing without a search word.

## 3. Modules

### OrderStore

One module for `cache.go`, the writing half of `repository/order.go`, `store.go`
and the callers in `service/`. Each request goroutine `p` has a program counter
`pc[p]`; the steps are the points between which other requests can run:

| Request | Steps (`pc`) | Code |
|---|---|---|
| POST `/product/post` | `CreateBegin` -> `insert` -> `Insert` -> `cache_new` -> `CacheNew`* -> `CreateEnd` | `CreateMany`, all of it under `Cache.Order` |
| GET `/robot/delivery-plan` | `PlanBegin` -> `plan` -> `PlanSelect` -> `tx_update` -> `PlanUpdate` -> `tx_lock` -> `MarkLock` -> `tx_mark` -> `Mark`* -> `MarkEnd` -> `commit` -> `Commit` | `GenerateDeliveryPlan` in `ExecTx` |
| PATCH `/robot/orders/status` | `PatchBegin` -> `update` -> `PatchUpdate` -> `lock` -> `MarkLock` -> `mark` -> `Mark`* / `MarkPanic` -> `MarkEnd` | `UpdateStatuses`, autocommitted |

`LoadOrder` is the last loop of `InitCache`. Error returns are `InsertFail`,
`PlanFail`, `CommitFail`, `PatchFail` (a statement that reports an error may have
been executed) and `TxCancel` (a transaction rolled back because its request was
cancelled, while `UpdateStatuses` goes on to the cache). `MarkPanic` is the index
out of range on an id the cache lacks, which ends the process (`up`).

`orders` is the committed table. A transaction's writes are kept as
`txRows[p]` and reach `orders` at `Commit`; until then those rows are locked
(`RowsFree`). `orderIdUserId` and `userOrders` are the Go map and slices, with
indices from 1, and id 0 is the zero `OrderID` that `CreateMany` leaves in the
orders it caches. `unsure` is a history variable: ids written by a statement or
transaction that reported an error. `PlanSelect` may keep any subset of the
offers; which subset the code keeps is the subject of `PlanSelection`.

`ListOrders` takes the header of a history under `RLock` and reads the slots
later. What it needs of the writers is that no step of theirs takes a slot away or
puts another order there: `SlotsKeepOrders`, a property of every step, so that a
reader of its own is not needed. It holds of orders with a real id, which are those
loaded at the start; the slot of id 0 is taken over by each new order, maybe of
another user (`HistoryIsOwn`, run `history_is_own`).

A transaction keeps a connection of the pool until it ends (`UsesConn`; one whose
client went away, `RolledBack`, has given it back), and `CreateMany` waits for one
under the cache lock. With the pool used up by transactions that wait for that lock
everybody waits for everybody, until the create is given up (`GivenUp`). `LiveSpec` is
`Spec` with the fairness of section 5.

Left out: the returned ids (only the HTTP answer has them), `created_at` and
`arrived_at`, products' names and prices (beyond `ProductID`), HTTP wording.

### PlanSelection

`selectOrdersForDelivery` as operators and recursive functions; a behaviour picks one
input and computes one plan (`SelectOrders`).

| Code | Operator |
|---|---|
| `prunedOrders` | `Fitting`, the orders a robot could carry one at a time |
| `dp` of `solveKnapsackIterative`, and the way back through it | `Rows` (one `Round` per order), `Back` |
| `calculateMaxValues`, the row that is overwritten from the right | `CalculateMaxValues`, the last of `Rows` |
| `wSplit` | `SplitAt`, the first maximum |
| `findBestSetRecursive` | `FindBestSet`, each call a `FindStep` |
| a slice of the shared array, a list of its own, `append` | `Shared`, `Own`, `AppendTo`; `Listed` is what a slice shows |

The calls get the number of orders, the array, where their orders begin and the
capacity, and return the array as they leave it with a slice. Left out are the cells
that `prunedOrders` has behind its last order: no call writes behind its own orders
(`AppendToWithin`). Recursions are functions, not RECURSIVE operators, so that the
prover can reason about them.

### RobotDelivery and OrderLifecycle

`RobotDelivery` extends `OrderStore` with one robot (`robot.js`, run with one
VU): what it is doing (`stage`), which orders it still has to report (`cargo`),
which goroutine serves it (`handler`), which goroutines it has given up
(`cancelled`). Its actions conjoin an action of `OrderStore` with the robot's own
step, so nothing of the backend is modelled twice. `AskTimesOut` is the missing
`return` of `handler/robot.go:57-60`: the robot is refused and the plan is made
all the same, of what is on offer by then; the poll also fails with orders on offer,
when `CreateMany` keeps the lock it counts under. Such a plan's orders are in
"delivering" and on nobody's list (`dropped`). `Work` is what goroutines do on their own, cancelled or not.

`OrderLifecycle` is what a customer and the robot's operator are promised, with
two variables and no cache. `KeepsPromise` says that every step of `RobotDelivery`
is a step of it or leaves it alone, under
`status <- shipped_status of the table`, `aboard <- cargo`.

### CacheBoot and Sessions

`CacheBoot` is the script, the server process and the table `cache` between
them. `script` is the next command of `restore_and_migration.sh`: `Start` is its
restart of the containers, `Recreate` and `CreateTables` are `init.sql`, `Restore`
the three data files, `CreateMarker`, `EndSleep` and `DropMarker` the migration.
`ScriptFails` and `RestoreSkipped` are commands that fail, with and without an
exit of the script; `Restart` is `restart_container.sh` alone. Nobody looks at the
status of `docker compose down`, nor the script at that of the restart: `StartKept`
and `RestartFails` leave the old server and its cache as they are (`NotReplaced`), and
with `StartKept` the script goes on to replace the data. `kept` is a history variable:
the process was there before the last restart that failed. `initPc` is where
`InitCache` stands: `Poll`, `TakeMarker` (`DROP TABLE`), two `Select`s, `Replace`
(`Cache = cache{...}`) and `LoadOrders`; an error of a statement ends the process
(`log.Fatal`). What a table or the cache holds is the number of the script run
that wrote it, so that "the right data" is `cached = tables`.

`Sessions` extends it with the clients. `call[c]` is what client `c` is doing:
`Login`, `Find`, `Check` (`IsHashed`), `Digest` or `Compare` (bcrypt),
`WritePassword`, `WriteIsHashed` and `Create` are the statements of
`AuthService.Login` between which other calls can run; `Request`, `FindUser` and
`Serve` are `UserAuthMiddleware` and the handler behind it; `Expire` is the 24
hours. A write of a map is under way while its step has yet to be taken, and Go's
runtime may end the process when it meets another access (`LoginsCollide`), or
not notice and let the reader miss the entry. `Collide` is the same for a handler
and `InitCache`. `Operate`, `RunScript` and `Load` are the steps of `CacheBoot`
with what they do to calls, maps and `user_sessions`; `OperateFails` is a restart that
leaves calls and sessions alone. `entitled` is a history
variable: the user a client has proved to be, until the session expires or the
data goes.

Left out: what a session id or a cookie looks like, the other columns of `users`,
and the robot's API key (a comparison).

### PageStable and Listing

`PageStable` is the function of that name, its locals as variables: the slice is
a function on 0..n-1, an element is what it holds and its place in the input.
`While`, `ScanUp`, `ScanDown`, `Swap` and `Narrow` are the loops of `nthSelect`,
run twice (`second`); `Cut` widens the block, sorts it and cuts the result. What
Go's `sort.Slice` does is stated as what it may leave (`Sortings`): any order in
which no element comes after one it precedes. `PagedIsStable` compares that with a definition of the stable sort.

`Listing` extends it with its two callers. `SearchBegin`, `Look`, `Close` and
`Receive` are `SearchProducts`: a goroutine per chunk, the one that waits and closes
the channel, and the range over it. `PageProducts` and `ListOrders` call
`PageStable` with the arguments the code gives it (page size as page, offset as
length), and `Answer` cuts what is sent from the unsorted matches. What products
and orders are sorted by is a rank (`key`). Left out: the listing without a
search word (one SQL query, and `ProductsCnt`), and writes to the history while it
is read.

### LoadTestWorker

`processMessage` and `pollQueue` of each worker, one action per call to Azure,
k6 or the score server, each with its failure. `message`, `receipt` and `row` are
the storage queue and table; `recent` says whose entity was updated within the
hour the duplicate check looks at; `malformed` are messages that do not parse and
are deleted on receipt. `Overrun` says whether a test may outlast the visibility
timeout, in which case its message goes to another worker as well. `unmarked`,
`redelivered` and `again` are history variables: requests that could not be
entered in the table, those that were given out twice, those whose score was sent
twice. The query of `isDuplicateOrSkip` is one step.

### MC modules

`MCOrderStore`, `MCRobotDelivery`, `MCSessions`, `MCLoadTestWorker` and `MCListing`
extend a module with the values of the configurations; `PlanSelection` is run directly.
Operators marked "Mutant" change one definition the way a slip in the code would; each
property is violated under one of them.

## 4. Runs

| Run | Shows | Bounds |
|---|---|---|
| `store` | `SlotsIndexed`, `ShippingCached`, `CachedRows`, `OfferedIsShipping`, `PlansIndexed`, `LoadedNeverPanics`, `RetiredAfterWrite`, `SlotsKeepOrders` | 3 requests on 2 connections, 2 users, 1 loaded order of two statuses, 3 ids, batches of 2, PATCHes of a loaded and of the zero id (700,000 states up to symmetry) |
| `requests_answered` | `Answered` | 3 requests on 2 connections, 1 user, 1 loaded order, 3 ids (87,000 states) |
| `plan` | `PlanIsOptimal`, `TotalsAreOfListed`, `OverloadsAreUnpruned` | up to 4 orders, weights {1,2,3,6}, values 1..3, capacity 0..5, threshold 5 |
| `robot` | `KeepsPromise`, `CacheFollowsTable`, `DeliveringIsCarried`, `RobotNeverPanics`, `OfferedIsDelivered` | 3 goroutines on 2 connections, 2 loaded orders and 1 new, 1 fault (49,000 states) |
| `boot` | `LoadedIsRestored`, `DigestIsCurrent`, `RestoredIsLoaded`, `RefusedIsWrong`, `ServedIsEntitled`, `EndedByLogins` | 2 script runs or restarts, 1 fault, 2 users whose passwords the second run exchanges and a name of nobody, 2 clients, 2 sessions (1.8 million states) |
| `worker` | `FinishedIsScored`, `DeletedIsRecorded`, `Settled` | 2 workers, 2 requests of one team, 3 faults |
| `worker_overrun` | `MarkedTestsExclude`, `ScoredOnce` | the same, but a test may outlast the timeout, and 2 faults (1.1 million states) |
| `listing` | `SearchComplete`, `PagedIsStable`, `ScansInBounds`, `Listed` | 5 products of 2 ranks or no match, 2 goroutines, pages 1..3 of up to 2, histories of up to 2 orders |

Why these bounds are enough to be interesting: batches of two make the second order meet
the slot of the first; two users make that slot somebody else's. Three requests at once
are any three of plans, status writes and creates, and two connections are what two
transactions use up while the third request creates: the circle of `Answered` (with a
create that cannot be given up the run finds it). `store` looks at states up to a
permutation of the requests, which all run the same code. `robot` has three goroutines,
for a given-up call, its successor and a customer. The threshold of `plan` puts inputs on
both sides of it with two to four orders, so halves of one and two orders occur, and
weight 6 never fits. Three faults are what it takes to lose a request
(`DeletedIsRecorded` is stated up to two, and the third shows that the statement needs
its condition). Two script runs leave the second one a server, digests and sessions of
the first, and its data has other passwords for the same users. One fault is what
`LoadedIsRestored` is stated for. Two clients are two logins of one user or of two, or a
login beside a session. Five products and two ranks give ties on either side of a block
that begins and ends inside the slice. One fault of the robot's calls covers each error
path and each given-up call beside its successor and a customer; with `MaxFaults = 2`
the robot's safety properties hold as well (465,000 states), but the liveness check
takes too long to be a run. Every bound is a constant named in its module.

`PatchStatuses` is {"completed"}, the only status the robot sends. Deadlock is
checked except where the system really stops: a plan that has been computed, a
robot with a full table and no faults left, workers whose requests are done, a
server that has died when the last script run is over.

Four runs expect a violation; each is a place where the program does not do what
its documentation, comments or tests say (`findings` in `PROJECT.json`):

* `new_orders_offered`: an order placed while the server runs is never offered
  to the robot (`repository/order.go:59`).
* `history_is_own`: the second such order overwrites the first one, maybe in
  another user's history.
* `one_request_per_team`: a failed entity update, which is only logged, lets two
  requests of a team be tested at once (`worker/queue.go:71`).
* `answer_is_the_page`: what `PageStable` returns is dropped, answers are not
  sorted, and every page of a history is its first (`repository/order.go:337`,
  `repository/product.go:119`).

## 5. Fairness

`OrderStore` (`LiveSpec`): strong fairness of each request's own steps. `sync.RWMutex` hands
the lock on in turn, InnoDB queues lock requests and `database/sql` queues
requests for a connection, so a request that can go on again and again does.
Clients need not send anything and no statement has to fail, but for one thing: a
create that finds no connection free is given up if nothing else happens (`GivenUp`,
weakly fair). Its statements use the request's context, which ends when the client or
nginx closes the connection; both have a timeout (k6 and nginx wait 60 s by default).

`RobotDelivery`: strong fairness of each goroutine's steps, of which any will do, and
the robot always makes its next call (a loop in k6). The robot's faults, customers and
give-ups are not fair.

`Sessions`: weak fairness of the script (the shell runs the next command when one
has ended) and of `InitCache`, a goroutine whose statements the database answers.
Neither clients nor operators need to act, and nothing has to fail. Two facts of
timing are guards: `PollDue`, that `InitCache`, which polls every 100 ms, finds the
table before somebody types the next command, and `EndSleep`, that the 30 s of the
migration's `SLEEP` outlast a poll and the load. Clients use the server between
script runs only, as `run.sh` does.

`LoadTestWorker`: weak fairness of each worker, of the visibility timeout, and
strong fairness of receiving each message: the storage queue hands out
roughly the oldest first. Crashes and failures are not fair.

`Listing`: weak fairness of every goroutine of a request that has arrived.

## 6. Proofs

`OrderStore_proofs` proves, for any number of users, products, requests, orders
and connections (`ParamAssumption`):

* `Invariance`: `Spec => []IInv`,
* `TypeCorrect`, `IndexCorrect`, `OfferCorrect`, `HistoryCorrect`, `PlansNeverPanic`:
  the invariants `TypeOK`, `SlotsIndexed`, `ShippingCached`, `CachedRows` and
  `PlansIndexed` of the runs.

None of these is inductive alone. `IInv` adds what the code relies on without
saying so:

* `LockInv`: `Cache.Order` is held by `p` exactly while `pc[p]` is between its Lock
  and Unlock. So nobody else is at a step that writes the cache, nor about to
  insert, when AUTO_INCREMENT moves.
* `NewInv`: a request that creates orders has a real customer, and its batch fits
  the ids that are left until it is inserted.
* `LoadInv`: rows still to load are rows of the table.

`CachedRows` then survives because every step keeps the customer and the product
of each row (`RowsKept`), and a plan's ids stay known because the index only
grows. The proof has a lemma for `UpdateOrder` and one for `SetStatus` (what each
does to the slots), then a lemma per action, and under it a step per part the
action can disturb.

`OrderOffer_proofs` builds on `IInv` for what relates offers and table:

* `OfferInvariance` and `OffersFollowTable`: `SInv`, and so `OfferedIsShipping`. An open
  transaction's rows must be off offer or still on its list to mark (`TxInv`);
  requests are only taken when everything is loaded (`LoadFirst`); id 0 is never
  on offer (`ZeroNotOffered`).
* `OffersRetiredLate`: `RetiredAfterWrite`, under the hypothesis `NoReopening` that no
  PATCH sets "shipping". Without it a PATCH back to "shipping" could overtake
  another one that has written its row and has yet to mark it. `PatchInv` says
  that a PATCH past its statement has taken its rows out of "shipping".
* `LoadedOrdersNeverPanic`: `LoadedNeverPanics`, with `InitialIndexed`: a row of the
  initial table is in the index or still to be loaded into it.
* `HistoriesReadable` (in `OrderStore_proofs`): `SlotsKeepOrders`. The index only gains
  entries (`NextEntriesKept`) and agrees with the histories, so a slot keeps its id; the
  slot of a real id shows its row's customer and product, which no step changes
  (`NextRowsKept`).

`Sessions_proofs` is about any number of users, clients, sessions, script runs and
faults (`BootAssumption`, `SessionAssumption`). Its invariant has four parts:

* `BootInv`: with at most one fault, the table `cache` is only there while the
  script sleeps, or is what that one fault has left to a script that ends or to a
  server that still polls (`NoLeftover`); so `InitCache` is not at work while data
  is written (`QuietWriting`), and what it has read is what is there
  (`ReadIsCurrent`). Without faults it works during the sleep only
  (`LoadWhileAsleep`).
* `CallInv`: what a login has found out about its user is still so, as no call
  runs into a script; it writes the maps of a cache that is not replaced any more.
* `MapInv`: digests that are marked are right, and gone while a script runs; those of a
  server that a failed restart has kept are of passwords that were in the table.
* `SessionInv`: a live session is one its client is entitled to.

A server that a failed restart has kept (`kept`) is outside of most of this. What is
claimed of it is that the tables in its cache are those of one script run, and that its
digests are of passwords that were in the table.

`ServerHasTheData`, `DigestsCurrent`, `RefusalsAreRight`, `OnlyEntitledServed` and
`OnlyLoginsEnd` are the properties of the run `boot` but its liveness.

`LoadTestWorker_proofs` is about any number of workers, requests, teams and faults
(`WorkerAssumption`), with and without `Overrun`:

* `WorkerOK`: a worker holds its message and the valid receipt, unless the message
  came back; past its mark, its request is shown as busy; each step of
  `markFailedAndDrop` that leaves nothing behind is one fault more.
* `RequestOK`: a finished request is scored, a score taken without a fault is on
  its way to the deletion of its message, and a deleted message has its record.
* `PairOK`: of two workers of one team past the check, one has a request that
  could not be entered or was given out twice.

A step of a worker only concerns its own request (`Frame`), so that `FrameKept`
leaves one worker, one request and one pair to look at for each action. From this
come `TestsExclude`, `ScoresOnce`, `FinishedScored` and `DeletedRecorded`.

`RobotDelivery_proofs` is about one robot and any number of goroutines, orders,
customers and faults. `RobotStepIsBackend` shows every step of it to be a step of
`OrderStore` or to leave the backend alone, so that `IInv`, `SInv` and the rest hold
with the robot at work. On them three layers are built:

* `BaseInv` (`RobotBase`): the goroutine that serves the robot is where its call
  says, every other one with a plan or a status write was given up, and a plan
  holds real ids.
* `CarryInv` (`CarryInvariance`): a row on offer or in an open transaction waits in
  the table, no row is in two transactions, a transaction of an abandoned call
  can only come to its commit, and what the robot carries has left "shipping"
  (`RowsInv`). An order in "delivering" is carried, or was on a trip that failed. From
  it `NothingLostOnTheWay`, and `RobotKeepsServerUp`, as a report is about an order
  the index has (`KnownInv`).
* `ShownInv` follows an order between its statement and the cache: the slot shows
  the row's status, or a request that has written the row still has it on its list,
  or its statement reported an error; what a transaction has marked stays marked
  (`MarkedInv`). From it `HistoryFollowsTable`.

`RobotKeepsPromise` is the refinement: the initial states map to initial states of
`OrderLifecycle`, and a lemma for each kind of step shows it to be `Place`, `Assign`,
`Deliver`, `Report`, `Abandon` or a stutter. The steps where that is not plain are the
commit of an abandoned call (an `Assign` onto nobody's list, and of waiting orders only
because no one else can have taken them) and the status write whose answer is lost (a
`Deliver` that empties the list, or an `Abandon`).

`PageStable_proofs` is about any slice, page and length. `stableLess` is a strict
total order of the elements (`OrderIsStrict`, `OrderIsTotal`, `OrderIsTransitive`).
Nothing in `nthSelect` checks a bound, and the invariant `PageInv` says why it needs
none: `Split(m)`, what stands before place `m` precedes all the others, holds at
`lo` and after `hi`; between them the elements passed by a scan do not lie beyond
the pivot, and a scan always has one ahead of it that stops it, the pivot or an
element that was swapped (`RoundInv`). When a selection ends its place is `Filled`:
split on both sides. A second selection does not disturb the first one's place
(`SwapStep`), and so the block `Cut` sorts lies between two filled places. Counting
shows that its elements from before `s` come first and those from `e` on come last
(`BlockAfterStart`, `BlockBeforeEnd`). An element with all smaller ones on its left
and all greater ones on its right is where the stable sort, defined by ranks, puts
it (`RankOfPlace`). So what is returned is the page (`CutStep`).

`Listing_proofs` shows what the callers add, for any number of products, goroutines
and histories (`ListingAssumption`): chunks of `ChunkSize` slots are disjoint and
cover all slots (`ChunksApart`, `ChunksCover`), each slot is with one goroutine or its
match has been sent, and what was sent is what was received followed by what the
channel holds (`SearchInv`). From `ListingInvariance` come `PageTypeCorrect`,
`ScansStayInBounds`, `PageIsOfStableSort` and `SearchFindsAll`.

`PlanSelection_proofs` is about any products of weight 1 or more, any number of orders,
capacity and threshold (`SelectionAssumption`). What `SelectOrders` makes of the offers
is a `GoodPlan` (`SelectOrdersGood`), from which `PlansAreOptimal`, `TotalsAreTrue` and
`OnlyShortcutOverloads` follow. The
algorithm is recursion over sequences, and so is the argument:

* *Induction* is stated over sets instead of predicates: a set that has 0 and is closed
  under +1 has all of Nat (`Induct`, from Nat being well founded), and a set that has the
  empty sequence and is closed under `Append` has all sequences (`SeqInduct`). That a
  recursive function equals its definition is proved for each (`Recursion`,
  `FindBestSetEquation`: solutions for up to n orders exist and agree).
* *The reference* is `Best(os, c, v)`: v is the most that a set of places within c is
  worth. One `Round` of the table keeps a row best for one order more (`BestStep`), so
  the table holds the best values (`CalculateMaxValuesBest`), and the way back makes a
  selection that has the value of its row (`BackCarries`), hence
  `SolveKnapsackIterativeBest`. Weights of at least 1 are needed for capacity 0.
* *The split*: a best set of the whole divides its weight between the halves, and no
  division is worth more than that at `wSplit` (`SplitBest`).
* *The shared array*: a call writes only to the places of its own orders
  (`Untouched`), because its selection is no longer than they are many and, where it is
  a slice of the array, begins where they do (`Within`, `AppendToWithin`). So the
  second half is as it was when its turn comes, and what the first call returned is not
  written to by the second (`PartUntouched`, `ListedUntouched`, `FoundJoin`).
  `FindBestSetBest` is the induction over the number of orders.
* *Pruning* loses nothing (`FittingBest`), and where all that fits alone also fits
  together, the sum of it is best (`AllFitBest`).

Only model-checked: liveness (`Answered`, `OfferedIsDelivered`, `RestoredIsLoaded`,
`Settled`, `Listed`), which is out of the prover's reach. Of the other properties the
runs with `expect: pass` check, each is stated by a theorem.

## 7. Assumptions

* The server notices that a client has closed its connection before that
  client's next request arrives.
* There is one robot, as the load test has. With two, an order can be assigned
  twice: `GenerateDeliveryPlan` neither locks nor re-reads the rows it picked.
* The catalogue has no product of weight 0. (A half that is left no capacity
  yields nothing in `solveKnapsackIterative`.)
* A request that waits for a connection in vain is given up, see section 5. Without
  that, `CreateMany` and the transactions that use up the pool wait for each other for
  ever. (Only plan calls keep a connection while they wait for the lock, and the pool
  has 100.)
* A restart of the containers replaces the server (`NewBackend`), leaves it as it is
  (`NotReplaced`), or leaves none that runs, which is a new one that dies at once.
* Go's maps: an access that overlaps a write ends the process, or is not noticed;
  then a reader may miss the entry, and nothing else happens.
* Two faults can leave the table `cache` to the next script run (a sleep cut short
  and a `DROP TABLE` of `InitCache` that fails), whose server then loads what that run
  is about to replace. A restart that fails while a server runs leaves it over the new
data until the next one succeeds: the script reports success. A server restarted without the script never loads: the table
  is not there to be found. All three are in the model, and outside of what
  `LoadedIsRestored` and `RestoredIsLoaded` say.
* Orders are placed, planned and reported after `InitCache` is done: `OrderStore` takes
  no request before. `EndedByLogins` shows that the scripts see to it when nothing
  fails.
* Statements on `orders` are atomic; transactions write only rows they list.

## 8. Not modelled

* The listing of products without a search word (one SQL query and `ProductsCnt`).
* The score (`benchmarker/worker/score/`): arithmetic over k6's output.
* `enqueueToDLQ` and the helpers beside it, `OrderRepository.Create`, and the LRU and
  Redis wrappers: nothing calls them.
* The frontend, the user scenarios of the load test (clients of calls that are
  modelled), telemetry and password hashing keep no state that the properties
  concern. The end-to-end tests are read as statements of intent.
