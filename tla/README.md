# comproj: models, checks and proofs

comproj is a Java system of Spring Boot applications that talk through Dubbo and
share a relational database, Redis and MongoDB; its web pages are served with
jQuery, Bootstrap and layui. This directory holds TLA+
modules of its core logic, the TLC configurations that check them on small
instances, and proofs that TLAPS checks.

To repeat them: `tlc -config OrderRC.cfg MCOrderService.tla` for a run, and
`tlapm OrderServiceProofs.tla` for the proofs of a module; the others are
`OrderLocksProofs`, `OptimisticProofs`, `OrderCodesProofs`, `DynamicDataSourceProofs`,
`FileStoreProofs`, `ServiceEngineProofs` and `WebPageProofs`.
`PROJECT.json` lists the runs, the lines each definition stands for, the
hazards and the theorems.

## 1. Inventory

`S` is `mis-service/src/main/java/com/berritus/mis/service`.

| Part | State | Operations | Talks to | What is hard | What makes it correct |
|---|---|---|---|---|---|
| Order service (`S/impl/OrderServiceImpl.java`) | `mis_prod_def`, `mis_order`, Redis lock keys, a counter and a date format per JVM | `insertMisOrder`, `insertMisOrder2`, `updateMisProdDef`, `insertMisProdDef`, `genOrderCode` | database, Redis | many calls for one product, isolation, retries, locks that lapse, lost acknowledgements | no unit sold twice or lost, truthful answers, justified refusals, every call ends |
| Files (`mis-pcweb` `FileController`, `S/impl/SysServiceImpl.java`, `mis-query` `QrySysServiceImpl`) | GridFS, `sys_files`, Redis | upload, download, delete, cached query | MongoDB, Dubbo, Redis | three stores without a transaction, resent calls, a cache nobody invalidates, a monitor | rows lead to blobs, acknowledged uploads stay, nothing is served after its delete, every request ends |
| Service engine (`S/base/BaseServiceEngine.java`, `MsgSendBaseService`) | `sys_service_config`, Redis | look up a component, dispatch to it | Redis, database, the message services | double-checked fill, several JVMs, edits of the table | bounded staleness, one fill per entry, every call ends |
| Message services (`S/impl/*MsgSend*`, `*Flow*`) | `tb_student` | `sendSms`, `sendEmail` | database | rollback after the division by zero | nothing is left of a failed message |
| Dynamic data source (`S/aop/DynamicDataSourceAop.java`) | a thread's current data source, data source information in Redis | switch, restore | the demo services | must run before the transaction interceptor; failing calls | a thread is back on its source after every path |
| Message and demo services (`S/impl/MessageServiceImpl`, `DemoServiceImpl`) | several databases | two local transactions in one method | data sources | failure between the two | what is and is not atomic |
| Distributed transaction demo (`mis-dubbo`) | two services' databases | a global transaction | an outside coordinator | failure of one branch | all or nothing |
| Chat (`mis-junit/.../chat`) | selector, channels | accept, read, broadcast | clients | clients that close or vanish | every live client gets every message, dead ones are dropped |
| Security (`mis-security`, `SecurityServiceImpl`) | users, roles, resources | load authorities, decide access | remote query service | two sources of roles | access only with a granted role |
| Tasks (`mis-task`) | files, processes | scheduled runs | the host | overlapping runs | nothing deleted twice or too early |
| Table splitting, stored procedures, dispatch counter, asynchronous service | a table map, a counter, futures | single calls | database | an unsynchronised counter | each call counted |
| Concurrency demos (`mis-junit`: fork/join, singletons, observers) | small | | | races | the sum, one instance, every observer told |
| Web page widgets (`mis-pcweb/.../static/bootstrap/js/bootstrap.js`) | classes, `data` objects, timers and one-shot handlers of elements | modal show, hide; carousel next, to, pause, cycle; collapse toggle; tooltip enter, leave, destroy; tab show; alert close | the browser's events and timers, the visitor, page scripts | calls that come while a transition is under way, several handlers on one end, delays that race with events, objects dropped while they work | when the last transition has ended, what the parts of a widget show agrees with what was last asked |
| SQL interceptor, RabbitMQ configuration | none: not registered, or commented out | | | | |
| Beans, generated DAO statements, generators, controllers without state, design-pattern demos, css, vendored minified js | none of their own | | | | not modelled |

## 2. What is modelled

### Orders: `OrderTables`, `RedisLock`, `OrderService`, `AtomicSale`

`OrderTables` has the statements of `MisProdDefMapper.xml` and
`MisOrderMapper.xml` over the two tables, with one transaction per call:
`prodDef` and `misOrder` are committed, `written` and `inserted` belong to the
call's open transaction, `rowLock` is the exclusive lock of an `UPDATE`, `seen`
is the last row a `SELECT` returned. The `WHERE` clause and the
`version = version + 1` are there only when the bean has a version, as in the
mapper's `<if>`s. `Isolation` chooses what a repeated `SELECT` returns and
whether an `UPDATE` that matched nothing keeps its lock: `"RC"` for the Dameng
database of the active profile (`gzh-devdm`), `"RR"` for the MySQL of the others
(`application-prod.properties:15`); none of them sets a level of its own.

`RedisLock` is external: `IRedisLock` lives in a library outside the repository.
The model takes from its use that `lock` answers at once, that the value is the
wall-clock time at which the lock lapses, and that `unlock` removes only the
value it names.

`OrderService` composes the two. `pc` is the statement a call is at.

| Code (`OrderServiceImpl.java`) | Actions |
|---|---|
| `insertMisOrder` 60-86 | `Select`, `Decrement` (1 row), `Miss` (0 rows: `continue`, or `return 0` after the last turn), `InsertOrder` |
| `insertMisOrder2` 103-145 | `Stamp`, `Lock`, `Select2` (early returns keep the lock), `InsertOrder2`, `Decrement2`, `Unlock` |
| `@Transactional` | `Commit` (its acknowledgement may be lost), `Fault` then `Rollback` |
| `insertMisProdDef` | `InsertMisProdDef` |
| `System.currentTimeMillis` | `Clock` |

`Fault` may strike between any two statements: an exception, the end of a wait for a
row lock, the death of the host. A dead host's transaction is rolled back by
the database and its Redis lock stays until it lapses, as the model has it.

`total`, the stock a product was created with, is what `Conservation` is
measured against; the code stores whatever the two columns are given at
creation and never changes `total`, and the model creates products with
`total = in_stock`.

`AtomicSale` is the promise to callers: one step takes a unit, records the order
and answers. `SaleSpec` maps `shelf` to the committed stock, `sold` to the
committed orders and `answer` to the results.

### Order codes: `OrderCodes`

Extends `OrderService` with `genOrderCode` as a step between the update of the
stock and the insert of the order, a counter per JVM, and `Restart`, which ends
the calls of a JVM and sets its counter back to 100. The time stamp in a code is
left out: its `SimpleDateFormat` is shared by all threads, so two calls may get
the same text, and the counter has to do. Every step of `OrderService` is a step
here; an insert needs its code.

### Data sources: `DynamicDataSource`

Threads of a pool serve requests; `MessageServiceImpl.dynamicTest` is a request
with two calls, `DemoServiceImpl.addStudent` one with a call that names no
database, and others are not intercepted.

| Code | Actions |
|---|---|
| `doBefore` 85-88, 109, 110-112 | `Lookup`, `Switch`, `Fill` (only if the lookup missed) |
| `@Transactional` around `DemoServiceImpl.dynamicTest`, `addStudent` | `Begin`, `Insert`, `Commit` (its acknowledgement may be lost) |
| `doAfter` | `After`: restores, and goes on to the next call or ends the request |
| an exception of any of them | `Fault`: to `After`, with the transaction rolled back |

`changeDataSource` and `restoreDataSource` are a library's and are taken to set
and clear the data source of the calling thread. In Spring 5.1, which Spring Boot
2.1.1 of `misparent/pom.xml` brings, an aspect's `@After` encloses its `@Before`,
so `doAfter` runs also when `doBefore` throws. A later Spring (5.2.7 on) nests them
the other way round; then a failed `set` in Redis would leave the thread switched.
`addStudent` writes two rows in one transaction, which the model has as one.

### Web page widgets: `Transitions`, `Modal`, `Carousel`, `Collapse`, `Tooltip`, `Tab`, `Alert`, `WebPage`

`Transitions` is `emulateTransitionEnd` and jQuery's one-shot handlers. `waiting`
holds, for each element that is in a transition, the sequence of handlers that wait for
its end, each with the time its
timer has left; `Ends` is an end, from the browser (only for an element that is
rendered) or from a due timer, and moves all handlers of that element to
`running`, in order; `Runs` takes the next of them. A page has one thread: nothing
else happens while `running` is not empty (`Free`). Time passes in `Tick`s, never
past a due timer. The code waits 150 ms (tooltip, tab, alert, the modal's
backdrop), 300 ms (modal), 350 ms (collapse) and 600 ms (carousel); only the
modal has two of them at once, so its are 1 and 2 units and the others 1.

| Module | `bootstrap.js` | State | Actions |
|---|---|---|---|
| `Modal` | 932-1253 | `isShown`, the classes, the backdrops in the document and the one the dialog knows, the body's class and padding, handlers | `ModalShow`, `ModalHide`, then `Display`, `Shown`, `HideModal`, `RemoveBackdrop`, `Reset` as ends come |
| `Carousel` | 315-534 | active items, indicator, `sliding`, `paused`, the interval, the jumps that wait for a slide | `Click` (`keydown`, `Step`, `To`), `Clocks` (`pause`, `cycle`, mouse), `IntervalFires`, `SlideEnd`, `Slid`, `JumpNow` |
| `Collapse` | 554-747 | the look of each panel, its object, and whether that object knows of no accordion (`lone`) | `Toggle` (`ShowPanel`, `NotShown`, `HidePanel`), `Complete` |
| `Tooltip` | 1273-1760 | triggers that are on, `hoverState`, the delay timer, the tip | `EnterEvent`, `LeaveEvent`, `ClickEvent`, `HideCall`, `ToggleEnabled`, `Destroy`, `Timeout`, `ShownDone`, `HiddenDone`, `DestroyDone` |
| `Tab` | 2075-2212 | the active tab and panes | `TabShow`, `NextPane` |
| `Alert` | 94-170 | whether it is in the document, the page's handler | `Close`, `RemoveElement` |

`WebPage` puts them on a page. They share the event loop and nothing else, so a
behaviour exercises one of them (`page`), and one run checks them all. The pages
that load `bootstrap.js` (`templates/index.html`, `study/jsFunction.html`,
`study/bootstrap/form.html`) have no script that cancels a widget's events, so no
event is cancelled. Browsers without CSS transitions and elements without `fade`
take the branches in which nothing is waited for; they are left out.

A panel that the markup opened gets its object from `Plugin.call(actives, 'hide')`
(`bootstrap.js:599`, `:711-714`) when another panel opens. That object has no `parent` option
(`:561`): when it is asked to show its panel later, it sees no other panels, and neither waits for them
nor hides them. `Siblings` has this.

`Tab` has one end for the fade of all active panes. The code waits on each of them, but one
statement takes `in` from all, so that their equal fades end in one frame, before which no
click comes between; the callback run once more for another pane changes nothing.

### Files: `FileStore`

One request per element of `Uploads`, `Gets`, `Deletes`. `FileController`'s
handlers are split at every remote step: `Store`, `Send`, `Insert` (upload);
`FindToServe`, `Open`, `Copy` (download); `FindToDelete`, `Drop`, `Unrow`
(delete). Downloads and deletes first run `qrySysFiles`: `Get`, `Enter` (the
monitor), `Recheck`, `Read`, `Fill`. An `insertSysFiles` that times out is sent
again, and the attempt that was given up may still insert its row (`TimeOut`,
`LateInsert`, `Lost`); the same goes for the delete (`UnrowFails`,
`LateUnrow`). `ReaderFails` and `DropFails` are the exceptions, which leave the
monitor. A resend of the query is not modelled: it runs the same steps as another
reader. The rejection of a file name without an extension changes nothing and is
left out.

### Service engine: `ServiceEngine`

`getServiceComponent` as `sendSms` calls it: `Get`, `Enter`, `Recheck`, `Read`,
`Fill`, `Send`; `CallFails` for the swallowed exception that ends in a null
component; `Edit` for a change of the table, `Tick` for the clock. A blank
name in a row is cached like any other and then read as a miss. The clock waits for no call:
any time may pass between the read of the table (`BaseServiceEngine.java:91`) and the fill
(`:102`), as nothing in the code bounds it. The entry in the model remembers that time
(`delay`), so that `StaleForLifeAndDelay` can say how old a name may be.

### Conventions

A definition marked `Variant` is the definition below it with a plausible
mistake (a forgotten check, a lock not given back, the wrong order). No
specification uses it; checking a property with the variant put in place shows
that the property notices. The `MC...` modules only name the values of the
configurations.

## 3. Runs

| Run | Instance | What it shows |
|---|---|---|
| `OrderRC` | 4 calls of `insertMisOrder`, 2 turns, stock 0, 2 or 3, RC; calls are symmetric; 9 700 states | conservation, versions, answers, justified refusals, `SaleSpec` |
| `OrderRR` | 3 calls, 2 products, 3 turns, RR; 7 900 states | conservation, refusals, and every call ends although a miss keeps its row lock |
| `OrderTries` | 3 calls on 2 JVMs that may each restart once, 3 turns, RC, `OrderCodes`; 56 000 states | no refusal while there is stock; the codes of a JVM's orders count up in commit order |
| `OrderRetry` | 2 calls, 5 turns, RR | **violated**: a refusal with stock left |
| `OrderMixed` | 1 call of `insertMisOrder`, 2 of `insertMisOrder2`, locks that lapse, RC; 70 000 states | nothing undersold, version bookkeeping, exclusion while a lock is fresh, every call ends |
| `OrderLock` | 2 calls of `insertMisOrder2`, clock at rest | **violated**: a unit sold twice |
| `FileOps` | 1 upload with a resend, a download, 2 deletes, 2 providers; 19 000 states | rows have blobs, no serving after a delete, one fill per provider, every request ends |
| `FileTwo` | 2 uploads that may each be sent again, a download and a delete of the first file; 99 000 states | acknowledged uploads stay |
| `FileDelete` | 1 upload, 1 delete | **violated**: a successful delete leaves its row |
| `Engine` | 2 calls in one JVM, 1 in another, an edit, an expiry, any delay of a fill; 340 000 states | bounded staleness, one fill per entry, every call ends |
| `DataSource` | 2 threads, 2 requests with two calls, 1 with one, 1 with none; any step may fail, cache entries lapse; 640 000 states | rows where named, the second transaction only after the first, threads come back clean |
| `Widgets` | each of the six widgets; 161 000 states | what each widget shows when its transitions have ended, see below |

Bounds, and why they are enough to see the cases:

- *Calls.* Two are enough for a lost update, three for a loser whose winner is
  overtaken, four with two turns for a call that loses every turn; a stock of 2 with
  four calls makes both an empty shelf and an exhausted loop happen.
- *`MaxTries`* is 5 in the code. `OrderRetry` uses 5; the others use 2 or 3, so
  that the loop can run out against the calls there are. The theorems hold for
  every value.
- *`MaxTime`, `LockTtl`* 2 and 1: a lock is taken, lapses and is taken again.
  `MaxTime = 0` where no lock is to lapse.
- *`Retries`* is 2 in Dubbo; 1 already gives two attempts at once and a second
  row that comes late, and 0, as in `FileDelete`, still leaves one attempt that is late. `FileIds` has a key for each row these can insert.
- *`MaxCacheTime`, `MaxTime`* 2 and 2, *`MaxEdits`* 1: an entry is hit within
  its life, lapses, and is filled again from another table; a fill may come up to two units after
  its read.

- *Threads and requests* of `DataSource`: a thread serves several requests one after
  the other and two threads work at once, so that a switch that is left behind, or seen
  by another thread, would meet a request that it harms. The theorems have no bound.
- *`MaxRestarts`* 1: orders of one JVM lie in two lives and those of two JVMs in one.
- *`MaxPending`* 4: a visitor acts on a tooltip, a row of tabs, an accordion or an alert
  only while fewer than four handlers wait on each element; two or three already overlap in
  every way that the handlers of one end can. *`MaxShows`* 3 for the modal and *`MaxClicks`* 4 for the
  carousel let a second show or jump arrive during the first, and a third after it.
- *Three* items, panels and tabs: one that leaves, one that comes and one that is
  clicked meanwhile. `LoadedOpen` is none, or the middle panel.

`CHECK_DEADLOCK FALSE`: every instance has finitely many calls, or a visitor who may
leave, and really stops; the liveness properties show that calls end first.

What `Widgets` checks: `ModalSettles` (dialog, backdrop, body and handlers agree with the
last call), `OneItemShown`, `PausedStaysPut`, `EveryJumpIsMade` (carousel), `OnePanelOpen`,
`PanelsSettle` (accordion), `NoTipLeftBehind` (tooltip), `ActiveTabHasItsPane` (tabs),
`ToldOnceClosed` (alert). Each holds for the states that are left when nothing is
pending, or always where it says so; `PausedStaysPut` is an action property: a slide neither
starts the interval of a paused carousel nor takes the pause back, and `OneItemShown` also says what is
shown while a slide's end is awaited. Each has its limits, which came out of
stronger forms that failed:

- A modal that is shown again while it is still being hidden ends hidden under
  `isShown`, or with a backdrop nobody removes and a body whose padding grows;
  `overlap` remembers such a show, and `ModalSettles` excludes it. A dialog hidden
  before its backdrop is in keeps its `focusin` handler.
- In an accordion with a panel that the markup opens, two fast clicks on other
  headers leave two panels open: the open panel has no object whose
  `transitioning` could be asked. An object without its accordion does the same with slow clicks:
  with panel 2 loaded open, fast clicks on 3 and 1, then 2, then 3, each at rest, leave 2 and 3
  open. `PanelsSettle` holds in all of these; `OnePanelOpen` is about accordions that load closed.
- A tooltip left and entered again within its fade may end without its tip although
  it is wanted; `NoTipLeftBehind` claims the other direction.
- Fast clicks on tabs can leave two panes active; `ActiveTabHasItsPane` claims that the
  right one is among them.

Nothing in the repository says more of these widgets, so they are not listed as
findings.

### Fairness

Weak fairness of the whole next step of each call or request: its thread, taken
from the server's pool, runs on as long as it can take a step. A thread
that waits for a row lock or a monitor is disabled meanwhile, and the
database and the JVM give a free lock to a waiter; each call takes at most one
row lock and each request one monitor once, so no stronger fairness is needed.
In `WebPage` weak fairness of the carousel's pending steps, for `EveryJumpIsMade`: a
browser fires its timers and runs the handlers of an event. Nothing makes the visitor act.
No fairness is assumed of faults, timeouts, lost messages, edits or the clock.
In `FileStore` the wait for an answer ends with the answer or with the timeout,
both steps of `Upload`.

### Where the code and its words differ

- `OrderRetry`. `insertMisOrder` logs "continue to submit order"
  (`OrderServiceImpl.java:72`) and tries up to five times, all within one
  transaction. Under REPEATABLE READ every turn reads the first snapshot again,
  so once a version has missed it always will: the loop can only end in 0.
- `OrderLock`. `insertMisOrder2` unlocks (`:140`) before its proxy commits. The
  next holder reads the old stock; both orders are kept, one decrement is lost.
  The lock is taken around the read and the update of the stock (`:115`-`:140`), which is its claim.
  `HighTest` ("高并发测试") prepares threads that would submit orders for one product at once, with
  the call of `insertMisOrder2` commented out (`HighTest.java:113`).
- `FileDelete`. The empty `catch` at `FileController.java:147` answers
  "文件删除成功" with the row still in `sys_files`; as its blob is gone, no later
  delete can remove it.

## 4. Proofs

Each theorem below is a fact about its specification for every value of the constants that
the named assumptions allow: any number of calls, requests, JVMs, files, panels and clicks,
where a run has a handful. Every safety invariant and every action property that a passing
run checks is a theorem. The pattern is always the same: an inductive invariant, which TLC
checked on the run's instance first, with one lemma for `Init`, one per group of actions
for the step, and one for what it implies.

### Orders

`OrderServiceProofs` proves, for any mix of the two methods, either isolation level,
any lock life and any number of calls (a finite set):

- `TypeCorrect`: `Spec => []TypeOK`. `TypeOK` alone is not inductive: a decrement keeps
  stock a natural number because the row it was computed from was read with stock
  left (`ReadStock`), and `tries` stays in its range because a call that misses
  has a turn left (`TurnsLeft`). Their conjunction is `TypeInv`.
- `NothingUndersold`: `Spec => []AccountedFor`. The sum of orders and stock of a
  product never falls below its total, even when updates are lost. A stale reading
  can be written back at any time, so the invariant `AccountInv` says that every
  reading a call still holds, and every row it has written, would also be accounted
  for; orders only grow (`CommitCount`), so an old reading stays good. `TxShape` says
  which writes a call has made at each label.
- `ResultsAreTrue`: `Spec => []ResultTellsOrder`.

`OrderLocksProofs` is about the two locks, also for any mix of the two methods:

- `VersionIsCount`: `[]VersionCountsSales`, where the version column is a number. A writer holds
  the row lock (`Locked`), so that the row it has written carries the next version of the
  committed one, or the same in `insertMisOrder2` (`WrittenIsNext`), until it commits
  (`VersionInv`). Neither the version check nor the lock in Redis is needed for this.
- `SectionsAreExclusive`: `[]ExclusiveWhileFresh`. The Redis key names the stamp of every call in
  its section that has not lapsed (`KeyNamesFresh`). The step that needs care is an
  unlock, which compares stamps, and two calls can have equal ones: the other call was
  granted the key after this one lapsed, so both have lapsed by then.

`OptimisticProofs` assumes `Optimistic`: no call of `insertMisOrder2`, and a version
column that is a number.

- `ExactStock`: `[]Conservation`. The
  invariant `SaleInv`: `Locked`; what a call has seen is
  the current row or an older version of it, and equal versions mean equal rows
  (`SeenIsPast`); a written row is the current one less a unit, with the next version
  (`WrittenIsSale`); stock, orders and version of the committed row fit
  (`Balanced`). A matching version therefore means that the reading is current.
- `RefusalsHaveReasons`: `[]RefusalIsJustified`, with the count of sales that each missed turn
  has witnessed (`TurnInv`).
- `RetriesSuffice`: under RC, with no more calls than turns, `[]RefusedOnlyWhenSoldOut`; the
  run `OrderRetry` shows that RC cannot be dropped.
- `ImplementsSale`: `Spec => SaleSpec`, step by step: `Commit` maps to a sale or a refusal,
  `Rollback` to a refusal, the creation of a product to itself, all else to a stutter.

`OrderCodesProofs` adds the codes, and JVMs that stop and start between any two steps:

- `CodesFollowSales`: `CodesSpec => CodesInSaleOrder`, without `Optimistic`. An open code is behind
  its JVM's counter (`CodesBehindCounter`), and a call that has drawn one holds the row lock
  (`CodedLate`, `Locked`), so that no sale of the product commits between the drawing and
  its commit: the open code is above all committed ones of that life (`OpenFollows`).
- `RestartsLoseNothing`: `[](AccountedFor /\ ResultTellsOrder)`, and `RetriesSufficeOverRestarts`:
  `[](RefusedOnlyWhenSoldOut /\ Conservation)` with the hypotheses of `RetriesSuffice`. A restart is
  not a step of `Spec`: it ends all calls of a JVM at once, wherever they are
  (`RestartMoves`). The proofs show that it keeps the invariants above.

### Data sources

`DynamicDataSourceProofs` proves, for any threads and requests:

- `TypeCorrect`: `[]TypeOK`, with the fact that a request at the lookup has a call left
  to make (`TypeInv`).
- `RowsAreRouted`: `[]RowsWhereNamed`, and `ThreadsAreRestored`: `[]ThreadsComeBackClean`. The
  invariant `RoutingInv`: a request is served by one thread (`Served`), which is on the
  database its call named from the switch to the end of the call and else on the
  default one (`OnSource`), and a transaction is open on it exactly from begin to
  commit (`OnConn`). A step inside a call changes one thread and one request (`LocalStep`).
- `SecondFollowsFirst`: `[]SecondOnlyAfterFirst`. `TwinInv`: a call that has ended without an
  exception has left its row, and only then is the second made.

### Files

`FileStoreProofs` proves, for any uploads, downloads, deletes, providers and resends:

- `TypeCorrect`: `[]TypeOK`. An upload is sent at most `Retries` times more, and an
  attempt that is late is one that has timed out (`SendsLeft`).
- `RowsLeadToBlobs`: `[]RowsHaveBlobs`, `UploadsAreKept`: `[]UploadsStay`, and
  `NothingDeletedIsServed`: `NotServedAfterDelete`. One invariant, `BlobInv`: the blob of
  an upload that has sent its row, also of one whose attempt is late, is stored or was
  dropped by a delete (`SentIsStored`); before an upload begins, no row, cached row or reader
  shows its blob (`NewIsUnknown`); a key is given out once, so that its row, its cached copy and
  what was told of it are of one upload (`KeysGivenOnce`); an answered delete has
  dropped its blob (`DeletesAreAnswered`). A blob never comes back, as it is stored once.
- `FillsAreSingle`: `[]FilledOncePerProvider`. A provider puts a row into the cache at most once, and
  reads the table only as long as it has not; a request that fails between its read and its put is followed by
  another read. Whoever is inside the monitor holds it (`Guarded`),
  and one that is past its second look has no entry to overwrite (`Unfilled`), for a cached
  row stays (`FilledStays`).

### Service engine

`ServiceEngineProofs` proves, for any calls and JVMs, edits and lives of an entry:

- `TypeCorrect`: `[]TypeOK`.
- `NamesAreStaleForLifeAndDelay`: `[]StaleForLifeAndDelay`. A name that the cache yields was in the
  table less than a life and the delay of its fill ago. Every name read or cached was in the table when it was
  read, and the next edit did not come before that read (`NamesAreRecent`, `ReadAt`); the read behind an entry
  was a life and its delay before the entry lapses (`CachedRead`).
- `FillsAreChecked`: `FilledOncePerLife`, and `JvmsFillForward`: `JvmFillsForward`. `FillInv`: the
  monitor (`Guarded`); a call past its second look saw the entry of its own JVM gone
  (`OwnEntryGone`); what it read is not older than what its JVM filled (`FillsFollowReads`).

### Widgets

`WebPageProofs` proves, for any number of items, panels and tabs, and any number of clicks:
`TypeCorrect` (`[]TypeOK`), `DialogSettles` (`[]ModalSettles`), `OneItemIsShown`
(`[]OneItemShown`), `PausedCarouselsStay` (`[]PausedStaysPut`), `OnePanelIsOpen` (`[]OnePanelOpen`),
`PanelsSettleAll` (`[]PanelsSettle`), `TipsAreNotLeft` (`[]NoTipLeftBehind`), `TabsHaveTheirPanes`
(`[]ActiveTabHasItsPane`) and `ClosedIsToldOnce` (`[]ToldOnceClosed`). What a widget shows at rest
follows from what the handlers that still wait, or are being run, will do; so each
invariant ties the visible state to those:

- *Modal* (`ModalInv`): unless `overlap`, the dialog is in one of six phases: idle, appearing, up,
  hidden before its backdrop was in, hiding, uncovering; each fixes the classes, the
  backdrops and the one handler that leads to the next (`ModalPhase`).
- *Carousel* (`CarouselInv`): it rests, awaits the end of a slide, or is between the two
  handlers of that end, when the item to come is already active (`Rests`, `Awaits`, `Arrives`). That a paused one has no
  interval (`NotPaused`) carries `PausedStaysPut`.
- *Collapse* (`CollapseInv`): a panel that is collapsing, or whose object is in transition, has an end
  that will clear it (`MovesEnd`); while no panel was loaded open, a panel that comes is
  the only one and those that go have their end, and no object is without its accordion (`OneByOne`).
- *Tooltip* (`TooltipInv`): a tip in the document that nobody wants has its delay timer, or a
  handler that takes it out, pending.
- *Tab* (`TabInv`): the last handler of the fade that waits is for the active tab (`LastFade`).
- *Alert* (`AlertInv`): the page's handler is there only until it was told.

`PageInv` puts them together: the widget that is exercised keeps its invariant and the others
stay as they began. That an accordion has finitely many panels, numbered in document order
(`CollapseAssumption`), is used for the first open one, which a click on another closes.

### Assumptions, and what is only model-checked

The assumptions are the named `ASSUME`s of the modules, which the runs evaluate on
their instances. They say what the constants are (`Target` is a file for each request, the
calls are a finite set), that a null is none of the values (`NullAssumption`, `CodesAssumption`,
`FileNullAssumption`), and that uploads, downloads and deletes are different requests
(`KindsAssumption`). `FileIdsAssumption` makes the keys of `sys_files` the numbers from 1 on: the table
generates them. What TLAPS proves is about the model: that the
database gives RC or RR with row locks, and that Redis's lock and clock behave as in
`RedisLock`, is taken from the products' documented behaviour and from the library's use.

Only model-checked are the liveness properties `EveryCallReturns`, `EveryRequestEnds`,
`EveryCallEnds` and `EveryJumpIsMade`, as liveness under fairness is out of this
prover's reach, and the three runs that end in a violation.

## 5. Not modelled, and the plan

Next modules, most important first:

1. `ChatServer`: one selector loop, clients that join, write, close or vanish. Runs:
   three clients; a close during a broadcast.
2. `Security`: authorities of a user and the access decision as operators, checked
   against a definition over all small assignments.
3. `Demos`: the fork/join sum as a recursive function against its definition, the lazy
   singletons under two threads, the counter of the dispatch service.
4. `Tasks`: overlapping scheduled runs.

Proofs to come: that `FileStore` and `ServiceEngine` implement a store and a directory whose
operations are atomic, and the widgets a page in which a click takes effect at once;
that the modal's `overlap` can be weakened to the shows that come before the dialog's own
end; proofs about the modules above.

Of `bootstrap.js`: button, dropdown, scrollspy, popover and affix, which change classes
within one event and wait for no transition of their own; the placement of a tooltip and the
dialog's own padding (layout); ARIA attributes, which follow the classes except while a
panel is moving; calls by page scripts of the accordion and of a tooltip's `show` and
`toggle`; accordions without a parent; cancelled events. `common.js` turns a form into an
object. layui and jQuery are vendored and minified.

Left out for good: beans, generated statements nobody calls, controllers that only
pass requests on, the generator, the commented-out interceptor and queue
configuration, style sheets and pages: no state or control of their own. The column
default of `mis_prod_def.version` is a constant, because the schema is not in the repository; were it NULL, every update would match
(`MisProdDefMapper.xml:107`) and the theorems of `OptimisticProofs` would not apply.
