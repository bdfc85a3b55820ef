# A TLA+ model of modmex-lambda

This directory specifies the parts of `modmex-lambda` in which several actors, failures and
deliveries meet, checks them with TLC on small instances and proves the main results with TLAPS
for every value of the constants. Paths below are relative to the repository.

## 1. The system

`modmex-lambda` is a library for AWS Lambda functions. Two halves share connectors and a dependency
resolver: **streams** (`modmex_lambda/stream`), which react to batches of records, and **requests**
(`modmex_lambda/event_handler`, `modmex_lambda/mcp`), which answer API Gateway and MCP calls.

| component | state it keeps | operations | interacts through | what makes it correct |
|---|---|---|---|---|
| Stream runner (`stream/runner.py`, `schedulers.py`, `rules_registry.py`, `sources/base.py`) | latch (`pending`, `completed`, `completed_lock`), pool, context variable | `run`, one task per flavor, `mark_completed` | subscribes flavors, calls user callbacks, returns to Lambda | no lost decrement, nothing flushed under a running line, a batch is acknowledged only when dealt with, every call ends |
| Faults (`stream/utils/faults.py`, `utils/operators.py`) | module-global `the_faults` | `faulty`, `faults`, `flush_faults` | called on pool threads, flushed by `run` | each fault reported once, in order, to the right handler |
| Batching sinks (`operators/publisher.py`, `operators/sqs.py`) | buffer per line | buffer, deliver, unbatch | EventBridge, SQS | order, no loss, no repetition within an attempt |
| Saga flavors (`flavors/collect.py`, `correlate.py`, `evaluate.py`, `expired.py`) | items in a DynamoDB table | collect, correlate, evaluate, expire | the table's stream triggers the next step | at least one higher-order event per complete correlation; repeated deliveries emit nothing new |
| Views and CDC (`flavors/materialize.py`, `update.py`, `cdc.py`, `filters/latch.py`, `persistence/dynamodb`) | items with `timestamp`, `latched` | conditional update, latch filter | streams of two services | newest version wins; no echo |
| Job flavor, paging (`flavors/job.py`, `operators/dynamodb.py`) | cursor in the job record | page, publish, cursor update | DynamoDB, its own trigger | no item skipped, none done twice without a failure, every job ends |
| DynamoDB connector (`connectors/dynamodb.py`, `utils/retry.py`) | attempts | batch get, retries, updates | DynamoDB | bounded retries, each key answered once |
| MCP server and transports (`mcp/`) | registries, event queue, cancellation token | dispatch, pages, SSE stream | the tool's thread, HTTP client | one answer per request and nothing behind it, complete pages, every exchange ends |
| API Gateway handler (`event_handler/`) | routes and their tables, cached middleware stacks, context, dependency cache | register, include, resolve | user middlewares, dependencies, handlers | the right route or refusal, one run of each middleware and dependency, nothing left for the next request |
| Data classes, logging, tracing, validation | none | conversions | | not modelled |

The hard behaviours: pool threads that share the latch, the fault list and singleton connectors;
exceptions that take four different ways through ReactiveX (dropped, recorded, re-raised,
`on_error`); at-least-once batches on containers that are reused or killed; deliveries that are
repeated or overtake each other between a table and its stream; worker threads and clients that
disappear. `PROJECT.json` lists each hazard with its line.


## 2. The modules

Each component has a module with its state and actions (`X.tla`), one with its properties
(`XProps.tla`), one that instantiates it for TLC (`MCX.tla`, with a `.cfg` per run) and one with
proofs (`XProofs.tla`). `PROJECT.json` maps every definition that models code to the lines it
stands for; definitions named `Mut...` are plausible bugs that each property is tested against and
are used by no specification.

### StreamRunner: one container, batch after batch

`StreamRunner.tla` models `run` with its pool, latch and fault list, and one line per flavor.

| model | code |
|---|---|
| `main` | where the thread that called `run` is: subscribing the lines, running the trampoline (`concurrency=False`), in `completed.wait()`, in `executor.shutdown()`, flushing; then `returned` or `raised` |
| `subscribed`, `taken`, `ctx` | the scheduler's FIFO work queue and the context each task was copied with (`schedulers.py`) |
| `stage[p]`, `pos`, `buf` | line `p`'s task: items pushed by `from_list` through the flavor's operators into the buffer of its sink |
| `pending`, `completed`, `lock`, `seen` | the latch of `mark_completed`; `pending -= 1` is a load (`MarkLoad`) and a store (`MarkStore`) under `completed_lock` |
| `theFaults`, `handled`, `faultBus`, `dropped` | `the_faults`, calls of `on_fault`, faults published or popped and lost |
| `fate`, `settled` | history: what a run, or all attempts at a batch, did with each item |

The operators before the sink are abstracted to the outcome they have for an item: it is forwarded
or filtered, its exception is recorded as a fault (`try_map` of a `faulty` function), it is
re-raised (`faults` meets an exception without `uow`), or it becomes `on_error` (`ops.map`).
ReactiveX decides what follows and is modelled from how it is used: an exception raised through
`on_next` stops the line and reaches neither callback; one raised by `from_list`'s completion leaves
the task, is swallowed by the pool and escapes from the trampoline (so does a raising `on_error` of the
remainder, which is sent on completion). User callbacks may raise. An
invocation that raises or is killed (`Kill`) gets its batch again; a warm container keeps
`the_faults`, a killed one loses it.

`BatchContract.tla` is the abstract specification: a batch is acknowledged only after every
reaction to every record has been settled, in this or an earlier attempt. `KeepsContract`
instantiates it with `Reactions <- Pipelines \X Events` and the variables `settled` and `batch` of
the same name.

### Saga: collect, correlate, evaluate, expire

`Saga.tla` models the four flavors around one table. `table`, `index` and `stream` are DynamoDB's
and external: a change of an item is a record in the stream of its partition key; `PutItem` of an
existing item is a MODIFY or, with the same contents, no record at all; the index `DataIndex` may lag.
`Collect` stores delivered events (at least once). The control function handles one record of a
partition key at a time (`Receive` ... `Ack`), different keys concurrently; every matching rule has
a line: `Correlate` writes, `Query` and `Evaluate` are separate steps so that the table may change
between the answer and its use, `Expire` reports removals. `Fault` replaces a line's reaction by a
fault (`failing`), which `Flush` publishes once all lines are through; `Lose` loses an attempt and
the faults it has not published, after which the record is repeated with all rules. `image` is what
an item was last stored with: its `ttl`, 0 if there is none, and whether the rule that stored it has
an `expire`, which is None by default (`collect.py:90`, `correlate.py:108`). The record of a removal
carries this image, and `ForExpiration` asks for both parts of it (`expired.py:62-68`). `Sweep` removes
an item at some time after its `ttl`, never one without, and `Delete` before.
Content filters and custom `put`/`emit` callbacks are left out, and so are the time of a record by
which a batch is sorted (the records of one partition key come in order anyway) and the filter for
other regions' replicas; the rule's `expression` is "all of these types are among the correlated
events". A correlated item's partition key, the string `key.suffix` (`correlate.py:87`), is the pair of
both: correlation keys are assumed not to contain a rule's suffix themselves. The run has one
`Correlate` rule; that several may overwrite each other's `ttl` and `expire` is covered by the theorem.

### MaterializedView: copies that follow each other

`MaterializedView.tla` models one entity in the tables of several services that all mirror each
other. `Save` writes the fields of `fields_for_save` or `fields_for_delete` unconditionally, as the
service's own commands do; `Remove` deletes the item from the table. `Capture` is the trigger:
`out_latched`, the event type read off both images, and the publication to every service.
`Materialize` is the listener: `out_source_is_self`, the materialized fields (`latched`,
`deleted`) and the update under `timestamp_condition`, whose failure becomes a fault. The bus keeps
or forgets an event when it delivers it, so deliveries repeat and overtake each other. The
entity's fields are represented by the number of the version they came from, which no code reads.
Clocks are not behind a version already saved (`t >= now`), but two versions may have the same
timestamp, which `ConvergesToNewest` excludes and the other properties do not.

### JobPages: a job that pages through a table

`JobPages.tla` models job records, the stream records they cause, and one `Job` line that works on
a batch of them. `Fetch` is one answer to `scan` or `query_page` (of any length up to `Limit`, with
or without a `LastEvaluatedKey` at the end of the table, as DynamoDB may answer), `Push` and
`GetRequest` take its items through split and filters, `BatchGet...` is `_batch_get` with its
attempts, `Put` and `Publish` the update request and the publisher's buffer, and `FlushCursor` the
operator `_flush_cursor`, which groups the units that got through by job and writes each group's
last cursor. That write is the stream record of the next page. `Rejected` is the timestamp
condition of a guarded update: events inherit the timestamp of the job's first one, so the second
guarded update of a job fails. `Acknowledge` counts a line down whichever way it ended; a line that
died leaves `run` waiting, which `TimeOut` ends; after that, or after a `Kill`, the batch is delivered again.

### Gateway: routes, middlewares, dependencies

`Gateway.tla` models one resolver over several requests of a reused container, with
routes, routers, middlewares and overrides that may be registered between any two of them. `routes`,
`static`, `dynamic`, `pathMethods` and `corsMethods` are the list and the maps that
`Router._add_route` keeps, each route with its own `cors` setting or the default of where it is declared; `IncludeRouter` copies a router's routes one by one. `Resolve` matches,
`Invoke` builds or reuses the stack (`stacks`), and the phases follow the call down the chain
(`Validate`, `Enter`, `Endpoint`), through `solve_dependencies` (`Solve`, `Call`, with the work left
in `agenda`) and the handler or a fallback, and back up (`Leave`) or out (`Unwind`,
`CallExceptionHandler`). User code answers, raises or goes on. Parameters are modelled by where
their declaration lets a value come from (`Source`), when they are required and which declarations
are refused (`Misfits`); what conversion makes of a value is its outcome.

### McpServer and McpHttp: one message, two transports

`McpServer.tla` has no state: it says what is in a registry, which parameters of a handler become
its input schema, how `_page` cuts a list, which outcomes a call may have, and what `handle` and
`handle_async` respond. `McpHttp.tla` extends it with the two transports. `Invoke` is a buffered
exchange, in one step. A streaming exchange is `Accept` (`do_POST` up to the middlewares), `Handle`
(the transport's checks, in their order in `HeaderRefusal` and `TransportRefusal`), `SendHead`, and then either
`WritePending` or a `Take` per event of the queue. Beside it run the tool's thread (`CallTool`,
`Return`, `LoopCloses`, `PutDone`), what the tool has started on its event loop (`StartHelper`,
`HelperEnds`), reports of progress from both, and the client, which may leave at any time
(`Disconnect`, `WriteFails`; a write to a client that has left may also succeed). Middlewares may
raise before or after they have called the transport (`MiddlewareRaises`). Connections share only
the registry, which every one of them reads and none of them writes.

## 3. The runs

| run | instance | what it checks and shows |
|---|---|---|
| `redelivery` | 2 lines, 2 items, 2 attempts, the first on the pool and the second with `concurrency=False`, kills, raising `on_fault`, failing flush | `HandlerSeesEveryFault` on pool threads; `FaultsAccountedFor`: each fault is in exactly one of the list, the bus, or a flush that failed; `FaultsPublishedInOrder` over warm runs; `SequentialInRegistrationOrder`; `KeepsContract`; `EveryRunEnds` |
| `failures` | 3 lines, 2 items, 2 threads, buffers of 2, all five outcomes, all callbacks raising | `LatchCountsOpenLines`, `FlushAfterLastLine`, `DeliveredInOrder`, `CompletedLineSettledItsBatch` |
| `saga_emits` | 2 events, faults, one lost attempt, lagging index | `CorrelatedSagaEmits` and `EveryEventIsCorrelated` (liveness): whatever the order in which shards see the events, a complete correlation is noticed by at least one trigger |
| `saga_once` | 2 keys, 2 `Evaluate` rules, `Expired`, removals of items with and without `expire`, one lost attempt | `EmittedOnlyWhenComplete`, `OneIdPerStoredItem`, `ExpiryReported` |
| `views` | 2 services, 3 commands, 2 timestamps, 1 error | `LatchMarksCopies`, `NoEcho`, `RejectedIsStale`, `ConvergesToNewest` |
| `pages` | 2 jobs, one of them guarded, 5 items of which two yield no unit, pages and buffers of 2, 1 retry, 2 failures | `CursorBehindWork`: no item is passed without being published, dropped or recorded as a fault; `PublishedOnce` as long as nothing fails; `EachKeyAnsweredOnce`; `JobEndsOrStalls` (liveness) |
| `gateway` | 2 of 4 routes, static and dynamic, 2 middlewares, 3 dependencies, 2 requests | `RoutedExactly`, `ChainRunsOnce`, `CachedOnce`, `RequestIsCurrent` |
| `mcp` | 3 tools and a template, 29 different requests, 2 reports of progress | `AnswerEndsTheStream`, `PagesComplete`, `EveryExchangeEnds` (liveness) |
| `unhandled` | 2 lines, failing `put_events` | violated: `UnhandledExceptionStopsProcessing` |
| `sqs` | 1 line, 3 items | violated: `RestOfBatchMoves` |
| `saga_index` | 2 collected events, lagging index | violated: `CollectedSagaEmits` |
| `preflight` | as `gateway`, 1 request | violated: `CorsOnEveryAnswer` |

The type invariants of `redelivery`, `saga_emits`, `views`, `pages`, `gateway` and `mcp` are checked there too.

**Bounds.** Two lines are enough for every race of the latch and the fault list, which are pairwise;
the third line of `failures` is the one that must wait for a thread. Buffers of two over two items,
of which some are filtered or fault, give full buffers and remainders. Two invocations (`MaxRuns`)
give one redelivery, warm or cold. In the saga, two events
that complete one expression are the smallest correlation in which triggers can miss each other, and
an event of another key is the smallest one that must not count. `MaxDeliveries`, `MaxRetries` and
`MaxRemovals` bound repetitions, `MaxTime` the clock. `MaxCommands = 3` gives the views a save, a
deletion and a restoration, or two versions that overtake each other with a removal between them;
each service's item is removed from its table at most once; `MaxErrors` bounds raising callbacks.
Five items in pages of at most two give every job pages that are continued or end early, and a page
of which nothing survives; two jobs share a batch, a buffer and a cursor flush. `MaxFailures` counts
failing calls, partial answers and kills together. Two of the gateway's routes are
enough for a path that is both static and dynamic, and two requests for everything the first may
leave behind; `MaxRequests` and `MaxRoutes` bound them. `PageCap` is 100 in the code (`registry.py:89`)
and 2 in the run, so that the cap cuts a list of three tools; one connection suffices because
connections share only the registry; `MaxReports` bounds reports of progress.
The services of `views` are interchangeable, so symmetry is used there; `views` ends when everything
is delivered, and `unhandled` at the counterexample, so these two do not check for deadlock. In the
other runs an explicit `Finished` step is enabled only where the bound was reached at rest, so a
blocked `run` would be reported as a deadlock (in `mcp` another request is always possible); where re-raised exceptions may block it (`redelivery`,
`failures`), the platform's `Kill` is what ends it.

**Fairness.** `StreamRunner!FairSpec` is weak fairness of the calling thread and of each line: the
operating system schedules runnable threads and calls return. Nothing is assumed of the platform, so
neither invocations nor kills need happen. `Saga!FairSpec` is weak fairness of the control function
per partition key, because Lambda invokes it as long as there are records, and of the index, which
is eventually consistent. No fairness makes an event be collected, a time to live pass or an
attempt get lost. `MaterializedView` has no liveness: its convergence is an invariant of the states
in which nothing is under way. `JobPages!FairSpec` is weak fairness of the line and of the event
source mapping, which invokes the function as long as there are records, and of the function's
timeout; failures are bounded and never forced. `McpHttp!Spec` is weak fairness of each connection's thread and of each tool's: the
latter assumes that tools, and what they start, return by themselves, which the code leaves to
their authors; nothing forces a client to leave, to stay or to ask, or a tool to report.
`Forget` stands for the moment at which a connection's objects are garbage.

**Findings.** Four runs end in a counterexample to a sentence of the repository:
- `unhandled`: `faults.py:111` re-raises unexpected exceptions "to stop processing". The exception
  stops its line only, the latch is never counted down, and `run` waits until Lambda's timeout. The
  batch is redelivered and nothing is lost, which is what `KeepsContract` confirms.
- `sqs`: `operators/sqs.py:34` sends inside `ops.map`, so one failing send ends the line; the
  records behind it are neither sent nor reported, and the batch is acknowledged, although the
  README (713-714) promises that the rest of the batch keeps moving.
- `saga_index`: collected events are queried through `DataIndex` without a consistent read
  (`evaluate.py:172`), so two events that complete a rule may each be evaluated without the other.
  Correlated events are read consistently, and `saga_emits` shows that they are always noticed.
- `preflight`: `_resolve` builds the answer of a fallback without a route (`api_gateway.py:220`), so
  a preflight request, which the README (456) says is answered with CORS headers, gets none; neither do
  404 and 405 answers, nor the routes of an included `Router`.

Other things that a reader of the code should know, and that the models contain:
- Views: a removal from the table carries the timestamp the copies already hold
  (`events/dynamodb.py:88`), so their condition rejects it; a field that an entity loses stays in its copies
  (`expressions.py:31`). `Evaluate` compares the correlation key's suffix only for rules with an
  expression (`evaluate.py:111` against the docstring at 36).
- Jobs: a page all of whose items are filtered or faulted writes no cursor, and the job stops there
  without a report; this is the `"completed"` case of `stalled`. A guarded cursor
  update is rejected from the second page on, which is the `"errored"` case. Faults are reported
  after the cursor was written: a container lost in between leaves them to the next attempt, which
  may read a shorter page and never meet them again. The history variable `lost` of
  `CursorBehindWork` holds the faults of such attempts.
- Gateway: an `UnauthorizedError` in a dependency becomes a `DependencyResolutionError` and leaves
  `resolve` (README:432 names a 401); a malformed JSON body leaves it too (README:429 names a 400); the
  override of a dependency that has dependencies of its own receives their values and
  fails if it takes none; an exception handler that returns nothing makes the exception escape; a
  middleware registered after a route's first request is ignored for that route, and used for the
  others and for the fallbacks; `include_router` copies what a router has at that time, without its exception
  handlers; a path parameter that is declared badly raises at every request and not when it is registered.
- MCP: the early returns of `handle` answer notifications, and the streaming transport answers them
  with 200 and not 202; a `params` that is no object, and a body that is a scalar on the buffered one, leave the transport
  as exceptions (README:1432 promises ordinary JSON errors); a client that has left is noticed only
  by a write, and a middleware that raises after the tool has started leaves it running with nobody
  to cancel it; an argument in `Annotated` is advertised as a string, whatever its type.

## 4. The proofs

All theorems are about `Spec`, from the assumptions on the constants only (`ConstantsAssumption` of
`StreamRunner`, `JobPages` and `Gateway`, `SagaAssumption`, `ViewAssumption`, and
`CapabilitiesAssumption` and `RequestsAssumption` of the MCP modules): any number of lines, items,
threads, events, rules, services, routes, dependencies, tools, connections, deliveries and attempts.
Beyond the types of the constants they say that no dependency depends on itself, directly or through
others (`Gateway`'s rank; `get_dependant` would recurse without end at the first request), that a handler's parameters have different names, and that a
rule with a variable is no path. Every safety property that a passing run checks is a theorem.

- `StreamRunnerProofs`: `TypeCorrect`; `LatchIsExact` and `FlushIsLast`. The latch property is not
  inductive: `LatchInv` adds that the line that holds `completed_lock` is the only one between
  load and store, that the value it loaded is still current, that lines not yet taken off the
  queue have not started, and that none exists between a cold start and the first invocation.
- `StreamLineProofs`: `LinesDeliverInOrder` and `LinesSettleTheirBatch` from `LineInv`: every line is
  `Good`, which relates its stage, its position, its buffer, what it delivered and the fates of its
  items (an item behind the position has a fate or is in the buffer, the buffer's items have none
  yet, and everything up to a delivered item has one). `LinesRunInTurn` needs `LineInv` for the
  lines that were taken off the queue; `HandlersSeeTheirFaults` follows from `ContextInv` (a
  subscribed line has this run's handler in its context).
- `StreamLineProofs`, second part: `FaultsHaveOnePlace` and `FaultsKeepTheirOrder` from `FaultInv`. Its core,
  `Tidy`, says that `the_faults`, the published faults and the lost ones are each in order, that
  what has left the list is older than what is in it, and that the last two have nothing in
  common; `Known` and `Found` tie the lists to the fates of the run's items. Without the order
  neither theorem is inductive: that a recorded fault is new follows from its line's position.
- `StreamLineProofs`, last part, is what `EveryRunEnds` rests on beside fairness. `OnlyTheDeadAreWaitedFor`:
  until `run` returns or raises, its thread or a line has a step to take, or it waits for a dead
  line. `MainMoves` and `LineMoves` state the guards of `Main` and `Line` (where `Outcomes` is not
  empty; on the instances of `failures` and `redelivery` they agree with `ENABLED`, which cannot be
  reasoned about here). It needs `PhaseInv`: past the subscriptions all lines are subscribed, and
  without a pool nothing is left on the trampoline when the thread waits. `RunsOnlyGoForward`: every
  step of a run advances one line, and none back, or the thread; as positions and ranks are bounded and the
  list of faults is finite, there are finitely many between two invocations.
- `StreamContractProofs`: `ImplementsContract`, `Spec => KeepsContract` under `NoErrors` (no
  operator sends `on_error`). Run `sqs` shows that this hypothesis is needed. `ContractInv` says
  that every item a line has consumed has a fate or waits in the sink's buffer, that a completed
  line's buffer is empty, and that a fate is reflected in `settled` or in `theFaults`; then every
  step is a step of the contract or leaves it alone.
- `SagaProofs`: `SagaTypes`; `SagaCompletes` from `StoredInv`, `StreamInv` and `WorkInv` (a record
  speaks of an item that was written; what a query answered for an open key are stored events of
  that key); `ExpiryIsReported` from `ReportInv` (the removal, after its time to live, of an item last
  stored with an `expire` is in the stream, or every `Expired` line still has it to do, has failed on
  it, or has reported it, and no other removal ever is; items may be overwritten by rules that
  disagree about `ttl` and `expire`); `OneIdEmitted` from `InsertInv`
  (the ids of all INSERT records of an item, at work or already published, are no more than its
  removals, plus one while it is stored).
- `JobPagesProofs`: `TypeCorrect` from `PositionInv` (where the line is in its batch, its page and
  its buffer); `KeysAnsweredOnce` from `GetInv` and `ResultInv` (the answers to a `batch_get` so far
  and the keys still wanted are a partition of the keys); `CursorsBehindWork` from `PageInv` (of what
  the current record has read, every item is in the page or out of the line with all its units),
  `ReachInv` (a unit in the buffer, or behind it, comes from a record of its job of which everything
  up to the end of the unit's page is out) and `WrittenInv` (what lies behind any cursor that was
  written, in the job record, on the stream or in the batch, has been dealt with). The first two are
  needed because `_flush_cursor` sees only the units that got through and not the page they left.
  `UnitsPublishedOnce` is an action property, from `OnceInv`, which holds as long as nothing has failed:
  `SingleInv` (a job has at most one record on the stream and in the batch together, until its cursor
  has been written), `AheadInv` (all that has been published of a job is behind the cursor of its
  record on the stream; with what is in the buffer, behind the records still in the batch and
  behind what is left of the page) and `LineInv` (what is in the buffer is new, and every unit that has
  got through is on the last page of its job so far, or a later one follows it). The last is what makes the
  cursor of a group's last unit the right one to write; with `MutLastOfFirst` it is not.
  `JobsAreNotForgotten`, the safety half of `JobEndsOrStalls`, from `ResumeInv`: the record that resumes a
  job at the cursor it has is on the stream as soon as that cursor is written (`UpdatedInv`), so that
  neither the acknowledgement of the batch nor its redelivery loses it.
- `MaterializedViewProofs`: `ViewTypes`, `CopiesAreLatched`, `ChangesDoNotEcho` from `VersionsInv`
  (images, records and events carry the author's timestamp of the version they name);
  `OlderNeverReplaces`, an action property: an item which is not removed never goes back in time;
  `RejectionsAreHarmless` from the same lemma (`NeverBack`);
  `CopiesConverge` from `DeletedInv` (the mark of deletion survives the way from image to event
  and back) and `ReachInv` (the newest version is in a copy, or in its author's stream, or on the
  bus to that copy, or reported).
- `GatewayProofs`: `RequestsAreCurrent`; `RequestsAreRouted` from `RegistryInv`, whose `Tables` says of
  each map the router keeps that it holds exactly the routes it stands for (a static route for every
  method and path that has one, every dynamic route, the methods of every rule and no others), kept
  by `_add_route` and by `include_router` alike; `ChainsRunOnce` from `ChainInv` (a stack, once
  built, is around what the application's middlewares were then and the route's own; on the way
  down, what has been entered is the part of the chain behind the request); `DependenciesAreCalled`
  from `SolveInv`, which relates the agenda of `solve_dependencies` to the calls made: `Agenda` says that
  what is on it is used by the handler and that what comes before the call of a dependency has a
  lower rank (`Nested`), and `Counted` that every direct use, and every use of a dependency called or to
  be called, has been called or comes up before it, and that a dependency which is always cached is called once. That the called ones are all
  that is needed follows because `Uses` is the least set closed under use (`UsesAreLeast`), without
  an induction over the dependencies. `CachedOnce` excludes dependencies that share a stand-in
  (`overrides` may map two to one callable): the second is then taken from the cache, and what it
  depends on itself is never called, so the property is false without the exclusion. `TypeCorrect`
  needs `RequestInv` and, for the way down, that the chain fits what the router has (`DownFits`).
- `McpProofs`: `ListsAreComplete` from `PagesInv`: what a client has been given is the beginning, up to
  its cursor, of the definitions as they are now (`Followed`). The registry lists its names by a
  recursive function over the registrations; that a longer list of registrations keeps the
  shorter one's definitions in front is shown by a least counterexample. `StreamsEndWithAnswer` and
  `TypeCorrect` from `Inv`: per connection `CallInv` (who may still report) and `StreamInv`, in which a
  stream is `Open` or `Settled`. `Open`: the reports written and those in the queue are as many as were
  made, less what was lost with a client that left, and behind them are the answer and the end mark,
  as far as the worker has come (`Owed`). `Settled`: the answer has been taken from the queue, all
  reports were before it, and the tool and its helper have ended. The property alone is not
  inductive, because it does not speak of the queue. `NoReaderStarves`, the safety half of
  `EveryExchangeEnds`, follows from `Inv`: who finds the queue empty waits for a worker that has not ended.

Only model-checked: the liveness properties (`EveryRunEnds`, `CorrelatedSagaEmits`,
`EveryEventIsCorrelated`, `JobEndsOrStalls`, `EveryExchangeEnds`), which need fairness and `ENABLED`.
What the code promises and does not keep, section 3, has no theorem.

## 5. What is not modelled, and why

The modules were written in the order in which losing, doubling or misordering things is likeliest:
`StreamRunner` with `BatchContract`, `Saga`, `MaterializedView`, `JobPages`, `Gateway`, `McpServer`
with `McpHttp`. Not modelled are:

- Data classes (`data_classes/`): read-only accessors over event dictionaries. Logging, tracing and
  validation: wrappers that keep no state the other parts read.
- The parsers of Kinesis, SQS, SNS, S3 and EventBridge events, and the conversions of pydantic:
  functions of one input without a state, of which a model could only repeat the text.
- The remaining connectors and operators and the `Task`, `SNS`, `S3` and `Schedule` flavors: chains of
  single calls to AWS, whose outcomes are the outcomes of a line in `StreamRunner`. The `Update`
  flavor, with its queries and its fallback: its listener's effect on a table is that of
  `Materialize`, and its callbacks are the user's.
- Partial acceptance by EventBridge and SQS: the code does not read it from the response.
- The connector that several operators point at their own table (`operators/dynamodb.py:27`): each
  model has one table.
- Reports of progress that a tool sends from a plain thread, outside its event loop: the loop does
  not wait for such a thread, and such a report could follow the answer.
- Of the gateway: serialization, compression, prefixes, binary bodies.

The AWS services, ReactiveX, asyncio, HTTP and user callbacks are external and are modelled
by what the code can observe of them.
