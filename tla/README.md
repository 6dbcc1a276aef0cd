# A TLA+ model of the scraper

The scraper collects market data (K-lines, order books, open interest, funding
rates) from exchanges, stores it in one TimescaleDB database per exchange,
market and calendar year, and publishes finalized live K-lines to Kafka. A control
plane tells it which live streams and which historical windows are wanted, and
hands out leases on what is written to the year databases. Only the routers of processes
that run under the control plane ask for them: a process with a static
configuration, and every backfill, writes without one.

The modules here model the parts of it in which order, failure and
concurrency decide what is right: the two control-plane runtimes, the collectors
in both their modes, the backfill, the write router, the migrations and the
process around them. TLC checks them on small instances; TLAPS proves, for every value of
the constants, every invariant and action property that a passing run checks, and the
refinements of the two abstract specifications. `PROJECT.json` relates every definition
to the lines of the source it stands for, and every hazard to the properties that cover it.

    tlc -config futures_kline.cfg FuturesKline     check a run
    tlapm FuturesKlineProofs.tla                   check the proofs of a module

Contents: 1 the system, 2 its hard behaviours, 3 the modules, 4 the runs,
5 fairness, 6 the disagreements found, 7 the proofs, 8 abstractions,
9 what is only checked and what is not modelled, 10 the plan.

## 1. The system

Paths are relative to `src/`.

| Component | Source | State | Operations |
|---|---|---|---|
| live stream runtime | `internal/controlplane/runtime.go` | `managed`: a handle per stream (state, collector, version, drain deadline, gate); `runCtx`; `shutdownOnce` | `Run`, `ReconcileOnce`, `reconcileStream`, `stopMissingStreams`, `runCollector`, `recordStored`, `Stop`, `shutdown` |
| historical runtime | `internal/controlplane/history_runtime.go`, `history.go` | `inFlight`: a cancel function per request | `ReconcileOnce`, `runRequest`, `track`, `untrack`, `cancelMissing`, `stopAll`, `Stop` |
| futures K-line collector | `internal/scraper/futureskline` | `lastCloseTime`, local to `forward()` | poll, filter by clock, insert, select for publishing, publish; reverse mode |
| spot K-line collector | `internal/scraper/spotkline` | `forwardResumeTimeMs`, the WebSocket under a mutex, `done` | catch up over REST, dial, read, insert, publish, reconnect, `Stop`; reverse mode |
| backfill | `internal/backfill` | local to one request | split by year, page, filter, insert, build and merge coverage segments, verify by count |
| write router | `internal/storage/write_router.go` | `stores`: a store per exchange and year, under `mu`; `leaseManager`, or none | `InsertKline` and its siblings, `storeFor`, `Close` |
| store | `internal/storage/timescale.go` | the connection pool, `tableLocks` | `optimisticInsertWithLazyCreate`, migrations under an advisory lock, queries |
| writer leases | `internal/controlplane/writer_lease.go` | none; the control plane keeps them | `Acquire` |
| Kafka publisher and gate | `internal/marketdata` | the gate's flag | `PublishKlines`, `SetEnabled` |
| gRPC client | `internal/controlplane/client.go` | the connection | lists and reports, each with a timeout |
| process | `cmd/scraper/main.go` | | builds all of this, waits for a signal, stops it within a bounded time |
| open-interest collector | `internal/exchange/binance/scraper/openinterest.go` | `lastSeen`, the WebSocket under a mutex, `done`, the reverse cursor | poll, fall back to the WebSocket, page back, insert, `Stop` |
| spot order book | `internal/scraper/spotorderbook` | the WebSocket under a mutex, the book kept for the current bucket | dial, read, insert the book of the last bucket, reconnect, `Stop` |
| pollers | `internal/scraper/fundingrate` (forward), `futuresorderbook` | the ticker | a REST request and an insert per symbol and tick |
| reverse runs | `reverse()` of both K-line collectors, `backfillSymbol` of `fundingrate` | `currentMs` | page a window from its start to its end, insert, end |
| migrations | `internal/storage/timescale.go`, `cmd/ensure-scraper-db`, `ensureDatabase` of the backfill | the database, `schema_migrations`, one advisory lock per database | create the database; run the missing files under the lock |
| registry, configuration, logging | `internal/exchange`, `internal/config`, `internal/logger` | none that changes | pure or output only |
| planner and runner | `internal/scraper/common` | | dead code: no program imports the package |
| backfill command | `cmd/backfill` | none | one backfill request |

How they interact:

- The live runtime's goroutine lists the streams, and under `r.mu` compares them with
  the handles. It starts one goroutine per collector, which calls back into the
  runtime for every stored bar (`recordStored`) and when it ends
  (`runCollector`). What is reported to the control plane is computed under
  the lock and sent after it is released.
- The historical runtime's goroutine starts one goroutine per request, which
  verifies, backfills, reports segments, verifies again and reports the result.
- Collectors write through the router: lease (if the process has a lease manager),
  store, table, rows. A backfill opens a store of its own for each year of its window,
  writes to it without a lease, and closes it. Every insert is
  `ON CONFLICT (time, symbol) DO NOTHING`: the first row wins.
- Live and historical writers share the tables, and several processes share the
  databases. Leases keep apart those writers that ask for one, and no others.
- `main` starts every collector in a goroutine of its own, waits for a signal (also when
  all collectors of a reverse run are over), cancels the common context, calls `Stop()` on
  one after the other, waits for the goroutines within a timeout, and only then do its
  deferred calls close the router.
- A year database is created by a backfill or by `ensure-scraper-db`, and migrated by
  these two and by the first row that a scraper routes to it; all serialize on one
  advisory lock.

What makes each of them correct:

- *Live runtime*: at most one collector ingests a stream; what ingests can be
  stopped; nothing is stopped twice; an unwanted stream keeps its collector for a
  whole grace period; the control plane ends up knowing the truth.
- *Historical runtime*: at most one worker per request, which can be cancelled; ready
  means stored, but for what rounding down forgives; every listed request is served in
  the end.
- *Collectors*: no gap behind the cursor; only final rows; published at most once, in
  order, after they are stored.
- *Open interest*: what was met is stored unless its insert failed; the reverse mode
  leaves no hole in its window; it can be stopped wherever it is.
- *Backfill*: segments claim only what is stored; no bar is skipped at the end of a
  page or of a year; verification does not pass with bars missing.
- *Router and store*: an acknowledged insert is stored, whole; one open store per
  year; writers of two processes that both hold a lease do not overlap.
- *Reverse runs*: a bar that was passed over is missing for a known reason; they end.
- *Order books*: each bucket in which a book was read has its row, unless for a known
  reason, and rows are in the order in which the exchange sent the books.
- *Migrations*: each file is run once, in order, and recorded with its effect; an opened
  store is migrated; the lock is never lost.
- *Process*: a signal ends it without the help of the timeout; stores are closed last.

## 2. Hard behaviours

`PROJECT.json` lists the hazards, each at the line where it bites. The families:

- *State read before a lock, a request or a clock reading and used after it*:
  `runCollector` reads `ctx.Err()` before it takes the lock; `untrack` deletes by
  request id whoever's entry it is; the futures collector judges rows by a clock
  read after they were fetched, the spot collector's catch-up by one read before.
- *Late answers*: reports overtake each other; a cancelled worker's report can still be
  applied; an old collector's exit arrives after the stream was unlisted,
  listed again and given a new collector with the same version number.
- *Partial failure*: inserts that stored some of a batch, batches that span two
  years, reports whose reply is lost, and the retry of each.
- *Boundaries*: pages cut at the exchange's limit, at a year's end, at the last
  millisecond of a window; counts rounded down.
- *Shutdown*: at any point of a pass, a dial, a drain or an opening of a store; a `Stop()`
  that needs a mutex held during a dial, and `Stop()`s that wait for each other.
- *Several processes on one database*: `CREATE DATABASE` at once, two forms of one
  advisory lock, a client that dies while it holds it, releases with different files.

Two hazards have no property: the Kafka producer's own retries
(`internal/marketdata/publisher.go:37`), which happen inside a library, and the bar that the
futures collector's reverse mode always skips (`futureskline/kline.go:267`), which
`HolesAreExplained` lists among the reasons for a hole. Some properties exempt a part of
a hazard that the code does fall for; the hazard's note says which.

## 3. The modules

Variables carry the code's names where it has them; each is commented where it is
declared. A call to a remote party is one action for each outcome: done, failed, and
failed after it took effect. A critical section of a mutex is one action.

**StreamLifecycle** is the abstract specification of one live stream: which
owner it has, which state it is in, whether its drain was announced. An owner is
given up after an announced drain that was not revoked, by its own failure, or
when the stream is forgotten.

**StreamRuntime** is `runtime.go`. `pc["run"]` is the goroutine of `Run`,
`pc["stop"]` the caller of `Stop()`, `col` the collector goroutines. A pass is
`ListStreams`, one `ReconcileStream(s)` per listed stream (`KeepCollector`,
`StartCollector`, `FactoryFails`, `AlreadyStopped`, `DrainStream`, `StopDrained`: the
returns of `reconcileStream`), the report of each, and `StopMissing`. `halts` holds
the collectors a thread is about to cancel and stop outside the lock.
A collector stores (`BarStored`), tells the runtime (`RecordStored`), returns
(`RunReturns`, `RunBreaks`), reads its context (`CheckContext`) and only then takes the
lock (`ExitUnexpectedly`). Time enters only through `drain`, the time left to
`drainDeadline`, which each list lessens.

**HistoryRuntime** is `history_runtime.go`: the same two threads, `inFlight`, and one
`worker` per goroutine of `runRequest`, which walks through verify, report, backfill,
segments, report, verify, report and the deferred `untrack`. Each call remembers
whether it began under a live context. The backfill inside is coarse: pages that
extend a stored prefix of the window. Verification is what the code does: the rows are
counted, there must be one, and there must be as many as `Expected`, the quotient that is
rounded down, which is one less than the bars of a window that is not a whole number of
them (`Ragged`).

**LiveIngest** is what either live collector promises its readers: only closed bars are
stored, none is forgotten, and each is published at most once, in order, after
it is stored.

**FuturesKline** and **SpotKline** are `forward()` of the two collectors, one action per
step between two points where something else can happen, with `Stop()`, crash and
restart. Bars are numbered in the order they close, so `lastCloseTime` and
`forwardResumeTimeMs` are the `cursor`. Each row in the store is final or partial.
In SpotKline, `excused` collects the bars that the code may skip for a reason.

**Backfill** is `klines.go` and `coverage_segments.go` over a small time line of ticks: the
pure operators `SplitByYear`, `FilterKlinesForWindow`, `BuildCoverageSegments`,
`AppendCoverageSegments`, `ExpectedBarCount`, and the loop that uses them, beside a
live collector that inserts into the same tables: the closed bar's row (`LiveInsert`), or, as
the futures collector may, the one it had before it closed (`HastyInsert`). The code's list
of segments is in the order of their starts, so the model keeps the set of them. The loop of
`BuildCoverageSegments` is stated by what it cuts the sorted rows into, the maximal runs
of consecutive rows of one year (`Runs`); the one of `appendCoverageSegments` by the one
merge it can make, of the last segment built with one that begins where it ends
(`Merges`), as two of a page's own segments never meet within a year. `phase` is where
`RunKlineRequest` is, `begun` is history. Its names are its own (`BackfillSpec`,
`BackfillNext`, `Faults`), so that HistoryProofs can extend it beside HistoryRuntime.

**WriteRouter** is `write_router.go`, `writer_lease.go`'s use of leases and
`optimisticInsertWithLazyCreate`: writers (goroutines) of several instances
(processes), the map of stores, the store handles, the table mutexes, the leases. `setup`
says which processes have a lease manager and which writers are backfills. A routed
writer acquires a lease (`AcquireLease`) or goes on without one (`GoUnleased`), looks its
store up or opens and registers it; a backfill opens its own (`OpenOwn`) and closes it
(`CloseOwn`). The store's insert is the same for both.

**OpenInterest** is `openinterest.go`, both directions: `forward()` with the poll of
`pollAllHTTP` and the WebSocket of `runWS`, `reverse()` with the pages of
`backfillSymbol`, `lastSeen`, and `Stop()` in the two steps in which it takes effect.
`failed` is history: the items whose insert failed, which `lastSeen` keeps from being
tried again. An item stands for its key: symbol and time.

**Migrations** is `NewTimescaleDB`'s way to a migrated database, in a routed store
(`Stores`: opened by a row, given up after ten seconds) and in a backfill (`Backfills`,
which also create the database), and `ensure-scraper-db` (`Tools`). The first two lock,
run all files and commit in one transaction; the tool locks its session and commits
file by file. `ledger` is `schema_migrations`, `schema` counts how often each file took
effect, `tx` is what an open transaction has run. A client that is gone may leave the
lock with a `Ghost`, its server session, until the server notices. `FilesOf`
gives processes of different releases different numbers of files.

**ReverseRun** is one paged copy of the past: `reverse()` of the spot and of the futures
collector, and `backfillSymbol` of the funding collector for one symbol, told apart by
`kind` where they differ: the futures collector's fetch adds a millisecond to the
cursor and asks for everything up to now; the funding collector inserts row by row,
goes on after a failed insert and ends at a failed call. `excused` collects the bars that
may be missing, at the step that loses them.

**SpotOrderBook** is `spotorderbook/orderbook.go`: time is counted in its buckets of half a
second, a book is known by the bucket in which it was sent, and is filed under
the one in which it is read.

**Process** is `cmd/scraper/main.go` with one collector of each kind: it composes ReverseRun
in reverse mode, and SpotOrderBook with two pollers in forward mode: `futuresorderbook`, which
has one symbol, and `forward()` of `fundingrate`, which pauses between the symbols it has
(`SymbolsOf`). `Configured` says which of the pollers a configuration may name. ReverseRun
and SpotOrderBook are instantiated with the process's variables; `Signal` is the `Cancel` of
both, `StopBook` the two steps of the order book's `Stop()`. The pollers' rows are left out: what counts is that one can
be in the middle of an insert whatever `main()` does. That a call or an insert of a poller
fails makes no difference to it, and costs no disturbance.

`MC*` modules hold listings, releases, instances and symmetry sets for TLC. `*Proofs` modules
hold the theorems. Definitions commented *Mutant* are plausible mistakes in one
operation, and not part of any specification; PROJECT.json pairs each with the
property that detects it.

## 4. The runs

| Run | Question | Bounds | States |
|---|---|---|---|
| `stream_runtime` | who may ingest, who stops whom; does it implement StreamLifecycle; do runtime and control plane converge, does `Stop()` end all | 1 stream, pool of 2 collectors, grace 2, 3 disturbances, listings running / unwanted / absent | 0.28 M |
| `history_runtime` | who works on a request, is ready stored, is every request served, does `Stop()` end all | 1 request with a ragged window, 1 that cannot be served, 3 workers, 3 bars, 2 disturbances | 0.15 M |
| `futures_kline` | no gap, LiveIngest, does it catch up | 5 bars, 2 rows per answer, 3 disturbances | 0.35 M |
| `spot_kline` | only final rows, which gaps, LiveIngest, does `Stop()` end it | 6 bars, 2 rows per answer, 2 disturbances | 0.77 M |
| `backfill` | segments, completeness, readiness, finality | every window in 2 years of 3 bars of 2 ticks, 2 rows per answer, 1 disturbance | 5.5 M |
| `write_router` | stored when acknowledged, one store, no leak, tables, who writes without a lease | 2 goroutines of one process and 1 of another, all under leases; 1 and 1, the other without a lease manager, or a backfill; 2 years, 8 stores, 1 disturbance | 5.5 M |
| `open_interest` | is what was met handled, does a reverse run leave holes, does `Stop()` end it | 2 symbols of 3 items, windows at every tick, 2 rows per page, 3 disturbances | 0.57 M |
| `migrations` | what is the schema, what may an opened store count on, does everyone end | a scraper that lacks the last of 2 files, one of this release, a backfill, the tool; 2 disturbances | 91 k |
| `process` | what do reverse runs miss, which books are stored, when are the stores closed, does a signal end it | windows over 3 bars and one open, 2 rows per page; 3 buckets, 1 book on its way; either poller, 2 symbols; 2 disturbances | 0.65 M |

The remaining runs each end in a counterexample; section 6 describes them.

What the properties say, in short (each is stated in full above its definition):

- `stream_runtime`: `AtMostOneIngesting`, `NoOrphan` (what ingests is in its handle or
  about to be cancelled), `StopAtMostOnce` (a second `Stop` may close a closed
  channel), `GateFollowsListing`, `DrainedOnlyAfterGrace`, `ImplementsLifecycle` (late
  bars and exits of an old collector do not corrupt the state, among others),
  `WantedRuns`, `UnwantedStops`, `StopEndsEverything`.
- `history_runtime`: `WorkingIsTracked` (which implies `OneWorker`), `ReadyIsStored` (all
  bars of the window, or all but one if it is ragged), `ListedIsServed`, `StopEndsWorkers`.
- `futures_kline`: `NoGapBehind`, `KeepsPromise`, `ClosedIsStored`.
- `spot_kline`: `StoredIsFinal`, `GapsAreExplained` (a missing bar's insert failed, or it
  closed between the last catch-up's clock reading and the end of the dial),
  `KeepsPromise`, `StopEnds`.
- `backfill`: `SegmentsAreTrue`, `BackfillIsComplete`, `ReadyMeansStored`,
  `PastWindowStaysFinal` (the backfill's own rows; a live collector's hasty ones are finding 3).
- `write_router`: `AckedIsStored`, `StoresAreKept` (`OneStore`: writers of a process use the
  registered store, which is open; `OpenIsHeld`: an open store is registered, or its
  writer will register or close it), `OverlapIsUnleased` (of two processes that insert into
  one year at a time, one has no lease: lapsed, or never asked for).
- `open_interest`: `SeenIsHandled` (an item marked as met is stored, in hand, or its
  insert failed), `HistoryIsCovered` (a reverse run that ends by itself leaves no hole in
  its window and stores nothing outside), `StopEnds`.
- `migrations`: `SchemaIsAPrefix` (each of the first files ran once and is recorded, no
  other), `ReadyIsMigrated`, `EveryoneEnds`.
- `process`: `HolesAreExplained` (a bar that a reverse run is done with is stored, or missing
  because it was open, because of the futures fetch's millisecond, or, in a funding run,
  because of a failure or a row that cannot be parsed), `BooksInOrder`, `BooksAreKept` (a
  bucket in which a book was read has its row, or its insert failed, or the socket was
  lost), `StoresCloseLast`, `SignalEnds`, `ReverseEnds`.

The bounds, and why they are enough:

- `Budget` (`Faults` in Backfill) counts *disturbances*: a listing that changes, a call that
  fails under a live context, a socket that breaks, `Stop()`, a crash, a lease that lapses. Each of the
  disagreements of section 6 needs at most as many as its run allows. What
  happens without a disturbance (time, bars, passes, in StreamRuntime failed lists
  and reports, in Process a poller's failures) is not counted, so failures of
  those kinds repeat without limit.
  `history_runtime` was also run with three.
- *One stream* is enough for StreamRuntime because handles of two streams share only
  the order of a pass; the proofs of section 7 cover any number of streams.
- *Two collectors* are an old one that is ending and its successor. A third lives only
  when an overtaken exit lets it in, finding 1, whose run has a pool of three; the proofs hold
  for any pool. A member is used again once nothing refers to it; of those that are
  free `NextUnused` takes a fixed one. They have no identity but what refers to them,
  so the choice decides nothing. It stands in the place of a symmetry set, which TLC
  cannot use together with liveness properties.
- *Two listings*, running with live delivery and neither, change all that the runtime reads
  of one: whether the stream should run, and whether it is delivered live. The run of finding 1 also has
  a stream that is kept by a lease and not delivered.
- *Three disturbances* in `stream_runtime` let a stream be unwanted, wanted again within its
  grace and unwanted again, or unlisted, listed and stopped.
- *Bars*: a poll that starts behind two full pages and sees another bar close needs five;
  the catch-up of the spot collector, which must have handled one bar first, six.
- *Two years of three bars with pages of two* put a page's end before, at and after a
  year's end; windows start and end at every tick, between bars too.
- *Two symbols of three items with pages of two* put a window's ends on and between items,
  and end a page inside, at and before the window's start. It takes two failed calls to
  fall back to the WebSocket, which leaves one disturbance for what may happen there.
- *Three writers*: two that race within a process and one kept away by the lease. In the other
  two setups the interesting meeting is between two processes, so there is one writer in each.
  Within one disturbance no writer that opens a store finds all eight used.
- *Three bars with one request whose window is ragged*: two of three are ready, one of three is
  not. The run of finding 2 has a whole window, so that ready means every bar there.
- *Two files and two releases* let one process skip what another applied, stop before its
  last file, and be broken between two; two disturbances let the lock be left behind
  twice, or a process restart after a failure.
- *Three bars, one more open, pages of two*: windows end inside and after a page, on a bar and
  between two, and in the future; funding runs have every set of rows that cannot be
  parsed. *Three buckets* let a bucket be skipped between two books, one book on its way
  lets it be read in a later bucket than its own. *Two symbols* give the funding poller a pause.
  `Configured` has each poller alone. The two do not touch each other: `main()` waits
  for both. A run with both at once passes as well (1.0 M states), but takes too long to
  be kept; the theorems hold for any `Configured`.

Deadlock is checked in every run. Where a model may stop it does so in an explicit step:
`Terminated` when all goroutines are over, `Quiet` when the bars of the bound are used up.

## 5. Fairness

- *Goroutines are scheduled and their calls end.* RPCs, dials and HTTP requests have
  timeouts; the database is assumed to answer or fail. Weak fairness of each
  goroutine's step.
- *Go's `select` picks at random among ready cases*: a cancelled context beside a
  ticker that is always due is noticed in the end. Strong fairness of `RunExits`,
  `RunSeesDone` and `SeesDone`.
- *The control plane is not unreachable for ever, the factory not broken for ever*: strong
  fairness of `ListStreams`, `ReportDelivered` and `StartCollector`. Only convergence
  (`WantedRuns`, `UnwantedStops`) needs it.
- *Bars keep coming* (`BarsKeepComing`): a stream is reported as running by the bar it
  stores, so `WantedRuns` needs bars. `StopEndsEverything` holds because every wait ends
  at a cancelled context.
- *Migrations*: every process takes its steps, a row or a request comes again after a failure
  (`Retry`), and the server notices a client that is gone (TCP keepalive, `GhostLeaves`).
  The lock is granted to any of those who wait, in no fair order: who had it is done.
- *Process*: weak fairness of each collector's steps, each poller's and `main()`'s; strong
  fairness of each poller's look at its context, as above. None of `WaitTimesOut`, nor of
  `RecvCancelled`: `SignalEnds` holds without them.
- No fairness is assumed of disturbances, of `Stop()`, or of collectors failing.

## 6. Disagreements between the code and what is said of it

Each is the counterexample of one run. All three are listed with their quotations in
`PROJECT.json`.

1. `stream_stopped_ingesting` / `ReportedStoppedIsStopped` (`runtime.go:382`). Versions start
   at 1 again in the handle of a stream that was unlisted and listed again. An old
   collector that broke on its own and had read its context before it was cancelled
   takes the new collector out of the new handle; that one ingests on, beyond the reach
   of every later pass, while the stream is reported stopped.
2. `history_ready_unreported` / `ReadyIsReported` (`history_runtime.go:175`). When reporting
   segments fails, or a later page does, the retry finds the window stored and reports
   ready; the segments are never reported.
3. `futures_published_partial` / `PublishedIsFinal` (`futureskline/kline.go:122`). The clock is
   read after the exchange answered: a bar that closes in between is stored and
   published with the values it had while open, for good.

Properties that hold are stated beside these facts, not around them.
`AtMostOneIngesting`, `NoOrphan`, `GateFollowsListing` and the refinement exempt streams
that were unlisted and listed again (`past`), as finding 1 is exactly their violation;
`WorkingIsTracked` and `OneWorker` have the same exemption, because `untrack` deletes
whatever entry the request has. `GapsAreExplained` is what is left of "no gap" in the
spot collector, and LiveIngest speaks of which bars are stored, not of their values,
because of finding 3.

Three more places where the documentation says more than the code does. No run of their own
shows them; the properties that hold name the exception openly:

- `src/README.md:172` says that a historical request becomes ready only when its window can be
  read from the store. Coverage is a count of rows against a quotient that is rounded down
  (`klines.go:312`, `454`): a window that is not a whole number of bars is reported
  ready with one bar missing. `ReadyIsStored` and `ReadyMeansStored` state what the code
  guarantees, all bars but that one.
- `src/README.md:195` says that live requests are written under the protection of writer
  leases. A router without a lease manager, as in a process with a static configuration,
  takes none (`write_router.go:227-230`), and a backfill writes to the same tables
  through a store of its own, without one (`klines.go:67`, `193`).
  `OverlapIsUnleased` says what is left: two writers that both hold a lease exclude each other.
- `src/README.md:145` and `166` say that finalized bars are always written to the store. The
  spot collector leaves out those that `GapsAreExplained` excuses.

Other facts worth knowing, which properties state as exemptions or the model has as steps:

- A backfill of a window that reaches into the open bar stores that bar as it is, and the
  live collector's final row is then dropped (`klines.go:191`); `PastWindowStaysFinal` says
  that a window which was past is safe from this.
- The spot collector's resume cursor moves past a bar whose insert failed; nothing ever
  stores it (`spotkline/kline.go:292`, `excused` of `GapsAreExplained`).
- The futures collector's reverse mode skips the bar that opens exactly at the start of its
  window or of a page, as `fetch` adds to an open time the millisecond that is meant for a
  close time (`futureskline/kline.go:267`); its requests have no end, so the last page
  may reach past the window.
- The funding collector's reverse mode passes over rows whose insert failed and gives a
  symbol up at a failed call or at a page without a row that can be parsed
  (`fundingrate/funding.go:163`).
- The spot order book keeps the first book of a bucket, not the latest, and loses the one
  it keeps when its socket is lost.
- `ensure-scraper-db` says that running it beside the scraper is safe; that its own
  `CREATE DATABASE` loses against another's it reports as a failure (`main.go:112`), and a
  backfill tolerates this only in one wording (`klines.go:355`). It also
  says that `cmd/scraper` migrates at boot (`main.go:4-7`); routed stores do, at their first row.
- A reverse-mode process does not end when its collectors have: it waits for a signal.
- The shutdown timeout bounds the wait for the goroutines, not the `Stop()` calls before it.

And in the modules of the control plane and the collectors: a pass that finds a draining stream wanted again clears the
deadline, but the stream goes on being reported as draining until its next stored bar
(`runtime.go:253`); when REST answers but every insert of a poll fails, the
open-interest collector takes REST for broken and stays on the WebSocket until that
breaks (`openinterest.go:209`), and an item whose insert failed once is never tried
again; weekly and monthly intervals pass validation and then fail in
`BuildCoverageSegments` after a page was inserted; `1m` and `1M` share a table, as names
are lower-cased; `ExpectedBarCount` rounds down, so a window whose ends lie between bars
may be ready with one bar missing per year, or never be ready at all.

## 7. What is proved

All of it holds for every value of the constants that satisfies the `ASSUME` of the
module, and rests on nothing else. The prover knows integers, sets, functions and
records; no property of the environment is assumed.

**StreamRuntimeProofs**: `TypeCorrect`, `StoppedAtMostOnce`, `NoDeadCollectors`, `NoOrphans`,
`OneIngests`, `GateFollows`, `DrainTakesGrace`, `LifecycleKept`. The argument is in layers, each an inductive invariant on top of the last.

- `TInv`: `TypeOK`, with the ranges of `out` and `col` that later steps need.
- `OneReference`: a collector is referred to from one place only, be it a handle or one
  thread's `halts`. With "whatever is referred to has not been stopped" it gives
  `StopAtMostOnce`: taking a collector over for stopping removes it from where it was.
- `PhaseInv`: only under a cancelled context does anyone shut down; until then what is
  being stopped is stopped before the reconciler does anything else.
- `ListingInv` relates `past` to the listing, the answer the pass works on and the handle:
  a stream that has a handle and was never unlisted is in the answer, so a pass cannot
  drop its handle. Without it the next layer would not be inductive.
- `VersionInv`: a collector whose goroutine has not got past `runCollector`'s critical section
  is the handle's own, or older than the handle's version, or its stream is gone and not
  listed again. This is why comparing versions is enough in `runCollector` and
  `recordStored`, and it is what the relisting of finding 1 breaks.
- `HaltInv`: a stream whose collector is being stopped has none in its handle yet, and no
  second one is being stopped.
- `LInv` is their conjunction with `NoDeadCollectorKept` and `NoOrphan`.
  `AtMostOneIngesting` follows: of two collectors that ingest one stream each would be in
  the handle or about to be stopped, and `OneReference` and `HaltInv` exclude every
  combination.
- `GateInv`: until a shutdown, the gate of a handle's collector is the one its listing asks
  for. `NoOrphan` carries it to whatever ingests, which gives `GateFollowsListing`.
- `DrainInv`: the time left to a stream's deadline and the time for which lists have not
  wanted it add up to a whole grace period, unless the pass in flight is about to clear
  the deadline because it found the stream wanted. When the deadline is due the second is
  the whole of it: `DrainedOnlyAfterGrace`.
- `LifecycleKept` shows that each step is one of StreamLifecycle's, or none, of the one stream
  it is about. The hard steps are those of goroutines that act late, a bar recorded or an
  exit taken after the handle went to somebody else. They need `OwnedInv` (a handle with
  a collector is in a state with an owner), `UniqueInv` (no two goroutines that may yet
  touch their handle carry one version of a stream) and `BarInv` (a bar that counts for a
  handle finds a collector there, also when a shutdown emptied the handle and the pass in flight
  made it anew; and a drain that is due is not a younger collector's). A stream that was
  unlisted and listed again is mapped to one that the lifecycle has forgotten, as
  finding 1 is a run that no mapping could follow.

**HistoryProofs**, of HistoryRuntime: `TypeCorrect`, `WorkingTracked`, `OneWorkerEach`, `NoEntryLeft`,
`ReadyStored`. `WInv` joins the types with `ListingInv` (what `past` says of listing and
pass), `CancelledInv` (a worker is cancelled alone only once its request was unlisted, and
until it is listed again no other is started for it), `WorkingIsTracked` and
`NoStaleEntry`; each is needed to show another. `ReadyInv` is separate: a worker that
says ready found the window stored, but for the bar that rounding down forgives, and what
is stored stays (`StoredGrows`), so a report may be applied as late as it likes.

The same module, of Backfill: `BackfillTypes`, `SegmentsTrue`, `BackfillComplete`, `ReadyCounted`,
`PastStaysFinal`. Lemmas say of each operator what it is for: that the parts of a window
are consecutive and cover it, each in its year (`PartsOfWindow`); that no bar goes on
past the end of its year (`PartEndsWithBar`); which rows an answer cut at the limit leaves out
(`FirstOnes`); that the segments of a page hold exactly its rows, in order and apart
(`SegmentsBuilt`), and that this survives the merge with what was built before
(`SegmentsAppended`); that a window has at most as many bars as its length allows, plus one
when it ends between bars (`BarsOfWindow`, `BarsExpected`). These rest on least and
largest elements of sets of numbers, by well-founded induction, and on cardinalities.
`BInv` joins the types with

- `PartInv`: the part in hand is one of the window's, and the cursor lies in it;
- `PageInv`: the page in hand begins at the cursor and leaves out no listed bar that was closed
  when the request began, up to its last row;
- `SegmentInv`: the segments are in order and apart, end at or before the cursor, and hold
  stored bars of the window. Without "before the cursor" a page could repeat a bar;
- `CompleteInv`: every listed bar of the window that was closed at the beginning and opens
  before the cursor is in a segment.

`BackfillComplete` is `CompleteInv` at the window's end. `PastStaysFinal` follows from `PageInv`:
a page fetched after the window was past has only rows that had closed, but for the
bar that opens at the window's end, and the filter drops that one. It holds of windows
that end between bars too.

**SpotKlineProofs**: `TypeCorrect`, `FinalStored`, `GapsExplained`, `PromiseKept`. The order
that makes the spot collector right is one chain: what was sent or stored, the cursor,
the bar in hand, the messages on their way, what has closed. `QueueInv` says that the
chain is in order, `FollowInv` that it has no hole but the excused bars, starting from
wherever the collector is in it; `GapsAreExplained` is the part behind the cursor.

**OpenInterestProofs**: `TypeCorrect`, `SeenHandled`, `HistoryCovered`. `HistoryInv` says which
items a reverse run is done with (symbols before the one in hand; of that one, what is
listed after the cursor) and that each is stored, in hand or failed. A page takes the
newest items before the cursor, so moving the cursor to one tick before its oldest
passes over nothing; that there is an oldest, and a newest, comes from the least element
of a set of numbers (`SmallestOf`), and what a page cuts off from cardinalities.

**WriteRouterProofs**: `TypeCorrect`, `AckedStored`, `StoresKept`, `OverlapUnleased`. `AckInv`
places every year of a batch: to do, in hand or in the table. `RegisteredInv` (a
registered store is open, and registered once), `OwnStoreInv` (a store that is about to be
registered, or a backfill's, is open, and nobody else's) and `InsertInv` (a routed writer that
inserts uses the registered one) support each other across `Register`'s second check and
`Close()`; `RoleInv` says which steps a routed writer and a backfill can be at.
`LeaseInv` ties a writer that has acquired a lease, and not lost it since, to the year's
holder. It says nothing of the others, so `OverlapUnleased` is as much as can be proved.

**MigrationsProofs**: `TypeCorrect`, `SchemaPrefix`, `ReadyMigrated`. `WorkInv`: who is at work
holds the lock, and ledger and open transaction together are exactly the files it went
through; so a commit extends the prefix, whoever wrote the rest of it.

**ProcessProofs**: `TypeCorrect`, `HolesExplained`, `BooksOrdered`, `BooksKept`, `StoresLast`.
Each collector's invariant is shown of its own module's steps first; the composition then
has only to say whose step each step of the process is.

**FuturesKlineProofs**: `TypeCorrect`, `NoGaps`, `PromiseKept`. `IInv` joins `BatchInv` (what is
in hand begins at the cursor and, once filtered, has closed), `PublishInv` (the bar
to publish is the only one in hand and stored before it is sent) and `PastInv` (what is
stored, sent or behind the cursor has closed, and the cursor is past all that was sent).
`PastInv` is why a restarted collector, whose cursor is lost, cannot send an old bar:
it publishes nothing of its first batch, and that batch ends no earlier than what was
sent before. `PromiseKept` maps each step to one of LiveIngest, or to none, and
gives `KeepsPromise`.

## 8. Abstractions

- Bars are numbers and a row is final or partial; prices, symbols, formats and the names
  of databases and tables are left out. An interval is a whole number of ticks and a
  year a whole number of bars, which holds of all intervals but weeks and months.
- The local clock and the exchange's agree. The collectors' protections against clock
  skew are not examined.
- A send to Kafka puts the bar once into `published`, or not; the producer library's own
  retries may put it twice into the topic.
- Two items of open interest are at least two ticks apart, as the cursor of the reverse
  mode moves to one tick before the oldest; the history has a row every four hours.
- A migration file is one step that takes effect with its record, or not at all; both run in
  one transaction. The statements and the version table itself are left out, and so
  are files that the tool skips because they are blank.
- A batch of funding rates is one page; that a rate's row may be unparsable is kept
  (`blank`). Order books without bids or asks, or that cannot be parsed, are left out: they
  are dropped before anything else happens.
- Inserts store a subset of the rows when they fail: rows go one by one, and years in
  map order.
- In WriteRouter one year stands for domain, store and table, and a row for a whole
  group of a batch. The migration a store runs when it is opened is part of `Open`, and
  Migrations' subject.
- The control plane lists what it wants: any listing may follow any other. A ready
  historical request is no longer listed, one in error may be, as the list without terminal requests
  (`ListHistoricalRequests(ctx, false)`) and the retry by a later pass imply. Its leases are granted to one
  instance at a time.
- In StreamRuntime a stream that is no longer listed is stopped at once, without grace, as
  in `stopMissingStreams`.
- One collector at a time is modelled in FuturesKline and SpotKline. StreamRuntime is what
  justifies it, up to finding 1.

## 9. What is only model-checked, and what is not modelled

Only checked by TLC: the liveness properties (`WantedRuns`, `UnwantedStops`,
`StopEndsEverything`, `ListedIsServed`, `StopEndsWorkers`, `ClosedIsStored`, `StopEnds` of two
collectors, `EveryoneEnds`, `SignalEnds`, `ReverseEnds`), which are out of the prover's reach, as is
`ENABLED`. The three runs that end in a counterexample have nothing to prove.

The loops of `BuildCoverageSegments` and `appendCoverageSegments` are modelled by what they
compute (section 3): that a loop over a sequence computes it for every input needs
induction over sequences, which the prover cannot instantiate.

Not modelled:

- the publisher's payload and retries and the gRPC mapping: conversions, and a library;
- registry, configuration and logging: pure, or output only; the OKX adapter is a stub;
- `internal/scraper/common`: dead code;
- the read side of the store (`QueryFundingRatesByRange`) and the inline schema used when no
  migration directory is configured, which every program configures;
- parsing of rows and books, and the reading of environment variables;
- a store whose `Ping` fails after `Open` leaks its pool: one line, visible by reading.

## 10. The plan

Done, in this order: StreamLifecycle and StreamRuntime with their proofs;
HistoryRuntime with its proofs; LiveIngest, FuturesKline and SpotKline; Backfill;
WriteRouter; OpenInterest; Migrations; ReverseRun, SpotOrderBook and Process; the proofs of all
of these, the refinement of StreamLifecycle and Backfill last.

Left, most important first:

1. A run with two historical workers that overlap in the detailed Backfill, to relate it
   to the coarse backfill of HistoryRuntime by refinement.
2. Two collectors of one stream beside each other in FuturesKline, as finding 1 lets them
   run: what the store and Kafka then see.

Where a new property says more than an old one, it takes its place: each run should go on
asking one question.
