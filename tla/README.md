# A TLA+ model of the strategy worker runtime

This directory holds TLA+ modules that model the *strategy worker runtime* of this
repository (`runtime/`): the process that runs one trading strategy in BACKTEST,
PAPER or LIVE mode under the control of a strategy-runtime-manager (SRM). It holds
the TLC configurations that check the modules on small instances and TLAPS proofs
of theorems that hold for every value of the constants.

Paths below are relative to the repository; line numbers of every definition are in
`PROJECT.json` under `map`.

## 1. The system

One process, one strategy. `main()` reads the settings, starts the control servers
(HTTP stop endpoint and gRPC `StopWorker`), installs the SIGTERM handler and calls
`WorkerApp.run`, which starts the worker through `LifecycleService` and then polls
its phase every half second until it may leave. Around the main thread run:

| thread | started by | daemon | does |
|---|---|---|---|
| main | the interpreter | - | `start()`, polling loop, sometimes `stop()`; also executes the SIGTERM handler |
| HTTP handlers | `stop_control_server.py` | yes | `request_http_stop` |
| gRPC pool | `grpc/server.py` | no (joined at exit) | `StopWorker`: request *and* `stop()`; replay pushes |
| `swr-cooperative-shutdown` | `CooperativeShutdownCoordinator` | **yes** | `stop()` after an HTTP request or SIGTERM |
| `swr-heartbeat` | `HeartbeatPeriodicJobs` | yes | posts READY / RUNNING to SRM |
| feed | `LifecycleService` | no | Redis stream reader (PAPER/LIVE) or historical driver (BACKTEST), calls the strategy |

They share the fields of `LifecycleService`. Only the acceptance of a stop request is
under a lock (`_stop_initiate_lock`); phase, flags and the strategy adapter are not.

### Inventory

| component | state | operations | hard behaviour | correct when |
|---|---|---|---|---|
| Lifecycle and shutdown (`application/`) | phase, started/complete/in-progress flags, accepted request, adapter, stop events | `start`, `run`, `stop`, rollback, `initiate_stop_from_request` | four entry points into `stop()`, stop during startup, calls that raise midway, daemon threads at exit | one accepted request, one shutdown, legal phases, orderly strategy stop, process ends |
| Status reports (`bootstrap/srm_env_status_report.py`, `transport/heartbeat.py`) | none; SRM holds the last status | bootstrap report, heartbeat, STOPPING, final report | lost POSTs, POSTs that raise after delivery, late heartbeats | one final report with the request's reason, nothing after it |
| Heartbeat thread (`runtime/heartbeat_periodic.py`) | thread, stop event | start, tick, stop | test and POST are not atomic; join with timeout | no heartbeat once the phase has moved |
| Manager signals (`integration/manager_gateway.py`, `events/`) | seen identities | journal, decide, send | remembered before sent | no success after a failure, nothing told that is not recorded |
| Market data feed (`integration/market_data_redis_feed.py`) | stream positions; in Redis the group's last id and pending entries | read, process, ack, reconnect | positions after reconnect, answers lost on their way, ack that fails, restart | no entry skipped or repeated, none acked unprocessed |
| Portfolio feed (`integration/portfolio_redis_feed.py`) | subscription, account snapshot | subscribe, receive, apply | Pub/Sub loss, snapshot read while it is written | a received balance is shown, never an older one than asked for |
| Historical driver (`lifecycle_service.py:1554`) | cursor, first-page flag | query, replay page, retry | empty pages, retries, completion | completed only when every bar was replayed |
| Replay ingress (`integration/replay_gateway.py`, `bootstrap/replay_*`) | simulated clock, counters | push, ingest tick | concurrent pushes | clock monotone, no tick lost |
| Events and strategy (`bootstrap/strategy_adapter.py`, `bootstrap/replay_sdk_bridge.py`) | SDK clock, data, indicators, time of the last event | dispatch, apply, advance, hook | steps that raise midway | a hook sees a world that contains its event |
| Order intents (`integration/oms_gateway.py`, `runtime/sdk_order_intent_submission.py`) | none | submit, journal twice | failure after delivery, journal that raises | dated by its event, answer journalled under its id |
| Runtime journal (`persistence/`) | sqlite tables, text file, one lock | row, then line | locked database, errors and crashes between the two, stale heartbeat | lines in the order of rows, lock released, STOPPED stays |
| Launch and bootstrap (`main.py`, `config/settings.py`, `bootstrap/`) | workspace on disk, attempt and instance rows | validate, fetch, extract, verify, import, validate, bind, roll back | failing stages, crashes, repeated attempts on the same disk and file | the code is this launch's, store and manager agree on the outcome |
| Observability, gRPC plumbing, utilities | - | pure conversions and output | - | not modelled |

The hazards of the code, each at its line with the properties that would catch it,
are listed in `PROJECT.json` under `hazards`.

## 2. Modules

| module | models |
|---|---|
| `RuntimeState` | phases, `ALLOWED_PHASE_TRANSITIONS`, `can_transition`, the normalisation of reason codes, the final status |
| `WorkerLifecycle` | the life of the process: `LifecycleService` and every thread that calls it |
| `ManagerView` | abstract specification: what SRM may rely on about one worker |
| `WorkerAndManager` | `WorkerLifecycle` with the refinement mapping to `ManagerView`; the module of the lifecycle runs |
| `WorkerLifecycle_proofs` | type correctness |
| `StopRequests_proofs` | one acceptance, one shutdown body |
| `Shutdown_proofs` | who stops with which reason and in which order, legal phases, the refinement of `ManagerView` |
| `BacktestReplay` | the feeding of a BACKTEST worker: historical driver, replay pushes, gateway, clock, stop |
| `ReplayWindow` | abstract specification: the bars a driver owes the strategy |
| `BacktestFeed` | `BacktestReplay` with the refinement mapping to `ReplayWindow`; the module of the replay runs |
| `BacktestReplay_proofs` | types, the refinement of `ReplayWindow`, completion, stopping |
| `LiveWorker` | what the Redis feeds share with the worker: flags, stop events, `stop()`'s two joins |
| `MarketDataFeed` | the stream reader: choice of streams, XREAD / XREADGROUP, acknowledgement, reconnection |
| `PortfolioFeed` | the Pub/Sub subscriber and the account snapshot |
| `LiveFeeds`, `LiveFeedsMC` | both feeds, the strategy that reads the account, stop, crash and restart; its instance |
| `LiveFeeds_proofs` | types, entries consecutive, once and acknowledged after handling, the age of the account |
| `LaunchInputs` | what a process is launched with and how it is judged: environment, context, launch specification, ports, mode policy, failure codes |
| `ArtifactBootstrap` | the artifact's way from its URI to the imported class, on a disk earlier launches have used |
| `BootstrapStore` | the rows of the SQLite file a launch writes |
| `Launch`, `LaunchMC` | `main()`, `start()`, rollback, signals, crash and relaunch over these three; its instance |
| `Launch_proofs` | types, the code, READY rows, failed starts, recorded before told |
| `RuntimeJournal` | lock, transaction, retries and text line of `RuntimeJournalSink` |
| `RuntimeJournal_proofs` | its invariant and the order of its lines |
| `OrderIntents` | an intent from the strategy's call to its second journal record |
| `StrategyEvents` | an event from the live dispatch through the SDK bridge to the hook |
| `Trading`, `TradingMC` | main, heartbeat and feed thread over these three, crash and restart; its instance |
| `Trading_proofs` | types, events, intents and rows, the refinement of `JournalSpec` |

### WorkerLifecycle and the code

`pc[t]` is the point of the code thread `t` is at; a label stands for one place where
another thread may run, so every step reads or writes shared state once or makes one
call that blocks. The fields of `LifecycleService` are variables of the same meaning:

| variable | code |
|---|---|
| `phase`, `started`, `complete`, `inProgress` | `_phase`, `_started`, `_shutdown_complete`, `_shutdown_in_progress` |
| `accepted`, `canonical`, `initLock` | `_stop_request_accepted`, `_stop_canonical_reason`, `_stop_initiate_lock` |
| `coopStarted` | `_shutdown_thread_started` of the coordinator |
| `adapter`, `deps` | `_strategy_adapter`, `_runtime_dependencies` are set |
| `replayDone` | `_backtest_replay_complete` |
| `feedStop`, `hbThread`, `hbStop` | the stop events and the heartbeat thread's field |
| `mainWhy`, `failure`, `reason`, `beat` | locals of the threads |
| `srm` | the last `runtime_status` SRM recorded (external) |
| `finals`, `terminated`, `acceptedBy`, `bodies`, `onStops` | history, for the properties |

`start()` is `Bootstrap` ... `MarkStarted`, the launch heartbeat `MainBeat` and
`StartPeriodicJobs`; `run()` goes on with `RunCheck`, `SetRunning` and `StartFeeds`.
`StartRaises` is the `except` of `start()`, `EnterFailed` ... `RollbackRaises` the
rollback, and `RunRaises` an exception after it. `stop()` is the action `StopBody(t)`
for any thread `t`: its test of the flags (`StopCheck`), the reason
(`StopResolveReason`), then blocking heartbeats, stopping and joining the feed and the
heartbeat thread, STOPPING, `on_stop`, closing the clients, the signal, the final phase,
the final report, `StopComplete`. `StopRaises` is any of its calls raising. `Initiate(r)`
is `initiate_stop_from_request` for requester `r`, the POST of STOPPING inside the lock
included, and what the caller does with its result or exception.
SIGTERM's handler is a requester that borrows the main thread: `Main` makes no step while
it is active. `ProcessExit` waits for gRPC handlers and the feed and kills the daemon threads.

In `WorkerLifecycle` left out: contents of messages and journals, log output, health and status queries (they
only read), the portfolio feed as a thread of its own (it is stopped and joined like the
market feed; the three joins of `stop()` are one), settings. The manager's URL is taken to be configured:
its status posts, `ManagerView` and the properties about final reports are of that configuration. By
default the module's connectivity settings blank it (`settings.py:26`, `66-68`, `87`); then nothing is
posted and a stop request raises (`lifecycle_service.py:535`). `Launch` has both. `LiveFeeds`, `Launch` and `Trading`
take up the parts that are single steps here.

### BacktestReplay and the code

The feeding of a BACKTEST worker, which `WorkerLifecycle` treats as single steps. `pc[f]` is
where a feeder is: the historical driver, or a pool thread with a push. `cursor`, `veryFirst`,
`page`, `bar` are the driver's locals, `batch`, `idx`, `lastEff` those of a push; `cur` is the
event it is ingesting and `seen` whether it has a strategy to give it to. `first`, `marked`,
`clock`, `lastTs`, `completers`, `bound`, `inProgress`, `feedStop` and `live` are
`_first_data_received`, the gateway's `_first_data_marked`, the simulated clock,
`_last_data_event_timestamp`, who set `_backtest_replay_complete`, `_strategy_adapter`,
`_shutdown_in_progress`, `_hds_feed_stop` and "phase is READY or RUNNING". `fed` and `late` are
history.

A bar is its number, a cursor the number of bars behind it. The service is external and only
assumed to answer with the bars that follow the cursor; it may fail, have nothing yet, give short
pages and announce more when there is nothing left. `Gateway(f)` is `ingest_replay_tick` with
the strategy's hook, split wherever another thread may run; `DriverThread` the paging loop
with each of its exits; `Push(p)` is `push_replay_context`; `Worker` the parts of `start()`,
`stop()` and the polling loop that touch the same fields. `ReplayWindow` is what the driver
promises the strategy, `BacktestFeed` maps one to the other.

Assumed: the join of the driver is long enough (a query is given up after 30 s, the join after
60 s, and hooks return); a stop does not overlap `start()` and `run()` (`WorkerLifecycle` has
that); every bar of one page has its own time.

### LiveFeeds and the code

`md` and `pf` are where the two threads are, `streams`, `glast` and `pel` what Redis keeps (entries, the
group's last delivered id, its pending entries), `pos` the positions of XREAD. `config` is one set of
settings, chosen in `Init`; `Subscribed` the stream keys that follow from it. A read is two steps, the call
(`ReadBegins`, where `$` is evaluated) and the answer; a lost answer may have moved the group
by all it carried, up to `Count` entries of each stream (`Delivers`, `ReadFails`). A response is handled field by field, without a look at the stop event, as in the code.
`Crash` starts a new process on what Redis kept. An update of the account is two writes and the
strategy's reading of it two reads, since `get_snapshot` hands out the live object. `born`, `base`,
`handled`, `before` and `lost` are history.

### Launch and the code

`job` is what a process was launched with (`LaunchInputs` lists its fields), `pc` its next step, `failure` the
exception it is failing with; `Other` is any exception that is not a `BootstrapFailure`. `disk` maps
each import root to the version of each file, `inst`, `rows` and `events` are the tables. The stages are
actions (`Fetch`, `Write` per file, `Verify`, `Load`, `ValidateSdk`), whose outcome is an operator of the
job. A post is answered, not delivered, or raises with or without having arrived; a transaction may
find the database locked. `EnterFailed`, `RollbackReport` and `RollbackSignal` are `_set_phase(FAILED)` and the
rollback; a process that waits in its polling loop afterwards is `"awaiting"`. `Relaunch` repeats the
attempt or begins the next one. Assumed: `ts_start` and `ts_end` come together; before the settings are
loaded the manager client is the no-op one, so those exits are silent. Heartbeats are not in `sent`.

The STARTING report and that of a failed context fetch go to the URL of the environment, every later
post (`Tell`) to the one in the settings. `job.module` says whether the module's connectivity
settings apply, as they do by default: they replace that URL by a blank one (`settings.py:87`), the client is
the no-op one, and the reports of RUNNING and STARTUP_FAILED are skipped (`ManagerConfigured`). Hence
`FailedStartIsKnown` distinguishes: with a URL the manager has heard of the failure, without one it has heard
STARTING and nothing else; the store says FAILED either way.

### Trading and the code

`main` is a place in `Program`, the steps of `__init__`, `start()`, `run()` and `stop()` that record something or
touch what another thread sees. Each record is a `call` on the journal: it waits for the lock, commits,
writes its line; `Continues` says what the thread does when the record is over or has raised.
`ev` and `at` are the event on its way to the strategy; `stamp`, `clock`, `data` and `values` what the
strategy and its orders read. `intent[t]` is the intent thread `t` is submitting, recorded by the gateway
and again by the submitter's callback. `call.after` and `intent.of` are history. Live mode only; the
journal is enabled. An exception of the event mapper (`strategy_adapter.py:160`) has no step of its own: the
error boundary turns it into a result with an error, and nothing was applied yet.


## 3. Runs

Every run finishes within three minutes. The coordinator pool has two threads so that
starting a second one would be seen. Two requests, mostly two requesters and SIGTERM,
are enough for every order in which a request can meet another one before, inside or
after the lock, and before or after its flags; a third adds no new pair. `coordinator` gives HTTP requests one text: its
reason differs from SIGTERM's, which is what telling the accepted reason from another takes. One Ctrl+C
reaches every label of the main thread. `any_time` and `backtest_stops`, the largest, treat the
coordinator's threads as symmetric; they check invariants only, so this is sound.

| run | situation | properties |
|---|---|---|
| `coordinator` | running PAPER worker, two HTTP stops and SIGTERM, lossy SRM, fair | one `stop()` body, the final report has the accepted reason, `on_stop` once and no event during or after it, legal phase edges, no heartbeat after the phase moved, refinement of `ManagerView`, the process ends or only the read of a quiet stream is left |
| `stop_worker` | two StopWorker calls, `start()` may fail anywhere, fair | SRM learns of a failed start; refinement *with* the liveness part: an accepted stop makes its final report |
| `any_time` | StopWorker and SIGTERM at any moment, every failure | types, at most one accepted request, only an accepted StopWorker and one coordinator thread get into `stop()` |
| `backtest` | BACKTEST, no requests, fair | completion is announced once, as COMPLETED, and ends the process |
| `backtest_stops` | BACKTEST with SIGTERM, Ctrl+C, raising calls, joins that time out | COMPLETED is never claimed for a job cut short |
| `historical_driver` | driver alone; failing queries, empty pages, one unusable bar, raising journal, stop anywhere; fair | completion means the whole window, no bar after `on_stop`, refinement of `ReplayWindow`, the job ends |
| `replay_pushes` | driver and one pushing thread, first page unusable, two pushes | types (the driver stays in its window), at most one late bar |

The replay runs have five bars in pages of two, so there is a first page, a full page and a
short one, one warm-up bar, and an unusable bar at the end of a page or a first page without
a usable bar. One pushing thread suffices: pushers meet each other at the same fields as
they meet the driver.

| run | situation | properties |
|---|---|---|
| `live_feeds` | group reader, plain reader from a fixed id, reader from `$` that blocks for ever with a portfolio feed, two configurations that read nothing; malformed and foreign entries, one fault, one restart, stop anywhere; fair | entries consecutive and once, none missed from a fixed id, acknowledged when and only when handled, balances shown and never older than asked for, the stop finishes |
| `launch` | some forty launches with at most one thing wrong, up to three processes, two attempts, one fault, crash anywhere | imported code is this launch's, READY rows belong to a succeeded attempt, nothing told before it is recorded, no success after a failure, a failed start is known |
| `trading` | three threads on one journal, two events, one order, one heartbeat, one fault, one crash; fair | hooks see their event, intents dated by it, answers journalled, lines follow rows, STOPPED stays, the stop ends |

Bounds of `live_feeds`: two entries give a response of one or two and an entry behind a lost answer;
two symbols share a partition of two, so foreign entries occur. One fault and one restart reach each
step; two faults repeat the paths of one, since a reconnect keeps no memory but the positions. Two
updates are what a mixed or an old balance needs. Bounds of `launch`: three launches are a first one, one
that meets its remains, and one that meets the remains of both; the later artifact version lacks a
file of the first. `trading`: two of three events in any order (a valid bar, a tick without a hook, a
bar the SDK refuses) put every kind before every other; the one intent is placed in a hook or in
`on_stop`; one fault fails any single write. With one valid bar per run, a bar
behind an event that was applied half-way is not reached; `HookFindsItsEvent`, proved for any events, covers it. These three may stop (`CHECK_DEADLOCK FALSE`): the worker has
ended, or waits for a manager that sends nothing.

### Disagreements between code and its own words

Each of these runs ends in a counterexample; `PROJECT.json` quotes the line that is
contradicted.

| run | shows |
|---|---|
| `lost_final_report` | the shutdown thread is a daemon and the main thread leaves on STOPPING, so the process may exit before `on_stop`, `close()` and the final report |
| `resurrection` | a stop accepted during `start()` is followed by READY, with new heartbeat and feed threads |

Three more observations follow from the same models and have no run of their own:

* *Two bodies of `stop()`*. `cooperative_shutdown.py:36` promises a "Single idempotent entry", and the handler
  logs `kubernetes_sigterm_ignored` when a stop is in progress (lines 63-67), but falls through to
  `_ensure_shutdown_thread`. If that stop came through StopWorker, no coordinator thread exists yet and
  SIGTERM starts a second `stop()` beside the running one. `coordinator` therefore has no StopWorker
  threads and `stop_worker` no SIGTERM; `SingleStopBody` fails when both are given.
* *Stale time of a pushed order*. `lifecycle_service.py:730` calls `_last_data_event_timestamp` the "UTC instant of
  the latest ingested bar/tick/quote". `push_replay_context` stores it once behind the batch (`PushStamps`)
  and the historical driver never does: an order placed in the hook of a pushed event carries the time
  of an earlier push. For live feeds `IntentDatedByItsEvent` holds.
* *Entries never seen*. A reader that starts at `$` without a group asks for `$` again until its first entry,
  also after a reconnect: what is added between two reads is lost. The second half
  of `ConsecutiveEntries` is about readers that start at an id.

The passing runs therefore say what holds *besides* these. `coordinator` and `stop_worker`
admit stops only once the worker polls (`StopsDuringStartup = FALSE`), and no handler and no heartbeat
POST outlasts its join (`JoinTimeouts = FALSE`; a join that gives up on a blocked XREAD is always
there); `any_time` has stops during startup, `backtest_stops` timeouts. The theorems
without a hypothesis on them (section 4) have both. Some limits of
the properties are the code's own:

* `StopEndsProcess` leaves one way out (`HeldByRead`). The reader of the market stream uses BLOCK 0 by default
  (`settings.py:38`, `103`) and has no socket timeout; the stop event does not wake it. The join gives up
  after 60 s and the shutdown goes on to its final report, but the thread is not a daemon
  (`lifecycle_service.py:1271`): on a stream that stays quiet the interpreter waits for it and the
  process never ends. The property says that this is the only thing it can be waiting for.
* `NoHeartbeatAfterPhaseMoves` needs joins that wait. A heartbeat past its test is not blocked by
  the flag, and a status POST may take 30 s where the join of the heartbeat thread gives up
  after 12 s (`heartbeat_periodic.py:52`).
* `FinalMatchesRequest` speaks of the accepted request's reason. A FAILED worker stopped over HTTP
  reports that reason, a clean STOPPED, since `stop()` looks at the request before the phase
  (`lifecycle_service.py:897`).
* `CompletionIsWhole` exempts a driver that is being stopped: a stop event first seen by the condition
  of the paging loop (`lifecycle_service.py:1608`) leaves the loop without `return` and marks
  the job complete with bars missing; seen one statement later it does not.
* `CompletionIsWhole` and the refinement need a worker that only the driver feeds; see
  `_first_data_received` among the hazards.

### Fairness

`Fairness` is weak fairness of each thread's own steps: the operating system schedules every
runnable thread, status POSTs have timeouts and so return, and the strategy's handlers return.
In a BACKTEST the feed is fair too, since its queries and waits have timeouts. In PAPER and LIVE only the
end of its handler is: its read need never return, so it need never see the stop event.
Nothing is assumed of the environment: requests, SIGTERM, Ctrl+C, market events and the end of a replay
stream need never come. `FairSpec` of `BacktestReplay` adds that the service has its data one day
and that a query repeated for ever is answered with its page at last (strong fairness: each
repetition may fail, not all of them).

`LiveFeeds`: weak fairness of each feed thread, of the strategy's handler and of a `stop()` that has
begun. Redis answers, times out or fails every read, except that `block_ms = 0` may wait for ever:
the shutdown's join then ends by its 60 s. `Launch` is checked for safety only: it is one thread whose
steps follow each other and never wait. `Trading`: main, heartbeat and journal steps go
on, and a call to the risk service ends within its deadline. Hooks need not return: the join of the
feed thread has a timeout, and `StopEnds` holds without them.

## 4. Proofs

TLAPS checks the theorems of eight modules for every value of the constants that their named assumptions
admit. Those of `WorkerLifecycle`: the mode is one of three, flags are Booleans, the thread sets are disjoint;
any sets of threads, any texts of requests, any setting of the fault constants. Those of the others are types of
constants (bounds are numbers, a job has the fields `LaunchInputs` describes, the journal's threads and records include
the worker's, no thread is called "free"); TLC evaluates all of them. Where a theorem has a hypothesis
beyond these it is in its statement and named below. The bounds on faults, restarts and pushes are
any numbers, so they bound nothing.

* `TypeCorrect`: `Spec => []TypeOK`. The part with content is that every reason that
  reaches a request, a signal or a report is a normalised code (`ReasonFacts`); the lemmas
  follow the groups of `Next`.
* `AtMostOneAccepted`: `Spec => []OneAcceptance`. `OneAcceptance` is not inductive: a state in
  which two requesters are both past the test would satisfy it. `AcceptInv` adds that whoever
  stands between the acquisition and the release holds the lock, hence at most one does, and
  that past the test nobody is accepted yet. It holds with stops during startup, raising
  POSTs and timeouts.
* `ReplayTypes`: `Spec => [](TypeOK /\ PageInv)`, for any pushers. That cursor and page stay in the
  window is not inductive by itself; `PageInv` says for each place of the driver which bars it has fed
  (all usable ones up to the cursor between pages, up to the bar inside one), that the first-page
  flag and the cursor agree, so the warm-up is asked for once, and that nothing was fed while
  `_first_data_received` is unset, which is why an unusable page may be asked for again.
* `DriverReplaysWindow`: with `Pushers = {}`, `Spec => ReplaysWindow`; `CompletesWhole` follows the same steps.
  Besides `PageInv` it needs `FirstInv`: only the driver's own bars set `_first_data_received`, so
  an empty page behind it is the end. With pushers this is false (see the hazards), hence the
  assumption.
* `StopPrompt`, `NoLateBar`: from `StopInv` (a bar is late only while one was on its way; the worker leaves
  READY/RUNNING only when the driver is gone), for any pushers.
* `JournalInvariant`, `JournalKeepsOrder`: from `JournalSpec`, the journal under any use of it, for any threads,
  records and retries, assuming only that no thread is called "free". That a line has no earlier row
  waiting is not inductive; `JournalInv` adds that a thread holds the lock exactly while it retries or has
  a committed row without its line, so whoever may commit finds nobody in between. It needs the lock
  to be released on every way out, an exception of the text file included.

**Stopping (`StopRequests_proofs`, `Shutdown_proofs`).** Each theorem has the weakest hypotheses its proof uses:

* `NoOwnStop`: not a BACKTEST and no Ctrl+C, so main has no reason of its own to call `stop()`;
* `OneCaller`: `NoOwnStop`, and SIGTERM and StopWorker are not both there;
* `AskedFirst`: no raising calls, or no SIGTERM (its handler starts the shutdown thread also when its
  request raised and was never accepted);
* `JobOnly`: a BACKTEST nobody stops, and nothing raises in its rollback or its `stop()`.

The last column names a run whose constants satisfy them, so none is about nothing.

| theorem | property | hypotheses | met by |
|---|---|---|---|
| `AtMostOneAccepted` | `OneAcceptance` | none | all |
| `OnlyAuthorisedBodies` | `BodiesAreAuthorised` | none | `any_time`, all |
| `CompletedOnlyReplayed` | `CompletedMeansReplayed` | none | `backtest_stops`, all |
| `StopBodyRunsOnce` | `SingleStopBody` | `OneCaller` | `coordinator`, `stop_worker` |
| `FinalReasonIsTheAccepted` | `FinalMatchesRequest` | `NoOwnStop`, `AskedFirst` | `coordinator`, `stop_worker` |
| `FeedGoneBeforeOnStop` | a part of `NoTickAfterOnStop` | no stops during startup, joins wait | `coordinator`, `backtest` |
| `OnStopRunsOnce` | `NoTickAfterOnStop` | `OneCaller`, no stops during startup; joins wait | `coordinator`, `stop_worker` |
| `BeatsEndBeforePhaseMoves` | `NoHeartbeatAfterPhaseMoves` | no stops during startup, joins wait | `coordinator`, `backtest` |
| `PhasesFollowTheTable` | `PhaseEdgesLegal` | `OneCaller`, no stops during startup, the start succeeds | `coordinator` |
| `FailedStartIsReported` | `FailureIsVisible` | not a BACKTEST, no lost posts, no stops during startup or `AskedFirst` | `stop_worker` |
| `WorkerKeepsThePromise` | `ImplementsView` | `OneCaller`, `AskedFirst`, no stops during startup, joins wait | `coordinator`, `stop_worker` |
| `AnnouncedOnce` | `TerminatedOnce` | `JobOnly` | `backtest` |

  The hypotheses mark real behaviour: stops during startup (`resurrection`), joins that give up (the
  heartbeat in section 3), SIGTERM during StopWorker and a BACKTEST that completes while an HTTP stop
  runs (two bodies), a lost FAILED that leaves READY, a SIGTERM stop that was never accepted. In a BACKTEST
  `FailureIsVisible` is false: the heartbeat client skips its posts there (`heartbeat.py:305`), so a start that fails after
  the report of its bootstrap leaves the manager with RUNNING until somebody stops the worker.

* `WhyInv` and `MainInv`: without a reason of its own main runs only the part of `stop()` a rollback uses.
  `AuthInv` (for `BodiesAreAuthorised`): a gRPC handler past its request is in `acceptedBy`; a born
  shutdown thread is the only one and `_shutdown_thread_started` is set.
* `CallerInv` and `OneBodyInv`: a *caller* is an accepted StopWorker handler or a born shutdown thread. Each
  is born by the one acceptance, except for a thread started by SIGTERM after a refused request, which
  `OneCaller` excludes; two callers are hence the same thread, and only callers are in a body.
* `ReasonInv`: whoever executes `stop()` by request does so after the acceptance, finds `canonical` set and
  keeps it as its reason from `StopResolveReason` to the report. `AskedInv` gives the "after".
* `QuietInv` says what `StopsDuringStartup = FALSE` gives: while main is in `start()`, `run()` or a
  rollback nobody has been asked anything and no feed runs. `FeedInv` and `BeatInv` need no single body: they
  say for every thread in `stop()` what is over by which of its labels (past a join the feed is gone
  and no other is born, past the heartbeats' join none is posting), and so admit several threads there. `OnceInv`
  and `PhaseInv` add `OneBodyInv`.
* `FailureInv` follows a start with requests in the middle of it: until the dependencies exist nothing healthy
  can be posted, the heartbeat thread is born only after READY, and `StopDuringStart` shows that a stop accepted
  meanwhile leaves only what the property exempts.
* `WorkerKeepsThePromise` is proved step by step: each action of the worker is, under the mapping of
  `WorkerAndManager`, one named action of `ManagerView` or leaves what the manager sees alone. It cites
  the invariants above, hence their hypotheses. Its fair half stays with TLC.
* `JobInv`: main alone runs `start()`, the loop and one `stop()`; it says for each of its labels which of
  dependencies, heartbeat thread, adapter and announcement exist, and that after a failed start the phase is
  FAILED until the end, so the job never counts as completed.

**Trading (`Trading_proofs`, no hypotheses).** `TradingInv` is `TypeOK` with `JournalInv` and four parts, proved together
since each needs the others' types:

* `EventInv` follows an event through `ReplaySdkBridge`: which of clock, data and indicators show it at each place. It gives
  `HookFindsItsEvent`, also for an event after one that failed half-way, since every
  event overwrites what its hook may read. That `get_series` hands the hook exactly its event takes one lemma
  on sequences, `NewestAlone`: of a series that ends at a time, the one newest entry at that time is its last.
* `IntentInv`: an intent of a hook is stamped with the event in hand. `_last_data_event_timestamp` is
  written before the dispatch and only the feed thread writes it, hence `IntentsAreDated`.
* `OrderInv` and `RecordInv`: a thread's record belongs to its intent, and rows of an id carry the answer the
  intent has. `AnswersAreJournalled` is an action property over it; the interesting case is the second record
  that fails after the first succeeded.
* `StopInv`: past the heartbeats' join no heartbeat record is under way, unless that join timed out.
* `WorkerUsesTheJournal`: `Spec => JournalSpec`, so `JournalKeepsOrder` carries over to the worker (`WorkerKeepsTheOrder`)
  without a second proof. Crash and restart included.

**Launch (`Launch_proofs`, no hypotheses).** `LaunchInv` has a part per place that remembers something.
`DiskInv`: an attempt writes only its own root and `strategy_bundle/`, roots of later attempts are blank, and
a file the extraction is past has this launch's version. `CodeIsThisLaunchs` alone is not inductive, because the disk
an import reads is what several processes left. `StoreInv`: the row precedes the pipeline, its outcome precedes what
`start()` does next, a failure precedes the rollback. `MailInv`: at most five posts per process, no failure before
the end, and the end heard when no post failed. `RecordedBeforeTold` compares every post with the store in the step that
sends it; it fails if any of these orders is swapped.

**LiveFeeds (`LiveFeeds_proofs`, no hypotheses).** For any streams, symbols, partitions, settings, batch sizes and
numbers of entries, faults and restarts. `SnapInv` and `ViewInv`: the balances still in the subscriber's
inbox are newer than the one being applied, that one newer than the one in force, and a reader's
first half is no older than what was in force when it asked. `MdInv` says of each stream where its reader is:

* `GroupAt(k)`: what the process handled lies behind the group's last id and what it delivered is pending or
  handled; both at once only when the reader died in XACK. This gives
  `HandedOutOnce` and `AckedAfterHandling`, whatever answers are lost: the group's id never moves back, not even
  through `ensure_consumer_groups` in a new process.
* `StreamAt(k)`: without a group the position is the last entry handled, except within the response in
  hand; what was handled is one interval behind the start. A lost answer changes nothing, since the position moves
  only after the handling.

Only model-checked:

* liveness, which is out of the prover's reach: `StopEndsProcess`, `JobCompletionEndsProcess`, `ImplementsFairView`,
  `JobEnds`, `UpdatesShown`, `StopFinishes`, `StopEnds`; and the two expected violations;
* how stops during startup, timed out joins, raising calls and Ctrl+C combine beyond the hypotheses in the table above:
  `any_time` and `backtest_stops` explore them for the properties they list.

## 5. Not modelled

* **Observability, gRPC plumbing, utilities**: output and stateless conversion.
* **Data**: JSON and protobuf layouts, SQL statements, headers, hashing, prices. Where a conversion can
  fail in a way the code does not catch (a price or a cash value `float()` refuses, an entry that is
  no zip) the failure is in the model.
* **Migrations** as single statements: whether SQLite undoes half of one is the driver's doing.
* **A second SIGTERM inside the handler** (`cooperative_shutdown.py:114`); see the hazards.
* **Calls without a caller**: replacing and cancelling intents, the gRPC signal client, live timers.
* **A disabled journal** (`state_journal_enabled`), tuning values read from the environment, the
  health monitor (only status queries read it).
* **Digest mismatches at run time**: `digest_validation_env.py:15` switches the checks off in every
  configuration, so `Launch.cfg` has `SkipDigest = TRUE`; the branches are in `ArtifactBootstrap` for the
  day it returns FALSE.

## 6. Plan

Every safety property a run checks is stated by a theorem. What is left:

1. The refinement of `ManagerView` where SIGTERM meets a raising call: the final report is then one the manager did
   not ask for, which `ManagerView` would have to allow.
2. The parts of `ReplayWindow` that survive concurrent pushes.
3. The SIGTERM handler at the level of its own lock.
