--------------------------- MODULE BacktestReplay ---------------------------
(***************************************************************************)
(* How a BACKTEST worker is fed.  Two sources call the same ReplayGateway, *)
(* simulated clock and strategy:                                           *)
(*                                                                         *)
(*   Driver   the historical-driver thread: pages of bars from the         *)
(*            HistoricalDataService, replayed one by one                   *)
(*   Pushers  gRPC pool threads serving PushReplayContext                  *)
(*                                                                         *)
(* The bars of the window are 1 .. Bars, warm-up bars first; a bar's       *)
(* number is also its time.  A cursor is the number of bars it stands      *)
(* behind, 0 for None.  The service is external: until its data are        *)
(* prepared it answers with empty pages, and any query may fail.           *)
(***************************************************************************)
EXTENDS Naturals, FiniteSets, Sequences

CONSTANTS
  Bars, Warmup, PageSize,
  Broken,       \* bars whose time_utc does not parse
  DriverOn,     \* is historical_data_grpc_target configured?
  Pushers,
  Batches,      \* what a push may carry: [events : Seq(Event), eos : BOOLEAN]
  Lo, Hi,       \* _backtest_window_bounds
  MaxPushes,    \* bound on the pushes of one thread
  StopMayCome,  \* may the worker be stopped before the job is complete?
  Faults        \* may the first-data journal entry raise?

Driver == "driver"
Feeders == {Driver} \cup Pushers
Kinds == {"bar", "other"}
Event == [time : Nat, kind : Kinds]
Good == (1 .. Bars) \ Broken

ASSUME BarsAssumption ==
  /\ Bars \in Nat /\ PageSize \in Nat \ {0} /\ Warmup \in 0 .. Bars
  /\ Broken \subseteq 1 .. Bars
  /\ Lo \in Nat /\ Hi \in Nat /\ MaxPushes \in Nat

ASSUME SourcesAssumption ==
  /\ Driver \notin Pushers
  /\ {DriverOn, StopMayCome, Faults} \subseteq BOOLEAN
  /\ Batches \subseteq [events : Seq(Event), eos : BOOLEAN]

VARIABLES
  \* the driver's locals
  cursor, veryFirst,
  page,        \* the page being replayed: bars lo .. hi, has_more
  bar,         \* the next bar of the page
  \* the pushers' locals
  batch, idx, pushes,
  lastEff,     \* last_effective_sim, 0 for None
  \* both
  pc,
  cur,         \* the time of the event being ingested
  seen,        \* was strategy_callback set when the event was read?
  \* fields of LifecycleService, ReplayGateway, SimulatedClock
  first,       \* _first_data_received
  marked,      \* _first_data_marked
  clock,
  lastTs,      \* _last_data_event_timestamp, 0 for None
  completers,  \* who set _backtest_replay_complete
  bound,       \* _strategy_adapter is not None
  inProgress, feedStop, live,
  \* outside, and history
  prepared,    \* does the service have the bars?
  onStop,      \* has the strategy's on_stop been called?
  fed,         \* bars the driver gave to the strategy
  late         \* of these, how many after the shutdown began

driverVars == <<cursor, veryFirst, page, bar>>
pushVars == <<batch, idx, pushes, lastEff>>
gateVars == <<first, marked, clock>>
stopVars == <<inProgress, feedStop, live, onStop>>
histVars == <<fed, late>>
vars == <<driverVars, pushVars, pc, cur, seen, gateVars, lastTs, completers,
          bound, stopVars, prepared, histVars>>

replayDone == completers # {}

GateLabels == {"ingest", "mark", "journal", "call", "handle"}
DriverLabels ==
  {"unborn", "outer", "query", "answer", "wait", "tail", "bar", "pause", "done", "dead"}
PushLabels == {"idle", "begin", "events", "stamp", "eos"}

NoBatch == [events |-> <<>>, eos |-> FALSE]

(* Every variable has its type; in particular the driver's page and cursor *)
(* never leave the window.                                                 *)
TypeOK ==
  /\ cursor \in 0 .. Bars /\ veryFirst \in BOOLEAN
  /\ page \in [lo : 1 .. Bars + 1, hi : 0 .. Bars, more : BOOLEAN]
  /\ bar \in 1 .. Bars + 1
  /\ batch \in [Pushers -> Batches \cup {NoBatch}]
  /\ idx \in [Pushers -> Nat \ {0}] /\ pushes \in [Pushers -> 0 .. MaxPushes]
  /\ lastEff \in [Pushers -> Nat]
  /\ pc \in [Feeders -> GateLabels \cup DriverLabels \cup PushLabels]
  /\ cur \in [Feeders -> Nat] /\ seen \in [Feeders -> BOOLEAN]
  /\ first \in BOOLEAN /\ marked \in BOOLEAN /\ clock \in Nat
  /\ lastTs \in Nat
  /\ completers \subseteq Feeders
  /\ bound \in BOOLEAN /\ prepared \in BOOLEAN
  /\ inProgress \in BOOLEAN /\ feedStop \in BOOLEAN /\ live \in BOOLEAN
  /\ onStop \in BOOLEAN
  /\ fed \subseteq 1 .. Bars /\ late \in Nat

Init ==
  /\ cursor = 0 /\ veryFirst = TRUE
  /\ page = [lo |-> 1, hi |-> 0, more |-> FALSE] /\ bar = 1
  /\ batch = [p \in Pushers |-> NoBatch]
  /\ idx = [p \in Pushers |-> 1] /\ pushes = [p \in Pushers |-> 0]
  /\ lastEff = [p \in Pushers |-> 0]
  /\ pc = [f \in Feeders |-> IF f = Driver THEN "unborn" ELSE "idle"]
  /\ cur = [f \in Feeders |-> 0] /\ seen = [f \in Feeders |-> FALSE]
  /\ first = FALSE /\ marked = FALSE /\ clock = 0 /\ lastTs = 0
  /\ completers = {} /\ bound = FALSE /\ prepared = FALSE
  /\ inProgress = FALSE /\ feedStop = FALSE /\ live = TRUE /\ onStop = FALSE
  /\ fed = {} /\ late = 0

Step(f, from, to) == pc[f] = from /\ pc' = [pc EXCEPT ![f] = to]

-----------------------------------------------------------------------------
(***************************************************************************)
(* ReplayGateway.ingest_replay_tick and the strategy's hook, by either.    *)
(***************************************************************************)

IngestSetsClock(f) ==
  /\ Step(f, "ingest", "mark")
  /\ clock' = cur[f]
  /\ UNCHANGED <<driverVars, pushVars, cur, seen, first, marked, lastTs,
                 completers, bound, stopVars, prepared, histVars>>

(* mark_first_data_received sets its flag before it writes the journal,    *)
(* and the gateway its own only after both.                                *)
MarkFirstData(f) ==
  /\ Step(f, "mark", IF marked THEN "call" ELSE "journal")
  /\ first' = TRUE
  /\ UNCHANGED <<driverVars, pushVars, cur, seen, marked, clock, lastTs,
                 completers, bound, stopVars, prepared, histVars>>

RecordFirstData(f) ==
  /\ Step(f, "journal", "call")
  /\ marked' = TRUE
  /\ UNCHANGED <<driverVars, pushVars, cur, seen, first, clock, lastTs,
                 completers, bound, stopVars, prepared, histVars>>

(* The journal raises: the driver's thread dies, a push is aborted.        *)
RecordRaises(f) ==
  /\ Faults
  /\ Step(f, "journal", IF f = Driver THEN "dead" ELSE "idle")
  /\ UNCHANGED <<driverVars, pushVars, cur, seen, gateVars, lastTs,
                 completers, bound, stopVars, prepared, histVars>>

Called(f) ==
  /\ fed' = IF f = Driver THEN fed \cup {cur[f]} ELSE fed
  /\ late' = IF f = Driver /\ inProgress THEN late + 1 ELSE late

(* StrategyAdapter.on_event up to the hook: the event's time, its place in *)
(* the bar history, the indicators.  Without a callback only the gateway   *)
(* saw the event.                                                          *)
ApplyEvent(f) ==
  /\ Step(f, "call", IF seen[f] THEN "handle"
                     ELSE IF f = Driver THEN "pause" ELSE "events")
  /\ IF seen[f] THEN clock' = cur[f] /\ Called(f)
                ELSE UNCHANGED <<clock, fed, late>>
  /\ IF f # Driver /\ ~seen[f] THEN lastEff' = [lastEff EXCEPT ![f] = cur[f]]
                               ELSE UNCHANGED lastEff
  /\ UNCHANGED <<driverVars, batch, idx, pushes, cur, seen, first, marked,
                 lastTs, completers, bound, stopVars, prepared>>

(* The hook returns; an exception in it stays in the error boundary.       *)
HookReturns(f) ==
  /\ Step(f, "handle", IF f = Driver THEN "pause" ELSE "events")
  /\ lastEff' = IF f = Driver THEN lastEff ELSE [lastEff EXCEPT ![f] = cur[f]]
  /\ UNCHANGED <<driverVars, batch, idx, pushes, cur, seen, gateVars, lastTs,
                 completers, bound, stopVars, prepared, histVars>>

Gateway(f) ==
  \/ IngestSetsClock(f) \/ MarkFirstData(f) \/ RecordFirstData(f)
  \/ RecordRaises(f) \/ ApplyEvent(f) \/ HookReturns(f)

-----------------------------------------------------------------------------
(***************************************************************************)
(* _historical_backtest_driver_worker                                      *)
(***************************************************************************)

DriverLeaves(from, to) ==
  /\ Step(Driver, from, to)
  /\ UNCHANGED <<driverVars, pushVars, cur, seen, gateVars, lastTs,
                 completers, bound, stopVars, prepared, histVars>>

(* run() starts the feeds once the strategy is bound.  A stop that races   *)
(* with start() and run() is WorkerLifecycle's subject; here it comes      *)
(* before them or after.                                                   *)
DriverStarts ==
  /\ DriverOn /\ bound /\ live /\ ~inProgress
  /\ Step(Driver, "unborn", "outer")
  /\ feedStop' = FALSE
  /\ UNCHANGED <<driverVars, pushVars, cur, seen, gateVars, lastTs,
                 completers, bound, inProgress, live, onStop, prepared,
                 histVars>>

(* The outer loop is entered once: every way through its body leaves it.   *)
DriverEnters ==
  DriverLeaves("outer", IF feedStop \/ inProgress \/ ~live \/ ~bound
                          THEN "done" ELSE "query")

(* The code after the paging loop: the job is complete.                    *)
DriverCompletes(from) ==
  /\ Step(Driver, from, "done")
  /\ completers' = completers \cup {Driver}
  /\ UNCHANGED <<driverVars, pushVars, cur, seen, gateVars, lastTs, bound,
                 stopVars, prepared, histVars>>

(* The head of the paging loop.  Its condition leads to the code after the *)
(* loop, the two tests in its body leave the thread.                       *)
DriverSeesStop == feedStop /\ DriverCompletes("query")

DriverGivesUp ==
  /\ ~feedStop /\ (inProgress \/ ~live)
  /\ DriverLeaves("query", "done")

DriverQueries ==
  /\ ~feedStop /\ ~inProgress /\ live
  /\ DriverLeaves("query", "answer")

QueryFails == DriverLeaves("answer", "wait")

(* Mutant of PageStart: warm-up bars are not asked for.                    *)
PageStartNoWarmup == IF cursor = 0 THEN Warmup + 1 ELSE cursor + 1

(* The first bar of the page the query asks for.                           *)
PageStart ==
  IF cursor # 0 THEN cursor + 1 ELSE IF veryFirst THEN 1 ELSE Warmup + 1

PageEnd == IF PageStart + PageSize - 1 <= Bars
             THEN PageStart + PageSize - 1 ELSE Bars

(* A page with bars.  A service that has given the last bar may still say  *)
(* that there are more, and then answers with an empty page.               *)
PageArrives ==
  /\ prepared /\ PageStart <= Bars
  /\ Step(Driver, "answer", "bar")
  /\ \E more \in BOOLEAN :
       /\ PageEnd < Bars => more
       /\ page' = [lo |-> PageStart, hi |-> PageEnd, more |-> more]
  /\ bar' = PageStart
  /\ UNCHANGED <<cursor, veryFirst, pushVars, cur, seen, gateVars, lastTs,
                 completers, bound, stopVars, prepared, histVars>>

(* Mutant of EmptyPage: an empty answer always ends the window.            *)
EmptyPageEnds ==
  /\ ~prepared \/ PageStart > Bars
  /\ DriverLeaves("answer", "tail")

(* Until the first bar was replayed an empty page means "not prepared".    *)
EmptyPage ==
  /\ ~prepared \/ PageStart > Bars
  /\ DriverLeaves("answer", IF first THEN "tail" ELSE "wait")

(* An empty page of a service that says there is more behind the cursor.   *)
EmptyPageContinues ==
  /\ prepared /\ first /\ cursor # 0 /\ cursor < Bars
  /\ DriverLeaves("answer", "query")

(* Waits on the stop event.                                                *)
WaitStopped(from) == feedStop /\ DriverLeaves(from, "done")
WaitOver == ~feedStop /\ DriverLeaves("wait", "query")
TailOver == ~feedStop /\ DriverCompletes("tail")

(* Each bar begins with a look at the flags.                               *)
BarStops ==
  /\ bar <= page.hi /\ (feedStop \/ inProgress)
  /\ DriverLeaves("bar", "done")

(* Mutant of BarBegins: a shutdown that has begun does not matter.         *)
BarBeginsAnyway ==
  /\ bar <= page.hi /\ bar \notin Broken
  /\ Step(Driver, "bar", "ingest")
  /\ cur' = [cur EXCEPT ![Driver] = bar]
  /\ seen' = [seen EXCEPT ![Driver] = TRUE]
  /\ bar' = bar + 1
  /\ UNCHANGED <<cursor, veryFirst, page, pushVars, gateVars, lastTs,
                 completers, bound, stopVars, prepared, histVars>>

BarBegins ==
  /\ bar <= page.hi /\ ~feedStop /\ ~inProgress /\ bar \notin Broken
  /\ Step(Driver, "bar", "ingest")
  /\ cur' = [cur EXCEPT ![Driver] = bar]
  /\ seen' = [seen EXCEPT ![Driver] = TRUE]
  /\ bar' = bar + 1
  /\ UNCHANGED <<cursor, veryFirst, page, pushVars, gateVars, lastTs,
                 completers, bound, stopVars, prepared, histVars>>

(* build_historical_bar_replay_tick raises ValueError.                     *)
BarSkipped ==
  /\ bar <= page.hi /\ ~feedStop /\ ~inProgress /\ bar \in Broken
  /\ pc[Driver] = "bar"
  /\ bar' = bar + 1
  /\ UNCHANGED <<cursor, veryFirst, page, pushVars, pc, cur, seen, gateVars,
                 lastTs, completers, bound, stopVars, prepared, histVars>>

(* The wait of bar_replay_interval_ms.                                     *)
PauseOver == ~feedStop /\ DriverLeaves("pause", "bar")

(* Mutant of PageReplayed: the same page is asked for again.               *)
PageReplayedCursorKept ==
  /\ bar > page.hi /\ first /\ page.more
  /\ Step(Driver, "bar", "query")
  /\ veryFirst' = FALSE
  /\ UNCHANGED <<cursor, page, bar, pushVars, cur, seen, gateVars, lastTs,
                 completers, bound, stopVars, prepared, histVars>>

(* Mutant of PageReplayed: the cursor skips a bar.                         *)
PageReplayedOneOff ==
  /\ bar > page.hi /\ first /\ page.more
  /\ Step(Driver, "bar", "query")
  /\ veryFirst' = FALSE
  /\ cursor' = page.hi + 1
  /\ UNCHANGED <<page, bar, pushVars, cur, seen, gateVars, lastTs,
                 completers, bound, stopVars, prepared, histVars>>

(* The end of a page: on to the next one ...                               *)
PageReplayed ==
  /\ bar > page.hi /\ first /\ page.more
  /\ Step(Driver, "bar", "query")
  /\ veryFirst' = FALSE
  /\ cursor' = page.hi
  /\ UNCHANGED <<page, bar, pushVars, cur, seen, gateVars, lastTs,
                 completers, bound, stopVars, prepared, histVars>>

(* ... or, when no bar of it was usable, the same page again ...           *)
PageUnusable == bar > page.hi /\ ~first /\ DriverLeaves("bar", "wait")

(* ... or the end of the window.                                           *)
WindowReplayed ==
  /\ bar > page.hi /\ first /\ ~page.more
  /\ Step(Driver, "bar", "done")
  /\ veryFirst' = FALSE
  /\ completers' = completers \cup {Driver}
  /\ UNCHANGED <<cursor, page, bar, pushVars, cur, seen, gateVars, lastTs,
                 bound, stopVars, prepared, histVars>>

Answer == QueryFails \/ PageArrives \/ EmptyPage \/ EmptyPageContinues

DriverThread ==
  \/ DriverStarts \/ DriverEnters \/ DriverSeesStop \/ DriverGivesUp \/ DriverQueries
  \/ Answer \/ WaitOver \/ TailOver
  \/ \E from \in {"wait", "tail", "pause"} : WaitStopped(from)
  \/ BarStops \/ BarBegins \/ BarSkipped \/ PauseOver
  \/ PageReplayed \/ PageUnusable \/ WindowReplayed

-----------------------------------------------------------------------------
(***************************************************************************)
(* push_replay_context                                                     *)
(***************************************************************************)

PushArrives(p) ==
  /\ pushes[p] < MaxPushes
  /\ Step(p, "idle", "begin")
  /\ pushes' = [pushes EXCEPT ![p] = @ + 1]
  /\ \E b \in Batches : batch' = [batch EXCEPT ![p] = b]
  /\ UNCHANGED <<driverVars, idx, lastEff, cur, seen, gateVars, lastTs,
                 completers, bound, stopVars, prepared, histVars>>

PushBegins(p) ==
  /\ Step(p, "begin", IF replayDone THEN "idle" ELSE "events")
  /\ idx' = [idx EXCEPT ![p] = 1]
  /\ lastEff' = [lastEff EXCEPT ![p] = 0]
  /\ UNCHANGED <<driverVars, batch, pushes, cur, seen, gateVars, lastTs,
                 completers, bound, stopVars, prepared, histVars>>

(* The events outside the window, and those skip_backtest_replay_tick_for_ *)
(* ingest refuses, are not consumed.                                       *)
Ingested(e) == e.time >= Lo /\ e.time <= Hi /\ e.kind = "bar"

PushEvent(p) ==
  /\ idx[p] <= Len(batch[p].events)
  /\ idx' = [idx EXCEPT ![p] = @ + 1]
  /\ LET e == batch[p].events[idx[p]]
     IN IF Ingested(e)
          THEN /\ Step(p, "events", "ingest")
               /\ cur' = [cur EXCEPT ![p] = e.time]
               /\ seen' = [seen EXCEPT ![p] = bound]
          ELSE /\ Step(p, "events", "events")
               /\ UNCHANGED <<cur, seen>>
  /\ UNCHANGED <<driverVars, batch, pushes, lastEff, gateVars, lastTs,
                 completers, bound, stopVars, prepared, histVars>>

PushStamps(p) ==
  /\ idx[p] > Len(batch[p].events)
  /\ Step(p, "events", "eos")
  /\ lastTs' = IF lastEff[p] # 0 THEN lastEff[p] ELSE lastTs
  /\ UNCHANGED <<driverVars, pushVars, cur, seen, gateVars, completers, bound,
                 stopVars, prepared, histVars>>

PushEnds(p) ==
  /\ Step(p, "eos", "idle")
  /\ completers' = IF batch[p].eos THEN completers \cup {p} ELSE completers
  /\ UNCHANGED <<driverVars, pushVars, cur, seen, gateVars, lastTs, bound,
                 stopVars, prepared, histVars>>

Push(p) == PushBegins(p) \/ PushEvent(p) \/ PushStamps(p) \/ PushEnds(p)

-----------------------------------------------------------------------------
(***************************************************************************)
(* The rest of the worker: start() binds the strategy, the polling loop    *)
(* stops a worker whose job is complete, stop() raises its flags, joins    *)
(* the driver and stops the strategy.                                      *)
(***************************************************************************)

Prepare ==
  /\ ~prepared /\ prepared' = TRUE
  /\ UNCHANGED <<driverVars, pushVars, pc, cur, seen, gateVars, lastTs,
                 completers, bound, stopVars, histVars>>

Bind ==
  /\ ~bound /\ ~inProgress /\ bound' = TRUE
  /\ UNCHANGED <<driverVars, pushVars, pc, cur, seen, gateVars, lastTs,
                 completers, stopVars, prepared, histVars>>

StopBegins ==
  /\ ~inProgress /\ inProgress' = TRUE
  /\ UNCHANGED <<driverVars, pushVars, pc, cur, seen, gateVars, lastTs,
                 completers, bound, feedStop, live, onStop, prepared, histVars>>

StopRequested == StopMayCome /\ StopBegins
JobCompleted == replayDone /\ bound /\ StopBegins

StopSignalsFeed ==
  /\ inProgress /\ live /\ ~feedStop /\ feedStop' = TRUE
  /\ UNCHANGED <<driverVars, pushVars, pc, cur, seen, gateVars, lastTs,
                 completers, bound, inProgress, live, onStop, prepared, histVars>>

(* Mutant of StopJoinsFeed: the driver is not waited for.                  *)
StopJoinsNobody ==
  /\ inProgress /\ feedStop /\ live /\ live' = FALSE
  /\ UNCHANGED <<driverVars, pushVars, pc, cur, seen, gateVars, lastTs,
                 completers, bound, inProgress, feedStop, onStop, prepared,
                 histVars>>

(* The join waits: a query is given up after 30 s, the join after 60.      *)
(* Then the phase becomes STOPPING.                                        *)
StopJoinsFeed ==
  /\ inProgress /\ feedStop /\ live
  /\ pc[Driver] \in {"unborn", "done", "dead"}
  /\ live' = FALSE
  /\ UNCHANGED <<driverVars, pushVars, pc, cur, seen, gateVars, lastTs,
                 completers, bound, inProgress, feedStop, onStop, prepared,
                 histVars>>

StopStrategy ==
  /\ ~live /\ ~onStop /\ bound
  /\ onStop' = TRUE
  /\ UNCHANGED <<driverVars, pushVars, pc, cur, seen, gateVars, lastTs,
                 completers, bound, inProgress, feedStop, live, prepared,
                 histVars>>

StopClearsAdapter ==
  /\ onStop /\ bound
  /\ bound' = FALSE
  /\ UNCHANGED <<driverVars, pushVars, pc, cur, seen, gateVars, lastTs,
                 completers, stopVars, prepared, histVars>>

Worker ==
  \/ Bind \/ JobCompleted \/ StopSignalsFeed \/ StopJoinsFeed
  \/ StopStrategy \/ StopClearsAdapter

(* The worker is down and nobody pushes any more.                          *)
Down ==
  /\ ~live /\ ~bound
  /\ \A p \in Pushers : pc[p] = "idle"
  /\ UNCHANGED vars

Next ==
  \/ DriverThread \/ Worker \/ StopRequested \/ Prepare \/ Down
  \/ \E f \in Feeders : Gateway(f)
  \/ \E p \in Pushers : PushArrives(p) \/ Push(p)

Spec == Init /\ [][Next]_vars

(* The threads are scheduled, the strategy's hooks return, the service has *)
(* its data one day, and a query that is repeated for ever is answered     *)
(* with its page at last.  Stops and pushes need not come.                 *)
FairSpec ==
  /\ Spec
  /\ WF_vars(DriverThread \/ Gateway(Driver))
  /\ \A p \in Pushers : WF_vars(Push(p) \/ Gateway(p))
  /\ WF_vars(Worker) /\ WF_vars(Prepare)
  /\ SF_vars(PageArrives \/ EmptyPage)

-----------------------------------------------------------------------------
(***************************************************************************)
(* Properties.                                                             *)
(***************************************************************************)

(* What the driver has replayed, by where it is: all usable bars up to the *)
(* cursor between pages, up to the bar inside one.  Its cursor and its     *)
(* first-page flag agree, so the warm-up is asked for exactly once; and it *)
(* has fed nothing while _first_data_received is unset.                    *)
UpTo(n) == {b \in Good : b <= n}

BetweenPages == {"unborn", "outer", "query", "answer", "wait", "tail"}

PageInv ==
  /\ pc[Driver] \in BetweenPages =>
       /\ fed = UpTo(cursor)
       /\ veryFirst <=> cursor = 0
       /\ Driver \notin completers
  /\ pc[Driver] \in {"bar", "pause"} \cup GateLabels =>
       /\ prepared /\ Driver \notin completers
       /\ veryFirst <=> cursor = 0
       /\ page.hi < Bars => page.more
       /\ cursor < page.hi /\ cursor < bar /\ bar <= page.hi + 1
  /\ pc[Driver] \in {"bar", "pause", "handle"} => fed = UpTo(bar - 1)
  /\ pc[Driver] \in GateLabels =>
       cur[Driver] = bar - 1 /\ seen[Driver] /\ bar > 1 /\ bar - 1 \in Good
  /\ pc[Driver] \in GateLabels \ {"handle"} => fed = UpTo(bar - 2)
  /\ ~first => fed = {} /\ pc[Driver] \notin {"journal", "call", "handle"}

(* Without another source only the driver's own bars set the flag, so an   *)
(* empty page after it is the end of the window.                           *)
FirstInv ==
  /\ first => prepared
  /\ pc[Driver] = "tail" => first /\ cursor = Bars

DriverInv == TypeOK /\ PageInv /\ FirstInv

(* A job the driver declares complete has replayed every usable bar of the *)
(* window, unless the worker was being stopped: failed queries, empty      *)
(* pages, unusable bars and the warm-up do not make it end too early.      *)
CompletionIsWhole == Driver \in completers => fed = Good \/ feedStop

(* Once the shutdown has begun the driver gives the strategy at most the   *)
(* one bar it was already looking at.                                      *)
StopIsPrompt == late <= 1

(* The driver never has the strategy handle a bar after its on_stop.       *)
NoBarAfterOnStop == pc[Driver] = "handle" => ~onStop

(* A worker whose strategy is bound stops one day: either it is told to or *)
(* its job completes.  Failed queries, empty and unusable pages do not     *)
(* keep the driver going for ever; only the death of its thread does.      *)
JobEnds == bound ~> (onStop \/ pc[Driver] = "dead")
=============================================================================
