--------------------------- MODULE WorkerLifecycle ---------------------------
(***************************************************************************)
(* The life of one strategy worker process: LifecycleService and the       *)
(* threads that call into it.                                              *)
(*                                                                         *)
(*   Main        main() / WorkerApp.run: start(), the polling loop, exit    *)
(*   Sig         the SIGTERM handler; Python runs it ON the main thread, so *)
(*               Main makes no step while the handler is active            *)
(*   HttpThreads handlers of POST /internal/v1/stop (daemon threads)       *)
(*   GrpcThreads StopWorker handlers (pool threads, joined at exit)        *)
(*   CoopThreads threads CooperativeShutdownCoordinator may start (daemon) *)
(*   Hb          the heartbeat thread (daemon)                             *)
(*   Feed        the mode's data feed: Redis stream reader in PAPER / LIVE,*)
(*               historical driver in BACKTEST (non-daemon)                *)
(*                                                                         *)
(* One label of pc is one point of the code where another thread may run.  *)
(* The runtime manager (SRM) is external: srm is the last status it holds. *)
(***************************************************************************)
EXTENDS RuntimeState, Naturals, FiniteSets

CONSTANTS
  Mode,               \* launch_spec.mode
  HttpThreads, GrpcThreads, CoopThreads,
  HttpTexts,          \* the "reason" texts of stop requests
  SigtermSent,        \* does Kubernetes send SIGTERM?
  StopsDuringStartup, \* may stop requests arrive before WorkerApp polls?
  StartupMayFail,     \* may bootstrap, binding or the first signals fail?
  JoinTimeouts,       \* may a handler or a POST outlast the join of stop()?
  Faults,             \* may journal, close() and status POSTs raise?
  LossySrm,           \* may a status POST be lost?
  MaxInterrupts       \* bound on Ctrl+C

Main == "main"
Sig  == "sigterm"
Hb   == "heartbeat"
Feed == "feed"
NoThread == "none"

Stoppers   == {Main} \cup CoopThreads \cup GrpcThreads
Requesters == {Sig} \cup HttpThreads \cup GrpcThreads
Threads    == {Main, Sig, Hb, Feed} \cup HttpThreads \cup GrpcThreads
                \cup CoopThreads

ASSUME ModeAssumption == Mode \in {"BACKTEST", "PAPER", "LIVE"}

ASSUME FlagsAssumption ==
  /\ {SigtermSent, StopsDuringStartup, StartupMayFail, JoinTimeouts,
      Faults, LossySrm} \subseteq BOOLEAN
  /\ MaxInterrupts \in Nat

ASSUME ThreadsAssumption ==
  /\ {Main, Sig, Hb, Feed, NoThread}
       \cap (HttpThreads \cup GrpcThreads \cup CoopThreads) = {}
  /\ HttpThreads \cap GrpcThreads = {}
  /\ HttpThreads \cap CoopThreads = {}
  /\ GrpcThreads \cap CoopThreads = {}

VARIABLES
  \* fields of LifecycleService
  phase, started, complete, inProgress, accepted, canonical, initLock,
  adapter,      \* _strategy_adapter is not None
  deps,         \* _runtime_dependencies is not None
  replayDone,   \* _backtest_replay_complete
  feedStop,     \* the feed's stop event
  hbThread,     \* HeartbeatPeriodicJobs._thread is not None
  hbStop,       \* HeartbeatPeriodicJobs._stop
  coopStarted,  \* CooperativeShutdownCoordinator._shutdown_thread_started
  \* locals of the threads
  pc,
  mainWhy,      \* termination_reason_code Main passes to stop()
  failure,      \* the exception start() is handling
  reason,       \* resolved_reason of each stop() body
  beat,         \* local_state of the status a heartbeat is about to POST
  interrupts,
  \* what the outside sees, and history
  srm,          \* runtime_status last recorded by the runtime manager
  finals,       \* final shutdown reports sent
  terminated,   \* runtime.terminated signals emitted
  acceptedBy,   \* requesters whose initiate_stop_from_request returned
  bodies,       \* threads that went past stop()'s _shutdown_complete test
  onStops       \* calls of the strategy's on_stop

lifeVars == <<phase, started, complete, inProgress>>
reqVars  == <<accepted, canonical, initLock, coopStarted, acceptedBy>>
workVars == <<adapter, deps, replayDone>>
jobVars  == <<feedStop, hbThread, hbStop>>
ctlVars  == <<mainWhy, failure, reason, beat, interrupts>>
srmVars  == <<srm, finals, terminated>>
histVars == <<bodies, onStops>>
vars == <<lifeVars, reqVars, workVars, jobVars, pc, ctlVars, srmVars, histVars>>

StartLabels ==
  {"boot", "deps", "create", "bind", "announce", "reportok", "ready",
   "started", "beat1", "read1", "post1", "jobs", "runcheck", "running",
   "beat2", "read2", "post2", "startfeeds",
   "fail", "failpost", "rbreport", "rbdone"}
StopLabels ==
  {"stop", "resolve", "block", "feeds", "joinfeed", "hbstop", "hbjoin",
   "hbwait", "stopping", "strategy", "callstop", "instop", "close", "emit",
   "final", "report", "complete"}
RequestLabels ==
  {"idle", "checkpoint", "init", "initcheck", "initpost", "initset",
   "ensure", "rejected"}
Labels ==
  StartLabels \cup StopLabels \cup RequestLabels
    \cup {"unborn", "loop", "exiting", "joining", "exited", "done", "raised",
          "read", "post", "tick"}

LifeType ==
  /\ phase \in WorkerPhase
  /\ started \in BOOLEAN /\ complete \in BOOLEAN /\ inProgress \in BOOLEAN

ReqType ==
  /\ accepted \in BOOLEAN /\ coopStarted \in BOOLEAN
  /\ canonical \in Reasons \cup {NoReason}
  /\ initLock \in Requesters \cup {NoThread}
  /\ acceptedBy \subseteq Requesters

WorkType ==
  adapter \in BOOLEAN /\ deps \in BOOLEAN /\ replayDone \in BOOLEAN

JobType ==
  feedStop \in BOOLEAN /\ hbThread \in BOOLEAN /\ hbStop \in BOOLEAN

CtlType ==
  /\ mainWhy \in {NoReason, "RUNTIME_JOB_COMPLETED", "MANUAL_STOP_REQUESTED"}
  /\ failure \in {"none", "bootstrap", "other"}
  /\ reason \in [Stoppers -> Reasons \cup {NoReason}]
  /\ beat \in [{Main, Hb} -> WorkerPhase]
  /\ interrupts \in 0 .. MaxInterrupts

SrmType ==
  /\ srm \in WorkerPhase \cup {"NONE", "STARTUP_FAILED"}
  /\ finals \subseteq [by : Stoppers, reason : Reasons \cup {NoReason}]
  /\ terminated \subseteq (Reasons \cup {NoReason}) \X WorkerPhase

HistType == bodies \subseteq Stoppers /\ onStops \in Nat

(* Every variable has its type: in particular every reason that stop() or  *)
(* a request resolves is a normalised code, and every thread is at a label *)
(* of the code.                                                            *)
TypeOK ==
  /\ LifeType /\ ReqType /\ WorkType /\ JobType
  /\ pc \in [Threads -> Labels]
  /\ CtlType /\ SrmType /\ HistType

Init ==
  /\ phase = "INITIALIZING"
  /\ started = FALSE /\ complete = FALSE /\ inProgress = FALSE
  /\ accepted = FALSE /\ canonical = NoReason /\ initLock = NoThread
  /\ adapter = FALSE /\ deps = FALSE /\ replayDone = FALSE
  /\ feedStop = FALSE /\ hbThread = FALSE /\ hbStop = FALSE
  /\ coopStarted = FALSE
  /\ pc = [t \in Threads |-> CASE t = Main -> "boot"
                               [] t \in {Hb, Feed} \cup CoopThreads -> "unborn"
                               [] OTHER -> "idle"]
  /\ mainWhy = NoReason /\ failure = "none"
  /\ reason = [t \in Stoppers |-> NoReason]
  /\ beat = [t \in {Main, Hb} |-> "INITIALIZING"]
  /\ interrupts = 0
  /\ srm = "NONE" /\ finals = {} /\ terminated = {}
  /\ acceptedBy = {} /\ bodies = {} /\ onStops = 0

-----------------------------------------------------------------------------
Exited == pc[Main] = "exited"

(* Main runs only when no signal handler is stacked on top of it.          *)
MainFree == pc[Sig] \in {"idle", "done"}
Runs(t)  == ~Exited /\ (t = Main => MainFree)

Step(t, from, to) ==
  /\ Runs(t)
  /\ pc[t] = from
  /\ pc' = [pc EXCEPT ![t] = to]

(* post_srm_runtime_status: the POST reaches the manager, or is lost and   *)
(* the URLError swallowed.                                                 *)
Deliver(status) ==
  \/ srm' = status
  \/ LossySrm /\ srm' = srm

(* SrmHeartbeatHttpClient.emit_signal answers "skipped" in BACKTEST.       *)
DeliverBeat(status) ==
  IF Mode = "BACKTEST" THEN srm' = srm ELSE Deliver(status)

Live == phase \in {"READY", "RUNNING"}

-----------------------------------------------------------------------------
(***************************************************************************)
(* LifecycleService.start and run, on the main thread.                     *)
(***************************************************************************)

(* Launch payload validated, logger bound, bootstrap pipeline succeeded.   *)
Bootstrap ==
  /\ Step(Main, "boot", "deps")
  /\ UNCHANGED <<lifeVars, reqVars, workVars, jobVars, ctlVars, srmVars, histVars>>

InitializeDependencies ==
  /\ Step(Main, "deps", "create")
  /\ deps' = TRUE
  /\ UNCHANGED <<lifeVars, reqVars, adapter, replayDone, jobVars, ctlVars,
                 srmVars, histVars>>

InitializeStrategyCoordinator ==
  /\ Step(Main, "create", "bind")
  /\ adapter' = TRUE
  /\ UNCHANGED <<lifeVars, reqVars, deps, replayDone, jobVars, ctlVars,
                 srmVars, histVars>>

(* bind_and_start; skipped when a concurrent stop() has cleared the adapter *)
(* (the adapter test of start() then simply fails).                        *)
BindAndStart ==
  /\ Step(Main, "bind", "announce")
  /\ UNCHANGED <<lifeVars, reqVars, workVars, jobVars, ctlVars, srmVars, histVars>>

EmitBootstrapSucceeded ==
  /\ Step(Main, "announce", "reportok")
  /\ UNCHANGED <<lifeVars, reqVars, workVars, jobVars, ctlVars, srmVars, histVars>>

ReportBootstrapSuccess ==
  /\ Step(Main, "reportok", "ready")
  /\ Deliver("RUNNING")
  /\ UNCHANGED <<lifeVars, reqVars, workVars, jobVars, ctlVars, finals,
                 terminated, histVars>>

SetReady ==
  /\ Step(Main, "ready", "started")
  /\ phase' = "READY"
  /\ UNCHANGED <<started, complete, inProgress, reqVars, workVars, jobVars,
                 ctlVars, srmVars, histVars>>

MarkStarted ==
  /\ Step(Main, "started", "beat1")
  /\ started' = TRUE
  /\ complete' = FALSE
  /\ UNCHANGED <<phase, inProgress, reqVars, workVars, jobVars, ctlVars,
                 srmVars, histVars>>

(* emit_periodic_heartbeat in three steps: the early returns, the reading  *)
(* of _phase into the status, the POST.                                    *)
BeatCheck(t, at, skip, to) ==
  /\ pc[t] = at
  /\ Step(t, at, IF ~inProgress /\ deps /\ Live THEN to ELSE skip)
  /\ UNCHANGED <<lifeVars, reqVars, workVars, jobVars, ctlVars, srmVars, histVars>>

BeatRead(t, at, to) ==
  /\ Step(t, at, to)
  /\ beat' = [beat EXCEPT ![t] = phase]
  /\ UNCHANGED <<lifeVars, reqVars, workVars, jobVars, mainWhy, failure,
                 reason, interrupts, srmVars, histVars>>

BeatPost(t, at, to) ==
  /\ Step(t, at, to)
  /\ DeliverBeat(beat[t])
  /\ UNCHANGED <<lifeVars, reqVars, workVars, jobVars, ctlVars, finals,
                 terminated, histVars>>

MainBeat ==
  \/ BeatCheck(Main, "beat1", "jobs", "read1")
  \/ BeatRead(Main, "read1", "post1")
  \/ BeatPost(Main, "post1", "jobs")
  \/ BeatCheck(Main, "beat2", "startfeeds", "read2")
  \/ BeatRead(Main, "read2", "post2")
  \/ BeatPost(Main, "post2", "startfeeds")

(* HeartbeatPeriodicJobs.start clears the stop event: a stop() that came   *)
(* before has no effect on the thread.                                     *)
StartPeriodicJobs ==
  /\ Runs(Main) /\ pc[Main] = "jobs"
  /\ pc' = [pc EXCEPT ![Main] = "runcheck", ![Hb] = "idle"]
  /\ hbThread' = TRUE
  /\ hbStop' = FALSE
  /\ UNCHANGED <<lifeVars, reqVars, workVars, feedStop, ctlVars, srmVars, histVars>>

RunCheck ==
  /\ pc[Main] = "runcheck"
  /\ Step(Main, "runcheck", IF phase = "READY" THEN "running" ELSE "loop")
  /\ UNCHANGED <<lifeVars, reqVars, workVars, jobVars, ctlVars, srmVars, histVars>>

SetRunning ==
  /\ Step(Main, "running", "beat2")
  /\ phase' = "RUNNING"
  /\ UNCHANGED <<started, complete, inProgress, reqVars, workVars, jobVars,
                 ctlVars, srmVars, histVars>>

(* The _maybe_start_* calls of run().  Starting a feed clears its stop     *)
(* event; an unconfigured feed is not started.                             *)
StartFeeds ==
  /\ Runs(Main) /\ pc[Main] = "startfeeds"
  /\ \/ /\ pc' = [pc EXCEPT ![Main] = "loop", ![Feed] = "idle"]
        /\ feedStop' = FALSE
     \/ /\ pc' = [pc EXCEPT ![Main] = "loop"]
        /\ UNCHANGED feedStop
  /\ UNCHANGED <<lifeVars, reqVars, workVars, hbThread, hbStop, ctlVars,
                 srmVars, histVars>>

(* An exception inside start(): a failed bootstrap pipeline (a             *)
(* BootstrapFailure), or any later call that raises.                       *)
StartRaises ==
  /\ StartupMayFail
  /\ \E l \in {"boot", "deps", "create", "bind", "announce", "started",
               "post1", "jobs"} :
       /\ Step(Main, l, "fail")
       /\ failure' \in IF l = "boot" THEN {"bootstrap", "other"} ELSE {"other"}
  /\ UNCHANGED <<lifeVars, reqVars, workVars, jobVars, mainWhy, reason, beat,
                 interrupts, srmVars, histVars>>

(* An exception in run() after start() returned: nothing is rolled back,   *)
(* the phase stays RUNNING and the feeds are never started.                *)
RunRaises ==
  /\ StartupMayFail
  /\ \E l \in {"beat2", "post2", "startfeeds"} : Step(Main, l, "loop")
  /\ UNCHANGED <<lifeVars, reqVars, workVars, jobVars, ctlVars, srmVars, histVars>>

(* Mutant of EnterFailed: the status POST of _set_phase(FAILED) forgotten. *)
EnterFailedSilently ==
  /\ Step(Main, "fail", "strategy")
  /\ phase' = "FAILED"
  /\ UNCHANGED <<started, complete, inProgress, reqVars, workVars, jobVars,
                 ctlVars, srmVars, histVars>>

(* except-branch of start(): _set_phase(FAILED), whose status POST is      *)
(* skipped while a shutdown is in progress, then _rollback_partial_startup *)
(* (its _stop_strategy_loop is the label "strategy" of stop() below).      *)
EnterFailed ==
  /\ pc[Main] = "fail"
  /\ Step(Main, "fail", IF ~inProgress /\ deps THEN "failpost" ELSE "strategy")
  /\ phase' = "FAILED"
  /\ UNCHANGED <<started, complete, inProgress, reqVars, workVars, jobVars,
                 ctlVars, srmVars, histVars>>

PostFailed ==
  /\ Step(Main, "failpost", "strategy")
  /\ DeliverBeat(phase)
  /\ UNCHANGED <<lifeVars, reqVars, workVars, jobVars, ctlVars, finals,
                 terminated, histVars>>

RollbackReport ==
  /\ Step(Main, "rbreport", "rbdone")
  /\ deps' \in {deps, TRUE}
  /\ IF failure = "bootstrap" THEN Deliver("STARTUP_FAILED") ELSE srm' = srm
  /\ UNCHANGED <<lifeVars, reqVars, adapter, replayDone, jobVars, ctlVars,
                 finals, terminated, histVars>>

RollbackDone ==
  /\ Step(Main, "rbdone", "loop")
  /\ started' = FALSE
  /\ complete' = FALSE
  /\ UNCHANGED <<phase, inProgress, reqVars, workVars, jobVars, ctlVars,
                 srmVars, histVars>>

-----------------------------------------------------------------------------
(***************************************************************************)
(* LifecycleService.stop, run by thread t.  There is no lock: the bodies   *)
(* of two threads interleave step by step.  CoopThreads pass no reason,    *)
(* StopWorker passes STOP_REQUESTED, Main passes mainWhy; only Main asks   *)
(* for the runtime.terminated signal.                                      *)
(***************************************************************************)
TerminationReasonCode(t) ==
  CASE t = Main           -> mainWhy
    [] t \in GrpcThreads  -> "STOP_REQUESTED"
    [] OTHER              -> NoReason

(* Main is in the rollback of start(), not in stop().                      *)
RollingBack(t) == t = Main /\ mainWhy = NoReason

AfterStop(t)  == IF t = Main THEN "exiting" ELSE "done"
AfterRaise(t) ==
  IF t # Main THEN "raised" ELSE IF mainWhy = NoReason THEN "loop" ELSE "exiting"

StopCheck(t) ==
  /\ pc[t] = "stop"
  /\ Step(t, "stop", IF complete THEN AfterStop(t) ELSE "resolve")
  /\ bodies' = IF complete THEN bodies ELSE bodies \cup {t}
  /\ UNCHANGED <<lifeVars, reqVars, workVars, jobVars, ctlVars, srmVars, onStops>>

(* Mutants of ResolvedReason: the caller's argument wins over the accepted *)
(* request; the normalisation is forgotten.                                *)
ResolvedReasonOfCaller(t) ==
  IF TerminationReasonCode(t) # NoReason
    THEN normalize_runtime_reason_code(TerminationReasonCode(t))
    ELSE normalize_runtime_reason_code("MANUAL_STOP_REQUESTED")
ResolvedReasonRaw(t) ==
  IF canonical # NoReason THEN canonical
  ELSE IF TerminationReasonCode(t) # NoReason THEN TerminationReasonCode(t)
  ELSE "MANUAL_STOP_REQUESTED"

(* The reason a request was accepted with wins over the caller's argument. *)
ResolvedReason(t) ==
  IF canonical # NoReason THEN canonical
  ELSE IF TerminationReasonCode(t) # NoReason
    THEN normalize_runtime_reason_code(TerminationReasonCode(t))
  ELSE IF phase = "FAILED"
    THEN normalize_runtime_reason_code("ERROR_DETECTED")
    ELSE normalize_runtime_reason_code("MANUAL_STOP_REQUESTED")

StopResolveReason(t) ==
  /\ Step(t, "resolve", "block")
  /\ reason' = [reason EXCEPT ![t] = ResolvedReason(t)]
  /\ UNCHANGED <<lifeVars, reqVars, workVars, jobVars, mainWhy, failure, beat,
                 interrupts, srmVars, histVars>>

StopBlockHeartbeats(t) ==
  /\ Step(t, "block", "feeds")
  /\ inProgress' = TRUE
  /\ UNCHANGED <<phase, started, complete, reqVars, workVars, jobVars, ctlVars,
                 srmVars, histVars>>

(* Mutant of StopFeeds: the feed's stop event is not set.                  *)
StopFeedsNoEvent(t) ==
  /\ Step(t, "feeds", "joinfeed")
  /\ UNCHANGED <<lifeVars, reqVars, workVars, jobVars, ctlVars, srmVars, histVars>>

StopFeeds(t) ==
  /\ Step(t, "feeds", "joinfeed")
  /\ feedStop' = TRUE
  /\ UNCHANGED <<lifeVars, reqVars, workVars, hbThread, hbStop, ctlVars,
                 srmVars, histVars>>

(* Mutant of StopJoinFeeds: no join.                                       *)
StopJoinFeedsNoWait(t) ==
  /\ Step(t, "joinfeed", "hbstop")
  /\ UNCHANGED <<lifeVars, reqVars, workVars, jobVars, ctlVars, srmVars, histVars>>

(* The join gives up after 60 s: on a stream reader blocked in XREAD, which *)
(* its stop event does not wake, and on a handler where JoinTimeouts.       *)
StopJoinFeeds(t) ==
  /\ \/ pc[Feed] \in {"unborn", "done"}
     \/ Mode # "BACKTEST" /\ pc[Feed] = "idle"
     \/ JoinTimeouts
  /\ Step(t, "joinfeed", "hbstop")
  /\ UNCHANGED <<lifeVars, reqVars, workVars, jobVars, ctlVars, srmVars, histVars>>

(* HeartbeatPeriodicJobs.stop reads its _thread field twice: the second    *)
(* read finds None when another body got there first, and raises.          *)
StopHeartbeatJobs(t) ==
  /\ pc[t] = "hbstop"
  /\ Step(t, "hbstop", IF hbThread THEN "hbjoin" ELSE "stopping")
  /\ hbStop' = TRUE
  /\ UNCHANGED <<lifeVars, reqVars, workVars, feedStop, hbThread, ctlVars,
                 srmVars, histVars>>

(* Mutant of StopJoinHeartbeat: no join.                                   *)
StopJoinHeartbeatNoWait(t) ==
  /\ Step(t, "hbjoin", "stopping")
  /\ hbThread' = FALSE
  /\ UNCHANGED <<lifeVars, reqVars, workVars, feedStop, hbStop, ctlVars,
                 srmVars, histVars>>

StopJoinHeartbeat(t) ==
  /\ \/ /\ Step(t, "hbjoin", IF hbThread THEN "hbwait" ELSE AfterRaise(t))
        /\ UNCHANGED hbThread
     \/ /\ pc[Hb] = "done" \/ JoinTimeouts
        /\ Step(t, "hbwait", "stopping")
        /\ hbThread' = FALSE
  /\ UNCHANGED <<lifeVars, reqVars, workVars, feedStop, hbStop, ctlVars,
                 srmVars, histVars>>

(* Mutant of StopEnterStopping: the STOPPING phase is skipped.             *)
StopSkipStopping(t) ==
  /\ Step(t, "stopping", "strategy")
  /\ UNCHANGED <<lifeVars, reqVars, workVars, jobVars, ctlVars, srmVars, histVars>>

StopEnterStopping(t) ==
  /\ Step(t, "stopping", "strategy")
  /\ phase' = "STOPPING"
  /\ UNCHANGED <<started, complete, inProgress, reqVars, workVars, jobVars,
                 ctlVars, srmVars, histVars>>

(* _stop_strategy_loop: test the field, pass it to the instance manager    *)
(* (None.stop() raises), run on_stop, clear the field.                     *)
AfterStrategy(t) == IF RollingBack(t) THEN "rbreport" ELSE "close"

StopCheckAdapter(t) ==
  /\ pc[t] = "strategy"
  /\ Step(t, "strategy", IF adapter THEN "callstop" ELSE AfterStrategy(t))
  /\ UNCHANGED <<lifeVars, reqVars, workVars, jobVars, ctlVars, srmVars, histVars>>

StopCallOnStop(t) ==
  /\ pc[t] = "callstop"
  /\ Step(t, "callstop", IF adapter THEN "instop" ELSE AfterRaise(t))
  /\ onStops' = IF adapter THEN onStops + 1 ELSE onStops
  /\ UNCHANGED <<lifeVars, reqVars, workVars, jobVars, ctlVars, srmVars, bodies>>

StopClearAdapter(t) ==
  /\ Step(t, "instop", AfterStrategy(t))
  /\ adapter' = FALSE
  /\ UNCHANGED <<lifeVars, reqVars, deps, replayDone, jobVars, ctlVars,
                 srmVars, histVars>>

StopCloseClients(t) ==
  /\ Step(t, "close", "emit")
  /\ UNCHANGED <<lifeVars, reqVars, workVars, jobVars, ctlVars, srmVars, histVars>>

(* Mutant of FinalPhase: every BACKTEST shutdown counts as completed.      *)
FinalPhaseByMode(t) == IF Mode = "BACKTEST" THEN "COMPLETED" ELSE "STOPPED"

(* COMPLETED only for a job completion that was stop()'s own argument.     *)
FinalPhase(t) ==
  IF TerminationReasonCode(t) = "RUNTIME_JOB_COMPLETED" /\ Mode = "BACKTEST"
    THEN "COMPLETED" ELSE "STOPPED"

(* Mutant of StopEmitTerminated: the signal carries the phase before the   *)
(* final one.                                                              *)
StopEmitTerminatedEarly(t) ==
  /\ Step(t, "emit", "final")
  /\ terminated' = IF t = Main /\ deps
                     THEN terminated \cup {<<reason[t], phase>>}
                     ELSE terminated
  /\ UNCHANGED <<lifeVars, reqVars, workVars, jobVars, ctlVars, srm, finals,
                 histVars>>

StopEmitTerminated(t) ==
  /\ Step(t, "emit", "final")
  /\ terminated' = IF t = Main /\ deps
                     THEN terminated \cup {<<reason[t], FinalPhase(t)>>}
                     ELSE terminated
  /\ UNCHANGED <<lifeVars, reqVars, workVars, jobVars, ctlVars, srm, finals,
                 histVars>>

StopEnterFinalPhase(t) ==
  /\ Step(t, "final", "report")
  /\ phase' = FinalPhase(t)
  /\ UNCHANGED <<started, complete, inProgress, reqVars, workVars, jobVars,
                 ctlVars, srmVars, histVars>>

StopReportFinal(t) ==
  /\ Step(t, "report", "complete")
  /\ Deliver(FinalStatus(reason[t]))
  /\ finals' = finals \cup {[by |-> t, reason |-> reason[t]]}
  /\ UNCHANGED <<lifeVars, reqVars, workVars, jobVars, ctlVars, terminated,
                 histVars>>

StopComplete(t) ==
  /\ Step(t, "complete", AfterStop(t))
  /\ complete' = TRUE
  /\ started' = FALSE
  /\ UNCHANGED <<phase, inProgress, reqVars, workVars, jobVars, ctlVars,
                 srmVars, histVars>>

(* The calls of stop() (and of the rollback) that may raise: recording a   *)
(* shutdown step or a phase in the journal, flush, close, emit_terminated. *)
(* Nothing is undone.                                                      *)
StopRaises(t) ==
  /\ Faults
  /\ \E l \in {"feeds", "hbstop", "strategy", "close", "emit", "report"} :
       Step(t, l, AfterRaise(t))
  /\ UNCHANGED <<lifeVars, reqVars, workVars, jobVars, ctlVars, srmVars, histVars>>

RollbackRaises ==
  /\ Faults
  /\ Step(Main, "rbreport", "loop")
  /\ UNCHANGED <<lifeVars, reqVars, workVars, jobVars, ctlVars, srmVars, histVars>>

StopBody(t) ==
  \/ StopCheck(t) \/ StopResolveReason(t) \/ StopBlockHeartbeats(t)
  \/ StopFeeds(t) \/ StopJoinFeeds(t) \/ StopHeartbeatJobs(t)
  \/ StopJoinHeartbeat(t) \/ StopEnterStopping(t) \/ StopCheckAdapter(t)
  \/ StopCallOnStop(t) \/ StopClearAdapter(t) \/ StopCloseClients(t)
  \/ StopEmitTerminated(t) \/ StopEnterFinalPhase(t) \/ StopReportFinal(t)
  \/ StopComplete(t) \/ StopRaises(t)

-----------------------------------------------------------------------------
(***************************************************************************)
(* Stop requests: HTTP POST, StopWorker and SIGTERM all go through         *)
(* initiate_stop_from_request; HTTP and SIGTERM then make sure that the    *)
(* coordinator's shutdown thread exists, StopWorker runs stop() itself.    *)
(***************************************************************************)
Starting ==
  pc[Main] \in StartLabels \/ (pc[Main] \in StopLabels /\ RollingBack(Main))

StopsAllowed ==
  /\ StopsDuringStartup \/ ~Starting
  /\ pc[Main] \notin {"joining", "exited"}

HttpStopArrives(h) ==
  /\ StopsAllowed
  /\ Step(h, "idle", "init")
  /\ UNCHANGED <<lifeVars, reqVars, workVars, jobVars, ctlVars, srmVars, histVars>>

StopWorkerArrives(g) ==
  /\ StopsAllowed
  /\ Step(g, "idle", "checkpoint")
  /\ UNCHANGED <<lifeVars, reqVars, workVars, jobVars, ctlVars, srmVars, histVars>>

(* record_manager_stop_request_checkpoint, before anything is decided.     *)
StopWorkerCheckpoint(g) ==
  /\ \/ Step(g, "checkpoint", "init")
     \/ Faults /\ Step(g, "checkpoint", "rejected")
  /\ UNCHANGED <<lifeVars, reqVars, workVars, jobVars, ctlVars, srmVars, histVars>>

(* _on_sigterm acts once per process (handler_invoked).                    *)
SigtermArrives ==
  /\ SigtermSent
  /\ StopsDuringStartup \/ ~Starting
  /\ Step(Sig, "idle", "init")
  /\ UNCHANGED <<lifeVars, reqVars, workVars, jobVars, ctlVars, srmVars, histVars>>

(* Mutant of InitiateAcquire: the lock is not taken.                       *)
InitiateWithoutLock(r) ==
  /\ Step(r, "init", "initcheck")
  /\ UNCHANGED <<lifeVars, reqVars, workVars, jobVars, ctlVars, srmVars, histVars>>

InitiateAcquire(r) ==
  /\ initLock = NoThread
  /\ Step(r, "init", "initcheck")
  /\ initLock' = r
  /\ UNCHANGED <<lifeVars, accepted, canonical, coopStarted, acceptedBy,
                 workVars, jobVars, ctlVars, srmVars, histVars>>

(* Mutant of AfterInitiateRaised: StopWorker goes on to stop() although    *)
(* its request was refused.                                                *)
AfterInitiateIgnored(r) ==
  IF r = Sig THEN "ensure" ELSE IF r \in GrpcThreads THEN "stop" ELSE "rejected"

(* WorkerAlreadyStopped ends every request.  StopAlreadyInProgress ends an *)
(* HTTP or StopWorker request, but after it (as after any other exception) *)
(* the SIGTERM handler still calls _ensure_shutdown_thread.                *)
AfterInitiateRaised(r) == IF r = Sig THEN "ensure" ELSE "rejected"
AfterInitiate(r)       == IF r \in GrpcThreads THEN "stop" ELSE "ensure"

(* Mutant of InitiateCheck: a stop in progress is not noticed.             *)
InitiateCheckComplete(r) ==
  /\ pc[r] = "initcheck"
  /\ Step(r, "initcheck",
          IF complete THEN (IF r = Sig THEN "done" ELSE "rejected")
          ELSE "initpost")
  /\ initLock' = IF complete THEN NoThread ELSE initLock
  /\ UNCHANGED <<lifeVars, accepted, canonical, coopStarted, acceptedBy,
                 workVars, jobVars, ctlVars, srmVars, histVars>>

InitiateCheck(r) ==
  /\ pc[r] = "initcheck"
  /\ Step(r, "initcheck",
          IF complete THEN (IF r = Sig THEN "done" ELSE "rejected")
          ELSE IF accepted \/ inProgress THEN AfterInitiateRaised(r)
          ELSE "initpost")
  /\ initLock' = IF complete \/ accepted \/ inProgress THEN NoThread ELSE initLock
  /\ UNCHANGED <<lifeVars, accepted, canonical, coopStarted, acceptedBy,
                 workVars, jobVars, ctlVars, srmVars, histVars>>

(* report_stopping_to_srm, inside the lock and before any flag is set.     *)
InitiatePostStopping(r) ==
  /\ \/ /\ Step(r, "initpost", "initset")
        /\ Deliver("STOPPING")
        /\ UNCHANGED initLock
     \/ /\ Faults
        /\ Step(r, "initpost", AfterInitiateRaised(r))
        /\ srm' \in {srm, "STOPPING"}
        /\ initLock' = NoThread
  /\ UNCHANGED <<lifeVars, accepted, canonical, coopStarted, acceptedBy,
                 workVars, jobVars, ctlVars, finals, terminated, histVars>>

RequestTexts(r) ==
  CASE r = Sig             -> {"KUBERNETES_TERMINATION"}
    [] r \in GrpcThreads   -> {"STOP_REQUESTED"}
    [] OTHER               -> HttpTexts

InitiateAccept(r) ==
  /\ Step(r, "initset", AfterInitiate(r))
  /\ accepted' = TRUE
  /\ canonical' \in {canonical_reason_from_stop_request(x) : x \in RequestTexts(r)}
  /\ inProgress' = TRUE
  /\ initLock' = NoThread
  /\ acceptedBy' = acceptedBy \cup {r}
  /\ UNCHANGED <<phase, started, complete, coopStarted, workVars, jobVars,
                 ctlVars, srmVars, histVars>>

(* Mutant of EnsureShutdownThread: every request starts a thread.          *)
EnsureAlwaysStarts(r) ==
  /\ Runs(r) /\ pc[r] = "ensure"
  /\ \E c \in CoopThreads :
       /\ pc[c] = "unborn"
       /\ pc' = [pc EXCEPT ![r] = "done", ![c] = "stop"]
  /\ coopStarted' = TRUE
  /\ UNCHANGED <<lifeVars, accepted, canonical, initLock, acceptedBy, workVars,
                 jobVars, ctlVars, srmVars, histVars>>

(* _ensure_shutdown_thread: at most one shutdown thread per process.       *)
EnsureShutdownThread(r) ==
  /\ Runs(r) /\ pc[r] = "ensure"
  /\ \/ /\ coopStarted
        /\ pc' = [pc EXCEPT ![r] = "done"]
     \/ /\ ~coopStarted
        /\ \E c \in CoopThreads :
             /\ pc[c] = "unborn"
             /\ pc' = [pc EXCEPT ![r] = "done", ![c] = "stop"]
  /\ coopStarted' = TRUE
  /\ UNCHANGED <<lifeVars, accepted, canonical, initLock, acceptedBy, workVars,
                 jobVars, ctlVars, srmVars, histVars>>

Initiate(r) ==
  \/ InitiateAcquire(r) \/ InitiateCheck(r) \/ InitiatePostStopping(r)
  \/ InitiateAccept(r) \/ EnsureShutdownThread(r)

-----------------------------------------------------------------------------
(***************************************************************************)
(* The heartbeat thread and the data feed.                                 *)
(***************************************************************************)
HeartbeatTick ==
  \/ ~hbStop /\ BeatCheck(Hb, "idle", "idle", "read")
  \/ BeatRead(Hb, "read", "post")
  \/ BeatPost(Hb, "post", "idle")

HeartbeatExit ==
  /\ hbStop
  /\ Step(Hb, "idle", "done")
  /\ UNCHANGED <<lifeVars, reqVars, workVars, jobVars, ctlVars, srmVars, histVars>>

(* A market event passes the tests of _dispatch_paper_live_tick (or of the *)
(* historical driver's bar loop, which captured its adapter earlier) and   *)
(* the strategy's handler runs until FeedTickEnds.                         *)
FeedTick ==
  /\ ~feedStop /\ ~inProgress
  /\ Mode # "BACKTEST" => Live /\ adapter
  /\ Step(Feed, "idle", "tick")
  /\ UNCHANGED <<lifeVars, reqVars, workVars, jobVars, ctlVars, srmVars, histVars>>

FeedTickEnds ==
  /\ Step(Feed, "tick", "idle")
  /\ UNCHANGED <<lifeVars, reqVars, workVars, jobVars, ctlVars, srmVars, histVars>>

(* A read that returned nothing, or an event the tests drop.               *)
FeedReads ==
  /\ Runs(Feed) /\ pc[Feed] = "idle" /\ ~feedStop
  /\ UNCHANGED vars

FeedExit ==
  /\ feedStop \/ (Mode = "BACKTEST" /\ (inProgress \/ ~Live))
  /\ Step(Feed, "idle", "done")
  /\ UNCHANGED <<lifeVars, reqVars, workVars, jobVars, ctlVars, srmVars, histVars>>

(* The historical driver has paged through [ts_start, ts_end], or found    *)
(* its stop event set between two pages: it does not tell the two apart.   *)
FeedJobComplete ==
  /\ Mode = "BACKTEST"
  /\ Step(Feed, "idle", "done")
  /\ replayDone' = TRUE
  /\ UNCHANGED <<lifeVars, reqVars, adapter, deps, jobVars, ctlVars, srmVars,
                 histVars>>

(* push_replay_context with end_of_stream, on a replay ingress pool thread: *)
(* no phase test, and the dependencies are created if there are none yet.  *)
ReplayEndOfStream ==
  /\ Mode = "BACKTEST"
  /\ ~Exited /\ pc[Main] # "joining" /\ ~replayDone
  /\ deps' = TRUE
  /\ replayDone' = TRUE
  /\ UNCHANGED <<lifeVars, reqVars, adapter, jobVars, pc, ctlVars, srmVars, histVars>>

-----------------------------------------------------------------------------
(***************************************************************************)
(* WorkerApp.run's polling loops, Ctrl+C and process exit.  The loop that  *)
(* waits for first data and the one after it differ in their sleep only.   *)
(***************************************************************************)
(* Mutant of should_stop_for_completed_backtest_job: RUNNING left out.     *)
should_stop_when_ready ==
  /\ ~complete /\ ~inProgress
  /\ Mode = "BACKTEST" /\ replayDone
  /\ phase = "READY"

should_stop_for_completed_backtest_job ==
  /\ ~complete /\ ~inProgress
  /\ Mode = "BACKTEST" /\ replayDone
  /\ Live

Poll ==
  /\ pc[Main] = "loop" /\ Runs(Main)
  /\ phase \in {"READY", "RUNNING", "FAILED"}
  /\ ~should_stop_for_completed_backtest_job
  /\ UNCHANGED vars

PollLeaves ==
  /\ phase \notin {"READY", "RUNNING", "FAILED"}
  /\ Step(Main, "loop", "exiting")
  /\ UNCHANGED <<lifeVars, reqVars, workVars, jobVars, ctlVars, srmVars, histVars>>

PollJobCompleted ==
  /\ should_stop_for_completed_backtest_job
  /\ Step(Main, "loop", "stop")
  /\ mainWhy' = "RUNTIME_JOB_COMPLETED"
  /\ UNCHANGED <<lifeVars, reqVars, workVars, jobVars, failure, reason, beat,
                 interrupts, srmVars, histVars>>

(* KeyboardInterrupt on the main thread.  In the polling loop, or in the   *)
(* job-completion stop() it called, the handler runs stop() (again) unless *)
(* the phase is final; elsewhere it unwinds to the end of main().          *)
KeyboardInterrupt ==
  /\ interrupts < MaxInterrupts
  /\ interrupts' = interrupts + 1
  /\ LET handled == \/ pc[Main] = "loop"
                    \/ pc[Main] \in StopLabels /\ mainWhy = "RUNTIME_JOB_COMPLETED"
         again   == handled /\ phase \notin {"STOPPED", "COMPLETED"}
     IN /\ mainWhy' = IF again THEN "MANUAL_STOP_REQUESTED" ELSE mainWhy
        /\ \E l \in StartLabels \cup StopLabels \cup {"loop"} :
             Step(Main, l, IF again THEN "stop" ELSE "exiting")
  /\ UNCHANGED <<lifeVars, reqVars, workVars, jobVars, failure, reason, beat,
                 srmVars, histVars>>

(* main()'s finally stops the servers; the interpreter then joins the gRPC *)
(* pool and the non-daemon feed, and kills every daemon thread.            *)
StopServers ==
  /\ Step(Main, "exiting", "joining")
  /\ UNCHANGED <<lifeVars, reqVars, workVars, jobVars, ctlVars, srmVars, histVars>>

(* Mutant of ProcessExit: running StopWorker handlers are not waited for.  *)
ProcessExitAtOnce ==
  /\ pc[Feed] \in {"unborn", "done"}
  /\ Step(Main, "joining", "exited")
  /\ UNCHANGED <<lifeVars, reqVars, workVars, jobVars, ctlVars, srmVars, histVars>>

ProcessExit ==
  /\ \A g \in GrpcThreads : pc[g] \in {"idle", "rejected", "done", "raised"}
  /\ pc[Feed] \in {"unborn", "done"}
  /\ Step(Main, "joining", "exited")
  /\ UNCHANGED <<lifeVars, reqVars, workVars, jobVars, ctlVars, srmVars, histVars>>

AfterExit == Exited /\ UNCHANGED vars

-----------------------------------------------------------------------------
Startup ==
  \/ Bootstrap \/ InitializeDependencies \/ InitializeStrategyCoordinator
  \/ BindAndStart \/ EmitBootstrapSucceeded \/ ReportBootstrapSuccess
  \/ SetReady \/ MarkStarted \/ MainBeat \/ StartPeriodicJobs \/ RunCheck
  \/ SetRunning \/ StartFeeds \/ StartRaises \/ RunRaises
  \/ EnterFailed \/ PostFailed \/ RollbackReport \/ RollbackDone
  \/ RollbackRaises

MainLoop == Poll \/ PollLeaves \/ PollJobCompleted \/ StopServers \/ ProcessExit

Environment ==
  \/ \E h \in HttpThreads : HttpStopArrives(h)
  \/ \E g \in GrpcThreads : StopWorkerArrives(g)
  \/ SigtermArrives \/ ReplayEndOfStream \/ KeyboardInterrupt

FeedThread == FeedTick \/ FeedReads \/ FeedTickEnds \/ FeedExit \/ FeedJobComplete

Next ==
  \/ Startup \/ MainLoop \/ Environment
  \/ \E t \in Stoppers : StopBody(t)
  \/ \E r \in Requesters : Initiate(r)
  \/ \E g \in GrpcThreads : StopWorkerCheckpoint(g)
  \/ HeartbeatTick \/ HeartbeatExit \/ FeedThread
  \/ AfterExit

Spec == Init /\ [][Next]_vars

(* Every thread that has work to do is eventually scheduled, handlers of   *)
(* market events return, and so do the queries of a BACKTEST.  The XREAD   *)
(* of a PAPER or LIVE feed need not: it has BLOCK 0 by default and waits   *)
(* for the next entry.  Requests, Ctrl+C and the end of a replay stream    *)
(* need never come either.                                                 *)
Fairness ==
  /\ WF_vars(Startup \/ MainLoop \/ StopBody(Main))
  /\ \A t \in CoopThreads : WF_vars(StopBody(t))
  /\ \A g \in GrpcThreads : WF_vars(StopWorkerCheckpoint(g) \/ Initiate(g) \/ StopBody(g))
  /\ \A h \in HttpThreads : WF_vars(Initiate(h))
  /\ WF_vars(Initiate(Sig))
  /\ WF_vars(HeartbeatTick \/ HeartbeatExit)
  /\ WF_vars(FeedTickEnds)
  /\ Mode = "BACKTEST" => WF_vars(FeedTickEnds \/ FeedExit \/ FeedJobComplete)

FairSpec == Spec /\ Fairness

-----------------------------------------------------------------------------
(***************************************************************************)
(* Properties.                                                             *)
(***************************************************************************)

(* initiate_stop_from_request returns to at most one caller per process,   *)
(* whatever the mix of HTTP, StopWorker and SIGTERM requests, of failures  *)
(* and of stop() bodies; the flags it sets agree with that.                *)
OneAcceptance ==
  /\ \A r, q \in acceptedBy : r = q
  /\ accepted <=> acceptedBy # {}
  /\ accepted <=> canonical # NoReason
  /\ accepted => inProgress

(* Why OneAcceptance is inductive: the requesters between the lock and the *)
(* flags hold the lock, so there is at most one of them, and past the test *)
(* it stays true that nobody has been accepted, since only they can be.    *)
LockLabels == {"initcheck", "initpost", "initset"}

AcceptInv ==
  /\ TypeOK
  /\ \A r \in Requesters : pc[r] \in LockLabels => initLock = r
  /\ \A r \in Requesters : pc[r] \in {"initpost", "initset"} => ~accepted
  /\ OneAcceptance

(* A StopWorker handler tears the worker down only after its own request   *)
(* was accepted, and the coordinator starts one shutdown thread at most:   *)
(* besides Main, two bodies of stop() are the most there can ever be.      *)
BodiesAreAuthorised ==
  /\ bodies \cap GrpcThreads \subseteq acceptedBy
  /\ \A c, d \in bodies \cap CoopThreads : c = d

(* No two executions of the body of stop(): it has no lock of its own, so  *)
(* the entry points have to exclude each other.                            *)
SingleStopBody == \A t, u \in bodies : t = u

(* Every final report carries the reason the stop request was accepted     *)
(* with, whichever thread's stop() sends it.                               *)
FinalMatchesRequest ==
  accepted => \A f \in finals : f.reason = canonical

(* Every assignment of _phase is an edge of ALLOWED_PHASE_TRANSITIONS:     *)
(* _set_phase does not call validate_transition.                           *)
PhaseEdgesLegal == [][can_transition(phase, phase')]_phase

(* stop() stops the feed and joins it, or gives the join up in a read,     *)
(* before the strategy's on_stop:                                          *)
(* the strategy never handles a market event during or after on_stop, and  *)
(* on_stop is called once, although every thread in stop() tests and       *)
(* clears the adapter without a lock.                                      *)
NoTickAfterOnStop ==
  /\ pc[Feed] = "tick" => onStops = 0
  /\ onStops <= 1

(* The heartbeat thread posts no status once stop() has moved the phase:   *)
(* the flag blocks new ticks and the join waits for the one in flight.     *)
NoHeartbeatAfterPhaseMoves ==
  [][pc[Hb] = "post" /\ pc'[Hb] = "idle" => Live]_vars

(* COMPLETED is entered, and announced as runtime.terminated, only by a    *)
(* BACKTEST job whose replay is complete.                                  *)
CompletedMeansReplayed ==
  phase = "COMPLETED" \/ (\E s \in terminated : s[2] = "COMPLETED")
    => Mode = "BACKTEST" /\ replayDone

(* runtime.terminated is emitted once, for a job that finished by itself.  *)
TerminatedOnce ==
  /\ \A s, u \in terminated : s = u
  /\ pc[Main] \in {"exiting", "joining", "exited"} =>
       terminated = {<<"LOCAL_TERMINATION_OBSERVED", "COMPLETED">>}

(* Once start() has failed and rolled back, the manager is not left with   *)
(* READY or RUNNING, although RUNNING is reported before READY is entered  *)
(* and a heartbeat may have followed.                                      *)
FailureIsVisible ==
  phase = "FAILED" /\ pc[Main] \in {"rbdone", "loop"} /\ ~accepted
    => srm \notin {"READY", "RUNNING"}

(* An accepted stop request ends the process, unless the interpreter is    *)
(* held for ever by one thing alone: the feed's thread is not a daemon,    *)
(* and its read of a quiet stream never returns to look at the stop event. *)
(* Everything else of the shutdown is over then.                           *)
HeldByRead ==
  /\ Mode # "BACKTEST" /\ feedStop /\ pc[Feed] = "idle"
  /\ pc[Main] = "joining"
  /\ \A g \in GrpcThreads : pc[g] \in {"idle", "rejected", "done", "raised"}

StopEndsProcess == accepted ~> (Exited \/ []HeldByRead)

(* An accepted stop request is followed by the final report.               *)
StopIsReported == accepted ~> finals # {}

(* A BACKTEST job that has replayed everything shuts itself down.          *)
JobCompletionEndsProcess == replayDone ~> Exited /\ phase = "COMPLETED"

=============================================================================
