----------------------- MODULE StopRequests_proofs --------------------------
(***************************************************************************)
(* Theorems about stop requests: at most one is ever accepted, only an     *)
(* accepted one runs stop(), and where nobody else calls stop() its body   *)
(* runs at most once.                                                      *)
(***************************************************************************)
EXTENDS WorkerLifecycle_proofs

(* TypeOK holds after every step from a state where it holds.              *)
LEMMA TypeNext == TypeOK /\ Next => TypeOK'
<1> SUFFICES ASSUME TypeOK, Next PROVE TypeOK'
  OBVIOUS
<1>1. CASE AfterExit
  BY <1>1, Unchanged DEF AfterExit, vars, TypeOK
<1> QED BY <1>1, TypeStartup, TypeMainLoop, TypeEnvironment, TypeStopBody,
           TypeRequest, TypeWorkers DEF Next

-----------------------------------------------------------------------------
(* A step that moves one thread to a label outside the critical section,   *)
(* and leaves the flags of the request alone, preserves AcceptInv.         *)
LEMMA QuietStep ==
  ASSUME AcceptInv, TypeOK', NEW t \in Threads, NEW from, NEW to,
         Step(t, from, to), to \notin LockLabels,
         UNCHANGED <<accepted, canonical, initLock, acceptedBy>>,
         inProgress => inProgress'
  PROVE  AcceptInv'
<1>1. \A r \in Requesters : pc'[r] \in LockLabels => pc'[r] = pc[r]
  BY ThreadFacts DEF Step, AcceptInv, TypeOK
<1>2. OneAcceptance'
  BY DEF AcceptInv, OneAcceptance
<1> QED BY <1>1, <1>2 DEF AcceptInv, LockLabels

(* The same for a step that does not move any requester.                   *)
LEMMA QuietElsewhere ==
  ASSUME AcceptInv, TypeOK', \A r \in Requesters : pc'[r] = pc[r],
         UNCHANGED <<accepted, canonical, initLock, acceptedBy>>,
         inProgress => inProgress'
  PROVE  AcceptInv'
<1>1. OneAcceptance'
  BY DEF AcceptInv, OneAcceptance
<1> QED BY <1>1 DEF AcceptInv

(* The steps of start() and run().                                         *)
LEMMA AcceptStartup ==
  ASSUME AcceptInv, TypeOK', Startup
  PROVE  AcceptInv'
<1> USE ThreadFacts DEF LockLabels, reqVars, lifeVars
<1>1. CASE Bootstrap \/ InitializeDependencies \/
   InitializeStrategyCoordinator \/ BindAndStart \/ EmitBootstrapSucceeded \/
   ReportBootstrapSuccess
  BY <1>1, QuietStep DEF Bootstrap, InitializeDependencies,
     InitializeStrategyCoordinator, BindAndStart, EmitBootstrapSucceeded,
     ReportBootstrapSuccess
<1>2. CASE SetReady \/ MarkStarted \/ RunCheck \/ SetRunning \/ StartRaises \/
   RunRaises
  BY <1>2, QuietStep DEF SetReady, MarkStarted, RunCheck, SetRunning,
     StartRaises, RunRaises
<1>3. CASE PostFailed
  BY <1>3, QuietStep DEF PostFailed
<1>4. CASE RollbackReport
  BY <1>4, QuietStep DEF RollbackReport
<1>5. CASE RollbackDone \/ RollbackRaises
  BY <1>5, QuietStep DEF RollbackDone, RollbackRaises
<1>6. CASE EnterFailed
  BY <1>6, QuietStep DEF EnterFailed
<1>7. CASE MainBeat
  BY <1>7, QuietStep DEF MainBeat, BeatCheck, BeatRead, BeatPost
<1>8. CASE StartPeriodicJobs \/ StartFeeds
  <2>1. \A r \in Requesters : pc'[r] = pc[r]
    BY <1>8, ThreadsAssumption
       DEF StartPeriodicJobs, StartFeeds, AcceptInv, TypeOK, Requesters, Main, Sig, Hb, Feed
  <2> QED BY <1>8, <2>1, QuietElsewhere DEF StartPeriodicJobs, StartFeeds
<1> QED BY <1>1, <1>2, <1>3, <1>4, <1>5, <1>6, <1>7, <1>8 DEF Startup

(* The steps of stop(): no thread in it is inside the critical section,    *)
(* and inProgress is never reset.                                          *)
LEMMA AcceptStopBody ==
  ASSUME AcceptInv, TypeOK', NEW t \in Stoppers, StopBody(t)
  PROVE  AcceptInv'
<1> USE ThreadFacts DEF LockLabels, reqVars, lifeVars, AfterStop, AfterRaise, AfterStrategy
<1>1. CASE StopCheck(t) \/ StopResolveReason(t) \/ StopBlockHeartbeats(t) \/
   StopFeeds(t) \/ StopJoinFeeds(t) \/ StopHeartbeatJobs(t)
  BY <1>1, QuietStep DEF StopCheck, StopResolveReason, StopBlockHeartbeats,
     StopFeeds, StopJoinFeeds, StopHeartbeatJobs
<1>2. CASE StopJoinHeartbeat(t) \/ StopEnterStopping(t) \/ StopCheckAdapter(t)
   \/ StopCallOnStop(t) \/ StopClearAdapter(t) \/ StopCloseClients(t)
  BY <1>2, QuietStep DEF StopJoinHeartbeat, StopEnterStopping,
     StopCheckAdapter, StopCallOnStop, StopClearAdapter, StopCloseClients
<1>3. CASE StopEmitTerminated(t) \/ StopEnterFinalPhase(t) \/
   StopReportFinal(t) \/ StopComplete(t) \/ StopRaises(t)
  BY <1>3, QuietStep DEF StopEmitTerminated, StopEnterFinalPhase,
     StopReportFinal, StopComplete, StopRaises
<1> QED BY <1>1, <1>2, <1>3 DEF StopBody

(* The steps of a request: taking the lock needs it free; the test stops   *)
(* everyone once a request has been accepted; the one that passed it is    *)
(* alone until it has set the flags.                                       *)
LEMMA AcceptRequest ==
  ASSUME AcceptInv, TypeOK', NEW r \in Requesters, Initiate(r)
  PROVE  AcceptInv'
<1> USE ThreadFacts
<1>t. r \in Threads /\ pc \in [Threads -> Labels]
  BY DEF AcceptInv, TypeOK
<1>1. CASE InitiateAcquire(r)
  <2>1. \A q \in Requesters : pc[q] \notin LockLabels
    BY <1>1, ThreadsAssumption DEF InitiateAcquire, AcceptInv, Requesters, Sig, NoThread
  <2>2. \A q \in Requesters \ {r} : pc'[q] = pc[q]
    BY <1>1, <1>t DEF InitiateAcquire, Step
  <2>3. pc'[r] = "initcheck" /\ initLock' = r
    BY <1>1, <1>t DEF InitiateAcquire, Step
  <2>4. OneAcceptance'
    BY <1>1 DEF InitiateAcquire, AcceptInv, OneAcceptance, lifeVars
  <2> QED BY <1>1, <2>1, <2>2, <2>3, <2>4
         DEF InitiateAcquire, AcceptInv, LockLabels
<1>2. CASE InitiateCheck(r)
  <2>1. \A q \in Requesters \ {r} : pc'[q] = pc[q] /\ pc[q] \notin LockLabels
    BY <1>2, <1>t DEF InitiateCheck, Step, AcceptInv, LockLabels
  <2>2. \/ pc'[r] = "initpost" /\ ~accepted /\ initLock' = initLock
        \/ pc'[r] \notin LockLabels
    BY <1>2, <1>t DEF InitiateCheck, Step, LockLabels, AfterInitiateRaised
  <2>3. OneAcceptance'
    BY <1>2 DEF InitiateCheck, AcceptInv, OneAcceptance, lifeVars
  <2> QED BY <1>2, <2>1, <2>2, <2>3 DEF InitiateCheck, AcceptInv, LockLabels
<1>3. CASE InitiatePostStopping(r)
  <2>1. \A q \in Requesters \ {r} : pc'[q] = pc[q] /\ pc[q] \notin LockLabels
    BY <1>3, <1>t DEF InitiatePostStopping, Step, AcceptInv, LockLabels
  <2>2. \/ pc'[r] = "initset" /\ pc[r] = "initpost" /\ initLock' = initLock
        \/ pc'[r] \notin LockLabels
    BY <1>3, <1>t DEF InitiatePostStopping, Step, LockLabels, AfterInitiateRaised
  <2>3. OneAcceptance'
    BY <1>3 DEF InitiatePostStopping, AcceptInv, OneAcceptance, lifeVars
  <2> QED BY <1>3, <2>1, <2>2, <2>3 DEF InitiatePostStopping, AcceptInv, LockLabels
<1>4. CASE InitiateAccept(r)
  <2>1. \A q \in Requesters \ {r} : pc'[q] = pc[q] /\ pc[q] \notin LockLabels
    BY <1>4, <1>t DEF InitiateAccept, Step, AcceptInv, LockLabels
  <2>2. pc'[r] \notin LockLabels /\ pc[r] = "initset"
    BY <1>4, <1>t DEF InitiateAccept, Step, LockLabels, AfterInitiate
  <2>3. ~accepted /\ acceptedBy = {}
    BY <2>2 DEF AcceptInv, OneAcceptance
  <2>4. canonical' # NoReason
    BY <1>4, ReasonFacts DEF InitiateAccept, Reasons, NoReason
  <2>5. OneAcceptance'
    BY <1>4, <2>3, <2>4 DEF InitiateAccept, OneAcceptance
  <2> QED BY <1>4, <2>1, <2>2, <2>5 DEF InitiateAccept, AcceptInv, LockLabels
<1>5. CASE EnsureShutdownThread(r)
  <2>1. \A q \in Requesters : pc'[q] = pc[q] \/ pc'[q] \in {"done", "stop"}
    BY <1>5, <1>t DEF EnsureShutdownThread
  <2>2. OneAcceptance'
    BY <1>5 DEF EnsureShutdownThread, AcceptInv, OneAcceptance, lifeVars
  <2> QED BY <1>5, <2>1, <2>2 DEF EnsureShutdownThread, AcceptInv, LockLabels
<1> QED BY <1>1, <1>2, <1>3, <1>4, <1>5 DEF Initiate

(* All other steps.                                                        *)
LEMMA AcceptOthers ==
  ASSUME AcceptInv, TypeOK',
         \/ MainLoop \/ Environment \/ HeartbeatTick \/ HeartbeatExit \/ FeedThread
         \/ \E g \in GrpcThreads : StopWorkerCheckpoint(g)
  PROVE  AcceptInv'
<1> USE ThreadFacts DEF LockLabels, reqVars, lifeVars
<1>g. HttpThreads \subseteq Threads /\ GrpcThreads \subseteq Threads
  BY DEF Threads
<1>1. CASE PollLeaves \/ PollJobCompleted \/ StopServers \/ ProcessExit
  BY <1>1, QuietStep DEF PollLeaves, PollJobCompleted, StopServers, ProcessExit
<1>2. CASE \E h \in HttpThreads : HttpStopArrives(h)
  BY <1>2, <1>g, QuietStep DEF HttpStopArrives
<1>3. CASE \E g \in GrpcThreads : StopWorkerArrives(g) \/ StopWorkerCheckpoint(g)
  BY <1>3, <1>g, QuietStep DEF StopWorkerArrives, StopWorkerCheckpoint
<1>4. CASE SigtermArrives \/ KeyboardInterrupt
  BY <1>4, QuietStep DEF SigtermArrives, KeyboardInterrupt
<1>5. CASE HeartbeatTick
  BY <1>5, QuietStep DEF HeartbeatTick, BeatCheck, BeatRead, BeatPost
<1>6. CASE HeartbeatExit \/ FeedTick \/ FeedTickEnds \/ FeedExit \/ FeedJobComplete
  BY <1>6, QuietStep DEF HeartbeatExit, FeedTick, FeedTickEnds, FeedExit, FeedJobComplete
<1>7. CASE Poll \/ FeedReads \/ ReplayEndOfStream
  BY <1>7, QuietElsewhere DEF Poll, FeedReads, ReplayEndOfStream, vars
<1> QED BY <1>1, <1>2, <1>3, <1>4, <1>5, <1>6, <1>7 DEF MainLoop, Environment, FeedThread

(* The lock and the flags agree in every state.                            *)
LEMMA AcceptInvariant == Spec => []AcceptInv
<1>1. Init => AcceptInv
  <2> SUFFICES ASSUME Init PROVE AcceptInv
    OBVIOUS
  <2>1. TypeOK
    BY TypeInit
  <2>2. \A r \in Requesters : pc[r] = "idle"
    BY ThreadsAssumption, ThreadFacts DEF Init, Requesters, Main, Sig, Hb, Feed
  <2>3. OneAcceptance
    BY DEF Init, OneAcceptance
  <2> QED BY <2>1, <2>2, <2>3 DEF AcceptInv, LockLabels
<1>2. AcceptInv /\ [Next]_vars => AcceptInv'
  <2> SUFFICES ASSUME AcceptInv, [Next]_vars PROVE AcceptInv'
    OBVIOUS
  <2>1. CASE UNCHANGED vars
    BY <2>1, QuietElsewhere, Unchanged DEF vars, reqVars, lifeVars, AcceptInv, TypeOK
  <2>2. CASE Next
    <3>1. TypeOK'
      BY <2>2, TypeNext DEF AcceptInv
    <3>2. CASE AfterExit
      BY <3>1, <3>2, QuietElsewhere DEF AfterExit, vars, reqVars, lifeVars
    <3> QED BY <2>2, <3>1, <3>2, AcceptStartup, AcceptStopBody, AcceptRequest,
               AcceptOthers DEF Next
  <2> QED BY <2>1, <2>2
<1> QED BY <1>1, <1>2, PTL DEF Spec

(* At most one stop request is accepted per process: for any number of     *)
(* HTTP and StopWorker handlers, with or without SIGTERM, at any time of   *)
(* the start, whatever POSTs, joins and bodies of stop() fail.             *)
THEOREM AtMostOneAccepted == Spec => []OneAcceptance
<1>1. AcceptInv => OneAcceptance
  BY DEF AcceptInv
<1> QED BY <1>1, AcceptInvariant, PTL

-----------------------------------------------------------------------------
(* The threads are told apart.                                             *)
LEMMA Distinct ==
  /\ Main # Sig /\ Main # Hb /\ Main # Feed /\ Sig # Hb /\ Sig # Feed /\ Hb # Feed
  /\ {Main, Sig, Hb, Feed} \cap (HttpThreads \cup GrpcThreads \cup CoopThreads) = {}
  /\ Requesters \cap CoopThreads = {}
  /\ HttpThreads \cap GrpcThreads = {} /\ GrpcThreads \cap CoopThreads = {}
  BY ThreadsAssumption DEF Main, Sig, Hb, Feed, Requesters

(* What Step says of pc.                                                   *)
LEMMA Moved ==
  ASSUME TypeOK, NEW t \in Threads, NEW from, NEW to, Step(t, from, to)
  PROVE  /\ pc[t] = from /\ pc'[t] = to
         /\ \A u \in Threads \ {t} : pc'[u] = pc[u]
  BY DEF Step, TypeOK

(* The steps of start() and run() take the main thread from a label of     *)
(* theirs to another, to the polling loop or into the rollback; they start *)
(* the heartbeat thread and the feed, and move no other thread.            *)
LEMMA StartupMoves ==
  ASSUME TypeOK, Startup
  PROVE  /\ pc[Main] \in StartLabels /\ MainFree
         /\ pc'[Main] \in StartLabels \cup {"loop", "strategy"}
         /\ \A u \in Threads \ {Main, Hb, Feed} : pc'[u] = pc[u]
         /\ pc'[Hb] # pc[Hb] => StartPeriodicJobs
         /\ pc'[Feed] # pc[Feed] => StartFeeds
<1> USE ThreadFacts, Distinct DEF StartLabels
<1>1. CASE StartPeriodicJobs \/ StartFeeds
  BY <1>1 DEF StartPeriodicJobs, StartFeeds, TypeOK, Runs
<1>2. CASE ~(StartPeriodicJobs \/ StartFeeds)
  <2>1. \E from \in StartLabels, to \in StartLabels \cup {"loop", "strategy"} :
           Step(Main, from, to)
    <3>1. CASE MainBeat
      BY <3>1 DEF MainBeat, BeatCheck, BeatRead, BeatPost
    <3>2. CASE EnterFailed
      BY <3>2 DEF EnterFailed
    <3>3. CASE RunCheck
      BY <3>3 DEF RunCheck
    <3>4. CASE Bootstrap \/ InitializeDependencies \/ InitializeStrategyCoordinator
                 \/ BindAndStart \/ EmitBootstrapSucceeded \/ ReportBootstrapSuccess
      BY <3>4 DEF Bootstrap, InitializeDependencies, InitializeStrategyCoordinator,
         BindAndStart, EmitBootstrapSucceeded, ReportBootstrapSuccess
    <3>5. CASE SetReady \/ MarkStarted \/ SetRunning \/ StartRaises \/ RunRaises
      BY <3>5 DEF SetReady, MarkStarted, SetRunning, StartRaises, RunRaises
    <3>6. CASE PostFailed \/ RollbackReport \/ RollbackDone \/ RollbackRaises
      BY <3>6 DEF PostFailed, RollbackReport, RollbackDone, RollbackRaises
    <3> QED BY <1>2, <3>1, <3>2, <3>3, <3>4, <3>5, <3>6 DEF Startup
  <2> QED BY <1>2, <2>1, Moved DEF Step, Runs
<1> QED BY <1>1, <1>2

(* The steps of stop() move the thread that runs them.                     *)
LEMMA StopMoves ==
  ASSUME TypeOK, NEW t \in Stoppers, StopBody(t)
  PROVE  /\ pc[t] \in StopLabels /\ (t = Main => MainFree)
         /\ pc'[t] \in (StopLabels \ {"stop"}) \cup {AfterStop(t), AfterRaise(t), "rbreport"}
         /\ pc'[t] = "rbreport" => RollingBack(t)
         /\ \A u \in Threads \ {t} : pc'[u] = pc[u]
<1> USE ThreadFacts DEF StopLabels
<1>1. \E from \in StopLabels,
         to \in (StopLabels \ {"stop"}) \cup {AfterStop(t), AfterRaise(t), "rbreport"} :
        Step(t, from, to) /\ (to = "rbreport" => RollingBack(t))
  <2> USE DEF AfterStop, AfterRaise
  <2>1. CASE StopCheck(t) \/ StopHeartbeatJobs(t) \/ StopJoinHeartbeat(t)
    BY <2>1 DEF StopCheck, StopHeartbeatJobs, StopJoinHeartbeat
  <2>2. CASE StopCheckAdapter(t) \/ StopCallOnStop(t) \/ StopClearAdapter(t)
    BY <2>2 DEF StopCheckAdapter, StopCallOnStop, StopClearAdapter, AfterStrategy
  <2>3. CASE StopResolveReason(t) \/ StopBlockHeartbeats(t) \/ StopFeeds(t)
               \/ StopJoinFeeds(t) \/ StopEnterStopping(t) \/ StopCloseClients(t)
    BY <2>3 DEF StopResolveReason, StopBlockHeartbeats, StopFeeds, StopJoinFeeds,
       StopEnterStopping, StopCloseClients
  <2>4. CASE StopEmitTerminated(t) \/ StopEnterFinalPhase(t)
    BY <2>4 DEF StopEmitTerminated, StopEnterFinalPhase
  <2>5. CASE StopReportFinal(t) \/ StopComplete(t) \/ StopRaises(t)
    BY <2>5 DEF StopReportFinal, StopComplete, StopRaises
  <2> QED BY <2>1, <2>2, <2>3, <2>4, <2>5 DEF StopBody
<1>2. PICK from \in StopLabels,
           to \in (StopLabels \ {"stop"}) \cup {AfterStop(t), AfterRaise(t), "rbreport"} :
        Step(t, from, to) /\ (to = "rbreport" => RollingBack(t))
  BY <1>1
<1>3. pc[t] = from /\ pc'[t] = to /\ \A u \in Threads \ {t} : pc'[u] = pc[u]
  BY <1>2, Moved
<1>4. t = Main => MainFree
  BY <1>2 DEF Step, Runs
<1> QED BY <1>2, <1>3, <1>4

(* The steps of a request move the thread that handles it, and perhaps a   *)
(* shutdown thread out of "unborn".                                        *)
LEMMA RequestMoves ==
  ASSUME TypeOK, NEW r \in Requesters, Initiate(r)
  PROVE  /\ pc[r] \in {"init", "initcheck", "initpost", "initset", "ensure"}
         /\ pc'[r] \in {"initcheck", "initpost", "initset", "ensure", "rejected",
                        "stop", "done"}
         /\ pc'[r] = "stop" => InitiateAccept(r) /\ r \in GrpcThreads
         /\ \A u \in Threads \ {r} :
              pc'[u] = pc[u]
                \/ (EnsureShutdownThread(r) /\ ~coopStarted /\ u \in CoopThreads
                      /\ pc[u] = "unborn" /\ pc'[u] = "stop")
<1> USE ThreadFacts, Distinct
<1>1. CASE EnsureShutdownThread(r)
  BY <1>1 DEF EnsureShutdownThread, TypeOK
<1>2. CASE ~EnsureShutdownThread(r)
  <2>1. \E from \in {"init", "initcheck", "initpost", "initset"},
           to \in {"initcheck", "initpost", "initset", "ensure", "rejected",
                   "stop", "done"} :
           Step(r, from, to) /\ (to = "stop" => InitiateAccept(r) /\ r \in GrpcThreads)
    BY <1>2 DEF Initiate, InitiateAcquire, InitiateCheck, InitiatePostStopping,
       InitiateAccept, AfterInitiate, AfterInitiateRaised
  <2> QED BY <2>1, Moved
<1> QED BY <1>1, <1>2

(* The arrival of a request moves its handler out of "idle".               *)
Arrivals ==
  \/ \E h \in HttpThreads : HttpStopArrives(h)
  \/ \E g \in GrpcThreads : StopWorkerArrives(g)
  \/ SigtermArrives

LEMMA ArrivalMoves ==
  ASSUME TypeOK, Arrivals
  PROVE  \E r \in Requesters :
           /\ pc[r] = "idle" /\ pc'[r] \in {"init", "checkpoint"}
           /\ StopsDuringStartup \/ ~Starting
           /\ \A u \in Threads \ {r} : pc'[u] = pc[u]
<1>1. PICK r \in Requesters : /\ StopsDuringStartup \/ ~Starting
                             /\ \E to \in {"init", "checkpoint"} : Step(r, "idle", to)
  BY DEF Arrivals, HttpStopArrives, StopWorkerArrives, SigtermArrives, StopsAllowed,
     Requesters
<1> QED BY <1>1, ThreadFacts, Moved

(* The other steps.                                                        *)
LEMMA WorkerMoves ==
  ASSUME TypeOK,
         HeartbeatTick \/ HeartbeatExit \/ FeedThread
  PROVE  /\ \A u \in Threads \ {Hb, Feed} : pc'[u] = pc[u]
         /\ pc'[Feed] # pc[Feed] =>
              pc[Feed] \in {"idle", "tick"} /\ FeedThread
         /\ pc'[Hb] # pc[Hb] =>
              pc[Hb] \in {"idle", "read", "post"} /\ (HeartbeatTick \/ HeartbeatExit)
<1> USE ThreadFacts, Distinct, Moved
<1>1. CASE HeartbeatTick \/ HeartbeatExit
  BY <1>1 DEF HeartbeatTick, HeartbeatExit, BeatCheck, BeatRead, BeatPost
<1>2. CASE FeedReads
  BY <1>2 DEF FeedReads, vars
<1>3. CASE FeedTick \/ FeedTickEnds \/ FeedExit \/ FeedJobComplete
  <2>1. \E from \in {"idle", "tick"}, to \in {"idle", "tick", "done"} :
           Step(Feed, from, to)
    BY <1>3 DEF FeedTick, FeedTickEnds, FeedExit, FeedJobComplete
  <2> QED BY <1>3, <2>1 DEF FeedThread
<1> QED BY <1>1, <1>2, <1>3 DEF FeedThread

LEMMA CheckpointMoves ==
  ASSUME TypeOK, NEW g \in GrpcThreads, StopWorkerCheckpoint(g)
  PROVE  /\ pc[g] = "checkpoint" /\ pc'[g] \in {"init", "rejected"}
         /\ \A u \in Threads \ {g} : pc'[u] = pc[u]
<1>1. g \in Threads
  BY DEF Threads
<1> QED BY <1>1, Moved DEF StopWorkerCheckpoint

-----------------------------------------------------------------------------
(* Why BodiesAreAuthorised is inductive: a StopWorker thread inside stop() *)
(* has been accepted, and one shutdown thread is born at most.             *)
AuthInv ==
  /\ \A g \in GrpcThreads : pc[g] \in StopLabels => g \in acceptedBy
  /\ ~coopStarted => \A c \in CoopThreads : pc[c] = "unborn"
  /\ \A c, d \in CoopThreads : pc[c] # "unborn" /\ pc[d] # "unborn" => c = d
  /\ \A c \in CoopThreads : c \in bodies => pc[c] # "unborn"
  /\ bodies \cap GrpcThreads \subseteq acceptedBy

(* A step of a thread already born that stays where it is allowed to be.   *)
LEMMA AuthStep ==
  ASSUME TypeOK, AuthInv, NEW t \in Threads, NEW from, NEW to, Step(t, from, to),
         from # "unborn", to # "unborn",
         t \in GrpcThreads /\ to \in StopLabels => from \in StopLabels,
         UNCHANGED <<coopStarted, bodies>>, acceptedBy \subseteq acceptedBy'
  PROVE  AuthInv'
<1>1. /\ pc[t] = from /\ pc'[t] = to
      /\ \A u \in Threads \ {t} : pc'[u] = pc[u]
  BY Moved
<1>2. GrpcThreads \subseteq Threads /\ CoopThreads \subseteq Threads
  BY DEF Threads
<1> QED BY <1>1, <1>2 DEF AuthInv

LEMMA AuthStartup ==
  ASSUME TypeOK, AuthInv, Startup
  PROVE  AuthInv'
<1> USE ThreadFacts, Distinct DEF reqVars, histVars
<1>1. CASE ~(StartPeriodicJobs \/ StartFeeds)
  BY <1>1, AuthStep DEF Startup, Bootstrap, InitializeDependencies,
     InitializeStrategyCoordinator, BindAndStart, EmitBootstrapSucceeded,
     ReportBootstrapSuccess, SetReady, MarkStarted, MainBeat, BeatCheck, BeatRead,
     BeatPost, RunCheck, SetRunning, StartRaises, RunRaises, EnterFailed, PostFailed,
     RollbackReport, RollbackDone, RollbackRaises
<1>2. CASE StartPeriodicJobs \/ StartFeeds
  <2>1. \A t \in GrpcThreads \cup CoopThreads : pc'[t] = pc[t]
    BY <1>2 DEF StartPeriodicJobs, StartFeeds, TypeOK, Threads
  <2> QED BY <1>2, <2>1 DEF StartPeriodicJobs, StartFeeds, AuthInv
<1> QED BY <1>1, <1>2

LEMMA AuthStopBody ==
  ASSUME TypeOK, AuthInv, NEW t \in Stoppers, StopBody(t)
  PROVE  AuthInv'
<1> USE ThreadFacts, Distinct DEF reqVars, histVars
<1>1. CASE StopCheck(t)
  <2>1. /\ pc[t] = "stop" /\ pc'[t] \in {"exiting", "done", "resolve"}
        /\ \A u \in Threads \ {t} : pc'[u] = pc[u]
    BY <1>1, Moved DEF StopCheck, AfterStop
  <2>2. bodies' \subseteq bodies \cup {t} /\ UNCHANGED <<coopStarted, acceptedBy>>
    BY <1>1 DEF StopCheck
  <2>3. GrpcThreads \subseteq Threads /\ CoopThreads \subseteq Threads
    BY DEF Threads
  <2> QED BY <2>1, <2>2, <2>3 DEF AuthInv, StopLabels
<1>2. CASE ~StopCheck(t)
  BY <1>2, AuthStep DEF StopBody, StopResolveReason, StopBlockHeartbeats,
     StopFeeds, StopJoinFeeds, StopHeartbeatJobs, StopJoinHeartbeat,
     StopEnterStopping, StopCheckAdapter, StopCallOnStop, StopClearAdapter,
     StopCloseClients, StopEmitTerminated, StopEnterFinalPhase, StopReportFinal,
     StopComplete, StopRaises, AfterStop, AfterRaise, AfterStrategy, StopLabels
<1> QED BY <1>1, <1>2

LEMMA AuthRequest ==
  ASSUME TypeOK, AuthInv, NEW r \in Requesters, Initiate(r)
  PROVE  AuthInv'
<1> USE ThreadFacts, Distinct DEF histVars, AfterInitiate, AfterInitiateRaised, StopLabels
<1>1. CASE InitiateAcquire(r) \/ InitiateCheck(r) \/ InitiatePostStopping(r)
  BY <1>1, AuthStep DEF InitiateAcquire, InitiateCheck, InitiatePostStopping
<1>2. CASE InitiateAccept(r)
  <2>1. \A u \in Threads \ {r} : pc'[u] = pc[u]
    BY <1>2, Moved DEF InitiateAccept
  <2>2. /\ acceptedBy' = acceptedBy \cup {r} /\ UNCHANGED <<coopStarted, bodies>>
    BY <1>2 DEF InitiateAccept
  <2>3. GrpcThreads \subseteq Threads
    BY DEF Threads
  <2> QED BY <2>1, <2>2, <2>3 DEF AuthInv
<1>3. CASE EnsureShutdownThread(r)
  <2>1. \A g \in GrpcThreads : pc'[g] \in {pc[g], "done"}
    BY <1>3 DEF EnsureShutdownThread, TypeOK, Threads
  <2>2. UNCHANGED <<acceptedBy, bodies>> /\ coopStarted'
    BY <1>3 DEF EnsureShutdownThread
  <2>3. CASE coopStarted
    <3>1. \A c \in CoopThreads : pc'[c] = pc[c]
      BY <1>3, <2>3 DEF EnsureShutdownThread, TypeOK, Threads
    <3> QED BY <2>1, <2>2, <3>1 DEF AuthInv
  <2>4. CASE ~coopStarted
    <3>1. PICK d \in CoopThreads : pc' = [pc EXCEPT ![r] = "done", ![d] = "stop"]
      BY <1>3, <2>4 DEF EnsureShutdownThread
    <3>2. \A c \in CoopThreads \ {d} : pc'[c] = "unborn"
      BY <2>4, <3>1 DEF AuthInv, TypeOK
    <3>3. pc'[d] = "stop"
      BY <3>1 DEF TypeOK
    <3> QED BY <2>1, <2>2, <2>4, <3>2, <3>3 DEF AuthInv
  <2> QED BY <2>3, <2>4
<1> QED BY <1>1, <1>2, <1>3 DEF Initiate

LEMMA AuthOthers ==
  ASSUME TypeOK, AuthInv,
         \/ MainLoop \/ Environment \/ HeartbeatTick \/ HeartbeatExit \/ FeedThread
         \/ \E g \in GrpcThreads : StopWorkerCheckpoint(g)
  PROVE  AuthInv'
<1> USE ThreadFacts, Distinct DEF reqVars, histVars, StopLabels
<1>g. HttpThreads \subseteq Threads /\ GrpcThreads \subseteq Threads
  BY DEF Threads
<1>1. CASE Poll \/ FeedReads \/ ReplayEndOfStream
  BY <1>1 DEF Poll, FeedReads, ReplayEndOfStream, vars, AuthInv
<1>2. CASE PollLeaves \/ PollJobCompleted \/ StopServers \/ ProcessExit
             \/ KeyboardInterrupt \/ SigtermArrives
  BY <1>2, AuthStep DEF PollLeaves, PollJobCompleted, StopServers,
     ProcessExit, KeyboardInterrupt, SigtermArrives, StartLabels
<1>3. CASE \E h \in HttpThreads : HttpStopArrives(h)
  BY <1>3, <1>g, AuthStep DEF HttpStopArrives
<1>4. CASE \E g \in GrpcThreads : StopWorkerArrives(g) \/ StopWorkerCheckpoint(g)
  BY <1>4, <1>g, AuthStep DEF StopWorkerArrives, StopWorkerCheckpoint
<1>5. CASE HeartbeatTick \/ HeartbeatExit
  BY <1>5, AuthStep DEF HeartbeatTick, HeartbeatExit, BeatCheck, BeatRead, BeatPost
<1>6. CASE FeedTick \/ FeedTickEnds \/ FeedExit \/ FeedJobComplete
  BY <1>6, AuthStep DEF FeedTick, FeedTickEnds, FeedExit, FeedJobComplete
<1> QED BY <1>1, <1>2, <1>3, <1>4, <1>5, <1>6 DEF MainLoop, Environment, FeedThread

LEMMA AuthInvariant == Spec => []AuthInv
<1>1. Init => AuthInv
  BY Distinct, ThreadFacts DEF Init, AuthInv, StopLabels, Threads
<1>2. TypeOK /\ AuthInv /\ [Next]_vars => AuthInv'
  <2> SUFFICES ASSUME TypeOK, AuthInv, [Next]_vars PROVE AuthInv'
    OBVIOUS
  <2>1. CASE UNCHANGED vars \/ AfterExit
    BY <2>1 DEF AfterExit, vars, reqVars, histVars, AuthInv
  <2> QED BY <2>1, AuthStartup, AuthStopBody, AuthRequest, AuthOthers DEF Next
<1> QED BY <1>1, <1>2, TypeCorrect, PTL DEF Spec

(* Whatever requests, failures and timeouts there are: a StopWorker        *)
(* handler runs stop() only after its own request was accepted, and the    *)
(* coordinator starts one shutdown thread at most (StopWorker,             *)
(* _ensure_shutdown_thread).                                               *)
THEOREM OnlyAuthorisedBodies == Spec => []BodiesAreAuthorised
<1>1. AuthInv => BodiesAreAuthorised
  BY DEF AuthInv, BodiesAreAuthorised
<1> QED BY <1>1, AuthInvariant, PTL

-----------------------------------------------------------------------------
(* Which step changes what.                                                *)
Effects ==
  /\ replayDone => replayDone'
  /\ mainWhy' = mainWhy \/ PollJobCompleted \/ KeyboardInterrupt
  /\ \/ phase' = phase \/ SetReady \/ SetRunning \/ EnterFailed
     \/ \E t \in Stoppers : StopEnterStopping(t) \/ StopEnterFinalPhase(t)
  /\ terminated' = terminated \/ \E t \in Stoppers : StopEmitTerminated(t)
  /\ finals' = finals \/ \E t \in Stoppers : StopReportFinal(t)
  /\ reason' = reason \/ \E t \in Stoppers : StopResolveReason(t)
  /\ UNCHANGED <<accepted, canonical, acceptedBy>> \/ \E r \in Requesters : InitiateAccept(r)
  /\ \/ inProgress' = inProgress \/ \E r \in Requesters : InitiateAccept(r)
     \/ \E t \in Stoppers : StopBlockHeartbeats(t)
  /\ coopStarted' = coopStarted \/ \E r \in Requesters : EnsureShutdownThread(r)
  /\ feedStop' = feedStop \/ StartFeeds \/ \E t \in Stoppers : StopFeeds(t)
  /\ \/ hbThread' = hbThread \/ StartPeriodicJobs
     \/ \E t \in Stoppers : StopJoinHeartbeat(t)
  /\ \/ adapter' = adapter \/ InitializeStrategyCoordinator
     \/ \E t \in Stoppers : StopClearAdapter(t)
  /\ bodies' = bodies \/ \E t \in Stoppers : StopCheck(t)
  /\ onStops' = onStops \/ \E t \in Stoppers : StopCallOnStop(t)
  /\ deps => deps'
  /\ beat' = beat \/ MainBeat \/ HeartbeatTick
  /\ \/ srm' = srm \/ ReportBootstrapSuccess \/ PostFailed \/ RollbackReport
     \/ MainBeat \/ HeartbeatTick \/ \E r \in Requesters : InitiatePostStopping(r)
     \/ \E t \in Stoppers : StopReportFinal(t)

LEMMA EffectsOfNext == [Next]_vars => Effects
<1> SUFFICES ASSUME [Next]_vars PROVE Effects
  OBVIOUS
<1> USE DEF Effects, lifeVars, reqVars, workVars, jobVars, ctlVars, srmVars, histVars
<1>1. CASE UNCHANGED vars \/ AfterExit \/ Poll \/ FeedReads
  BY <1>1 DEF AfterExit, Poll, FeedReads, vars
<1>0. CASE SetReady \/ SetRunning \/ EnterFailed
  <2>1. UNCHANGED <<inProgress, reqVars, workVars, jobVars, ctlVars, srmVars, histVars>>
    BY <1>0 DEF SetReady, SetRunning, EnterFailed
  <2> QED BY <1>0, <2>1
<1>2. CASE Startup /\ ~(SetReady \/ SetRunning \/ EnterFailed)
  <2>1. CASE Bootstrap \/ InitializeDependencies \/ InitializeStrategyCoordinator
               \/ BindAndStart \/ EmitBootstrapSucceeded \/ ReportBootstrapSuccess
               \/ MarkStarted
    BY <2>1 DEF Bootstrap, InitializeDependencies, InitializeStrategyCoordinator,
       BindAndStart, EmitBootstrapSucceeded, ReportBootstrapSuccess, MarkStarted
  <2>2. CASE MainBeat
    BY <2>2 DEF MainBeat, BeatCheck, BeatRead, BeatPost
  <2>3. CASE StartPeriodicJobs \/ RunCheck \/ StartFeeds \/ StartRaises \/ RunRaises
    BY <2>3 DEF StartPeriodicJobs, RunCheck, StartFeeds, StartRaises, RunRaises
  <2>4. CASE PostFailed \/ RollbackDone \/ RollbackRaises
    BY <2>4 DEF PostFailed, RollbackDone, RollbackRaises
  <2>5. CASE RollbackReport
    <3>1. UNCHANGED <<lifeVars, reqVars, replayDone, adapter, jobVars, ctlVars,
                      finals, terminated, histVars>>
      BY <2>5 DEF RollbackReport
    <3>2. deps' \in {deps, TRUE}
      BY <2>5 DEF RollbackReport
    <3>3. deps => deps'
      BY <3>2
    <3> QED BY <2>5, <3>1, <3>3
  <2> QED BY <1>2, <2>1, <2>2, <2>3, <2>4, <2>5 DEF Startup
<1>3. ASSUME NEW t \in Stoppers, StopBody(t) PROVE Effects
  BY <1>3 DEF StopBody, StopCheck, StopResolveReason, StopBlockHeartbeats,
     StopFeeds, StopJoinFeeds, StopHeartbeatJobs, StopJoinHeartbeat,
     StopEnterStopping, StopCheckAdapter, StopCallOnStop, StopClearAdapter,
     StopCloseClients, StopEmitTerminated, StopEnterFinalPhase, StopReportFinal,
     StopComplete, StopRaises
<1>4. ASSUME NEW r \in Requesters, Initiate(r) PROVE Effects
  BY <1>4 DEF Initiate, InitiateAcquire, InitiateCheck, InitiatePostStopping,
     InitiateAccept, EnsureShutdownThread
<1>5. CASE PollLeaves \/ PollJobCompleted \/ StopServers \/ ProcessExit \/ Environment
  BY <1>5 DEF PollLeaves, PollJobCompleted, StopServers, ProcessExit, Environment,
     HttpStopArrives, StopWorkerArrives, SigtermArrives, ReplayEndOfStream,
     KeyboardInterrupt
<1>6. CASE \/ HeartbeatTick \/ HeartbeatExit
           \/ FeedTick \/ FeedTickEnds \/ FeedExit \/ FeedJobComplete
           \/ \E g \in GrpcThreads : StopWorkerCheckpoint(g)
  BY <1>6 DEF HeartbeatTick, HeartbeatExit, BeatCheck, BeatRead, BeatPost,
     FeedTick, FeedTickEnds, FeedExit, FeedJobComplete, StopWorkerCheckpoint
<1> QED BY <1>0, <1>1, <1>2, <1>3, <1>4, <1>5, <1>6 DEF Next, MainLoop, FeedThread

-----------------------------------------------------------------------------
(* Who moves which thread.                                                 *)
Movers ==
  /\ \A c \in CoopThreads :
       \/ pc'[c] = pc[c] \/ StopBody(c)
       \/ pc[c] = "unborn" /\ pc'[c] = "stop" /\ ~coopStarted
            /\ \E r \in Requesters : EnsureShutdownThread(r)
  /\ \A g \in GrpcThreads :
       \/ pc'[g] = pc[g] \/ StopBody(g)
       \/ /\ pc[g] \in RequestLabels /\ pc'[g] \in RequestLabels \cup {"stop", "done"}
          /\ pc'[g] = "stop" => InitiateAccept(g)
  /\ \A r \in Requesters :
       /\ pc'[r] = "ensure" => pc[r] = "ensure" \/ Initiate(r)
       /\ pc[r] = "idle" /\ pc'[r] # "idle" => Arrivals
  /\ pc'[Sig] = pc[Sig] \/ Initiate(Sig) \/ (SigtermArrives /\ pc'[Sig] # "idle")
  /\ pc'[Feed] = pc[Feed] \/ StartFeeds \/ (FeedThread /\ pc[Feed] \in {"idle", "tick"})
  /\ pc'[Hb] = pc[Hb] \/ StartPeriodicJobs \/ HeartbeatTick \/ HeartbeatExit
  /\ \/ pc'[Main] = pc[Main] \/ Startup \/ StopBody(Main)
     \/ PollJobCompleted \/ KeyboardInterrupt
     \/ pc[Main] \in {"loop", "exiting", "joining"}
          /\ pc'[Main] \in {"exiting", "joining", "exited"}

LEMMA MoversOfNext ==
  ASSUME TypeOK, [Next]_vars
  PROVE  Movers
<1> USE ThreadFacts, Distinct DEF Movers
<1>r. /\ Requesters \cup CoopThreads \subseteq Threads \ {Main, Hb, Feed}
      /\ GrpcThreads \cup HttpThreads \subseteq Requesters
  BY DEF Requesters, Threads
<1>1. CASE Startup
  BY <1>r, <1>1, StartupMoves
<1>2. ASSUME NEW t \in Stoppers, StopBody(t) PROVE Movers
  BY <1>r, <1>2, StopMoves DEF Stoppers, StopLabels, AfterStop, AfterRaise
<1>3. ASSUME NEW r \in Requesters, Initiate(r) PROVE Movers
  BY <1>r, <1>3, RequestMoves DEF RequestLabels
<1>4. CASE Arrivals
  <2>1. SigtermArrives => pc'[Sig] = "init"
    BY Moved DEF SigtermArrives
  <2>2. pc'[Sig] = pc[Sig] \/ SigtermArrives
    BY <1>4, <1>r, Moved DEF Arrivals, HttpStopArrives, StopWorkerArrives
  <2> QED BY <1>r, <1>4, <2>1, <2>2, ArrivalMoves DEF RequestLabels
<1>5. ASSUME NEW g \in GrpcThreads, StopWorkerCheckpoint(g) PROVE Movers
  BY <1>r, <1>5, CheckpointMoves DEF RequestLabels
<1>6. CASE PollLeaves \/ StopServers \/ ProcessExit
  BY <1>r, <1>6, Moved DEF PollLeaves, StopServers, ProcessExit
<1>7. CASE PollJobCompleted \/ KeyboardInterrupt
  BY <1>r, <1>7, Moved DEF PollJobCompleted, KeyboardInterrupt
<1>8. CASE HeartbeatTick \/ HeartbeatExit \/ FeedThread
  BY <1>r, <1>8, WorkerMoves
<1>9. CASE ReplayEndOfStream \/ Poll \/ AfterExit \/ UNCHANGED vars
  BY <1>9 DEF ReplayEndOfStream, Poll, AfterExit, vars
<1> QED BY <1>1, <1>2, <1>3, <1>4, <1>5, <1>6, <1>7, <1>8, <1>9
       DEF Next, MainLoop, Environment, Arrivals

-----------------------------------------------------------------------------
(* What Main runs of stop(): without a reason of its own only the rollback *)
(* of a failed start, and with one no step of the start.                   *)
RollbackLabels == {"strategy", "callstop", "instop"}

WhyInv ==
  /\ mainWhy = NoReason => pc[Main] \notin StopLabels \ RollbackLabels /\ Main \notin bodies
  /\ mainWhy # NoReason => pc[Main] \notin StartLabels

(* The rollback stays in its labels until it reports or raises.            *)
LEMMA RollbackMoves ==
  ASSUME TypeOK, WhyInv, mainWhy = NoReason, StopBody(Main)
  PROVE  /\ pc[Main] \in RollbackLabels
         /\ pc'[Main] \in RollbackLabels \cup {"rbreport", "loop"}
         /\ ~StopCheck(Main)
<1> USE ThreadFacts, Distinct
<1>1. pc[Main] \in RollbackLabels /\ Main \in Stoppers
  BY StopMoves DEF WhyInv, Stoppers
<1>2. ~StopCheck(Main) /\ (\/ StopCheckAdapter(Main) \/ StopCallOnStop(Main)
                           \/ StopClearAdapter(Main) \/ StopRaises(Main))
  BY <1>1 DEF RollbackLabels, StopBody, StopCheck, StopResolveReason, Step,
     StopBlockHeartbeats, StopFeeds, StopJoinFeeds, StopHeartbeatJobs,
     StopJoinHeartbeat, StopEnterStopping, StopCloseClients, StopEmitTerminated,
     StopEnterFinalPhase, StopReportFinal, StopComplete
<1>3. CASE StopCheckAdapter(Main) \/ StopClearAdapter(Main)
  BY <1>1, <1>2, <1>3, Moved DEF StopCheckAdapter, StopClearAdapter, AfterStrategy,
     RollingBack, RollbackLabels
<1>4. CASE StopCallOnStop(Main) \/ StopRaises(Main)
  BY <1>1, <1>2, <1>4, Moved DEF StopCallOnStop, StopRaises, AfterRaise, RollbackLabels
<1> QED BY <1>1, <1>2, <1>3, <1>4

LEMMA WhyInvariant == Spec => []WhyInv
<1> USE ThreadFacts, Distinct
<1>1. Init => WhyInv
  BY DEF Init, WhyInv, StopLabels, RollbackLabels
<1>2. TypeOK /\ WhyInv /\ [Next]_vars => WhyInv'
  <2> SUFFICES ASSUME TypeOK, WhyInv, [Next]_vars PROVE WhyInv'
    OBVIOUS
  <2>e. Effects /\ Movers
    BY EffectsOfNext, MoversOfNext
  <2>1. CASE PollJobCompleted
    BY <2>1, Moved DEF PollJobCompleted, WhyInv, StartLabels, NoReason
  <2>2. CASE KeyboardInterrupt
    <3>1. /\ \/ pc'[Main] = "stop" /\ mainWhy' # NoReason
             \/ pc'[Main] = "exiting" /\ mainWhy' = mainWhy
          /\ bodies' = bodies
      BY <2>2, Moved DEF KeyboardInterrupt, NoReason, histVars
    <3> QED BY <3>1 DEF WhyInv, StartLabels, StopLabels
  <2>3. CASE ~PollJobCompleted /\ ~KeyboardInterrupt
    <3>1. mainWhy' = mainWhy
      BY <2>3, <2>e DEF Effects
    <3>2. CASE mainWhy = NoReason
      <4>1. Main \notin bodies'
        <5>1. StopCheck(Main) => FALSE
          BY <3>2, RollbackMoves DEF StopBody
        <5>2. \A t \in Stoppers : StopCheck(t) => bodies' \subseteq bodies \cup {t}
          BY DEF StopCheck
        <5> QED BY <2>e, <3>2, <5>1, <5>2 DEF Effects, WhyInv
      <4>2. pc'[Main] \notin StopLabels \ RollbackLabels
        <5>1. CASE Startup
          BY <5>1, StartupMoves DEF StartLabels, StopLabels, RollbackLabels
        <5>2. CASE StopBody(Main)
          BY <3>2, <5>2, RollbackMoves DEF StopLabels
        <5>3. CASE ~Startup /\ ~StopBody(Main)
          BY <2>3, <2>e, <3>2, <5>3 DEF Movers, WhyInv, StopLabels
        <5> QED BY <5>1, <5>2, <5>3
      <4> QED BY <3>1, <3>2, <4>1, <4>2 DEF WhyInv
    <3>3. CASE mainWhy # NoReason
      <4>1. ~Startup
        BY <3>3, StartupMoves DEF WhyInv
      <4>2. StopBody(Main) => pc'[Main] \notin StartLabels
        BY <3>3, StopMoves DEF StopLabels, StartLabels, AfterStop, AfterRaise,
           RollingBack, Stoppers
      <4> QED BY <2>3, <2>e, <3>1, <3>3, <4>1, <4>2 DEF Movers, WhyInv, StartLabels
    <3> QED BY <3>2, <3>3
  <2> QED BY <2>1, <2>2, <2>3
<1> QED BY <1>1, <1>2, TypeCorrect, PTL DEF Spec

(* Outside a BACKTEST and without Ctrl+C the main thread never shuts the   *)
(* worker down by itself: all it runs of stop() is the rollback.           *)
NoOwnStop == Mode # "BACKTEST" /\ MaxInterrupts = 0

LEMMA NoOwnReason ==
  ASSUME NoOwnStop, TypeOK
  PROVE  ~PollJobCompleted /\ ~KeyboardInterrupt
  BY DEF NoOwnStop, PollJobCompleted, KeyboardInterrupt, TypeOK, CtlType,
     should_stop_for_completed_backtest_job

MainInv ==
  /\ mainWhy = NoReason
  /\ pc[Main] \notin StopLabels \ RollbackLabels
  /\ Main \notin bodies

LEMMA MainInvariant ==
  ASSUME NoOwnStop
  PROVE  Spec => []MainInv
<1>1. Init => mainWhy = NoReason
  BY DEF Init
<1>2. TypeOK /\ mainWhy = NoReason /\ [Next]_vars => (mainWhy = NoReason)'
  BY NoOwnReason, NoOwnStop, EffectsOfNext DEF Effects
<1>3. mainWhy = NoReason /\ WhyInv => MainInv
  BY DEF WhyInv, MainInv
<1> QED BY <1>1, <1>2, <1>3, TypeCorrect, WhyInvariant, PTL DEF Spec

-----------------------------------------------------------------------------
(* Who may call stop(), besides Main: a shutdown thread that was born, and *)
(* a StopWorker handler whose request was accepted.                        *)
ByRequest == CoopThreads \cup GrpcThreads

Callers == {c \in CoopThreads : pc[c] # "unborn"} \cup (GrpcThreads \cap acceptedBy)

(* A shutdown thread is born for an accepted HTTP request, or for SIGTERM: *)
(* its handler makes sure of the thread whatever became of its request.    *)
CallerInv ==
  /\ ~SigtermSent => pc[Sig] = "idle"
  /\ \A r \in Requesters \ {Sig} : pc[r] = "ensure" => r \in HttpThreads \cap acceptedBy
  /\ coopStarted => pc[Sig] # "idle" \/ acceptedBy \cap HttpThreads # {}

LEMMA CallerInvariant == Spec => []CallerInv
<1> USE ThreadFacts, Distinct
<1>1. Init => CallerInv
  BY DEF Init, CallerInv, Requesters
<1>2. TypeOK /\ CallerInv /\ [Next]_vars => CallerInv'
  <2> SUFFICES ASSUME TypeOK, CallerInv, [Next]_vars PROVE CallerInv'
    OBVIOUS
  <2>e. Effects /\ Movers
    BY EffectsOfNext, MoversOfNext
  <2>r. /\ Requesters \subseteq Threads \ {Main, Hb, Feed}
        /\ Requesters = HttpThreads \cup GrpcThreads \cup {Sig}
        /\ Requesters \cap CoopThreads = {}
    BY DEF Requesters, Threads
  <2>1. ASSUME NEW r \in Requesters, Initiate(r) PROVE CallerInv'
    <3>1. /\ \A u \in Requesters \ {r} : pc'[u] = pc[u]
          /\ pc[r] # "idle" /\ pc'[r] # "idle"
      BY <2>r, <2>1, RequestMoves
    <3>2. acceptedBy \subseteq acceptedBy'
      BY <2>e DEF Effects, InitiateAccept
    <3>3. ASSUME r # Sig, pc'[r] = "ensure" PROVE r \in HttpThreads \cap acceptedBy'
      <4>1. InitiateAccept(r) /\ r \notin GrpcThreads
        <5>1. r \in Threads
          BY <2>r
        <5> QED BY <2>1, <3>3, <5>1, Moved DEF Initiate, InitiateAcquire, InitiateCheck,
               InitiatePostStopping, InitiateAccept, EnsureShutdownThread,
               AfterInitiate, AfterInitiateRaised, TypeOK
      <4> QED BY <2>r, <3>3, <4>1 DEF InitiateAccept
    <3>4. coopStarted' => pc'[Sig] # "idle" \/ acceptedBy' \cap HttpThreads # {}
      <4>1. CASE EnsureShutdownThread(r)
        <5>1. pc[r] = "ensure"
          BY <4>1 DEF EnsureShutdownThread
        <5> QED BY <3>1, <3>2, <5>1 DEF CallerInv
      <4>2. CASE ~EnsureShutdownThread(r)
        <5>1. coopStarted' = coopStarted
          BY <2>1, <4>2 DEF Initiate, InitiateAcquire, InitiateCheck,
             InitiatePostStopping, InitiateAccept
        <5>2. pc'[Sig] = "idle" => pc[Sig] = "idle"
          BY <2>r, <3>1
        <5> QED BY <3>2, <5>1, <5>2 DEF CallerInv
      <4> QED BY <4>1, <4>2
    <3>5. ~SigtermSent => pc'[Sig] = "idle"
      BY <2>r, <3>1 DEF CallerInv
    <3> QED BY <3>1, <3>2, <3>3, <3>4, <3>5 DEF CallerInv
  <2>2. CASE ~\E r \in Requesters : Initiate(r)
    <3>1. UNCHANGED <<coopStarted, acceptedBy>>
      BY <2>2, <2>e DEF Effects, Initiate
    <3>2. /\ \A r \in Requesters : pc'[r] = "ensure" => pc[r] = "ensure"
          /\ pc'[Sig] = pc[Sig] \/ (SigtermArrives /\ pc'[Sig] # "idle")
      BY <2>r, <2>2, <2>e DEF Movers
    <3> QED BY <3>1, <3>2 DEF CallerInv, SigtermArrives
  <2> QED BY <2>1, <2>2
<1> QED BY <1>1, <1>2, TypeCorrect, PTL DEF Spec

(* Main does not stop the worker by itself, and SIGTERM does not meet      *)
(* StopWorker handlers: its handler starts the shutdown thread even when   *)
(* its request was refused because a StopWorker handler is in stop().      *)
OneCaller == NoOwnStop /\ (GrpcThreads = {} \/ ~SigtermSent)

OneBodyInv ==
  /\ \A t, u \in Callers : t = u
  /\ bodies \subseteq Callers
  /\ \A t \in ByRequest : pc[t] \in StopLabels => t \in Callers

(* There is one caller of stop() then: of the accepted request, the only   *)
(* one, if it is a StopWorker request, and else the one shutdown thread.   *)
LEMMA OneBodyInvariant ==
  ASSUME OneCaller
  PROVE  Spec => []OneBodyInv
<1>1. ASSUME TypeOK, MainInv, AuthInv, AcceptInv, CallerInv
      PROVE  OneBodyInv
  <2>1. ASSUME NEW c \in CoopThreads, NEW g \in GrpcThreads \cap acceptedBy,
               pc[c] # "unborn"
        PROVE  FALSE
    <3>1. coopStarted /\ pc[Sig] = "idle"
      BY <1>1, <2>1 DEF AuthInv, OneCaller, CallerInv
    <3>2. PICK h \in HttpThreads : h \in acceptedBy
      BY <1>1, <3>1 DEF CallerInv
    <3> QED BY <1>1, <2>1, <3>2, Distinct DEF AcceptInv, OneAcceptance
  <2>2. \A t, u \in Callers : t = u
    BY <1>1, <2>1 DEF Callers, AuthInv, AcceptInv, OneAcceptance
  <2>3. bodies \subseteq Callers
    BY <1>1 DEF TypeOK, HistType, Stoppers, MainInv, AuthInv, Callers
  <2>4. \A t \in ByRequest : pc[t] \in StopLabels => t \in Callers
    BY <1>1 DEF ByRequest, AuthInv, Callers, StopLabels
  <2> QED BY <2>2, <2>3, <2>4 DEF OneBodyInv
<1> QED BY <1>1, OneCaller, TypeCorrect, MainInvariant, AuthInvariant, AcceptInvariant,
       CallerInvariant, PTL DEF OneCaller

(* Outside a BACKTEST and without Ctrl+C, where SIGTERM does not meet      *)
(* StopWorker handlers: the body of stop(), which has no lock, is executed *)
(* by at most one thread; for any number of HTTP and StopWorker requests,  *)
(* at any time of the start, with any failures.                            *)
THEOREM StopBodyRunsOnce ==
  ASSUME OneCaller
  PROVE  Spec => []SingleStopBody
<1>1. OneBodyInv => SingleStopBody
  BY DEF OneBodyInv, SingleStopBody
<1> QED BY <1>1, OneCaller, OneBodyInvariant, PTL

(* How a thread comes to stop(): callers stay callers, and one that enters *)
(* it finds no other.                                                      *)
LEMMA CallerStep ==
  ASSUME TypeOK, AcceptInv, OneBodyInv', [Next]_vars
  PROVE  /\ Callers \subseteq Callers'
         /\ \A t \in ByRequest :
              \/ pc'[t] = pc[t] \/ StopBody(t) \/ pc'[t] \notin StopLabels
              \/ pc'[t] = "stop" /\ Callers = {}
<1> USE ThreadFacts, Distinct DEF ByRequest
<1>e. Effects /\ Movers
  BY EffectsOfNext, MoversOfNext
<1>1. acceptedBy \subseteq acceptedBy'
  BY <1>e DEF Effects, InitiateAccept
<1>2. \A c \in CoopThreads : pc[c] # "unborn" => pc'[c] # "unborn"
  BY <1>e, StopMoves DEF Movers, Stoppers, StopLabels, AfterStop, AfterRaise
<1>3. Callers \subseteq Callers'
  BY <1>1, <1>2 DEF Callers
<1>4. ASSUME NEW c \in CoopThreads, pc[c] = "unborn", pc'[c] = "stop"
      PROVE  Callers = {}
  <2>1. c \in Callers' /\ c \notin Callers
    BY <1>4 DEF Callers
  <2> QED BY <1>3, <2>1 DEF OneBodyInv
<1>5. ASSUME NEW g \in GrpcThreads, InitiateAccept(g)
      PROVE  Callers = {}
  <2>1. acceptedBy = {} /\ g \in acceptedBy'
    <3>1. g \in Requesters /\ pc[g] = "initset"
      BY <1>5 DEF Requesters, InitiateAccept, Step
    <3> QED BY <1>5, <3>1 DEF AcceptInv, OneAcceptance, InitiateAccept
  <2>2. g \in Callers' /\ g \notin Callers
    BY <2>1 DEF Callers
  <2> QED BY <1>3, <2>2 DEF OneBodyInv
<1>6. ASSUME NEW t \in ByRequest
      PROVE  \/ pc'[t] = pc[t] \/ StopBody(t) \/ pc'[t] \notin StopLabels
             \/ pc'[t] = "stop" /\ Callers = {}
  <2>1. CASE t \in CoopThreads
    BY <1>e, <1>4, <2>1 DEF Movers
  <2>2. CASE t \in GrpcThreads
    BY <1>e, <1>5, <2>2 DEF Movers, StopLabels, RequestLabels
  <2> QED BY <2>1, <2>2
<1> QED BY <1>3, <1>6
=============================================================================
