----------------------- MODULE WorkerLifecycle_proofs -----------------------
(***************************************************************************)
(* Theorems about WorkerLifecycle, for every set of request, handler and   *)
(* shutdown threads, every mode and every setting of the fault flags.      *)
(***************************************************************************)
EXTENDS WorkerLifecycle, TLAPS

(* Every thread an action names is a thread.                               *)
LEMMA ThreadFacts ==
  /\ {Main, Sig, Hb, Feed} \subseteq Threads
  /\ Stoppers \subseteq Threads
  /\ Requesters \subseteq Threads
  /\ CoopThreads \subseteq Threads
  /\ Main \in Stoppers
  BY DEF Threads, Stoppers, Requesters

(* Moving one thread to a label keeps pc's type.                           *)
LEMMA StepType ==
  ASSUME TypeOK, NEW t \in Threads, NEW from, NEW to \in Labels,
         Step(t, from, to)
  PROVE  pc' \in [Threads -> Labels]
  BY DEF TypeOK, Step

(* The reasons the code computes are reasons, whatever the text.           *)
LEMMA ReasonFacts ==
  /\ \A x : normalize_runtime_reason_code(x) \in Reasons
  /\ \A x : canonical_reason_from_stop_request(x) \in Reasons
  /\ \A x : FinalStatus(x) \in WorkerPhase
<1>1. \A x : normalize_runtime_reason_code(x) \in Reasons
  BY DEF normalize_runtime_reason_code, Reasons
<1>2. \A x : canonical_reason_from_stop_request(x) \in Reasons
  BY <1>1 DEF canonical_reason_from_stop_request, Reasons
<1>3. \A x : FinalStatus(x) \in WorkerPhase
  BY DEF FinalStatus, is_failure_shutdown, WorkerPhase
<1> QED BY <1>1, <1>2, <1>3

(* Init establishes the type invariant.                                    *)
LEMMA TypeInit == Init => TypeOK
<1> SUFFICES ASSUME Init PROVE TypeOK
  OBVIOUS
<1>1. LifeType
  BY DEF Init, LifeType, WorkerPhase
<1>2. ReqType
  BY DEF Init, ReqType
<1>3. WorkType /\ JobType
  BY DEF Init, WorkType, JobType
<1>4. pc \in [Threads -> Labels]
  BY DEF Init, Labels, StartLabels, RequestLabels
<1>5. CtlType
  BY FlagsAssumption DEF Init, CtlType, WorkerPhase
<1>6. SrmType
  BY DEF Init, SrmType
<1>7. HistType
  BY DEF Init, HistType
<1> QED BY <1>1, <1>2, <1>3, <1>4, <1>5, <1>6, <1>7 DEF TypeOK

(* A group of variables that a step leaves alone keeps its type.           *)
LEMMA Unchanged ==
  /\ LifeType /\ UNCHANGED lifeVars => LifeType'
  /\ ReqType /\ UNCHANGED reqVars => ReqType'
  /\ WorkType /\ UNCHANGED workVars => WorkType'
  /\ JobType /\ UNCHANGED jobVars => JobType'
  /\ CtlType /\ UNCHANGED ctlVars => CtlType'
  /\ SrmType /\ UNCHANGED srmVars => SrmType'
  /\ HistType /\ UNCHANGED histVars => HistType'
<1>1. LifeType /\ UNCHANGED lifeVars => LifeType'
  BY DEF LifeType, lifeVars
<1>2. ReqType /\ UNCHANGED reqVars => ReqType'
  BY DEF ReqType, reqVars
<1>3. WorkType /\ UNCHANGED workVars => WorkType'
  BY DEF WorkType, workVars
<1>4. JobType /\ UNCHANGED jobVars => JobType'
  BY DEF JobType, jobVars
<1>5. CtlType /\ UNCHANGED ctlVars => CtlType'
  BY DEF CtlType, ctlVars
<1>6. SrmType /\ UNCHANGED srmVars => SrmType'
  BY DEF SrmType, srmVars
<1>7. HistType /\ UNCHANGED histVars => HistType'
  BY DEF HistType, histVars
<1> QED BY <1>1, <1>2, <1>3, <1>4, <1>5, <1>6, <1>7

(* A step that changes pc only, and keeps its type, keeps every type.      *)
LEMMA PcOnly ==
  ASSUME TypeOK, pc' \in [Threads -> Labels],
         UNCHANGED <<lifeVars, reqVars, workVars, jobVars, ctlVars, srmVars, histVars>>
  PROVE  TypeOK'
  BY Unchanged DEF TypeOK

(* The three steps of a heartbeat, on the main or the heartbeat thread.    *)
LEMMA TypeBeat ==
  ASSUME TypeOK, NEW t \in {Main, Hb}, NEW at, NEW skip \in Labels, NEW to \in Labels,
         BeatCheck(t, at, skip, to) \/ BeatRead(t, at, to) \/ BeatPost(t, at, to)
  PROVE  TypeOK'
<1> USE ThreadFacts, Unchanged
<1>1. CASE BeatCheck(t, at, skip, to)
  <2>1. pc' \in [Threads -> Labels]
    BY <1>1, StepType DEF BeatCheck
  <2> QED BY <1>1, <2>1, PcOnly DEF BeatCheck
<1>2. CASE BeatRead(t, at, to)
  <2>1. pc' \in [Threads -> Labels]
    BY <1>2, StepType DEF BeatRead
  <2>2. CtlType'
    BY <1>2 DEF BeatRead, TypeOK, CtlType, LifeType
  <2> QED BY <1>2, <2>1, <2>2 DEF BeatRead, TypeOK
<1>3. CASE BeatPost(t, at, to)
  <2>1. pc' \in [Threads -> Labels]
    BY <1>3, StepType DEF BeatPost
  <2>2. SrmType'
    BY <1>3 DEF BeatPost, DeliverBeat, Deliver, TypeOK, SrmType, CtlType
  <2> QED BY <1>3, <2>1, <2>2 DEF BeatPost, TypeOK
<1> QED BY <1>1, <1>2, <1>3

(* The steps of start() and run().                                         *)
LEMMA TypeStartup ==
  ASSUME TypeOK, Startup
  PROVE  TypeOK'
<1> USE ThreadFacts, Unchanged
<1> USE DEF Labels, StartLabels, StopLabels
<1>1. CASE Bootstrap \/ BindAndStart \/ EmitBootstrapSucceeded
  <2>1. pc' \in [Threads -> Labels]
    BY <1>1, StepType DEF Bootstrap, BindAndStart, EmitBootstrapSucceeded
  <2> QED BY <1>1, <2>1, PcOnly DEF Bootstrap, BindAndStart, EmitBootstrapSucceeded
<1>2. CASE InitializeDependencies \/ InitializeStrategyCoordinator
  <2>1. pc' \in [Threads -> Labels]
    BY <1>2, StepType DEF InitializeDependencies, InitializeStrategyCoordinator
  <2>2. WorkType'
    BY <1>2 DEF InitializeDependencies, InitializeStrategyCoordinator, TypeOK, WorkType
  <2> QED BY <1>2, <2>1, <2>2 DEF InitializeDependencies, InitializeStrategyCoordinator, TypeOK
<1>3. CASE ReportBootstrapSuccess
  <2>1. pc' \in [Threads -> Labels]
    BY <1>3, StepType DEF ReportBootstrapSuccess
  <2>2. SrmType'
    BY <1>3 DEF ReportBootstrapSuccess, Deliver, TypeOK, SrmType, WorkerPhase
  <2> QED BY <1>3, <2>1, <2>2 DEF ReportBootstrapSuccess, TypeOK
<1>4. CASE SetReady \/ MarkStarted \/ SetRunning
  <2>1. pc' \in [Threads -> Labels]
    BY <1>4, StepType DEF SetReady, MarkStarted, SetRunning
  <2>2. LifeType'
    BY <1>4 DEF SetReady, MarkStarted, SetRunning, TypeOK, LifeType, WorkerPhase
  <2> QED BY <1>4, <2>1, <2>2 DEF SetReady, MarkStarted, SetRunning, TypeOK
<1>5. CASE MainBeat
  <2>1. \A skip, to \in Labels : \A at :
          BeatCheck(Main, at, skip, to) \/ BeatRead(Main, at, to)
            \/ BeatPost(Main, at, to) => TypeOK'
    BY TypeBeat
  <2>2. {"jobs", "read1", "post1", "startfeeds", "read2", "post2"} \subseteq Labels
    OBVIOUS
  <2> HIDE DEF Labels
  <2> QED BY <1>5, <2>1, <2>2 DEF MainBeat
<1>6. CASE StartPeriodicJobs
  <2>1. pc' \in [Threads -> Labels]
    BY <1>6 DEF StartPeriodicJobs, TypeOK, RequestLabels
  <2>2. JobType'
    BY <1>6 DEF StartPeriodicJobs, TypeOK, JobType
  <2> QED BY <1>6, <2>1, <2>2 DEF StartPeriodicJobs, TypeOK
<1>7. CASE RunCheck
  <2>1. pc' \in [Threads -> Labels]
    BY <1>7, StepType DEF RunCheck
  <2> QED BY <1>7, <2>1, PcOnly DEF RunCheck
<1>8. CASE StartFeeds
  <2>1. pc' \in [Threads -> Labels]
    BY <1>8 DEF StartFeeds, TypeOK, RequestLabels
  <2>2. JobType'
    BY <1>8 DEF StartFeeds, TypeOK, JobType
  <2> QED BY <1>8, <2>1, <2>2 DEF StartFeeds, TypeOK
<1>9. CASE StartRaises
  <2>1. pc' \in [Threads -> Labels]
    BY <1>9, StepType DEF StartRaises
  <2>2. CtlType'
    BY <1>9 DEF StartRaises, TypeOK, CtlType
  <2> QED BY <1>9, <2>1, <2>2 DEF StartRaises, TypeOK
<1>10. CASE RunRaises
  <2>1. pc' \in [Threads -> Labels]
    BY <1>10, StepType DEF RunRaises
  <2> QED BY <1>10, <2>1, PcOnly DEF RunRaises
<1>11. CASE EnterFailed
  <2>1. pc' \in [Threads -> Labels]
    BY <1>11, StepType DEF EnterFailed
  <2>2. LifeType'
    BY <1>11 DEF EnterFailed, TypeOK, LifeType, WorkerPhase
  <2> QED BY <1>11, <2>1, <2>2 DEF EnterFailed, TypeOK
<1>12. CASE PostFailed
  <2>1. pc' \in [Threads -> Labels]
    BY <1>12, StepType DEF PostFailed
  <2>2. SrmType'
    BY <1>12 DEF PostFailed, DeliverBeat, Deliver, TypeOK, SrmType, LifeType
  <2> QED BY <1>12, <2>1, <2>2 DEF PostFailed, TypeOK
<1>13. CASE RollbackReport
  <2>1. pc' \in [Threads -> Labels]
    BY <1>13, StepType DEF RollbackReport
  <2>2. SrmType'
    BY <1>13 DEF RollbackReport, Deliver, TypeOK, SrmType
  <2>3. WorkType'
    BY <1>13 DEF RollbackReport, TypeOK, WorkType
  <2> QED BY <1>13, <2>1, <2>2, <2>3 DEF RollbackReport, TypeOK
<1>14. CASE RollbackDone
  <2>1. pc' \in [Threads -> Labels]
    BY <1>14, StepType DEF RollbackDone
  <2>2. LifeType'
    BY <1>14 DEF RollbackDone, TypeOK, LifeType
  <2> QED BY <1>14, <2>1, <2>2 DEF RollbackDone, TypeOK
<1>15. CASE RollbackRaises
  <2>1. pc' \in [Threads -> Labels]
    BY <1>15, StepType DEF RollbackRaises
  <2> QED BY <1>15, <2>1, PcOnly DEF RollbackRaises
<1> QED BY <1>1, <1>2, <1>3, <1>4, <1>5, <1>6, <1>7, <1>8, <1>9, <1>10, <1>11,
           <1>12, <1>13, <1>14, <1>15 DEF Startup

(* The steps of stop().                                                    *)
LEMMA TypeStopBody ==
  ASSUME TypeOK, NEW t \in Stoppers, StopBody(t)
  PROVE  TypeOK'
<1> USE ThreadFacts, Unchanged
<1> USE DEF Labels, StartLabels, StopLabels, AfterStop, AfterRaise, AfterStrategy
<1>1. CASE StopCheck(t)
  <2>1. pc' \in [Threads -> Labels]
    BY <1>1, StepType DEF StopCheck
  <2>2. HistType'
    BY <1>1 DEF StopCheck, TypeOK, HistType
  <2> QED BY <1>1, <2>1, <2>2 DEF StopCheck, TypeOK
<1>2. CASE StopResolveReason(t)
  <2>1. pc' \in [Threads -> Labels]
    BY <1>2, StepType DEF StopResolveReason
  <2>2. ResolvedReason(t) \in Reasons \cup {NoReason}
    BY ReasonFacts DEF ResolvedReason, TypeOK, ReqType
  <2>3. CtlType'
    BY <1>2, <2>2 DEF StopResolveReason, TypeOK, CtlType
  <2> QED BY <1>2, <2>1, <2>3 DEF StopResolveReason, TypeOK
<1>3. CASE StopBlockHeartbeats(t) \/ StopEnterStopping(t) \/
   StopEnterFinalPhase(t) \/ StopComplete(t)
  <2>1. pc' \in [Threads -> Labels]
    BY <1>3, StepType DEF StopBlockHeartbeats, StopEnterStopping,
       StopEnterFinalPhase, StopComplete
  <2>2. LifeType'
    BY <1>3 DEF StopBlockHeartbeats, StopEnterStopping, StopEnterFinalPhase,
       StopComplete, TypeOK, LifeType, FinalPhase, WorkerPhase
  <2> QED BY <1>3, <2>1, <2>2 DEF StopBlockHeartbeats, StopEnterStopping,
     StopEnterFinalPhase, StopComplete, TypeOK
<1>4. CASE StopFeeds(t) \/ StopHeartbeatJobs(t) \/ StopJoinHeartbeat(t)
  <2>1. pc' \in [Threads -> Labels]
    BY <1>4, StepType DEF StopFeeds, StopHeartbeatJobs, StopJoinHeartbeat
  <2>2. JobType'
    BY <1>4 DEF StopFeeds, StopHeartbeatJobs, StopJoinHeartbeat, TypeOK,
       JobType
  <2> QED BY <1>4, <2>1, <2>2 DEF StopFeeds, StopHeartbeatJobs,
     StopJoinHeartbeat, TypeOK
<1>5. CASE StopJoinFeeds(t) \/ StopCheckAdapter(t) \/ StopCloseClients(t) \/
   StopRaises(t)
  <2>1. pc' \in [Threads -> Labels]
    BY <1>5, StepType DEF StopJoinFeeds, StopCheckAdapter, StopCloseClients,
       StopRaises
  <2> QED BY <1>5, <2>1, PcOnly DEF StopJoinFeeds, StopCheckAdapter,
     StopCloseClients, StopRaises
<1>6. CASE StopCallOnStop(t)
  <2>1. pc' \in [Threads -> Labels]
    BY <1>6, StepType DEF StopCallOnStop
  <2>2. HistType'
    BY <1>6 DEF StopCallOnStop, TypeOK, HistType
  <2> QED BY <1>6, <2>1, <2>2 DEF StopCallOnStop, TypeOK
<1>7. CASE StopClearAdapter(t)
  <2>1. pc' \in [Threads -> Labels]
    BY <1>7, StepType DEF StopClearAdapter
  <2>2. WorkType'
    BY <1>7 DEF StopClearAdapter, TypeOK, WorkType
  <2> QED BY <1>7, <2>1, <2>2 DEF StopClearAdapter, TypeOK
<1>8. CASE StopEmitTerminated(t)
  <2>1. pc' \in [Threads -> Labels]
    BY <1>8, StepType DEF StopEmitTerminated
  <2>2. reason[t] \in Reasons \cup {NoReason} /\ FinalPhase(t) \in WorkerPhase
    BY DEF TypeOK, CtlType, FinalPhase, WorkerPhase
  <2>3. SrmType'
    BY <1>8, <2>2 DEF StopEmitTerminated, TypeOK, SrmType
  <2> QED BY <1>8, <2>1, <2>3 DEF StopEmitTerminated, TypeOK
<1>9. CASE StopReportFinal(t)
  <2>1. pc' \in [Threads -> Labels]
    BY <1>9, StepType DEF StopReportFinal
  <2>2. reason[t] \in Reasons \cup {NoReason}
    BY DEF TypeOK, CtlType
  <2>3. [by |-> t, reason |-> reason[t]] \in
          [by : Stoppers, reason : Reasons \cup {NoReason}]
    BY <2>2
  <2>4. SrmType'
    BY <1>9, <2>3, ReasonFacts DEF StopReportFinal, Deliver, TypeOK, SrmType
  <2> QED BY <1>9, <2>1, <2>4 DEF StopReportFinal, TypeOK
<1> QED BY <1>1, <1>2, <1>3, <1>4, <1>5, <1>6, <1>7, <1>8, <1>9 DEF StopBody

(* The steps of a stop request.                                            *)
LEMMA TypeRequest ==
  ASSUME TypeOK, NEW r \in Requesters, Initiate(r)
  PROVE  TypeOK'
<1> USE ThreadFacts, Unchanged
<1> USE DEF Labels, StopLabels, RequestLabels, AfterInitiate, AfterInitiateRaised
<1>1. CASE InitiateAcquire(r)
  <2>1. pc' \in [Threads -> Labels]
    BY <1>1, StepType DEF InitiateAcquire
  <2>2. ReqType'
    BY <1>1 DEF InitiateAcquire, TypeOK, ReqType
  <2> QED BY <1>1, <2>1, <2>2 DEF InitiateAcquire, TypeOK
<1>2. CASE InitiateCheck(r)
  <2>1. pc' \in [Threads -> Labels]
    BY <1>2, StepType DEF InitiateCheck
  <2>2. ReqType'
    BY <1>2 DEF InitiateCheck, TypeOK, ReqType
  <2> QED BY <1>2, <2>1, <2>2 DEF InitiateCheck, TypeOK
<1>3. CASE InitiatePostStopping(r)
  <2>1. pc' \in [Threads -> Labels]
    BY <1>3, StepType DEF InitiatePostStopping
  <2>2. ReqType'
    BY <1>3 DEF InitiatePostStopping, TypeOK, ReqType
  <2>3. SrmType'
    BY <1>3 DEF InitiatePostStopping, TypeOK, SrmType, Deliver, WorkerPhase
  <2> QED BY <1>3, <2>1, <2>2, <2>3 DEF InitiatePostStopping, TypeOK
<1>4. CASE InitiateAccept(r)
  <2>1. pc' \in [Threads -> Labels]
    BY <1>4, StepType DEF InitiateAccept
  <2>2. canonical' \in Reasons
    BY <1>4, ReasonFacts DEF InitiateAccept
  <2>3. ReqType'
    BY <1>4, <2>2 DEF InitiateAccept, TypeOK, ReqType
  <2>4. LifeType'
    BY <1>4 DEF InitiateAccept, TypeOK, LifeType
  <2> QED BY <1>4, <2>1, <2>3, <2>4 DEF InitiateAccept, TypeOK
<1>5. CASE EnsureShutdownThread(r)
  <2>1. pc' \in [Threads -> Labels]
    BY <1>5 DEF EnsureShutdownThread, TypeOK
  <2>2. ReqType'
    BY <1>5 DEF EnsureShutdownThread, TypeOK, ReqType
  <2> QED BY <1>5, <2>1, <2>2 DEF EnsureShutdownThread, TypeOK
<1> QED BY <1>1, <1>2, <1>3, <1>4, <1>5 DEF Initiate

(* The arrival of requests, the end of a replay and Ctrl+C.                *)
LEMMA TypeEnvironment ==
  ASSUME TypeOK, Environment
  PROVE  TypeOK'
<1> USE ThreadFacts, Unchanged
<1> USE DEF Labels, StartLabels, StopLabels, RequestLabels
<1>1. CASE \E h \in HttpThreads : HttpStopArrives(h)
  <2> PICK h \in HttpThreads : HttpStopArrives(h)
    BY <1>1
  <2>1. pc' \in [Threads -> Labels]
    BY StepType DEF HttpStopArrives, Requesters
  <2> QED BY <2>1, PcOnly DEF HttpStopArrives
<1>2. CASE \E g \in GrpcThreads : StopWorkerArrives(g)
  <2> PICK g \in GrpcThreads : StopWorkerArrives(g)
    BY <1>2
  <2>1. pc' \in [Threads -> Labels]
    BY StepType DEF StopWorkerArrives, Requesters
  <2> QED BY <2>1, PcOnly DEF StopWorkerArrives
<1>3. CASE SigtermArrives
  <2>1. pc' \in [Threads -> Labels]
    BY <1>3, StepType DEF SigtermArrives
  <2> QED BY <1>3, <2>1, PcOnly DEF SigtermArrives
<1>4. CASE ReplayEndOfStream
  <2>1. pc' \in [Threads -> Labels]
    BY <1>4 DEF ReplayEndOfStream, TypeOK
  <2>2. WorkType'
    BY <1>4 DEF ReplayEndOfStream, TypeOK, WorkType
  <2> QED BY <1>4, <2>1, <2>2 DEF ReplayEndOfStream, TypeOK
<1>5. CASE KeyboardInterrupt
  <2>1. pc' \in [Threads -> Labels]
    BY <1>5, StepType DEF KeyboardInterrupt
  <2>2. CtlType'
    BY <1>5, FlagsAssumption DEF KeyboardInterrupt, TypeOK, CtlType
  <2> QED BY <1>5, <2>1, <2>2 DEF KeyboardInterrupt, TypeOK
<1> QED BY <1>1, <1>2, <1>3, <1>4, <1>5 DEF Environment

(* The polling loop and the end of the process.                            *)
LEMMA TypeMainLoop ==
  ASSUME TypeOK, MainLoop
  PROVE  TypeOK'
<1> USE ThreadFacts, Unchanged
<1> USE DEF Labels, StartLabels, StopLabels
<1>1. CASE Poll
  BY <1>1 DEF Poll, vars, TypeOK
<1>2. CASE PollLeaves \/ StopServers \/ ProcessExit
  <2>1. pc' \in [Threads -> Labels]
    BY <1>2, StepType DEF PollLeaves, StopServers, ProcessExit
  <2> QED BY <1>2, <2>1, PcOnly DEF PollLeaves, StopServers, ProcessExit
<1>3. CASE PollJobCompleted
  <2>1. pc' \in [Threads -> Labels]
    BY <1>3, StepType DEF PollJobCompleted
  <2>2. CtlType'
    BY <1>3 DEF PollJobCompleted, TypeOK, CtlType
  <2> QED BY <1>3, <2>1, <2>2 DEF PollJobCompleted, TypeOK
<1> QED BY <1>1, <1>2, <1>3 DEF MainLoop

(* The heartbeat thread, the feed and the StopWorker checkpoint.           *)
LEMMA TypeWorkers ==
  ASSUME TypeOK,
         \/ HeartbeatTick \/ HeartbeatExit \/ FeedThread
         \/ \E g \in GrpcThreads : StopWorkerCheckpoint(g)
  PROVE  TypeOK'
<1> USE ThreadFacts, Unchanged
<1> USE DEF Labels, RequestLabels
<1>1. CASE HeartbeatTick
  BY <1>1, TypeBeat DEF HeartbeatTick
<1>2. CASE HeartbeatExit \/ FeedTick \/ FeedTickEnds \/ FeedExit
  <2>1. pc' \in [Threads -> Labels]
    BY <1>2, StepType DEF HeartbeatExit, FeedTick, FeedTickEnds, FeedExit
  <2> QED BY <1>2, <2>1, PcOnly DEF HeartbeatExit, FeedTick, FeedTickEnds,
     FeedExit
<1>3. CASE FeedJobComplete
  <2>1. pc' \in [Threads -> Labels]
    BY <1>3, StepType DEF FeedJobComplete
  <2>2. WorkType'
    BY <1>3 DEF FeedJobComplete, TypeOK, WorkType
  <2> QED BY <1>3, <2>1, <2>2 DEF FeedJobComplete, TypeOK
<1>4. CASE FeedReads
  BY <1>4 DEF FeedReads, vars, TypeOK
<1>5. CASE \E g \in GrpcThreads : StopWorkerCheckpoint(g)
  <2> PICK g \in GrpcThreads : StopWorkerCheckpoint(g)
    BY <1>5
  <2>1. pc' \in [Threads -> Labels]
    BY StepType DEF StopWorkerCheckpoint, Requesters
  <2> QED BY <2>1, PcOnly DEF StopWorkerCheckpoint
<1> QED BY <1>1, <1>2, <1>3, <1>4, <1>5 DEF FeedThread

(* Type correctness, whatever requests, faults and timeouts occur.         *)
THEOREM TypeCorrect == Spec => []TypeOK
<1>1. TypeOK /\ [Next]_vars => TypeOK'
  <2> SUFFICES ASSUME TypeOK, [Next]_vars PROVE TypeOK'
    OBVIOUS
  <2>1. CASE UNCHANGED vars
    BY <2>1, Unchanged DEF vars, TypeOK
  <2>2. CASE AfterExit
    BY <2>2, Unchanged DEF AfterExit, vars, TypeOK
  <2> QED BY <2>1, <2>2, TypeStartup, TypeMainLoop, TypeEnvironment, TypeStopBody,
             TypeRequest, TypeWorkers DEF Next
<1> QED BY <1>1, TypeInit, PTL DEF Spec
=============================================================================
