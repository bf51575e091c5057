--------------------------- MODULE Shutdown_proofs --------------------------
(***************************************************************************)
(* Theorems about the shutdown: who may tear the worker down and with      *)
(* which reason, in what order stop() ends the feed, the heartbeat and the *)
(* strategy, and what the runtime manager is told of it.                   *)
(***************************************************************************)
EXTENDS StopRequests_proofs, WorkerAndManager

-----------------------------------------------------------------------------
(* The labels of stop() by what it has done when it gets there: its reason *)
(* is resolved; the feeds' stop events are set; the feed is joined; the    *)
(* heartbeat thread is joined.                                             *)
Resolved     == StopLabels \ {"stop", "resolve"}
FeedsStopped == StopLabels \ {"stop", "resolve", "block", "feeds"}
FeedsJoined  == FeedsStopped \ {"joinfeed"}
BeatsJoined  == FeedsJoined \ {"hbstop", "hbjoin", "hbwait"}

(* What a step of stop() adds.                                             *)
LEMMA StopEdges ==
  ASSUME TypeOK, NEW t \in Stoppers, StopBody(t)
  PROVE  /\ pc'[t] \in Resolved => pc[t] \in Resolved \/ StopResolveReason(t)
         /\ pc'[t] \in FeedsStopped => pc[t] \in FeedsStopped \/ StopFeeds(t)
         /\ pc'[t] \in FeedsJoined => pc[t] \in FeedsJoined \/ StopJoinFeeds(t)
         /\ pc'[t] \in BeatsJoined =>
              \/ pc[t] \in BeatsJoined
              \/ pc[t] = "hbstop" /\ ~hbThread
              \/ pc[t] = "hbwait" /\ (pc[Hb] = "done" \/ JoinTimeouts)
         /\ pc'[t] = "instop" => StopCallOnStop(t) /\ adapter
         /\ pc[t] = "instop" => StopClearAdapter(t)
<1> USE ThreadFacts DEF Resolved, FeedsStopped, FeedsJoined, BeatsJoined, StopLabels
<1>1. CASE StopCheck(t) \/ StopResolveReason(t) \/ StopBlockHeartbeats(t)
             \/ StopFeeds(t) \/ StopJoinFeeds(t)
  BY <1>1, Moved DEF StopCheck, StopResolveReason, StopBlockHeartbeats,
     StopFeeds, StopJoinFeeds, AfterStop
<1>2. CASE StopHeartbeatJobs(t) \/ StopJoinHeartbeat(t) \/ StopEnterStopping(t)
  BY <1>2, Moved DEF StopHeartbeatJobs, StopJoinHeartbeat, StopEnterStopping,
     AfterRaise
<1>3. CASE StopCheckAdapter(t) \/ StopClearAdapter(t)
  BY <1>3, Moved DEF StopCheckAdapter, StopClearAdapter, AfterStrategy
<1>4. CASE StopCallOnStop(t)
  BY <1>4, Moved DEF StopCallOnStop, AfterRaise
<1>5. CASE StopCloseClients(t) \/ StopEmitTerminated(t) \/ StopEnterFinalPhase(t)
             \/ StopReportFinal(t) \/ StopComplete(t) \/ StopRaises(t)
  BY <1>5, Moved DEF StopCloseClients, StopEmitTerminated, StopEnterFinalPhase,
     StopReportFinal, StopComplete, StopRaises, AfterStop, AfterRaise
<1> QED BY <1>1, <1>2, <1>3, <1>4, <1>5 DEF StopBody

-----------------------------------------------------------------------------

(* Main stops as a completed job only when the replay is complete.         *)
CompletedInv ==
  /\ mainWhy = "RUNTIME_JOB_COMPLETED" => Mode = "BACKTEST" /\ replayDone
  /\ CompletedMeansReplayed

(* COMPLETED is entered and announced only by a BACKTEST whose replay is   *)
(* complete: whatever requests and Ctrl+C come, and whatever raises or     *)
(* times out (FinalPhase, should_stop_for_completed_backtest_job).         *)
THEOREM CompletedOnlyReplayed == Spec => []CompletedMeansReplayed
<1> USE DEF CompletedInv, CompletedMeansReplayed
<1>1. Init => CompletedInv
  BY DEF Init, NoReason
<1>2. TypeOK /\ CompletedInv /\ [Next]_vars => CompletedInv'
  <2> SUFFICES ASSUME TypeOK, CompletedInv, [Next]_vars PROVE CompletedInv'
    OBVIOUS
  <2>e. Effects
    BY EffectsOfNext
  <2>1. \A t \in Stoppers : FinalPhase(t) = "COMPLETED" => Mode = "BACKTEST" /\ replayDone
    BY Distinct DEF FinalPhase, TerminationReasonCode, Stoppers, NoReason
  <2>2. mainWhy' = "RUNTIME_JOB_COMPLETED" => Mode = "BACKTEST" /\ replayDone'
    BY <2>e DEF Effects, PollJobCompleted, KeyboardInterrupt,
       should_stop_for_completed_backtest_job
  <2>3. phase' = "COMPLETED" => Mode = "BACKTEST" /\ replayDone'
    BY <2>1, <2>e DEF Effects, SetReady, SetRunning, EnterFailed,
       StopEnterStopping, StopEnterFinalPhase
  <2>4. ASSUME NEW s \in terminated', s[2] = "COMPLETED"
        PROVE  Mode = "BACKTEST" /\ replayDone'
    BY <2>1, <2>4, <2>e DEF Effects, StopEmitTerminated
  <2> QED BY <2>2, <2>3, <2>4
<1> QED BY <1>1, <1>2, TypeCorrect, PTL DEF Spec

-----------------------------------------------------------------------------
(* Nobody is in stop(), or about to start its thread, before a request has *)
(* been accepted or Main has found a reason of its own; unless the SIGTERM *)
(* handler meets a journal write or POST that raises: it starts the thread *)
(* of a request that was never accepted.                                   *)
AskedFirst == ~Faults \/ ~SigtermSent

Asked == accepted \/ mainWhy # NoReason

AskedInv ==
  /\ inProgress => Asked
  /\ \A r \in Requesters : pc[r] = "ensure" => Asked
  /\ \A t \in ByRequest : pc[t] \in StopLabels => Asked

LEMMA AskedInvariant ==
  ASSUME AskedFirst
  PROVE  Spec => []AskedInv
<1> USE ThreadFacts, Distinct
<1>1. Init => AskedInv
  BY DEF Init, AskedInv, StopLabels, ByRequest, Requesters, Threads
<1>2. TypeOK /\ WhyInv /\ CallerInv /\ AskedInv /\ [Next]_vars => AskedInv'
  <2> SUFFICES ASSUME TypeOK, WhyInv, CallerInv, AskedInv, [Next]_vars PROVE AskedInv'
    OBVIOUS
  <2>e. Effects /\ Movers
    BY EffectsOfNext, MoversOfNext
  <2>1. Asked => Asked'
    BY <2>e DEF Effects, Asked, InitiateAccept, PollJobCompleted, KeyboardInterrupt, NoReason
  <2>2. \A r \in Requesters : InitiateAccept(r) => Asked'
    BY DEF InitiateAccept, Asked
  <2>3. ASSUME NEW t \in Stoppers, StopBlockHeartbeats(t) PROVE Asked
    BY <2>3 DEF StopBlockHeartbeats, Step, Stoppers, WhyInv, AskedInv, Asked, ByRequest,
       StopLabels, RollbackLabels
  <2>4. inProgress' => Asked'
    BY <2>e, <2>1, <2>2, <2>3 DEF Effects, AskedInv
  <2>5. ASSUME NEW r \in Requesters, pc'[r] = "ensure" PROVE Asked'
    <3>1. CASE pc[r] = "ensure"
      BY <2>1, <3>1 DEF AskedInv
    <3>2. CASE pc[r] # "ensure"
      <4>0. Initiate(r) /\ r \in Threads
        BY <2>e, <2>5, <3>2 DEF Movers, Requesters, Threads
      <4>1. CASE InitiateAccept(r)
        BY <2>2, <4>1
      <4>2. CASE InitiateCheck(r)
        <5>1. accepted \/ inProgress
          BY <2>5, <4>0, <4>2, Moved DEF InitiateCheck
        <5> QED BY <2>1, <5>1 DEF AskedInv, Asked
      <4>3. ~InitiateAcquire(r) /\ ~EnsureShutdownThread(r)
        BY <2>5, <3>2, <4>0, Moved DEF InitiateAcquire, EnsureShutdownThread
      <4>4. CASE InitiatePostStopping(r)
        <5>1. Faults /\ r = Sig /\ pc[Sig] # "idle"
          BY <2>5, <4>0, <4>4, Moved DEF InitiatePostStopping, AfterInitiateRaised
        <5> QED BY <5>1, AskedFirst DEF AskedFirst, CallerInv
      <4> QED BY <4>0, <4>1, <4>2, <4>3, <4>4 DEF Initiate
    <3> QED BY <3>1, <3>2
  <2>6. ASSUME NEW t \in ByRequest, pc'[t] \in StopLabels PROVE Asked'
    <3>1. CASE pc[t] \in StopLabels
      BY <2>1, <2>6, <3>1 DEF AskedInv
    <3>2. CASE pc[t] \notin StopLabels
      <4>1. ~StopBody(t)
        BY <2>6, <3>2, StopMoves DEF ByRequest, Stoppers
      <4>2. CASE t \in CoopThreads
        <5>1. PICK r \in Requesters : EnsureShutdownThread(r)
          BY <2>e, <2>6, <3>2, <4>1, <4>2 DEF Movers
        <5> QED BY <2>1, <5>1 DEF EnsureShutdownThread, AskedInv
      <4>3. CASE t \in GrpcThreads
        <5>1. InitiateAccept(t) /\ t \in Requesters
          BY <2>e, <2>6, <3>2, <4>1, <4>3 DEF Movers, StopLabels, RequestLabels, Requesters
        <5> QED BY <2>2, <5>1
      <4> QED BY <4>2, <4>3 DEF ByRequest
    <3> QED BY <3>1, <3>2
  <2> QED BY <2>4, <2>5, <2>6 DEF AskedInv
<1> QED BY <1>1, <1>2, AskedFirst, TypeCorrect, WhyInvariant, CallerInvariant, PTL DEF Spec

-----------------------------------------------------------------------------
(* Why FinalMatchesRequest is inductive where Main does not stop by itself:*)
(* what the request was accepted with is the first thing a body of stop()  *)
(* resolves.                                                               *)
ReasonInv ==
  /\ \A t \in ByRequest : pc[t] \in Resolved => reason[t] = canonical
  /\ \A f \in finals : accepted /\ f.reason = canonical

LEMMA ReasonInvariant ==
  ASSUME NoOwnStop, AskedFirst
  PROVE  Spec => []ReasonInv
<1> USE ThreadFacts, Distinct
<1>1. Init => ReasonInv
  BY DEF Init, ReasonInv, Resolved, StopLabels, ByRequest, Threads
<1>2. TypeOK /\ MainInv /\ AcceptInv /\ AskedInv /\ ReasonInv /\ [Next]_vars => ReasonInv'
  <2> SUFFICES ASSUME TypeOK, MainInv, AcceptInv, AskedInv, ReasonInv, [Next]_vars
               PROVE  ReasonInv'
    OBVIOUS
  <2>e. Effects /\ Movers
    BY EffectsOfNext, MoversOfNext
  <2>a. \A t \in ByRequest : pc[t] \in StopLabels => accepted /\ canonical # NoReason
    BY DEF AskedInv, Asked, MainInv, AcceptInv, OneAcceptance
  <2>m. \A t \in Stoppers : StopResolveReason(t) \/ StopReportFinal(t) => t \in ByRequest
    BY DEF StopResolveReason, StopReportFinal, Step, Stoppers, ByRequest, MainInv,
       StopLabels, RollbackLabels
  <2>1. CASE \E r \in Requesters : InitiateAccept(r)
    <3>1. PICK r \in Requesters : InitiateAccept(r)
      BY <2>1
    <3>2. ~accepted /\ finals' = finals
      BY <3>1 DEF InitiateAccept, Step, AcceptInv, srmVars
    <3>3. \A t \in ByRequest : pc'[t] \notin Resolved
      <4>1. r \in Threads /\ ByRequest \subseteq Threads
        BY DEF Requesters, Threads, ByRequest
      <4>2. /\ \A u \in Threads \ {r} : pc'[u] = pc[u]
            /\ pc'[r] \in {"stop", "ensure"}
        BY <3>1, <4>1, Moved DEF InitiateAccept, AfterInitiate
      <4> QED BY <2>a, <3>2, <4>1, <4>2 DEF Resolved, StopLabels
    <3> QED BY <3>2, <3>3 DEF ReasonInv
  <2>2. CASE ~\E r \in Requesters : InitiateAccept(r)
    <3>1. UNCHANGED <<accepted, canonical>>
      BY <2>2, <2>e DEF Effects
    <3>2. ASSUME NEW t \in Stoppers, StopResolveReason(t)
          PROVE  reason' = [reason EXCEPT ![t] = canonical]
      <4>1. canonical # NoReason
        BY <2>a, <2>m, <3>2 DEF StopResolveReason, Step, StopLabels
      <4> QED BY <3>2, <4>1 DEF StopResolveReason, ResolvedReason
    <3>3. ASSUME NEW t \in ByRequest, pc'[t] \in Resolved
          PROVE  reason'[t] = canonical'
      <4>1. t \in Stoppers
        BY DEF ByRequest, Stoppers
      <4>2. CASE StopResolveReason(t)
        BY <3>1, <3>2, <4>1, <4>2 DEF TypeOK, CtlType
      <4>3. CASE ~StopResolveReason(t)
        <5>1. pc[t] \in Resolved
          <6>1. pc'[t] = pc[t] \/ StopBody(t)
            BY <2>2, <2>e, <3>3 DEF Movers, ByRequest, Resolved, StopLabels, RequestLabels
          <6> QED BY <3>3, <4>1, <4>3, <6>1, StopEdges
        <5>2. reason'[t] = reason[t]
          BY <2>e, <3>2, <4>1, <4>3 DEF Effects, TypeOK, CtlType
        <5> QED BY <3>1, <5>1, <5>2 DEF ReasonInv
      <4> QED BY <4>2, <4>3
    <3>4. ASSUME NEW t \in Stoppers, StopReportFinal(t), NEW f \in finals'
          PROVE  accepted /\ f.reason = canonical
      <4>1. accepted /\ reason[t] = canonical
        BY <2>a, <2>m, <3>4 DEF StopReportFinal, Step, ReasonInv, Resolved, StopLabels
      <4> QED BY <3>4, <4>1 DEF StopReportFinal, ReasonInv
    <3> QED BY <2>e, <3>1, <3>3, <3>4 DEF Effects, ReasonInv
  <2> QED BY <2>1, <2>2
<1> QED BY <1>1, <1>2, NoOwnStop, AskedFirst, TypeCorrect, MainInvariant, AcceptInvariant,
       AskedInvariant, PTL DEF Spec

(* Outside a BACKTEST and without Ctrl+C, and unless the SIGTERM handler   *)
(* meets a call that raises: every final report carries the reason the one *)
(* accepted request was accepted with, for any number of HTTP requests and *)
(* StopWorker handlers, at any time of the start, with failing starts,     *)
(* journal writes and POSTs that raise, timed out joins and lost POSTs     *)
(* (stop, initiate_stop_from_request).                                     *)
THEOREM FinalReasonIsTheAccepted ==
  ASSUME NoOwnStop, AskedFirst
  PROVE  Spec => []FinalMatchesRequest
<1>1. ReasonInv => FinalMatchesRequest
  BY DEF ReasonInv, FinalMatchesRequest
<1> QED BY <1>1, NoOwnStop, AskedFirst, ReasonInvariant, PTL

-----------------------------------------------------------------------------
(* While the main thread is in start() and run(), or rolls a failed start  *)
(* back, nobody else has been asked to do anything: where stop requests    *)
(* come only after that.                                                   *)
QuietInv ==
  Starting =>
    /\ \A r \in Requesters : pc[r] = "idle"
    /\ \A c \in CoopThreads : pc[c] = "unborn"
    /\ pc[Feed] = "unborn"
    /\ ~inProgress /\ ~coopStarted

(* Where Main is then.                                                     *)
LEMMA StartingLabels ==
  ASSUME WhyInv
  PROVE  /\ Starting <=> \/ pc[Main] \in StartLabels
                         \/ pc[Main] \in RollbackLabels /\ mainWhy = NoReason
         /\ Starting => mainWhy = NoReason
  BY DEF WhyInv, Starting, RollingBack, StopLabels, RollbackLabels

(* It does not come back there.                                            *)
LEMMA StartingStep ==
  ASSUME TypeOK, WhyInv, WhyInv', [Next]_vars, Starting'
  PROVE  /\ Starting /\ ~StartFeeds
         /\ \/ pc'[Main] = pc[Main] \/ Startup
            \/ /\ pc[Main] \in RollbackLabels
               /\ pc'[Main] \in RollbackLabels \cup {"rbreport"}
<1> USE ThreadFacts, Distinct
<1>e. Effects /\ Movers
  BY EffectsOfNext, MoversOfNext
<1>s. \/ pc'[Main] \in StartLabels
      \/ pc'[Main] \in RollbackLabels /\ mainWhy' = NoReason
  BY DEF WhyInv, Starting, RollingBack, StopLabels, RollbackLabels
<1>1. ~PollJobCompleted /\ ~KeyboardInterrupt
  <2>1. PollJobCompleted \/ KeyboardInterrupt => pc'[Main] \in {"stop", "exiting"}
    BY Moved DEF PollJobCompleted, KeyboardInterrupt
  <2> QED BY <1>s, <2>1 DEF StartLabels, RollbackLabels
<1>2. mainWhy' = mainWhy
  BY <1>e, <1>1 DEF Effects
<1>3. ~StartFeeds
  BY <1>s DEF StartFeeds, TypeOK, StartLabels, RollbackLabels
<1>4. CASE Startup
  BY <1>3, <1>4, StartupMoves DEF Starting
<1>5. CASE StopBody(Main) /\ ~Startup
  <2>1. mainWhy = NoReason
    BY <1>2, <1>5, <1>s, StopMoves DEF Stoppers, StopLabels, StartLabels, AfterStop,
       AfterRaise, RollingBack
  <2>2. /\ pc[Main] \in RollbackLabels
        /\ pc'[Main] \in RollbackLabels \cup {"rbreport", "loop"}
    BY <1>5, <2>1, RollbackMoves
  <2> QED BY <1>3, <1>s, <2>1, <2>2, StartingLabels DEF StartLabels, RollbackLabels
<1>6. CASE ~StopBody(Main) /\ ~Startup
  <2>1. pc'[Main] = pc[Main]
    BY <1>e, <1>1, <1>6, <1>s DEF Movers, StartLabels, RollbackLabels
  <2> QED BY <1>2, <1>3, <1>s, <2>1, StartingLabels
<1> QED BY <1>4, <1>5, <1>6

LEMMA QuietInvariant ==
  ASSUME ~StopsDuringStartup
  PROVE  Spec => []QuietInv
<1> USE ThreadFacts, Distinct
<1>1. Init => QuietInv
  BY DEF Init, QuietInv, Requesters, Threads
<1>2. TypeOK /\ WhyInv /\ WhyInv' /\ QuietInv /\ [Next]_vars => QuietInv'
  <2> SUFFICES ASSUME TypeOK, WhyInv, WhyInv', QuietInv, [Next]_vars, Starting'
               PROVE  /\ \A r \in Requesters : pc'[r] = "idle"
                      /\ \A c \in CoopThreads : pc'[c] = "unborn"
                      /\ pc'[Feed] = "unborn"
                      /\ ~inProgress' /\ ~coopStarted'
    BY DEF QuietInv
  <2>e. Effects /\ Movers
    BY EffectsOfNext, MoversOfNext
  <2>q. /\ \A r \in Requesters : pc[r] = "idle"
        /\ \A c \in CoopThreads : pc[c] = "unborn"
        /\ pc[Feed] = "unborn" /\ ~inProgress /\ ~coopStarted
    BY StartingStep DEF QuietInv
  <2>1. ~Arrivals
    BY StartingStep, ArrivalMoves
  <2>2. ~\E r \in Requesters : InitiateAccept(r) \/ EnsureShutdownThread(r)
    BY <2>q DEF InitiateAccept, EnsureShutdownThread, Step
  <2>3. ~\E t \in Stoppers : StopBlockHeartbeats(t)
    <3>1. pc[Main] # "block"
      BY StartingStep, StartingLabels DEF StartLabels, RollbackLabels
    <3> QED BY <2>q, <3>1 DEF StopBlockHeartbeats, Step, Stoppers, Requesters
  <2>4. \A c \in CoopThreads : ~StopBody(c)
    BY <2>q, StopMoves DEF Stoppers, StopLabels
  <2> QED BY <2>e, <2>q, <2>1, <2>2, <2>3, <2>4, StartingStep DEF Movers, Effects
<1> QED BY <1>1, <1>2, ~StopsDuringStartup, TypeCorrect, WhyInvariant, PTL DEF Spec

(* A thread gets past the entry of stop() by the steps of stop(), and Main *)
(* also into the rollback, from start().                                   *)
LEMMA InsideStop ==
  ASSUME TypeOK, [Next]_vars, NEW t \in Stoppers, pc'[t] \in StopLabels \ {"stop"}
  PROVE  \/ pc'[t] = pc[t] \/ StopBody(t)
         \/ t = Main /\ Startup /\ pc'[Main] = "strategy"
<1> USE ThreadFacts, Distinct
<1>e. Movers
  BY MoversOfNext
<1>1. CASE t \in CoopThreads
  BY <1>e, <1>1 DEF Movers
<1>2. CASE t \in GrpcThreads
  BY <1>e, <1>2 DEF Movers, StopLabels, RequestLabels
<1>3. CASE t = Main
  <2>1. PollJobCompleted \/ KeyboardInterrupt => pc'[Main] \in {"stop", "exiting"}
    BY Moved DEF PollJobCompleted, KeyboardInterrupt
  <2>2. Startup => pc'[Main] \in StartLabels \cup {"loop", "strategy"}
    BY StartupMoves
  <2> QED BY <1>e, <1>3, <2>1, <2>2 DEF Movers, StopLabels, StartLabels
<1> QED BY <1>1, <1>2, <1>3 DEF Stoppers

-----------------------------------------------------------------------------
(* The feed, once stopped and joined, handles no event any more: its       *)
(* thread has ended, or is left in a read after which it looks at the stop *)
(* event; the rollback of a failed start finds that there never was one    *)
(* (QuietInv).                                                             *)
FeedGone == pc[Feed] \in {"unborn", "done"} \/ (pc[Feed] = "idle" /\ feedStop)

LEMMA FeedStays ==
  ASSUME TypeOK, [Next]_vars, FeedGone, ~StartFeeds
  PROVE  FeedGone'
<1> USE ThreadFacts, Distinct
<1>e. Effects /\ Movers
  BY EffectsOfNext, MoversOfNext
<1>1. feedStop => feedStop'
  BY <1>e DEF Effects, StopFeeds
<1>2. CASE FeedThread
  BY <1>1, <1>2, Moved DEF FeedThread, FeedTick, FeedReads, FeedTickEnds, FeedExit,
     FeedJobComplete, FeedGone, Step, vars, ctlVars
<1>3. CASE ~FeedThread
  BY <1>1, <1>3, <1>e DEF Movers, FeedGone
<1> QED BY <1>2, <1>3

FeedInv ==
  ~Starting => \A t \in Stoppers :
                 /\ pc[t] \in FeedsStopped => feedStop
                 /\ pc[t] \in FeedsJoined => FeedGone

LEMMA FeedInvariant ==
  ASSUME ~StopsDuringStartup, ~JoinTimeouts
  PROVE  Spec => []FeedInv
<1> USE ThreadFacts, Distinct
<1>1. Init => FeedInv
  BY DEF Init, FeedInv, Starting, StartLabels
<1>2. TypeOK /\ WhyInv /\ WhyInv' /\ QuietInv /\ FeedInv /\ [Next]_vars => FeedInv'
  <2> SUFFICES ASSUME TypeOK, WhyInv, WhyInv', QuietInv, FeedInv, [Next]_vars, ~Starting',
                      NEW t \in Stoppers, pc'[t] \in FeedsStopped
               PROVE  feedStop' /\ (pc'[t] \in FeedsJoined => FeedGone')
    BY DEF FeedInv, FeedsJoined
  <2>e. Effects /\ Movers
    BY EffectsOfNext, MoversOfNext
  <2>1. /\ \/ pc'[t] = pc[t] \/ StopBody(t)
           \/ t = Main /\ Startup /\ pc'[Main] = "strategy"
        /\ pc'[t] # "stop"
    BY InsideStop DEF FeedsStopped
  <2>2. ~Starting
    <3> SUFFICES ASSUME Starting PROVE FALSE
      OBVIOUS
    <3>1. mainWhy = NoReason
      BY StartingLabels
    <3>2. t = Main
      <4> SUFFICES ASSUME t # Main PROVE FALSE
        OBVIOUS
      <4>1. pc[t] \in {"idle", "unborn"}
        BY DEF QuietInv, Stoppers, Requesters
      <4> QED BY <2>1, <4>1, StopMoves DEF FeedsStopped, StopLabels
    <3>3. pc'[Main] \in RollbackLabels
      <4>1. Startup => pc'[Main] \in RollbackLabels
        BY <2>1, <3>2, StartupMoves DEF RollbackLabels, FeedsStopped, StopLabels, StartLabels
      <4>2. StopBody(Main) => pc'[Main] \in RollbackLabels
        BY <3>1, <3>2, RollbackMoves DEF FeedsStopped, StopLabels
      <4>3. pc'[Main] = pc[Main] => pc'[Main] \in RollbackLabels
        BY <3>2, StartingLabels DEF FeedsStopped, StopLabels, StartLabels
      <4> QED BY <2>1, <3>2, <4>1, <4>2, <4>3
    <3>4. mainWhy' = mainWhy
      <4>1. PollJobCompleted \/ KeyboardInterrupt => pc'[Main] \in {"stop", "exiting"}
        BY Moved DEF PollJobCompleted, KeyboardInterrupt
      <4> QED BY <2>e, <3>3, <4>1 DEF Effects, RollbackLabels
    <3> QED BY <3>1, <3>3, <3>4 DEF Starting, RollingBack, StopLabels, RollbackLabels
  <2>3. ~Startup
    BY <2>2, StartupMoves DEF Starting
  <2>4. feedStop => feedStop'
    BY <2>3, <2>e DEF Effects, StopFeeds, Startup
  <2>5. FeedGone => FeedGone'
    BY <2>3, <2>4, FeedStays DEF Startup
  <2>6. CASE StopBody(t)
    <3>1. StopFeeds(t) => feedStop'
      BY DEF StopFeeds
    <3>2. StopJoinFeeds(t) => FeedGone
      BY <2>2, ~JoinTimeouts DEF StopJoinFeeds, Step, FeedGone, FeedInv, FeedsStopped,
         StopLabels
    <3> QED BY <2>2, <2>4, <2>5, <2>6, <3>1, <3>2, StopEdges DEF FeedInv
  <2>7. CASE pc'[t] = pc[t]
    BY <2>2, <2>4, <2>5, <2>7 DEF FeedInv
  <2> QED BY <2>1, <2>3, <2>6, <2>7
<1> QED BY <1>1, <1>2, ~StopsDuringStartup, ~JoinTimeouts, TypeCorrect, WhyInvariant,
       QuietInvariant, PTL DEF Spec

(* on_stop is called after the start, or in its rollback.                  *)
LateInv ==
  onStops # 0 => pc[Main] \notin StartLabels \ {"rbreport", "rbdone"}

LEMMA LateInvariant ==
  ASSUME ~StopsDuringStartup
  PROVE  Spec => []LateInv
<1> USE ThreadFacts, Distinct
<1>1. Init => LateInv
  BY DEF Init, LateInv
<1>2. TypeOK /\ QuietInv /\ LateInv /\ [Next]_vars => LateInv'
  <2> SUFFICES ASSUME TypeOK, QuietInv, LateInv, [Next]_vars,
                      onStops' # 0, pc'[Main] \in StartLabels \ {"rbreport", "rbdone"}
               PROVE  FALSE
    BY DEF LateInv
  <2>e. Effects /\ Movers
    BY EffectsOfNext, MoversOfNext
  <2>1. CASE Startup
    <3>1. pc[Main] \in StartLabels
      BY <2>1, StartupMoves
    <3>2. ~\E t \in Stoppers : StopCallOnStop(t)
      <4>1. SUFFICES ASSUME NEW t \in Stoppers, pc[t] = "callstop" PROVE FALSE
        BY DEF StopCallOnStop
      <4> QED BY <3>1, <4>1 DEF QuietInv, Starting, Stoppers, Requesters, StartLabels
    <3>3. pc[Main] \in {"rbreport", "rbdone"}
      BY <2>e, <3>1, <3>2 DEF Effects, LateInv
    <3>4. RollbackReport \/ RollbackDone \/ RollbackRaises
      BY <2>1, <3>3 DEF Startup, Bootstrap, InitializeDependencies, Step,
         InitializeStrategyCoordinator, BindAndStart, EmitBootstrapSucceeded,
         ReportBootstrapSuccess, SetReady, MarkStarted, MainBeat, BeatCheck,
         BeatRead, BeatPost, StartPeriodicJobs, RunCheck, SetRunning, StartFeeds,
         StartRaises, RunRaises, EnterFailed, PostFailed
    <3>5. pc'[Main] \in {"rbdone", "loop"}
      BY <3>4, Moved DEF RollbackReport, RollbackDone, RollbackRaises
    <3> QED BY <3>5 DEF StartLabels
  <2>2. CASE ~Startup
    <3>1. pc'[Main] = pc[Main]
      <4>1. PollJobCompleted \/ KeyboardInterrupt => pc'[Main] \in {"stop", "exiting"}
        BY Moved DEF PollJobCompleted, KeyboardInterrupt
      <4>2. StopBody(Main) =>
              pc'[Main] \in StopLabels \cup {"rbreport", "exiting", "loop"}
        BY StopMoves DEF Stoppers, AfterStop, AfterRaise
      <4> QED BY <2>e, <2>2, <4>1, <4>2 DEF Movers, StartLabels, StopLabels
    <3>2. PICK t \in Stoppers : StopCallOnStop(t)
      BY <2>e, <3>1 DEF Effects, LateInv
    <3>3. pc[t] = "callstop"
      BY <3>2 DEF StopCallOnStop
    <3> QED BY <3>1, <3>3 DEF QuietInv, Starting, Stoppers, Requesters, StartLabels
  <2> QED BY <2>1, <2>2
<1> QED BY <1>1, <1>2, ~StopsDuringStartup, TypeCorrect, QuietInvariant, PTL DEF Spec

TickInv == onStops # 0 => FeedGone

LEMMA TickInvariant ==
  ASSUME ~StopsDuringStartup, ~JoinTimeouts
  PROVE  Spec => []TickInv
<1> USE ThreadFacts, Distinct
<1>1. Init => TickInv
  BY DEF Init, TickInv
<1>2. TypeOK /\ QuietInv /\ FeedInv /\ LateInv /\ LateInv' /\ TickInv /\ [Next]_vars
        => TickInv'
  <2> SUFFICES ASSUME TypeOK, QuietInv, FeedInv, LateInv, LateInv', TickInv, [Next]_vars,
                      onStops' # 0
               PROVE  FeedGone'
    BY DEF TickInv
  <2>e. Effects /\ Movers
    BY EffectsOfNext, MoversOfNext
  <2>1. ASSUME NEW t \in Stoppers, StopCallOnStop(t) PROVE FeedGone'
    <3>1. /\ pc[t] = "callstop" /\ pc'[Feed] = pc[Feed] /\ feedStop' = feedStop
      BY <2>1, Moved DEF StopCallOnStop, Stoppers, Threads, jobVars
    <3>2. FeedGone
      BY <3>1 DEF QuietInv, FeedInv, FeedsJoined, FeedsStopped, StopLabels, FeedGone
    <3> QED BY <3>1, <3>2 DEF FeedGone
  <2>2. CASE onStops # 0
    <3>1. ~StartFeeds
      BY <2>2 DEF LateInv, StartFeeds, StartLabels
    <3> QED BY <2>2, <3>1, FeedStays DEF TickInv
  <2> QED BY <2>e, <2>1, <2>2 DEF Effects
<1> QED BY <1>1, <1>2, ~StopsDuringStartup, ~JoinTimeouts, TypeCorrect, QuietInvariant,
       FeedInvariant, LateInvariant, PTL DEF Spec

(* Where requests come after the start and the joins outlast a handler:    *)
(* when the strategy's on_stop is called the feed has ended, or is left in *)
(* a read behind which it looks at its stop event, so that no market event *)
(* is handled in or after on_stop; in every                                *)
(* mode, for any number of HTTP and StopWorker requests with or without    *)
(* SIGTERM, completed jobs and Ctrl+C, however many threads are in stop(), *)
(* whatever else of the start or of stop() raises, the rollback of a       *)
(* failed start included (stop, _stop_strategy_loop).                      *)
THEOREM FeedGoneBeforeOnStop ==
  ASSUME ~StopsDuringStartup, ~JoinTimeouts
  PROVE  Spec => [](pc[Feed] = "tick" => onStops = 0)
<1>1. TickInv => (pc[Feed] = "tick" => onStops = 0)
  BY DEF TickInv, FeedGone
<1> QED BY <1>1, ~StopsDuringStartup, ~JoinTimeouts, TickInvariant, PTL

-----------------------------------------------------------------------------
(* on_stop is called by one thread: while the adapter is still there after *)
(* the call, its caller has not come back.                                 *)
OnceInv ==
  /\ onStops # 0 => ~adapter \/ \E t \in Stoppers : pc[t] = "instop"
  /\ onStops <= 1

(* Two threads are not both inside stop(), or one there and the other in   *)
(* the rollback.                                                           *)
LEMMA OneInside ==
  ASSUME TypeOK, MainInv, QuietInv, OneBodyInv, NEW t \in Stoppers, NEW u \in Stoppers,
         pc[t] \in StopLabels, pc[u] \in StopLabels
  PROVE  t = u
<1> USE ThreadFacts, Distinct
<1>1. pc[Main] \in StopLabels => \A c \in ByRequest : pc[c] \notin StopLabels
  BY DEF MainInv, QuietInv, Starting, RollingBack, ByRequest, Requesters, StopLabels
<1> QED BY <1>1 DEF Stoppers, ByRequest, OneBodyInv

LEMMA OnceInvariant ==
  ASSUME OneCaller, ~StopsDuringStartup
  PROVE  Spec => []OnceInv
<1> USE ThreadFacts, Distinct
<1>1. Init => OnceInv
  BY DEF Init, OnceInv
<1>2. TypeOK /\ MainInv /\ QuietInv /\ OneBodyInv /\ LateInv /\ OnceInv /\ [Next]_vars
        => OnceInv'
  <2> SUFFICES ASSUME TypeOK, MainInv, QuietInv, OneBodyInv, LateInv, OnceInv, [Next]_vars
               PROVE  OnceInv'
    OBVIOUS
  <2>e. Effects /\ Movers
    BY EffectsOfNext, MoversOfNext
  <2>1. ASSUME NEW t \in Stoppers, StopCallOnStop(t) PROVE OnceInv'
    <3>1. pc[t] = "callstop" /\ adapter' = adapter
      BY <2>1 DEF StopCallOnStop, workVars
    <3>2. /\ pc'[t] = (IF adapter THEN "instop" ELSE AfterRaise(t))
          /\ \A u \in Threads \ {t} : pc'[u] = pc[u]
      BY <2>1, Moved DEF StopCallOnStop
    <3>3. \A u \in Stoppers : pc[u] # "instop"
      BY <3>1, OneInside DEF StopLabels
    <3>4. CASE adapter
      <4>1. onStops = 0 /\ onStops' = 1
        BY <2>1, <3>3, <3>4 DEF OnceInv, StopCallOnStop, TypeOK, HistType
      <4> QED BY <3>2, <3>4, <4>1 DEF OnceInv
    <3>5. CASE ~adapter
      <4>1. onStops' = onStops
        BY <2>1, <3>5 DEF StopCallOnStop
      <4> QED BY <3>1, <3>5, <4>1 DEF OnceInv
    <3> QED BY <3>4, <3>5
  <2>2. CASE ~\E t \in Stoppers : StopCallOnStop(t)
    <3>1. onStops' = onStops
      BY <2>2, <2>e DEF Effects
    <3> SUFFICES ASSUME onStops # 0, adapter'
                 PROVE  \E t \in Stoppers : pc'[t] = "instop"
      BY <3>1 DEF OnceInv
    <3>2. ~InitializeStrategyCoordinator
      BY DEF LateInv, InitializeStrategyCoordinator, Step, StartLabels
    <3>3. adapter /\ ~\E t \in Stoppers : StopClearAdapter(t)
      BY <2>e, <3>2 DEF Effects, StopClearAdapter
    <3>4. PICK t \in Stoppers : pc[t] = "instop"
      BY <3>3 DEF OnceInv
    <3>5. ~StopBody(t)
      BY <3>3, <3>4, StopEdges
    <3>6. t = Main => ~Startup /\ ~PollJobCompleted /\ ~KeyboardInterrupt
      BY <3>4, StartupMoves, NoOwnReason, OneCaller DEF StartLabels, OneCaller
    <3>7. pc'[t] = pc[t]
      BY <2>e, <3>4, <3>5, <3>6 DEF Movers, Stoppers, RequestLabels
    <3> QED BY <3>4, <3>7
  <2> QED BY <2>1, <2>2
<1> QED BY <1>1, <1>2, OneCaller, ~StopsDuringStartup, TypeCorrect, MainInvariant,
       QuietInvariant, OneBodyInvariant, LateInvariant, PTL DEF Spec, OneCaller

(* Where there is one caller of stop() and requests come after the start:  *)
(* on_stop runs once although every thread in stop() tests and clears the  *)
(* adapter without a lock, and no market event is handled in or after it   *)
(* where the joins outlast a handler; for any number of HTTP and           *)
(* StopWorker requests, whatever raises, the rollback of a failed start    *)
(* included (_stop_strategy_loop).                                         *)
THEOREM OnStopRunsOnce ==
  ASSUME OneCaller, ~StopsDuringStartup
  PROVE  /\ Spec => [](onStops <= 1)
         /\ ~JoinTimeouts => (Spec => []NoTickAfterOnStop)
<1>1. OnceInv => onStops <= 1
  BY DEF OnceInv
<1>2. Spec => [](onStops <= 1)
  BY <1>1, OneCaller, ~StopsDuringStartup, OnceInvariant, PTL
<1>3. ASSUME ~JoinTimeouts PROVE Spec => []NoTickAfterOnStop
  <2>1. (pc[Feed] = "tick" => onStops = 0) /\ onStops <= 1 => NoTickAfterOnStop
    BY DEF NoTickAfterOnStop
  <2> QED BY <1>2, <2>1, <1>3, ~StopsDuringStartup, FeedGoneBeforeOnStop, PTL
<1> QED BY <1>2, <1>3

-----------------------------------------------------------------------------
(* The heartbeat thread is not born before start() starts its jobs, nor    *)
(* ever when start() fails; it reads and posts only in READY and RUNNING;  *)
(* and it is gone before stop() moves the phase.                           *)
BeatGone == pc[Hb] \in {"unborn", "done"}

BeforeJobs ==
  {"boot", "deps", "create", "bind", "announce", "reportok", "ready",
   "started", "beat1", "read1", "post1", "jobs", "fail", "failpost",
   "rbreport", "rbdone"} \cup RollbackLabels

BeatInv ==
  /\ \A t \in Stoppers : pc[t] \in BeatsJoined => BeatGone
  /\ ~BeatGone => hbThread
  /\ pc[Hb] \in {"read", "post"} => Live
  /\ Starting /\ pc[Main] \in BeforeJobs => pc[Hb] = "unborn"

(* How start() gets to its steps.                                          *)
LEMMA StartupEdges ==
  ASSUME TypeOK, Startup
  PROVE  /\ pc'[Main] \in BeforeJobs => pc[Main] \in BeforeJobs /\ ~StartPeriodicJobs
         /\ pc'[Main] = "strategy" => EnterFailed \/ PostFailed
         /\ pc'[Main] = "failpost" => EnterFailed
<1> USE ThreadFacts, Distinct DEF BeforeJobs, RollbackLabels
<1>1. CASE Bootstrap \/ InitializeDependencies \/ InitializeStrategyCoordinator
             \/ BindAndStart \/ EmitBootstrapSucceeded \/ ReportBootstrapSuccess
             \/ SetReady \/ MarkStarted
  BY <1>1, Moved DEF Bootstrap, InitializeDependencies, InitializeStrategyCoordinator,
     BindAndStart, EmitBootstrapSucceeded, ReportBootstrapSuccess, SetReady,
     MarkStarted, StartPeriodicJobs
<1>2. CASE MainBeat
  BY <1>2, Moved DEF MainBeat, BeatCheck, BeatRead, BeatPost, StartPeriodicJobs
<1>3. CASE StartPeriodicJobs \/ StartFeeds
  BY <1>3 DEF StartPeriodicJobs, StartFeeds, TypeOK
<1>4. CASE SetRunning \/ StartRaises \/ RunRaises
  <2>1. \/ Step(Main, "running", "beat2")
        \/ \E l \in BeforeJobs : Step(Main, l, "fail")
        \/ \E l \in {"beat2", "post2", "startfeeds"} : Step(Main, l, "loop")
    BY <1>4 DEF SetRunning, StartRaises, RunRaises
  <2>2. StartPeriodicJobs => pc'[Main] = "runcheck"
    BY DEF StartPeriodicJobs, TypeOK
  <2> QED BY <2>1, <2>2, Moved
<1>7. CASE RunCheck
  <2>1. pc[Main] = "runcheck" /\ pc'[Main] \in {"running", "loop"}
    BY <1>7, Moved DEF RunCheck
  <2> QED BY <2>1
<1>5. CASE EnterFailed \/ PostFailed
  <2>1. EnterFailed => pc[Main] = "fail"
    BY DEF EnterFailed
  <2>3. PostFailed => pc[Main] = "failpost"
    BY Moved DEF PostFailed
  <2>2. PostFailed => pc'[Main] = "strategy"
    BY Moved DEF PostFailed
  <2> QED BY <1>5, <2>1, <2>2, <2>3 DEF StartPeriodicJobs
<1>6. CASE RollbackReport \/ RollbackDone \/ RollbackRaises
  <2>1. \/ Step(Main, "rbreport", "rbdone")
        \/ \E l \in {"rbreport", "rbdone"} : Step(Main, l, "loop")
    BY <1>6 DEF RollbackReport, RollbackDone, RollbackRaises
  <2>2. pc[Main] \in {"rbreport", "rbdone"} /\ pc'[Main] \in {"rbdone", "loop"}
    BY <2>1, Moved
  <2> QED BY <2>2 DEF StartPeriodicJobs
<1> QED BY <1>1, <1>2, <1>3, <1>4, <1>5, <1>6, <1>7 DEF Startup

(* How the heartbeat thread moves.                                         *)
LEMMA BeatEdges ==
  ASSUME TypeOK, HeartbeatTick \/ HeartbeatExit
  PROVE  /\ UNCHANGED <<lifeVars, jobVars>>
         /\ ~BeatGone
         /\ pc'[Hb] = "read" => Live
         /\ pc'[Hb] = "post" => pc[Hb] = "read" /\ beat' = [beat EXCEPT ![Hb] = phase]
<1> USE ThreadFacts, Distinct DEF BeatGone
<1>1. CASE HeartbeatExit
  BY <1>1, Moved DEF HeartbeatExit
<1>2. CASE HeartbeatTick
  BY <1>2, Moved DEF HeartbeatTick, BeatCheck, BeatRead, BeatPost
<1> QED BY <1>1, <1>2

(* Main does not come back to before its jobs.                             *)
LEMMA MainBeforeJobs ==
  ASSUME TypeOK, WhyInv, WhyInv', [Next]_vars, Starting', pc'[Main] \in BeforeJobs
  PROVE  Starting /\ pc[Main] \in BeforeJobs /\ ~StartPeriodicJobs
<1> USE ThreadFacts, Distinct
<1>1. StartPeriodicJobs => Startup
  BY DEF Startup
<1>2. RollbackLabels \subseteq BeforeJobs
  BY DEF BeforeJobs
<1> QED BY <1>1, <1>2, StartingStep, StartupEdges DEF StartPeriodicJobs, TypeOK, BeforeJobs,
       RollbackLabels

LEMMA BeatInvariant ==
  ASSUME ~StopsDuringStartup, ~JoinTimeouts
  PROVE  Spec => []BeatInv
<1> USE ThreadFacts, Distinct
<1>1. Init => BeatInv
  BY DEF Init, BeatInv, BeatsJoined, FeedsJoined, FeedsStopped, StopLabels, BeatGone, Stoppers,
     Threads
<1>2. TypeOK /\ WhyInv /\ WhyInv' /\ QuietInv /\ BeatInv /\ [Next]_vars => BeatInv'
  <2> SUFFICES ASSUME TypeOK, WhyInv, WhyInv', QuietInv, BeatInv, [Next]_vars
               PROVE  BeatInv'
    OBVIOUS
  <2>e. Effects /\ Movers
    BY EffectsOfNext, MoversOfNext
  <2>g. BeatGone => BeatGone' \/ StartPeriodicJobs
    BY <2>e, BeatEdges DEF Movers, BeatGone
  <2>1. ASSUME NEW t \in Stoppers, pc'[t] \in BeatsJoined
        PROVE  BeatGone'
    <3>1. \/ pc'[t] = pc[t] \/ StopBody(t)
          \/ t = Main /\ Startup /\ pc'[Main] = "strategy"
      BY <2>1, InsideStop DEF BeatsJoined, FeedsJoined, FeedsStopped
    <3>2. CASE t = Main /\ Startup /\ pc'[Main] = "strategy"
      <4>1. pc[Main] \in BeforeJobs /\ pc[Main] \in StartLabels /\ ~StartPeriodicJobs
        BY <3>2, StartupEdges, StartupMoves DEF BeforeJobs, RollbackLabels
      <4>2. BeatGone
        BY <4>1 DEF BeatInv, Starting, BeatGone
      <4> QED BY <2>g, <4>1, <4>2
    <3>3. CASE pc'[t] = pc[t] \/ StopBody(t)
      <4>1. pc[t] \in StopLabels
        BY <2>1, <3>3, StopMoves DEF BeatsJoined, FeedsJoined, FeedsStopped
      <4>2. ~StartPeriodicJobs
        BY <4>1 DEF StartPeriodicJobs, QuietInv, Starting, StartLabels, StopLabels, Stoppers,
           Requesters
      <4>3. BeatGone
        <5>1. StopBody(t) => pc[t] \in BeatsJoined \/ ~hbThread \/ pc[Hb] = "done"
          BY <2>1, StopEdges
        <5> QED BY <2>1, <3>3, <5>1 DEF BeatInv, BeatGone
      <4> QED BY <2>g, <4>2, <4>3
    <3> QED BY <3>1, <3>2, <3>3
  <2>2. ~BeatGone' => hbThread'
    <3>1. CASE StartPeriodicJobs
      BY <3>1 DEF StartPeriodicJobs
    <3>2. CASE ~StartPeriodicJobs
      <4>1. ASSUME NEW t \in Stoppers, StopJoinHeartbeat(t), ~BeatGone'
            PROVE  hbThread'
        <5>1. ~BeatGone
          BY <2>g, <3>2, <4>1
        <5>2. pc[Hb] # "done"
          BY <5>1 DEF BeatGone
        <5>3. UNCHANGED hbThread \/ pc[Hb] = "done"
          BY <4>1 DEF StopJoinHeartbeat
        <5> QED BY <5>1, <5>2, <5>3 DEF BeatInv
      <4> QED BY <2>e, <2>g, <3>2, <4>1 DEF Effects, BeatInv
    <3> QED BY <3>1, <3>2
  <2>3. ASSUME pc'[Hb] \in {"read", "post"} PROVE Live'
    <3>1. CASE HeartbeatTick \/ HeartbeatExit
      BY <2>3, <3>1, BeatEdges DEF BeatInv, Live, lifeVars
    <3>2. CASE StartPeriodicJobs
      BY <2>3, <3>2 DEF StartPeriodicJobs, TypeOK
    <3>3. CASE ~(HeartbeatTick \/ HeartbeatExit) /\ ~StartPeriodicJobs
      <4>1. pc[Hb] \in {"read", "post"} /\ Live /\ ~BeatGone
        BY <2>3, <2>e, <3>3 DEF Movers, BeatInv, BeatGone
      <4>2. ~EnterFailed
        BY <4>1 DEF EnterFailed, BeatInv, BeforeJobs, Starting, StartLabels
      <4>3. ~\E t \in Stoppers : StopEnterStopping(t) \/ StopEnterFinalPhase(t)
        <5>1. SUFFICES ASSUME NEW t \in Stoppers, pc[t] \in {"stopping", "final"}
                       PROVE  FALSE
          BY DEF StopEnterStopping, StopEnterFinalPhase, Step
        <5> QED BY <4>1, <5>1 DEF BeatInv, BeatsJoined, FeedsJoined, FeedsStopped, StopLabels
      <4> QED BY <2>e, <4>1, <4>2, <4>3 DEF Effects, SetReady, SetRunning, Live
    <3> QED BY <3>1, <3>2, <3>3
  <2>4. ASSUME Starting', pc'[Main] \in BeforeJobs PROVE pc'[Hb] = "unborn"
    BY <2>4, <2>e, MainBeforeJobs, BeatEdges DEF Movers, BeatInv, BeatGone
  <2> QED BY <2>1, <2>2, <2>3, <2>4 DEF BeatInv
<1> QED BY <1>1, <1>2, ~StopsDuringStartup, ~JoinTimeouts, TypeCorrect, WhyInvariant,
       QuietInvariant, PTL DEF Spec

(* Where requests come after the start and the joins outlast a POST: the   *)
(* heartbeat thread posts no status once stop() has moved the   *)
(* phase; inProgress blocks new ticks, and the join waits for the one in   *)
(* flight, also where several threads are in stop() (BACKTEST, Ctrl+C,     *)
(* SIGTERM with StopWorker) and the join of one of them raises             *)
(* (emit_periodic_heartbeat, HeartbeatPeriodicJobs.stop).                  *)
THEOREM BeatsEndBeforePhaseMoves ==
  ASSUME ~StopsDuringStartup, ~JoinTimeouts
  PROVE  Spec => NoHeartbeatAfterPhaseMoves
<1>1. BeatInv /\ [Next]_vars => [pc[Hb] = "post" /\ pc'[Hb] = "idle" => Live]_vars
  BY DEF BeatInv
<1> QED BY <1>1, ~StopsDuringStartup, ~JoinTimeouts, BeatInvariant, PTL
       DEF Spec, NoHeartbeatAfterPhaseMoves

-----------------------------------------------------------------------------
(* Where start() does not fail, the phase follows from where Main and the  *)
(* the one caller of stop() are.                                           *)
FailLabels == {"fail", "failpost", "rbreport", "rbdone"} \cup RollbackLabels

BeforeStopping ==
  {"stop", "resolve", "block", "feeds", "joinfeed", "hbstop", "hbjoin", "hbwait",
   "stopping"}

PhaseInv ==
  /\ pc[Main] \notin FailLabels
  /\ pc[Main] \in {"boot", "deps", "create", "bind", "announce", "reportok", "ready"}
       => phase = "INITIALIZING"
  /\ pc[Main] \in {"started", "beat1", "read1", "post1", "jobs", "runcheck", "running"}
       => phase = "READY"
  /\ pc[Main] \in {"beat2", "read2", "post2", "startfeeds"} => phase = "RUNNING"
  /\ pc[Main] \notin StartLabels /\ Callers = {} => phase = "RUNNING"
  /\ \A c \in ByRequest :
       /\ pc[c] \in BeforeStopping => phase = "RUNNING"
       /\ pc[c] \in {"strategy", "callstop", "instop", "close", "emit", "final"}
            => phase = "STOPPING"

LEMMA PhaseStartup ==
  ASSUME ~StartupMayFail, TypeOK, QuietInv, PhaseInv, Startup
  PROVE  PhaseInv' /\ ~EnterFailed
<1> USE ThreadFacts, Distinct DEF FailLabels, StartLabels, RollbackLabels
<1>0. ~EnterFailed
  BY DEF EnterFailed, PhaseInv
<1>1. \A c \in ByRequest : pc'[c] = pc[c] /\ pc[c] \in {"idle", "unborn"}
  BY StartupMoves DEF QuietInv, Starting, ByRequest, Requesters, Threads
<1>3. CASE SetReady \/ SetRunning
  <2>1. \/ phase' = "READY" /\ pc'[Main] = "started"
        \/ phase' = "RUNNING" /\ pc'[Main] = "beat2"
    BY <1>3, Moved DEF SetReady, SetRunning
  <2> QED BY <1>0, <1>1, <2>1 DEF PhaseInv, BeforeStopping
<1>4. CASE ~(SetReady \/ SetRunning)
  <2>1. phase' = phase
    <3>1. \A t \in Stoppers : pc[t] \notin {"stopping", "final"}
      BY <1>1, StartupMoves DEF Stoppers, ByRequest
    <3>2. ~\E t \in Stoppers : StopEnterStopping(t) \/ StopEnterFinalPhase(t)
      BY <3>1 DEF StopEnterStopping, StopEnterFinalPhase, Step
    <3> QED BY <1>0, <1>4, <3>2, EffectsOfNext DEF Effects, Next
  <2>2. \/ <<pc[Main], pc'[Main]>> \in
             {<<"boot", "deps">>, <<"deps", "create">>, <<"create", "bind">>,
              <<"bind", "announce">>, <<"announce", "reportok">>, <<"reportok", "ready">>}
        \/ /\ pc[Main] \in {"started", "beat1", "read1", "post1", "jobs"}
           /\ pc'[Main] \in {"beat1", "read1", "post1", "jobs", "runcheck"}
        \/ pc[Main] = "runcheck" /\ pc'[Main] = (IF phase = "READY" THEN "running" ELSE "loop")
        \/ /\ pc[Main] \in {"beat2", "read2", "post2", "startfeeds"}
           /\ pc'[Main] \in {"read2", "post2", "startfeeds", "loop"}
    <3>1. CASE Bootstrap \/ InitializeDependencies \/ InitializeStrategyCoordinator
                 \/ BindAndStart \/ EmitBootstrapSucceeded \/ ReportBootstrapSuccess
                 \/ MarkStarted
      BY <3>1, Moved DEF Bootstrap, InitializeDependencies, MarkStarted,
         InitializeStrategyCoordinator, BindAndStart, EmitBootstrapSucceeded,
         ReportBootstrapSuccess
    <3>2. CASE MainBeat
      BY <3>2, Moved DEF MainBeat, BeatCheck, BeatRead, BeatPost
    <3>3. CASE StartPeriodicJobs \/ StartFeeds
      BY <3>3 DEF StartPeriodicJobs, StartFeeds, TypeOK
    <3>4. CASE RunCheck
      BY <3>4, Moved DEF RunCheck
    <3>5. ~StartRaises /\ ~RunRaises /\ ~PostFailed /\ ~RollbackDone
      BY DEF StartRaises, RunRaises, PostFailed, RollbackDone, Step, PhaseInv
    <3>6. ~RollbackReport /\ ~RollbackRaises
      BY Moved DEF RollbackReport, RollbackRaises, PhaseInv
    <3>7. \/ Bootstrap \/ InitializeDependencies \/ InitializeStrategyCoordinator
             \/ BindAndStart \/ EmitBootstrapSucceeded \/ ReportBootstrapSuccess
             \/ MarkStarted
          \/ MainBeat \/ StartPeriodicJobs \/ StartFeeds \/ RunCheck
      BY <1>0, <1>4, <3>5, <3>6 DEF Startup
    <3> QED BY <3>1, <3>2, <3>3, <3>4, <3>7
  <2> QED BY <1>0, <1>1, <2>1, <2>2 DEF PhaseInv, BeforeStopping
<1> QED BY <1>0, <1>3, <1>4

LEMMA PhaseStop ==
  ASSUME OneCaller, TypeOK, MainInv, OneBodyInv, QuietInv, PhaseInv, Callers \subseteq Callers',
         NEW c \in Stoppers, StopBody(c)
  PROVE  PhaseInv' /\ (phase' = phase \/ can_transition(phase, phase'))
<1> USE ThreadFacts, Distinct
<1>2. pc[c] \in StopLabels /\ \A u \in Threads \ {c} : pc'[u] = pc[u]
  BY StopMoves
<1>1. c \in ByRequest /\ c # Main
  BY <1>2 DEF MainInv, PhaseInv, FailLabels, ByRequest, Stoppers
<1>3. /\ Callers' # {}
      /\ \A d \in ByRequest \ {c} : pc[d] \notin StopLabels /\ pc'[d] = pc[d]
  <2>1. c \in Callers
    BY <1>1, <1>2 DEF OneBodyInv
  <2>2. ByRequest \subseteq Threads
    BY DEF ByRequest, Threads
  <2> QED BY <1>2, <2>1, <2>2 DEF OneBodyInv
<1>4. pc[Main] \notin StartLabels /\ pc'[Main] = pc[Main]
  BY <1>1, <1>2 DEF QuietInv, Starting, StopLabels, ByRequest, Requesters
<1>f. FinalPhase(c) = "STOPPED"
  BY DEF FinalPhase, OneCaller, NoOwnStop
<1>6. CASE StopEnterStopping(c)
  BY <1>1, <1>2, <1>3, <1>4, <1>6, Moved DEF StopEnterStopping, PhaseInv,
     BeforeStopping, StopLabels, StartLabels, can_transition, ALLOWED_PHASE_TRANSITIONS, WorkerPhase,
     TERMINAL_PHASES
<1>7. CASE StopEnterFinalPhase(c)
  BY <1>f, <1>1, <1>2, <1>3, <1>4, <1>7, Moved DEF StopEnterFinalPhase, PhaseInv,
     BeforeStopping, StopLabels, StartLabels, can_transition, ALLOWED_PHASE_TRANSITIONS, WorkerPhase,
     TERMINAL_PHASES
<1>8. CASE ~StopEnterStopping(c) /\ ~StopEnterFinalPhase(c)
  <2>1. phase' = phase
    BY <1>8 DEF StopBody, StopCheck, StopResolveReason, StopBlockHeartbeats,
       StopFeeds, StopJoinFeeds, StopHeartbeatJobs, StopJoinHeartbeat,
       StopCheckAdapter, StopCallOnStop, StopClearAdapter, StopCloseClients,
       StopEmitTerminated, StopReportFinal, StopComplete, StopRaises, lifeVars
  <2>2. \/ pc[c] \in BeforeStopping /\ pc'[c] \in BeforeStopping
        \/ /\ pc[c] \in {"strategy", "callstop", "instop", "close", "emit"}
           /\ pc'[c] \in {"callstop", "instop", "close", "emit", "final"}
        \/ pc'[c] \in {"complete", "done", "raised"}
    <3> USE DEF BeforeStopping
    <3>1. CASE StopCheck(c) \/ StopResolveReason(c) \/ StopBlockHeartbeats(c)
                 \/ StopFeeds(c) \/ StopJoinFeeds(c)
      BY <1>1, <3>1, Moved DEF StopCheck, StopResolveReason, StopBlockHeartbeats,
         StopFeeds, StopJoinFeeds, AfterStop
    <3>2. CASE StopHeartbeatJobs(c) \/ StopJoinHeartbeat(c)
      BY <1>1, <3>2, Moved DEF StopHeartbeatJobs, StopJoinHeartbeat, AfterRaise
    <3>3. CASE StopCheckAdapter(c) \/ StopClearAdapter(c)
      BY <1>1, <3>3, Moved DEF StopCheckAdapter, StopClearAdapter, AfterStrategy,
         RollingBack
    <3>4. CASE StopCallOnStop(c)
      BY <1>1, <3>4, Moved DEF StopCallOnStop, AfterRaise
    <3>5. CASE StopCloseClients(c) \/ StopEmitTerminated(c) \/ StopReportFinal(c)
                 \/ StopComplete(c) \/ StopRaises(c)
      BY <1>1, <3>5, Moved DEF StopCloseClients, StopEmitTerminated,
         StopReportFinal, StopComplete, StopRaises, AfterStop, AfterRaise
    <3> QED BY <1>8, <3>1, <3>2, <3>3, <3>4, <3>5 DEF StopBody
  <2> QED BY <1>2, <1>3, <1>4, <2>1, <2>2 DEF PhaseInv, StartLabels, BeforeStopping, StopLabels
<1> QED BY <1>6, <1>7, <1>8

LEMMA PhaseStep ==
  ASSUME OneCaller, ~StartupMayFail, TypeOK, MainInv, AcceptInv, OneBodyInv, OneBodyInv',
         QuietInv, QuietInv', PhaseInv, [Next]_vars
  PROVE  PhaseInv' /\ (phase' = phase \/ can_transition(phase, phase'))
<1> USE ThreadFacts, Distinct
<1>e. Effects /\ Movers
  BY EffectsOfNext, MoversOfNext
<1>1. CASE Startup
  <2>1. PhaseInv' /\ ~EnterFailed
    BY <1>1, PhaseStartup
  <2>2. ASSUME NEW t \in Stoppers, StopEnterStopping(t) \/ StopEnterFinalPhase(t)
        PROVE  can_transition(phase, phase')
    <3>1. StopBody(t) /\ phase' = (IF StopEnterStopping(t) THEN "STOPPING" ELSE FinalPhase(t))
      BY <2>2 DEF StopBody, StopEnterStopping, StopEnterFinalPhase
    <3> QED BY <1>1, <3>1, StartupMoves, StopMoves
           DEF StopLabels, StartLabels, QuietInv, Starting, Stoppers, Requesters
  <2>3. SetReady \/ SetRunning => can_transition(phase, phase')
    BY DEF SetReady, SetRunning, Step, PhaseInv, can_transition,
       ALLOWED_PHASE_TRANSITIONS, WorkerPhase, TERMINAL_PHASES
  <2> QED BY <1>e, <2>1, <2>2, <2>3 DEF Effects
<1>2. ASSUME NEW t \in Stoppers, StopBody(t)
      PROVE  PhaseInv' /\ (phase' = phase \/ can_transition(phase, phase'))
  BY <1>2, PhaseStop, CallerStep
<1>3. CASE ~Startup /\ ~\E t \in Stoppers : StopBody(t)
  <2>1. phase' = phase
    BY <1>e, <1>3 DEF Effects, Startup, StopBody
  <2>2. ~PollJobCompleted /\ ~KeyboardInterrupt
    BY NoOwnReason, OneCaller DEF OneCaller
  <2>3. \/ pc'[Main] = pc[Main]
        \/ pc[Main] \notin StartLabels /\ pc'[Main] \notin StartLabels \cup FailLabels
    BY <1>e, <1>3, <2>2 DEF Movers, StartLabels, FailLabels, RollbackLabels
  <2>4. ASSUME NEW c \in ByRequest
        PROVE  \/ pc'[c] = pc[c] \/ pc'[c] \notin StopLabels
               \/ pc'[c] = "stop" /\ Callers = {} /\ pc[Main] \notin StartLabels
    <3>1. pc'[c] = "stop" => pc'[Main] \notin StartLabels
      BY DEF QuietInv, Starting, ByRequest, Requesters
    <3>2. c \in Stoppers
      BY DEF ByRequest, Stoppers
    <3> QED BY <1>3, <2>3, <3>1, <3>2, CallerStep
  <2>5. Callers' = {} => Callers = {}
    BY CallerStep
  <2> QED BY <2>1, <2>3, <2>4, <2>5
         DEF PhaseInv, BeforeStopping, StartLabels, FailLabels, RollbackLabels, StopLabels
<1> QED BY <1>1, <1>2, <1>3

(* Where there is one caller of stop(), requests come after the start and  *)
(* the start succeeds: every assignment of _phase is an edge of the table, *)
(* although _set_phase does not look it up; for any number of HTTP and     *)
(* StopWorker requests, whatever stop() raises, with timed out joins and   *)
(* lost POSTs (_set_phase, ALLOWED_PHASE_TRANSITIONS).                     *)
THEOREM PhasesFollowTheTable ==
  ASSUME OneCaller, ~StopsDuringStartup, ~StartupMayFail
  PROVE  Spec => PhaseEdgesLegal
<1>1. Init => PhaseInv
  BY ThreadFacts, Distinct DEF Init, PhaseInv, FailLabels, RollbackLabels, StartLabels,
     BeforeStopping, ByRequest, Threads
<1>2. TypeOK /\ MainInv /\ AcceptInv /\ OneBodyInv /\ OneBodyInv' /\ QuietInv /\ QuietInv'
        /\ PhaseInv /\ [Next]_vars
        => PhaseInv' /\ [can_transition(phase, phase')]_phase
  BY PhaseStep, OneCaller, ~StartupMayFail
<1> QED BY <1>1, <1>2, OneCaller, ~StopsDuringStartup, TypeCorrect, MainInvariant,
       AcceptInvariant, OneBodyInvariant, QuietInvariant, PTL
       DEF Spec, PhaseEdgesLegal, OneCaller

-----------------------------------------------------------------------------
(* What the manager holds after a start has failed.  Main has created the  *)
(* dependencies, which the report of FAILED needs, before it reports the   *)
(* first RUNNING; after a failure there is no heartbeat thread; and where  *)
(* the report of FAILED is left out because a stop is in progress, a       *)
(* request has been accepted.                                              *)
Healthy == {"READY", "RUNNING"}

WithoutDeps == {"boot", "deps", "fail", "rbreport", "rbdone"} \cup RollbackLabels

AfterFailure ==
  \/ pc[Main] \in {"rbreport", "rbdone", "loop"}
  \/ pc[Main] \in RollbackLabels /\ mainWhy = NoReason

FailureInv ==
  /\ Starting /\ pc[Main] \in WithoutDeps /\ ~deps => srm \notin Healthy
  /\ pc[Main] \in StartLabels \ WithoutDeps => deps
  /\ Starting /\ pc[Main] \in BeforeJobs => pc[Hb] = "unborn"
  /\ pc[Main] = "failpost" => phase \notin Healthy
  /\ phase = "FAILED" =>
       /\ pc[Main] \notin StartLabels \ {"failpost", "rbreport", "rbdone"}
       /\ pc[Hb] = "unborn"
       /\ AfterFailure => srm \notin Healthy \/ accepted

(* The reports of health.                                                  *)
LEMMA HealthReports ==
  ASSUME ~LossySrm, [Next]_vars, srm' \in Healthy
  PROVE  \/ srm \in Healthy \/ ReportBootstrapSuccess \/ MainBeat \/ HeartbeatTick
         \/ PostFailed /\ phase \in Healthy
<1>e. Effects
  BY EffectsOfNext
<1> USE DEF Healthy, Deliver
<1>1. RollbackReport => srm' \in {srm, "STARTUP_FAILED"}
  <2> SUFFICES ASSUME RollbackReport PROVE srm' \in {srm, "STARTUP_FAILED"}
    OBVIOUS
  <2>1. CASE failure = "bootstrap"
    <3>1. Deliver("STARTUP_FAILED")
      BY <2>1 DEF RollbackReport
    <3> QED BY <3>1
  <2>2. CASE failure # "bootstrap"
    BY <2>2 DEF RollbackReport
  <2> QED BY <2>1, <2>2
<1>2. \A r \in Requesters : InitiatePostStopping(r) => srm' \in {srm, "STOPPING"}
  BY DEF InitiatePostStopping
<1>3. \A t \in Stoppers : StopReportFinal(t) => srm' \in {"FAILED", "STOPPED"}
  BY DEF StopReportFinal, FinalStatus, is_failure_shutdown
<1>4. PostFailed => srm' \in {srm, phase}
  BY DEF PostFailed, DeliverBeat
<1> QED BY <1>e, <1>1, <1>2, <1>3, <1>4 DEF Effects

(* How Main gets to where a failed start leaves it.                        *)
LEMMA FailureMoves ==
  ASSUME TypeOK, WhyInv, [Next]_vars, AfterFailure'
  PROVE  \/ pc'[Main] = pc[Main] /\ AfterFailure
         \/ Startup
         \/ pc[Main] \in RollbackLabels /\ mainWhy = NoReason
<1> USE ThreadFacts, Distinct
<1>e. Effects /\ Movers
  BY EffectsOfNext, MoversOfNext
<1>1. ~PollJobCompleted /\ ~KeyboardInterrupt
  <2>1. PollJobCompleted \/ KeyboardInterrupt => pc'[Main] \in {"stop", "exiting"}
    BY Moved DEF PollJobCompleted, KeyboardInterrupt
  <2> QED BY <2>1 DEF AfterFailure, RollbackLabels
<1>2. mainWhy' = mainWhy
  BY <1>e, <1>1 DEF Effects
<1>3. CASE StopBody(Main)
  <2>1. mainWhy = NoReason
    BY <1>2, <1>3, StopMoves DEF AfterFailure, Stoppers, StopLabels, AfterStop, AfterRaise,
       RollingBack
  <2> QED BY <1>3, <2>1, RollbackMoves
<1>4. CASE ~StopBody(Main) /\ ~Startup
  <2>1. pc'[Main] = pc[Main]
    BY <1>e, <1>1, <1>4 DEF Movers, AfterFailure, RollbackLabels
  <2> QED BY <1>2, <2>1 DEF AfterFailure
<1> QED BY <1>3, <1>4

(* Which steps of the start there are where the phase is FAILED.           *)
LEMMA FailedStartup ==
  ASSUME TypeOK, Startup, pc[Main] \notin StartLabels \ {"failpost", "rbreport", "rbdone"}
  PROVE  /\ PostFailed \/ RollbackReport \/ RollbackDone \/ RollbackRaises
         /\ pc'[Main] \in {"strategy", "rbdone", "loop"}
         /\ pc[Main] = "failpost" => PostFailed
<1> USE ThreadFacts, Distinct
<1>1. pc[Main] \in {"failpost", "rbreport", "rbdone"}
  BY StartupMoves
<1>2. /\ ~MainBeat /\ ~StartPeriodicJobs /\ ~RunCheck /\ ~StartFeeds
      /\ ~RunRaises /\ ~StartRaises /\ ~Bootstrap /\ ~InitializeDependencies
  BY <1>1 DEF MainBeat, BeatCheck, BeatRead, BeatPost, StartPeriodicJobs,
     RunCheck, StartFeeds, RunRaises, StartRaises, Bootstrap,
     InitializeDependencies, Step
<1>3. /\ ~InitializeStrategyCoordinator /\ ~BindAndStart /\ ~EmitBootstrapSucceeded
      /\ ~ReportBootstrapSuccess /\ ~SetReady /\ ~MarkStarted /\ ~SetRunning
      /\ ~EnterFailed
  BY <1>1 DEF InitializeStrategyCoordinator, BindAndStart, Step,
     EmitBootstrapSucceeded, ReportBootstrapSuccess, SetReady, MarkStarted,
     SetRunning, EnterFailed
<1>4. PostFailed \/ RollbackReport \/ RollbackDone \/ RollbackRaises
  BY <1>1, <1>2, <1>3 DEF Startup
<1>5. /\ PostFailed => pc'[Main] = "strategy"
      /\ RollbackReport => pc[Main] = "rbreport" /\ pc'[Main] = "rbdone"
      /\ RollbackDone => pc[Main] = "rbdone" /\ pc'[Main] = "loop"
      /\ RollbackRaises => pc[Main] = "rbreport" /\ pc'[Main] = "loop"
  BY Moved DEF PostFailed, RollbackReport, RollbackDone, RollbackRaises
<1> QED BY <1>4, <1>5

(* The start gets past InitializeDependencies only by it.                  *)
LEMMA DepsEdges ==
  ASSUME TypeOK, Startup, pc'[Main] \in StartLabels \ WithoutDeps
  PROVE  pc[Main] \in StartLabels \ WithoutDeps \/ deps'
<1> USE ThreadFacts, Distinct
<1> SUFFICES ASSUME pc[Main] \notin StartLabels \ WithoutDeps PROVE deps'
  OBVIOUS
<1>1. pc[Main] \in {"boot", "deps", "fail", "rbreport", "rbdone"}
  BY StartupMoves DEF WithoutDeps, StartLabels, RollbackLabels
<1>2. /\ ~MainBeat /\ ~StartPeriodicJobs /\ ~RunCheck /\ ~StartFeeds
      /\ ~RunRaises /\ ~PostFailed
  BY <1>1 DEF MainBeat, BeatCheck, BeatRead, BeatPost, StartPeriodicJobs,
     RunCheck, StartFeeds, RunRaises, PostFailed, Step
<1>3. /\ ~InitializeStrategyCoordinator /\ ~BindAndStart /\ ~EmitBootstrapSucceeded
      /\ ~ReportBootstrapSuccess /\ ~SetReady /\ ~MarkStarted /\ ~SetRunning
  BY <1>1 DEF InitializeStrategyCoordinator, BindAndStart, Step,
     EmitBootstrapSucceeded, ReportBootstrapSuccess, SetReady, MarkStarted,
     SetRunning
<1>4. CASE InitializeDependencies
  BY <1>4 DEF InitializeDependencies
<1>5. CASE EnterFailed
  <2>1. pc'[Main] \in {"failpost", "strategy"} /\ (pc'[Main] = "failpost" => deps) /\ deps' = deps
    BY <1>5, Moved DEF EnterFailed, workVars
  <2> QED BY <2>1 DEF WithoutDeps, RollbackLabels
<1>6. CASE Bootstrap \/ StartRaises \/ RollbackDone \/ RollbackRaises
  <2>1. pc'[Main] \in {"deps", "fail", "loop"}
    BY <1>6, Moved DEF Bootstrap, StartRaises, RollbackDone, RollbackRaises
  <2> QED BY <2>1 DEF WithoutDeps, StartLabels
<1>7. CASE RollbackReport
  <2>1. pc'[Main] = "rbdone"
    BY <1>7, Moved DEF RollbackReport
  <2> QED BY <2>1 DEF WithoutDeps
<1> QED BY <1>2, <1>3, <1>4, <1>5, <1>6, <1>7 DEF Startup

(* A stop in progress while Main is in the start has been accepted.        *)
LEMMA StopDuringStart ==
  ASSUME ~StopsDuringStartup \/ AskedFirst
  PROVE  Spec => [](pc[Main] \in StartLabels /\ inProgress => accepted)
<1>1. CASE ~StopsDuringStartup
  <2>1. QuietInv => (pc[Main] \in StartLabels /\ inProgress => accepted)
    BY DEF QuietInv, Starting
  <2> QED BY <1>1, <2>1, QuietInvariant, PTL
<1>2. CASE AskedFirst
  <2>1. WhyInv /\ AskedInv => (pc[Main] \in StartLabels /\ inProgress => accepted)
    BY DEF WhyInv, AskedInv, Asked
  <2> QED BY <1>2, <2>1, AskedInvariant, WhyInvariant, PTL
<1> QED BY <1>1, <1>2

LEMMA FailureInvariant ==
  ASSUME Mode # "BACKTEST", ~LossySrm, ~StopsDuringStartup \/ AskedFirst
  PROVE  Spec => []FailureInv
<1> USE ThreadFacts, Distinct
<1>1. Init => FailureInv
  BY DEF Init, FailureInv, Healthy, WithoutDeps, StartLabels
<1>2. TypeOK /\ WhyInv /\ WhyInv' /\ (pc[Main] \in StartLabels /\ inProgress => accepted)
        /\ FailureInv /\ [Next]_vars
        => FailureInv'
  <2> SUFFICES ASSUME TypeOK, WhyInv, WhyInv', FailureInv, [Next]_vars,
                      pc[Main] \in StartLabels /\ inProgress => accepted
               PROVE  FailureInv'
    OBVIOUS
  <2>e. Effects /\ Movers
    BY EffectsOfNext, MoversOfNext
  <2>d. deps => deps'
    BY <2>e DEF Effects
  <2>a. accepted => accepted'
    BY <2>e DEF Effects, InitiateAccept
  <2>1. Starting' /\ pc'[Main] \in BeforeJobs => pc'[Hb] = "unborn"
    BY <2>e, MainBeforeJobs, BeatEdges DEF Movers, FailureInv, BeatGone
  <2>2. ASSUME pc'[Main] \in StartLabels \ WithoutDeps
        PROVE  deps'
    <3>1. Startup \/ pc'[Main] = pc[Main]
      BY <2>2, StartingStep DEF Starting, WithoutDeps
    <3> QED BY <2>2, <2>d, <3>1, DepsEdges DEF FailureInv
  <2>3. ASSUME Starting', pc'[Main] \in WithoutDeps, ~deps'
        PROVE  srm' \notin Healthy
    <3>1. ~deps /\ Starting /\ pc[Main] \in WithoutDeps
      <4>1. ~deps
        BY <2>3, <2>d
      <4>2. Starting /\ pc[Main] \in WithoutDeps
        BY <2>3, <4>1, StartingStep, StartupMoves DEF WithoutDeps, FailureInv, StartLabels,
           RollbackLabels
      <4> QED BY <4>1, <4>2
    <3>2. srm \notin Healthy /\ pc[Hb] = "unborn"
      BY <3>1 DEF FailureInv, BeforeJobs, WithoutDeps
    <3>3. ~ReportBootstrapSuccess /\ ~MainBeat /\ ~PostFailed
      BY <3>1 DEF WithoutDeps, RollbackLabels, ReportBootstrapSuccess, MainBeat, Step,
         BeatCheck, BeatRead, BeatPost, PostFailed
    <3>4. ~HeartbeatTick
      BY <3>2, BeatEdges DEF BeatGone
    <3> QED BY <3>2, <3>3, <3>4, HealthReports
  <2>4. ASSUME pc'[Main] = "failpost" PROVE phase' \notin Healthy
    <3>1. CASE Startup
      BY <2>4, <3>1, StartupEdges DEF EnterFailed, Healthy
    <3>2. CASE ~Startup
      <4>1. pc[Main] = "failpost"
        BY <2>4, <3>2, StartingStep DEF Starting, StartLabels, RollbackLabels
      <4> QED BY <2>e, <3>2, <4>1 DEF Effects, Startup, FailureInv, StopEnterStopping,
             StopEnterFinalPhase, FinalPhase, Healthy
    <3> QED BY <3>1, <3>2
  <2>5. ASSUME phase' = "FAILED"
        PROVE  /\ pc'[Main] \notin StartLabels \ {"failpost", "rbreport", "rbdone"}
               /\ pc'[Hb] = "unborn"
               /\ AfterFailure' => srm' \notin Healthy \/ accepted'
    <3>1. CASE EnterFailed
      <4>1. /\ pc[Main] = "fail" /\ UNCHANGED <<srm, accepted>>
            /\ pc'[Main] = (IF ~inProgress /\ deps THEN "failpost" ELSE "strategy")
            /\ pc'[Hb] = pc[Hb]
        BY <3>1, Moved DEF EnterFailed, srmVars, reqVars
      <4>2. pc[Main] \in StartLabels /\ pc[Main] \in BeforeJobs /\ pc[Main] \in WithoutDeps
        BY <4>1 DEF StartLabels, BeforeJobs, WithoutDeps
      <4>3. pc[Hb] = "unborn" /\ (~deps => srm \notin Healthy) /\ (inProgress => accepted)
        BY <4>2 DEF FailureInv, Starting
      <4> QED BY <4>1, <4>3 DEF StartLabels, AfterFailure, RollbackLabels
    <3>2. CASE ~EnterFailed
      <4>1. phase = "FAILED"
        BY <2>5, <2>e, <3>2 DEF Effects, SetReady, SetRunning, StopEnterStopping,
           StopEnterFinalPhase, FinalPhase
      <4>2. pc[Main] \notin StartLabels \ {"failpost", "rbreport", "rbdone"}
        BY <4>1 DEF FailureInv
      <4>3. pc'[Main] \notin StartLabels \ {"failpost", "rbreport", "rbdone"}
        <5> SUFFICES ASSUME pc'[Main] \in StartLabels
                     PROVE  pc'[Main] \notin StartLabels \ {"failpost", "rbreport", "rbdone"}
          OBVIOUS
        <5>1. CASE Startup
          BY <4>2, <5>1, FailedStartup DEF StartLabels
        <5>2. CASE ~Startup
          BY <4>2, <5>2, StartingStep DEF Starting, StartLabels, RollbackLabels
        <5> QED BY <5>1, <5>2
      <4>4. pc[Hb] = "unborn" /\ pc'[Hb] = "unborn"
        <5>1. pc[Hb] = "unborn"
          BY <4>1 DEF FailureInv
        <5>2. ~StartPeriodicJobs
          BY <4>2 DEF StartPeriodicJobs, StartLabels
        <5> QED BY <2>e, <5>1, <5>2, BeatEdges DEF Movers, BeatGone
      <4>5. ASSUME AfterFailure', srm' \in Healthy PROVE accepted'
        <5>1. ~ReportBootstrapSuccess /\ ~MainBeat
          BY <4>2 DEF ReportBootstrapSuccess, MainBeat, Step, BeatCheck,
             BeatRead, BeatPost, StartLabels
        <5>2. ~HeartbeatTick
          BY <4>4, BeatEdges DEF BeatGone
        <5>3. srm \in Healthy
          BY <4>1, <4>5, <5>1, <5>2, HealthReports DEF Healthy
        <5>4. ~PostFailed
          <6>1. PostFailed => srm' = "FAILED"
            BY <4>1, Mode # "BACKTEST", ~LossySrm DEF PostFailed, DeliverBeat, Deliver
          <6> QED BY <4>5, <6>1 DEF Healthy
        <5>5. AfterFailure
          <6>1. Startup => pc[Main] \in {"rbreport", "rbdone"}
            BY <4>2, <5>4, FailedStartup, StartupMoves
          <6> QED BY <4>5, <6>1, FailureMoves DEF AfterFailure
        <5> QED BY <2>a, <4>1, <5>3, <5>5 DEF FailureInv
      <4> QED BY <4>3, <4>4, <4>5
    <3> QED BY <3>1, <3>2
  <2> QED BY <2>1, <2>2, <2>3, <2>4, <2>5 DEF FailureInv
<1> QED BY <1>1, <1>2, Mode # "BACKTEST", ~LossySrm, ~StopsDuringStartup \/ AskedFirst,
       TypeCorrect, WhyInvariant, StopDuringStart, PTL DEF Spec

(* Outside a BACKTEST, where no POST is lost: once start() has failed and  *)
(* rolled back and no request has been accepted, the manager does not hold *)
(* READY or RUNNING; for any number of HTTP and StopWorker requests,       *)
(* SIGTERM and Ctrl+C, in the start as well as after it (unless SIGTERM    *)
(* meets a call that raises there), whatever raises or times out (start,   *)
(* _set_phase, _rollback_partial_startup).                                 *)
THEOREM FailedStartIsReported ==
  ASSUME Mode # "BACKTEST", ~LossySrm, ~StopsDuringStartup \/ AskedFirst
  PROVE  Spec => []FailureIsVisible
<1>1. FailureInv => FailureIsVisible
  BY DEF FailureInv, FailureIsVisible, Healthy, AfterFailure
<1> QED BY <1>1, Mode # "BACKTEST", ~LossySrm, ~StopsDuringStartup \/ AskedFirst,
       FailureInvariant, PTL

-----------------------------------------------------------------------------
(* The labels from SetReady to the polling loop.                           *)
RunLabels ==
  {"started", "beat1", "read1", "post1", "jobs", "runcheck", "running", "beat2",
   "read2", "post2", "startfeeds"}

(* They are entered by SetReady only; a heartbeat of Main's posts the phase*)
(* it has read.                                                            *)
LEMMA RunEdges ==
  ASSUME TypeOK, Startup
  PROVE  /\ pc'[Main] \in RunLabels => SetReady \/ (pc[Main] \in RunLabels /\ ~EnterFailed)
         /\ pc'[Main] \in {"post1", "post2"} =>
              /\ pc[Main] \in {"read1", "read2"}
              /\ beat' = [beat EXCEPT ![Main] = phase]
<1> USE ThreadFacts, Distinct DEF RunLabels
<1>f. EnterFailed => pc[Main] = "fail"
  BY DEF EnterFailed
<1>1. CASE MainBeat
  <2>1. /\ pc[Main] \in RunLabels
        /\ pc'[Main] \in {"post1", "post2"} =>
              /\ pc[Main] \in {"read1", "read2"}
              /\ beat' = [beat EXCEPT ![Main] = phase]
    BY <1>1, Moved DEF MainBeat, BeatCheck, BeatRead, BeatPost
  <2> QED BY <1>f, <2>1
<1>2. CASE StartPeriodicJobs \/ StartFeeds
  <2>1. pc[Main] \in RunLabels /\ pc'[Main] \in {"runcheck", "loop"}
    BY <1>2 DEF StartPeriodicJobs, StartFeeds, TypeOK
  <2> QED BY <1>f, <2>1
<1>3. CASE RunCheck
  <2>1. pc[Main] \in RunLabels /\ pc'[Main] \in {"running", "loop"}
    BY <1>3, Moved DEF RunCheck
  <2> QED BY <1>f, <2>1
<1>4. CASE MarkStarted \/ SetRunning
  <2>1. pc[Main] \in RunLabels /\ pc'[Main] \in {"beat1", "beat2"}
    BY <1>4, Moved DEF MarkStarted, SetRunning
  <2> QED BY <1>f, <2>1
<1>5. CASE EnterFailed
  <2>1. pc'[Main] \in {"failpost", "strategy"}
    BY <1>5, Moved DEF EnterFailed
  <2> QED BY <2>1
<1>6. CASE SetReady
  <2>1. pc'[Main] = "started"
    BY <1>6, Moved DEF SetReady
  <2> QED BY <1>6, <2>1
<1>7. CASE ~(\/ MainBeat \/ StartPeriodicJobs \/ StartFeeds \/ RunCheck
             \/ MarkStarted \/ SetRunning \/ EnterFailed \/ SetReady)
  <2>1. \E from \in Labels, to \in {"deps", "create", "bind", "announce", "reportok", "ready",
                    "fail", "strategy", "loop", "rbdone"} : Step(Main, from, to)
    <3> USE DEF Labels, StartLabels
    <3>1. CASE RollbackReport \/ RollbackDone \/ RollbackRaises
      BY <3>1 DEF RollbackReport, RollbackDone, RollbackRaises
    <3>2. CASE ~(RollbackReport \/ RollbackDone \/ RollbackRaises)
      BY <1>7, <3>2 DEF Startup, Bootstrap, InitializeDependencies,
         InitializeStrategyCoordinator, BindAndStart, EmitBootstrapSucceeded,
         ReportBootstrapSuccess, StartRaises, RunRaises, PostFailed
    <3> QED BY <3>1, <3>2
  <2>2. pc'[Main] \notin RunLabels
    BY <2>1, Moved
  <2> QED BY <2>2
<1> QED BY <1>1, <1>2, <1>3, <1>4, <1>5, <1>6, <1>7

(* The worker implements the manager's view.  Where there is one caller of *)
(* stop(), nothing is left that could report after the final report: the   *)
(* caller is past it, nobody else comes to stop(), the heartbeat thread is *)
(* gone, and a new request finds the first one accepted.                   *)
ViewInv ==
  /\ reason[Main] = NoReason
  /\ finals # {} =>
       /\ Callers # {}
       /\ \A t \in ByRequest : pc[t] \notin StopLabels \ {"complete"}
       /\ BeatGone
  /\ pc[Main] \in RunLabels => Live
  /\ pc[Main] = "failpost" => phase = "FAILED"
  /\ pc[Main] \in {"post1", "post2"} => beat[Main] \in Healthy
  /\ pc[Hb] = "post" => beat[Hb] \in Healthy

(* What the refinement rests on.                                           *)
Invs ==
  /\ TypeOK /\ WhyInv /\ MainInv /\ QuietInv /\ BeatInv /\ AcceptInv /\ OneBodyInv
  /\ AskedInv /\ ReasonInv

LEMMA ViewInvStep ==
  ASSUME Invs, Invs', ViewInv, [Next]_vars
  PROVE  ViewInv'
<1> USE ThreadFacts, Distinct DEF Invs
<1>e. Effects /\ Movers
  BY EffectsOfNext, MoversOfNext
<1>c. ASSUME NEW t \in Stoppers,
             StopResolveReason(t) \/ StopReportFinal(t) \/ StopEnterStopping(t)
               \/ StopEnterFinalPhase(t)
      PROVE  t \in ByRequest /\ pc[t] \in StopLabels /\ ~Starting
  <2>1. pc[t] \in {"resolve", "report", "stopping", "final"}
    BY <1>c DEF StopResolveReason, StopReportFinal, StopEnterStopping, StopEnterFinalPhase,
       Step
  <2>2. t \in ByRequest
    BY <2>1 DEF MainInv, StopLabels, RollbackLabels, Stoppers, ByRequest
  <2> QED BY <2>1, <2>2 DEF StopLabels, QuietInv, ByRequest, Requesters
<1>s. pc'[Main] \in StartLabels \ {"rbreport"} => (Startup \/ pc'[Main] = pc[Main]) /\ Starting
  BY StartingStep DEF Starting, RollbackLabels, StartLabels
<1>1. reason'[Main] = NoReason
  BY <1>e, <1>c DEF Effects, StopResolveReason, ViewInv, TypeOK, CtlType, ByRequest
<1>2. ASSUME finals' # {}
      PROVE  /\ Callers' # {}
             /\ \A t \in ByRequest : pc'[t] \notin StopLabels \ {"complete"}
             /\ BeatGone'
  <2>1. CASE finals # {}
    <3>1. ASSUME NEW t \in ByRequest PROVE pc'[t] \notin StopLabels \ {"complete"}
      <4>1. CASE StopBody(t)
        <5>0. t \in Stoppers
          BY DEF ByRequest, Stoppers
        <5>1. pc[t] = "complete"
          BY <2>1, <4>1, <5>0, StopMoves DEF ViewInv
        <5>2. StopComplete(t)
          BY <4>1, <5>1 DEF StopBody, StopCheck, StopResolveReason,
             StopBlockHeartbeats, StopFeeds, StopJoinFeeds, StopHeartbeatJobs,
             StopJoinHeartbeat, StopEnterStopping, StopCheckAdapter, StopCallOnStop,
             StopClearAdapter, StopCloseClients, StopEmitTerminated,
             StopEnterFinalPhase, StopReportFinal, StopRaises, Step
        <5> QED BY <5>0, <5>2, Moved DEF StopComplete, AfterStop, StopLabels
      <4>2. CASE ~StopBody(t)
        BY <2>1, <4>2, CallerStep DEF ViewInv
      <4> QED BY <4>1, <4>2
    <3>2. ~StartPeriodicJobs
      BY <2>1 DEF ReasonInv, AcceptInv, OneAcceptance, StartPeriodicJobs, QuietInv, Starting,
         StartLabels
    <3>3. BeatGone'
      BY <1>e, <2>1, <3>2, BeatEdges DEF Movers, ViewInv, BeatGone
    <3> QED BY <2>1, <3>1, <3>3, CallerStep DEF ViewInv
  <2>2. CASE finals = {}
    <3>1. PICK c \in Stoppers : StopReportFinal(c)
      BY <1>2, <1>e, <2>2 DEF Effects
    <3>2. c \in ByRequest /\ c \in Threads /\ ByRequest \subseteq Threads
      BY <1>c, <3>1 DEF ByRequest, Threads
    <3>3. /\ pc[c] = "report" /\ pc'[c] = "complete"
          /\ \A u \in Threads \ {c} : pc'[u] = pc[u]
      BY <3>1, <3>2, Moved DEF StopReportFinal
    <3>4. c \in Callers /\ \A d \in ByRequest \ {c} : pc'[d] \notin StopLabels
      BY <3>2, <3>3 DEF OneBodyInv, StopLabels
    <3>5. BeatGone'
      BY <3>1, <3>3 DEF BeatInv, BeatsJoined, FeedsJoined, FeedsStopped, StopLabels
    <3> QED BY <3>3, <3>4, <3>5, CallerStep
  <2> QED BY <2>1, <2>2
<1>3. ASSUME pc'[Main] \in RunLabels PROVE Live'
  <2>1. SetReady \/ (pc[Main] \in RunLabels /\ ~EnterFailed)
    <3>1. CASE Startup
      BY <1>3, <3>1, RunEdges
    <3>2. CASE ~Startup
      BY <1>3, <1>s, <3>2 DEF Startup, RunLabels, StartLabels
    <3> QED BY <3>1, <3>2
  <2>2. CASE SetReady
    BY <2>2 DEF SetReady, Live
  <2>3. CASE pc[Main] \in RunLabels /\ ~EnterFailed
    <3>1. Starting
      BY <2>3 DEF RunLabels, Starting, StartLabels
    <3>2. phase' = phase \/ SetReady \/ SetRunning
      BY <1>e, <1>c, <2>3, <3>1 DEF Effects
    <3> QED BY <2>3, <3>2 DEF ViewInv, SetReady, SetRunning, Live
  <2> QED BY <2>1, <2>2, <2>3
<1>4. ASSUME pc'[Main] = "failpost" PROVE phase' = "FAILED"
  <2>1. CASE Startup
    BY <1>4, <2>1, StartupEdges DEF EnterFailed
  <2>2. CASE ~Startup
    <3>1. pc[Main] = "failpost" /\ Starting
      BY <1>4, <1>s, <2>2 DEF StartLabels
    <3>2. phase' = phase
      BY <1>e, <1>c, <2>2, <3>1 DEF Effects, Startup
    <3> QED BY <3>1, <3>2 DEF ViewInv
  <2> QED BY <2>1, <2>2
<1>5. ASSUME pc'[Main] \in {"post1", "post2"} PROVE beat'[Main] \in Healthy
  <2>1. CASE Startup
    <3>1. pc[Main] \in {"read1", "read2"} /\ beat' = [beat EXCEPT ![Main] = phase]
      BY <1>5, <2>1, RunEdges
    <3>2. Live
      BY <3>1 DEF ViewInv, RunLabels
    <3> QED BY <3>1, <3>2 DEF TypeOK, CtlType, Live, Healthy
  <2>2. CASE ~Startup
    <3>1. pc[Main] \in {"post1", "post2"}
      BY <1>5, <1>s, <2>2 DEF StartLabels
    <3>2. HeartbeatTick => beat'[Main] = beat[Main]
      BY DEF HeartbeatTick, BeatCheck, BeatRead, BeatPost, ctlVars, TypeOK, CtlType
    <3> QED BY <1>e, <2>2, <3>1, <3>2 DEF Effects, Startup, ViewInv
  <2> QED BY <2>1, <2>2
<1>6. ASSUME pc'[Hb] = "post" PROVE beat'[Hb] \in Healthy
  <2>1. CASE HeartbeatTick \/ HeartbeatExit
    <3>1. pc[Hb] = "read" /\ beat' = [beat EXCEPT ![Hb] = phase]
      BY <1>6, <2>1, BeatEdges
    <3> QED BY <3>1 DEF BeatInv, Live, Healthy, TypeOK, CtlType
  <2>2. CASE ~(HeartbeatTick \/ HeartbeatExit)
    <3>1. pc[Hb] = "post"
      BY <1>6, <1>e, <2>2 DEF Movers, StartPeriodicJobs, TypeOK
    <3>2. MainBeat => beat'[Hb] = beat[Hb]
      BY DEF MainBeat, BeatCheck, BeatRead, BeatPost, ctlVars, TypeOK, CtlType
    <3> QED BY <1>e, <2>2, <3>1, <3>2 DEF Effects, ViewInv
  <2> QED BY <2>1, <2>2
<1> QED BY <1>1, <1>2, <1>3, <1>4, <1>5, <1>6 DEF ViewInv

(* The invariant of the refinement.                                        *)
LEMMA ViewInvariant ==
  ASSUME OneCaller, ~StopsDuringStartup, ~JoinTimeouts, AskedFirst
  PROVE  Spec => [](Invs /\ ViewInv)
<1> USE ThreadFacts, Distinct
<1>1. Init => ViewInv
  BY DEF Init, ViewInv, RunLabels
<1>2. Invs /\ Invs' /\ ViewInv /\ [Next]_vars => ViewInv'
  BY ViewInvStep
<1>3. Spec => [](TypeOK /\ WhyInv /\ MainInv /\ QuietInv /\ BeatInv /\ AcceptInv /\ OneBodyInv
                  /\ AskedInv /\ ReasonInv)
  BY OneCaller, ~StopsDuringStartup, ~JoinTimeouts, AskedFirst, TypeCorrect, WhyInvariant,
     MainInvariant, QuietInvariant, BeatInvariant, AcceptInvariant, OneBodyInvariant,
     AskedInvariant, ReasonInvariant, PTL DEF OneCaller
<1> QED BY <1>1, <1>2, <1>3, PTL DEF Spec, Invs

LEMMA ViewInit == Init => View!ViewInit
  BY ThreadFacts DEF Init, View!ViewInit, View!NoReason, NoReason

(* Every step of the worker is a step of the manager's view or a stutter.  *)
LEMMA ViewStep ==
  ASSUME Invs, ViewInv, ViewInv', [Next]_vars
  PROVE  [View!ViewNext]_View!viewVars
<1> USE ThreadFacts, Distinct DEF Invs
<1> DEFINE ask    == IF canonical # NoReason THEN canonical ELSE reason[Main]
           closed == finals # {}
<1>e. Effects
  BY EffectsOfNext
<1>a. ask = canonical /\ ask' = canonical'
  BY DEF ViewInv
<1>n. Starting \/ ~accepted => ~closed /\ canonical = NoReason
  BY DEF ReasonInv, QuietInv, AcceptInv, OneAcceptance
<1>b. \A s : Deliver(s) => srm' \in {s} \cup (IF LossySrm THEN {srm} ELSE {})
  BY DEF Deliver
<1>v. \A s : DeliverBeat(s) => srm' \in {s, srm}
  BY DEF DeliverBeat, Deliver
<1> HIDE DEF ask, closed
<1> SUFFICES [View!ViewNext]_<<srm, ask, closed>>
  BY DEF View!viewVars, ask, closed
<1>1. ASSUME NEW r \in Requesters, InitiatePostStopping(r)
      PROVE  [View!ViewNext]_<<srm, ask, closed>>
  <2>1. pc[r] = "initpost" /\ UNCHANGED <<canonical, finals>>
    BY <1>1, Moved DEF InitiatePostStopping
  <2>2. srm' \in {srm, "STOPPING"}
    BY <1>1, <1>b DEF InitiatePostStopping
  <2>3. ~closed /\ ask = NoReason /\ UNCHANGED <<ask, closed>>
    BY <1>a, <1>n, <2>1 DEF AcceptInv, closed
  <2> QED BY <2>2, <2>3
         DEF View!ViewNext, View!ReportStopping, View!NoReason, NoReason, ask, closed
<1>2. ASSUME NEW r \in Requesters, InitiateAccept(r)
      PROVE  [View!ViewNext]_<<srm, ask, closed>>
  <2>1. pc[r] = "initset" /\ UNCHANGED <<srm, finals>>
    BY <1>2, Moved DEF InitiateAccept, srmVars
  <2>2. canonical' \in Reasons
    BY <1>2, ReasonFacts DEF InitiateAccept
  <2>3. ~closed /\ ask = NoReason /\ ask' \in Reasons /\ UNCHANGED closed
    BY <1>a, <1>n, <2>1, <2>2 DEF AcceptInv, closed
  <2> QED BY <2>1, <2>3
         DEF View!ViewNext, View!Ask, View!NoReason, NoReason, View!Reasons, Reasons, ask,
             closed
<1>3. ASSUME NEW t \in Stoppers, StopReportFinal(t)
      PROVE  [View!ViewNext]_<<srm, ask, closed>>
  <2>1. /\ pc[t] = "report" /\ UNCHANGED canonical /\ finals' # {}
        /\ Deliver(FinalStatus(reason[t]))
    BY <1>3 DEF StopReportFinal, Step, reqVars
  <2>2. t \in ByRequest
    BY <2>1 DEF Stoppers, MainInv, StopLabels, RollbackLabels, ByRequest
  <2>3. ~closed
    BY <2>1, <2>2 DEF ViewInv, closed, StopLabels
  <2>4. reason[t] = canonical /\ canonical # NoReason
    BY <2>1, <2>2 DEF ReasonInv, AskedInv, Asked, MainInv, Resolved, StopLabels, AcceptInv,
       OneAcceptance
  <2>5. ask # NoReason /\ ask' = ask /\ closed'
    BY <1>a, <2>1, <2>4 DEF closed
  <2>6. FinalStatus(ask) = View!FinalStatus(ask)
    BY DEF FinalStatus, View!FinalStatus, is_failure_shutdown, View!is_failure_shutdown
  <2>7. srm' \in View!Received(View!FinalStatus(ask))
    BY <1>a, <1>b, <2>1, <2>4, <2>6 DEF View!Received
  <2> QED BY <2>3, <2>5, <2>7
         DEF View!ViewNext, View!Finish, View!NoReason, NoReason, ask, closed
<1>4. CASE ReportBootstrapSuccess \/ MainBeat \/ HeartbeatTick
  <2>1. UNCHANGED <<canonical, finals>>
    BY <1>4 DEF ReportBootstrapSuccess, MainBeat, HeartbeatTick, BeatCheck, BeatRead,
       BeatPost, reqVars, srmVars
  <2>2. ~closed
    <3>1. CASE HeartbeatTick
      BY <3>1, BeatEdges DEF ViewInv, closed
    <3>2. CASE ReportBootstrapSuccess \/ MainBeat
      <4>1. Startup
        BY <3>2 DEF Startup
      <4> QED BY <1>n, <4>1, StartupMoves DEF Starting
    <3> QED BY <1>4, <3>1, <3>2
  <2>3. srm' \in {srm} \cup Healthy
    <3>1. CASE ReportBootstrapSuccess
      BY <1>b, <3>1 DEF ReportBootstrapSuccess, Healthy
    <3>2. CASE MainBeat
      BY <1>v, <3>2 DEF MainBeat, BeatCheck, BeatRead, BeatPost, Step, ViewInv, srmVars
    <3>3. CASE HeartbeatTick
      BY <1>v, <3>3 DEF HeartbeatTick, BeatCheck, BeatRead, BeatPost, Step, ViewInv,
         srmVars
    <3> QED BY <1>4, <3>1, <3>2, <3>3
  <2> QED BY <1>a, <2>1, <2>2, <2>3 DEF View!ViewNext, View!Beat, Healthy, ask, closed
<1>5. CASE PostFailed \/ RollbackReport
  <2>1. UNCHANGED <<canonical, finals>>
    BY <1>5 DEF PostFailed, RollbackReport, reqVars
  <2>2. ~closed /\ ask = NoReason
    <3>1. Startup
      BY <1>5 DEF Startup
    <3> QED BY <1>a, <1>n, <3>1, StartupMoves DEF Starting
  <2>3. srm' \in {srm, "FAILED", "STARTUP_FAILED"}
    <3>1. CASE PostFailed
      BY <1>v, <3>1 DEF PostFailed, Step, ViewInv
    <3>2. CASE RollbackReport
      <4>1. CASE failure = "bootstrap"
        <5>1. Deliver("STARTUP_FAILED")
          BY <3>2, <4>1 DEF RollbackReport
        <5> QED BY <1>b, <5>1
      <4>2. CASE failure # "bootstrap"
        BY <3>2, <4>2 DEF RollbackReport
      <4> QED BY <4>1, <4>2
    <3> QED BY <1>5, <3>1, <3>2
  <2> QED BY <1>a, <2>1, <2>2, <2>3
         DEF View!ViewNext, View!ReportFailure, View!NoReason, NoReason, ask, closed
<1>6. CASE UNCHANGED <<srm, canonical, finals>>
  BY <1>a, <1>6 DEF closed
<1> QED BY <1>e, <1>1, <1>2, <1>3, <1>4, <1>5, <1>6 DEF Effects

(* Where there is one caller of stop(), requests come after the start and  *)
(* joins do not time out: the worker keeps the manager's promise, one      *)
(* reason, the final status it calls for, and no report after it; for any  *)
(* number of HTTP and StopWorker requests, with failing starts, lost POSTs *)
(* and (unless SIGTERM meets it) anything that raises                      *)
(* (report_stopping_to_srm, _report_final_shutdown_to_srm,                 *)
(* emit_periodic_heartbeat).                                               *)
THEOREM WorkerKeepsThePromise ==
  ASSUME OneCaller, ~StopsDuringStartup, ~JoinTimeouts, AskedFirst
  PROVE  Spec => ImplementsView
<1>1. Init => View!ViewInit
  BY ViewInit
<1>2. Invs /\ ViewInv /\ ViewInv' /\ [Next]_vars => [View!ViewNext]_View!viewVars
  BY ViewStep
<1>3. Spec => [](Invs /\ ViewInv)
  BY ViewInvariant, OneCaller, ~StopsDuringStartup, ~JoinTimeouts, AskedFirst
<1> QED BY <1>1, <1>2, <1>3, PTL DEF Spec, ImplementsView, View!ViewSpec

-----------------------------------------------------------------------------
(* A BACKTEST that nobody asks to stop and whose stop() does not raise;    *)
(* its start() may.                                                        *)
JobOnly ==
  /\ Mode = "BACKTEST" /\ HttpThreads = {} /\ GrpcThreads = {}
  /\ ~SigtermSent /\ MaxInterrupts = 0 /\ ~Faults

(* Why TerminatedOnce is inductive there: Main alone runs start() and then,*)
(* if that did not fail, stop(), once, as a completed job, and finds the   *)
(* dependencies it created when it announces the end.                      *)
Announced == {"final", "report", "complete", "exiting", "joining", "exited"}

JobInv ==
  /\ pc[Sig] = "idle" /\ canonical = NoReason
  /\ \A c \in CoopThreads : pc[c] = "unborn"
  /\ pc[Main] \in StartLabels \cup StopLabels \cup {"loop", "exiting", "joining", "exited"}
  /\ mainWhy \in {NoReason, "RUNTIME_JOB_COMPLETED"}
  /\ pc[Main] \in StartLabels \ WithoutDeps \/ Live \/ mainWhy # NoReason => deps
  /\ pc[Main] \in RunLabels => Live
  /\ pc[Main] = "loop" => Live \/ phase = "FAILED"
  /\ \/ pc[Main] \in {"failpost", "rbreport", "rbdone"}
     \/ pc[Main] \in RollbackLabels /\ mainWhy = NoReason
     => phase = "FAILED"
  /\ pc[Main] = "stop" => ~complete
  /\ pc[Main] = "hbjoin" => hbThread
  /\ mainWhy # NoReason =>
       /\ pc[Main] \in Resolved => reason[Main] = "LOCAL_TERMINATION_OBSERVED"
       /\ pc[Main] = "callstop" => adapter
  /\ terminated = IF pc[Main] \in Announced
                    THEN {<<"LOCAL_TERMINATION_OBSERVED", "COMPLETED">>} ELSE {}

(* How the start comes to the polling loop and to what follows a failure.  *)
LEMMA JobEdges ==
  ASSUME TypeOK, Startup
  PROVE  /\ pc'[Main] = "loop" =>
              pc[Main] \in RunLabels \cup {"rbreport", "rbdone"} /\ phase' = phase
         /\ pc'[Main] \in {"failpost", "rbreport", "rbdone", "strategy"} =>
              \/ phase' = "FAILED"
              \/ phase' = phase /\ pc[Main] \in {"failpost", "rbreport", "rbdone"}
<1> USE ThreadFacts, Distinct DEF RunLabels, lifeVars
<1>1. CASE Bootstrap \/ InitializeDependencies \/ InitializeStrategyCoordinator
             \/ BindAndStart \/ EmitBootstrapSucceeded \/ ReportBootstrapSuccess
             \/ SetReady \/ MarkStarted \/ SetRunning
  BY <1>1, Moved DEF Bootstrap, InitializeDependencies, InitializeStrategyCoordinator,
     BindAndStart, EmitBootstrapSucceeded, ReportBootstrapSuccess, SetReady, MarkStarted,
     SetRunning
<1>2. CASE MainBeat
  BY <1>2, Moved DEF MainBeat, BeatCheck, BeatRead, BeatPost
<1>3. CASE StartPeriodicJobs \/ StartFeeds
  BY <1>3 DEF StartPeriodicJobs, StartFeeds, TypeOK
<1>4. CASE StartRaises \/ RunRaises
  <2>1. \/ pc'[Main] = "fail"
        \/ pc'[Main] = "loop" /\ pc[Main] \in {"beat2", "post2", "startfeeds"} /\ phase' = phase
    BY <1>4, Moved DEF StartRaises, RunRaises
  <2> QED BY <2>1
<1>5. CASE RunCheck
  <2>1. pc[Main] = "runcheck" /\ pc'[Main] \in {"running", "loop"} /\ phase' = phase
    BY <1>5, Moved DEF RunCheck
  <2> QED BY <2>1
<1>6. CASE EnterFailed
  <2>1. pc'[Main] \in {"failpost", "strategy"} /\ phase' = "FAILED"
    BY <1>6, Moved DEF EnterFailed
  <2> QED BY <2>1
<1>7. CASE PostFailed \/ RollbackReport \/ RollbackDone \/ RollbackRaises
  <2>1. phase' = phase
    BY <1>7 DEF PostFailed, RollbackReport, RollbackDone, RollbackRaises
  <2>2. \/ pc[Main] = "failpost" /\ pc'[Main] = "strategy"
        \/ pc[Main] \in {"rbreport", "rbdone"}
    <3>1. CASE PostFailed
      BY <3>1, Moved DEF PostFailed
    <3>2. CASE RollbackReport \/ RollbackDone \/ RollbackRaises
      BY <3>2, Moved DEF RollbackReport, RollbackDone, RollbackRaises
    <3> QED BY <1>7, <3>1, <3>2
  <2> QED BY <2>1, <2>2
<1> QED BY <1>1, <1>2, <1>3, <1>4, <1>5, <1>6, <1>7 DEF Startup

LEMMA JobStartup ==
  ASSUME JobOnly, TypeOK, WhyInv, JobInv, Startup
  PROVE  JobInv'
<1> USE ThreadFacts, Distinct
<1>1. /\ pc[Main] \in StartLabels /\ \A u \in Threads \ {Main, Hb, Feed} : pc'[u] = pc[u]
      /\ pc'[Main] \in StartLabels \cup {"loop", "strategy"}
      /\ Sig \in Threads \ {Main, Hb, Feed} /\ CoopThreads \subseteq Threads \ {Main, Hb, Feed}
  BY StartupMoves DEF Threads
<1>2. UNCHANGED <<canonical, terminated, reason, mainWhy>>
  BY DEF Startup, Bootstrap, InitializeDependencies, InitializeStrategyCoordinator,
     BindAndStart, EmitBootstrapSucceeded, ReportBootstrapSuccess, SetReady, MarkStarted,
     MainBeat, BeatCheck, BeatRead, BeatPost, StartPeriodicJobs, RunCheck, SetRunning,
     StartFeeds, StartRaises, RunRaises, EnterFailed, PostFailed, RollbackReport,
     RollbackDone, RollbackRaises, reqVars, ctlVars, srmVars
<1>3. mainWhy = NoReason /\ terminated = {}
  BY <1>1 DEF WhyInv, JobInv, Announced, StartLabels
<1>4. \/ phase' = phase
      \/ EnterFailed /\ phase' = "FAILED"
      \/ (SetReady \/ SetRunning) /\ pc[Main] \in StartLabels \ WithoutDeps /\ Live'
  <2>1. \A t \in Stoppers : pc[t] \notin {"stopping", "final"}
    BY <1>1 DEF Stoppers, JobOnly, JobInv, StartLabels
  <2>2. ~\E t \in Stoppers : StopEnterStopping(t) \/ StopEnterFinalPhase(t)
    BY <2>1 DEF StopEnterStopping, StopEnterFinalPhase, Step
  <2>3. SetReady \/ SetRunning => pc[Main] \in StartLabels \ WithoutDeps /\ Live'
    BY DEF SetReady, SetRunning, Step, StartLabels, WithoutDeps, RollbackLabels, Live
  <2>4. phase' = phase \/ SetReady \/ SetRunning \/ EnterFailed
    <3>1. Effects
      BY EffectsOfNext DEF Next
    <3> QED BY <2>2, <3>1 DEF Effects
  <2>5. EnterFailed => phase' = "FAILED"
    BY DEF EnterFailed
  <2> QED BY <2>3, <2>4, <2>5
<1>5. pc'[Main] \in StartLabels \ WithoutDeps \/ Live' => deps'
  <2>1. deps => deps'
    BY EffectsOfNext DEF Effects, Next
  <2> QED BY <1>4, <2>1, DepsEdges DEF JobInv, Live
<1>6. pc'[Main] \in RunLabels => Live'
  BY <1>4, RunEdges DEF JobInv, Live, SetReady
<1>7. pc'[Main] = "loop" => Live' \/ phase' = "FAILED"
  BY JobEdges DEF JobInv, Live
<1>8. \/ pc'[Main] \in {"failpost", "rbreport", "rbdone"}
      \/ pc'[Main] \in RollbackLabels
      => phase' = "FAILED"
  BY <1>1, JobEdges DEF JobInv, RollbackLabels, StartLabels
<1>9. pc'[Main] \notin {"stop", "hbjoin"} \cup Announced
  BY <1>1 DEF StartLabels, Announced
<1> QED BY <1>1, <1>2, <1>3, <1>5, <1>6, <1>7, <1>8, <1>9
       DEF JobInv, StopLabels

(* The rollback of a failed start.                                         *)
LEMMA JobRollback ==
  ASSUME TypeOK, WhyInv, JobInv, mainWhy = NoReason, StopBody(Main)
  PROVE  JobInv'
<1> USE ThreadFacts, Distinct
<1>1. /\ pc[Main] \in RollbackLabels
      /\ pc'[Main] \in RollbackLabels \cup {"rbreport", "loop"}
  BY RollbackMoves
<1>2. /\ \A u \in Threads \ {Main} : pc'[u] = pc[u]
      /\ Sig \in Threads \ {Main} /\ CoopThreads \subseteq Threads \ {Main}
  BY StopMoves DEF Threads
<1>3. \/ StopCheckAdapter(Main) \/ StopCallOnStop(Main)
      \/ StopClearAdapter(Main) \/ StopRaises(Main)
  BY <1>1 DEF RollbackLabels, StopBody, StopCheck, StopResolveReason, Step,
     StopBlockHeartbeats, StopFeeds, StopJoinFeeds, StopHeartbeatJobs,
     StopJoinHeartbeat, StopEnterStopping, StopCloseClients, StopEmitTerminated,
     StopEnterFinalPhase, StopReportFinal, StopComplete
<1>4. UNCHANGED <<phase, canonical, mainWhy, deps, terminated>>
  BY <1>3 DEF StopCheckAdapter, StopCallOnStop, StopClearAdapter, StopRaises, lifeVars,
     reqVars, workVars, ctlVars, srmVars
<1>5. phase = "FAILED" /\ terminated = {} /\ ~Live
  BY <1>1 DEF JobInv, RollbackLabels, Announced, Live
<1> QED BY <1>1, <1>2, <1>4, <1>5
       DEF JobInv, RollbackLabels, StartLabels, StopLabels, WithoutDeps, RunLabels, Announced,
           Live

LEMMA JobStop ==
  ASSUME JobOnly, TypeOK, WhyInv, JobInv, NEW t \in Stoppers, StopBody(t)
  PROVE  JobInv'
<1> USE ThreadFacts, Distinct
<1>1. t = Main
  BY StopMoves DEF JobInv, StopLabels, Stoppers, JobOnly
<1> SUFFICES ASSUME mainWhy # NoReason PROVE JobInv'
  BY <1>1, JobRollback
<1>2. /\ pc[Main] \in StopLabels /\ mainWhy = "RUNTIME_JOB_COMPLETED" /\ deps
      /\ \A u \in Threads \ {Main} : pc'[u] = pc[u]
      /\ Sig \in Threads \ {Main} /\ CoopThreads \subseteq Threads \ {Main}
  BY <1>1, StopMoves DEF JobInv, StopLabels, Threads
<1>3. UNCHANGED <<canonical, mainWhy>>
  BY DEF StopBody, StopCheck, StopResolveReason, StopBlockHeartbeats, StopFeeds,
     StopJoinFeeds, StopHeartbeatJobs, StopJoinHeartbeat, StopEnterStopping,
     StopCheckAdapter, StopCallOnStop, StopClearAdapter, StopCloseClients,
     StopEmitTerminated, StopEnterFinalPhase, StopReportFinal, StopComplete, StopRaises,
     reqVars, ctlVars
<1>d. deps'
  BY <1>2, EffectsOfNext DEF Effects, Next
<1>m. AfterStop(t) = "exiting" /\ AfterRaise(t) = "exiting" /\ AfterStrategy(t) = "close"
  BY <1>1, <1>2 DEF AfterStop, AfterRaise, AfterStrategy, RollingBack, NoReason
<1> DEFINE Rest == UNCHANGED <<reason, terminated>>
<1>4. CASE StopCheck(t)
  <2>1. pc[Main] = "stop" /\ pc'[Main] = "resolve" /\ Rest
    BY <1>1, <1>4, Moved DEF StopCheck, JobInv, ctlVars, srmVars
  <2> QED BY <1>2, <1>3, <1>d, <2>1
         DEF JobInv, StartLabels, StopLabels, RunLabels, Resolved, Announced
<1>5. CASE StopResolveReason(t)
  <2>1. pc[Main] = "resolve" /\ pc'[Main] = "block" /\ terminated' = terminated
    BY <1>1, <1>5, Moved DEF StopResolveReason, srmVars
  <2>2. ResolvedReason(t) = "LOCAL_TERMINATION_OBSERVED"
    BY <1>1, <1>2 DEF ResolvedReason, TerminationReasonCode, JobInv, NoReason,
       normalize_runtime_reason_code, Reasons
  <2>3. reason'[Main] = "LOCAL_TERMINATION_OBSERVED"
    BY <1>1, <1>5, <2>2 DEF StopResolveReason, TypeOK, CtlType
  <2> QED BY <1>2, <1>3, <1>d, <2>1, <2>3
         DEF JobInv, StartLabels, StopLabels, RunLabels, Resolved, Announced
<1>6. CASE StopBlockHeartbeats(t) \/ StopFeeds(t) \/ StopJoinFeeds(t)
             \/ StopEnterStopping(t) \/ StopClearAdapter(t) \/ StopCloseClients(t)
  <2>1. /\ pc[Main] \in Resolved \ Announced
        /\ pc'[Main] \in Resolved \ (Announced \cup {"hbjoin", "callstop"})
        /\ Rest
    BY <1>1, <1>6, <1>m, Moved DEF StopBlockHeartbeats, StopFeeds, StopJoinFeeds,
       StopEnterStopping, StopClearAdapter, StopCloseClients, Resolved, StopLabels,
       Announced, ctlVars, srmVars
  <2> QED BY <1>2, <1>3, <1>d, <2>1
         DEF JobInv, StartLabels, StopLabels, RunLabels, Resolved, Announced
<1>7. CASE StopHeartbeatJobs(t) \/ StopJoinHeartbeat(t)
  <2>1. /\ pc[Main] \in {"hbstop", "hbjoin", "hbwait"}
        /\ pc'[Main] \in {"hbjoin", "hbwait", "stopping"}
        /\ pc'[Main] = "hbjoin" => hbThread'
        /\ Rest
    <3>1. CASE StopHeartbeatJobs(t)
      BY <1>1, <3>1, Moved DEF StopHeartbeatJobs, ctlVars, srmVars
    <3>2. CASE StopJoinHeartbeat(t)
      BY <1>1, <3>2, Moved DEF StopJoinHeartbeat, JobInv, ctlVars, srmVars
    <3> QED BY <1>7, <3>1, <3>2
  <2> QED BY <1>2, <1>3, <1>d, <2>1
         DEF JobInv, StartLabels, StopLabels, RunLabels, Resolved, Announced
<1>8. CASE StopCheckAdapter(t) \/ StopCallOnStop(t)
  <2>1. /\ pc[Main] \in {"strategy", "callstop"}
        /\ pc'[Main] \in {"callstop", "instop", "close"}
        /\ pc'[Main] = "callstop" => adapter'
        /\ Rest
    <3>1. CASE StopCheckAdapter(t)
      BY <1>1, <1>m, <3>1, Moved DEF StopCheckAdapter, ctlVars, srmVars, workVars
    <3>2. CASE StopCallOnStop(t)
      BY <1>1, <3>2, Moved DEF StopCallOnStop, JobInv, ctlVars, srmVars
    <3> QED BY <1>8, <3>1, <3>2
  <2> QED BY <1>2, <1>3, <1>d, <2>1
         DEF JobInv, StartLabels, StopLabels, RunLabels, Resolved, Announced
<1>9. CASE StopEmitTerminated(t)
  <2>1. pc[Main] = "emit" /\ pc'[Main] = "final" /\ reason' = reason
    BY <1>1, <1>9, Moved DEF StopEmitTerminated, ctlVars
  <2>2. reason[t] = "LOCAL_TERMINATION_OBSERVED" /\ terminated = {}
    BY <1>1, <2>1 DEF JobInv, Resolved, StopLabels, Announced
  <2>3. FinalPhase(t) = "COMPLETED"
    BY <1>1, <1>2 DEF FinalPhase, TerminationReasonCode, JobOnly
  <2>4. terminated' = {<<"LOCAL_TERMINATION_OBSERVED", "COMPLETED">>}
    BY <1>1, <1>2, <1>9, <2>2, <2>3 DEF StopEmitTerminated
  <2> QED BY <1>2, <1>3, <1>d, <2>1, <2>2, <2>4, <1>1
         DEF JobInv, StartLabels, StopLabels, RunLabels, Resolved, Announced
<1>10. CASE StopEnterFinalPhase(t) \/ StopReportFinal(t) \/ StopComplete(t)
  <2>1. /\ pc[Main] \in {"final", "report", "complete"}
        /\ pc'[Main] \in {"report", "complete", "exiting"}
        /\ Rest
    BY <1>1, <1>m, <1>10, Moved DEF StopEnterFinalPhase, StopReportFinal, StopComplete,
       ctlVars, srmVars
  <2> QED BY <1>2, <1>3, <1>d, <2>1
         DEF JobInv, StartLabels, StopLabels, RunLabels, Resolved, Announced
<1> QED BY <1>4, <1>5, <1>6, <1>7, <1>8, <1>9, <1>10
       DEF StopBody, StopRaises, JobOnly

LEMMA JobInvariant ==
  ASSUME JobOnly
  PROVE  Spec => []JobInv
<1> USE ThreadFacts, Distinct
<1>1. Init => JobInv
  BY DEF Init, JobInv, StartLabels, StopLabels, RunLabels, Resolved, Announced, Threads,
     WithoutDeps, RollbackLabels, Live
<1>2. TypeOK /\ WhyInv /\ JobInv /\ [Next]_vars => JobInv'
  <2> SUFFICES ASSUME TypeOK, WhyInv, JobInv, [Next]_vars PROVE JobInv'
    OBVIOUS
  <2>r. /\ Requesters = {Sig} /\ Sig \in Threads \ {Main, Hb, Feed}
        /\ CoopThreads \subseteq Threads \ {Main, Hb, Feed}
    BY DEF Requesters, JobOnly, Threads
  <2>e. Effects
    BY EffectsOfNext
  <2>1. CASE UNCHANGED vars \/ AfterExit \/ Poll \/ FeedReads
    BY <2>1 DEF AfterExit, Poll, FeedReads, vars, lifeVars, reqVars, workVars, jobVars,
       ctlVars, srmVars, JobInv, Live
  <2>2. ASSUME NEW r \in Requesters, Initiate(r) PROVE FALSE
    BY <2>r, <2>2, RequestMoves DEF JobInv
  <2>3. ~Arrivals /\ ~KeyboardInterrupt
    BY DEF Arrivals, HttpStopArrives, StopWorkerArrives, SigtermArrives, KeyboardInterrupt,
       JobOnly, TypeOK, CtlType
  <2>4. CASE PollLeaves \/ PollJobCompleted
    <3>1. pc[Main] = "loop" /\ ~PollLeaves
      BY <2>4 DEF PollLeaves, PollJobCompleted, Step, JobInv, Live
    <3>2. /\ pc'[Main] = "stop" /\ mainWhy' = "RUNTIME_JOB_COMPLETED" /\ ~complete'
          /\ \A u \in Threads \ {Main} : pc'[u] = pc[u]
      BY <2>4, <3>1, Moved DEF PollJobCompleted, lifeVars,
         should_stop_for_completed_backtest_job
    <3>3. UNCHANGED <<phase, canonical, deps, terminated>> /\ deps
      BY <2>4, <3>1 DEF PollJobCompleted, lifeVars, reqVars, workVars, srmVars, JobInv,
         should_stop_for_completed_backtest_job
    <3> QED BY <2>r, <3>1, <3>2, <3>3
           DEF JobInv, StartLabels, StopLabels, RunLabels, Resolved, Announced,
               RollbackLabels, NoReason
  <2>5. CASE StopServers \/ ProcessExit
    <3>1. /\ pc[Main] \in {"exiting", "joining"} /\ pc'[Main] \in {"joining", "exited"}
          /\ \A u \in Threads \ {Main} : pc'[u] = pc[u]
      BY <2>5, Moved DEF StopServers, ProcessExit
    <3>2. UNCHANGED <<phase, canonical, mainWhy, deps, terminated>>
      BY <2>5 DEF StopServers, ProcessExit, lifeVars, reqVars, workVars, ctlVars, srmVars
    <3> QED BY <2>r, <3>1, <3>2
           DEF JobInv, StartLabels, StopLabels, RunLabels, Resolved, Announced,
               RollbackLabels, Live
  <2>6. CASE HeartbeatTick \/ HeartbeatExit \/ FeedThread \/ ReplayEndOfStream
    <3>1. \A u \in Threads \ {Hb, Feed} : pc'[u] = pc[u]
      BY <2>6, WorkerMoves DEF ReplayEndOfStream
    <3>2. UNCHANGED <<phase, complete, canonical, mainWhy, reason, hbThread, adapter,
                      terminated>>
      BY <2>6 DEF HeartbeatTick, HeartbeatExit, BeatCheck, BeatRead, BeatPost,
         FeedThread, FeedTick, FeedReads, FeedTickEnds, FeedExit, FeedJobComplete,
         ReplayEndOfStream, vars, lifeVars, reqVars, workVars, jobVars, ctlVars, srmVars
    <3>3. deps => deps'
      BY <2>e DEF Effects
    <3> QED BY <2>r, <3>1, <3>2, <3>3 DEF JobInv, Live
  <2>7. ~\E g \in GrpcThreads : StopWorkerCheckpoint(g)
    BY DEF JobOnly
  <2> QED BY <2>1, <2>2, <2>3, <2>4, <2>5, <2>6, <2>7, JobStartup, JobStop
         DEF Next, MainLoop, Environment, Arrivals
<1> QED BY <1>1, <1>2, JobOnly, TypeCorrect, WhyInvariant, PTL DEF Spec

(* A BACKTEST that nobody stops, and in whose rollback and stop() no call  *)
(* raises, announces its end exactly once, as completed, before the        *)
(* process exits; whether or not its start may fail, whether the replay    *)
(* was driven or pushed, and also where the joins of stop() time out       *)
(* (stop, emit_terminated, should_stop_for_completed_backtest_job).        *)
THEOREM AnnouncedOnce ==
  ASSUME JobOnly
  PROVE  Spec => []TerminatedOnce
<1>1. JobInv => TerminatedOnce
  BY DEF JobInv, TerminatedOnce, Announced
<1> QED BY <1>1, JobOnly, JobInvariant, PTL
=============================================================================
