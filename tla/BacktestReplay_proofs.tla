----------------------- MODULE BacktestReplay_proofs -----------------------
(***************************************************************************)
(* Proofs about BacktestReplay: types, and that the historical driver      *)
(* replays the window as ReplayWindow promises.                            *)
(***************************************************************************)
EXTENDS BacktestFeed, TLAPS

USE BarsAssumption, SourcesAssumption

(* A step of one feeder's program counter keeps the types of all.          *)
LEMMA FeederStep ==
  ASSUME TypeOK, NEW f \in Feeders, NEW from,
         NEW to \in GateLabels \cup DriverLabels \cup PushLabels,
         Step(f, from, to)
  PROVE  /\ pc' \in [Feeders -> GateLabels \cup DriverLabels \cup PushLabels]
         /\ pc[f] = from /\ pc'[f] = to
         /\ \A g \in Feeders : g # f => pc'[g] = pc[g]
BY DEF TypeOK, Step

LEMMA TypeInit == Init => TypeOK
<1> SUFFICES ASSUME Init PROVE TypeOK
  OBVIOUS
<1>1. NoBatch \in Batches \cup {NoBatch}
  OBVIOUS
<1>2. \A f \in Feeders : (IF f = Driver THEN "unborn" ELSE "idle")
                          \in GateLabels \cup DriverLabels \cup PushLabels
  BY DEF DriverLabels, PushLabels
<1>3. /\ batch \in [Pushers -> Batches \cup {NoBatch}]
      /\ idx \in [Pushers -> Nat \ {0}] /\ pushes \in [Pushers -> 0 .. MaxPushes]
      /\ lastEff \in [Pushers -> Nat]
  BY <1>1 DEF Init
<1>4. /\ pc \in [Feeders -> GateLabels \cup DriverLabels \cup PushLabels]
      /\ cur \in [Feeders -> Nat] /\ seen \in [Feeders -> BOOLEAN]
  BY <1>2 DEF Init
<1>5. page \in [lo : 1 .. Bars + 1, hi : 0 .. Bars, more : BOOLEAN]
  BY DEF Init
<1>6. cursor \in 0 .. Bars /\ bar \in 1 .. Bars + 1 /\ clock \in Nat
      /\ lastTs \in Nat /\ late \in Nat /\ fed \subseteq 1 .. Bars
      /\ completers \subseteq Feeders
  BY DEF Init
<1>7. {veryFirst, first, marked, bound, prepared, inProgress, feedStop, live,
       onStop} \subseteq BOOLEAN
  BY DEF Init
<1> QED
  BY <1>3, <1>4, <1>5, <1>6, <1>7 DEF TypeOK

(* The gateway's steps, by the driver or a pusher.                         *)
LEMMA TypeGateway ==
  ASSUME TypeOK, PageInv, NEW f \in Feeders, Gateway(f) PROVE TypeOK'
<1>0. {"mark", "journal", "call", "handle", "dead", "idle", "pause", "events"}
        \subseteq GateLabels \cup DriverLabels \cup PushLabels
  BY DEF GateLabels, DriverLabels, PushLabels
<1> USE DEF driverVars, pushVars, gateVars, stopVars, histVars
<1>1. CASE IngestSetsClock(f)
  BY <1>0, <1>1, FeederStep DEF IngestSetsClock, TypeOK
<1>2. CASE MarkFirstData(f)
  BY <1>0, <1>2, FeederStep DEF MarkFirstData, TypeOK
<1>3. CASE RecordFirstData(f)
  BY <1>0, <1>3, FeederStep DEF RecordFirstData, TypeOK
<1>4. CASE RecordRaises(f)
  BY <1>0, <1>4, FeederStep DEF RecordRaises, TypeOK
<1>5. CASE ApplyEvent(f)
  <2>1. pc' \in [Feeders -> GateLabels \cup DriverLabels \cup PushLabels]
    BY <1>0, <1>5, FeederStep DEF ApplyEvent
  <2>2. clock' \in Nat /\ late' \in Nat
    BY <1>5 DEF ApplyEvent, Called, TypeOK
  <2>3. fed' \subseteq 1 .. Bars
    <3>1. f = Driver => cur[f] \in Good
      BY <1>5 DEF ApplyEvent, Step, PageInv, GateLabels
    <3> QED
      BY <1>5, <3>1 DEF ApplyEvent, Called, TypeOK, Good
  <2>4. lastEff' \in [Pushers -> Nat]
    BY <1>5 DEF ApplyEvent, TypeOK, Feeders
  <2> QED
    BY <1>5, <2>1, <2>2, <2>3, <2>4 DEF ApplyEvent, TypeOK
<1>6. CASE HookReturns(f)
  <2>1. pc' \in [Feeders -> GateLabels \cup DriverLabels \cup PushLabels]
    BY <1>0, <1>6, FeederStep DEF HookReturns
  <2>2. lastEff' \in [Pushers -> Nat]
    BY <1>6 DEF HookReturns, TypeOK, Feeders
  <2> QED
    BY <1>6, <2>1, <2>2 DEF HookReturns, TypeOK
<1> QED
  BY <1>1, <1>2, <1>3, <1>4, <1>5, <1>6 DEF Gateway

(* The driver's steps.                                                     *)
LEMMA TypeDriver ==
  ASSUME TypeOK, PageInv, DriverThread PROVE TypeOK'
<1>0. /\ Driver \in Feeders
      /\ DriverLabels \cup {"ingest"}
           \subseteq GateLabels \cup DriverLabels \cup PushLabels
  BY DEF Feeders, GateLabels
<1> USE DEF driverVars, pushVars, gateVars, stopVars, histVars
<1>1. ASSUME NEW from, NEW to \in DriverLabels, DriverLeaves(from, to)
      PROVE  TypeOK'
  BY <1>0, <1>1, FeederStep DEF DriverLeaves, TypeOK
<1>2. ASSUME NEW from, DriverCompletes(from) PROVE TypeOK'
  <2>1. pc' \in [Feeders -> GateLabels \cup DriverLabels \cup PushLabels]
    BY <1>0, <1>2, FeederStep DEF DriverCompletes, DriverLabels
  <2> QED
    BY <1>0, <1>2, <2>1 DEF DriverCompletes, TypeOK
<1>3. CASE DriverStarts
  <2>1. pc' \in [Feeders -> GateLabels \cup DriverLabels \cup PushLabels]
    BY <1>0, <1>3, FeederStep DEF DriverStarts, DriverLabels
  <2> QED
    BY <1>3, <2>1 DEF DriverStarts, TypeOK
<1>4. CASE DriverEnters \/ DriverGivesUp \/ DriverQueries
  BY <1>1, <1>4 DEF DriverEnters, DriverGivesUp, DriverQueries, DriverLabels
<1>5. CASE DriverSeesStop \/ TailOver
  BY <1>2, <1>5 DEF DriverSeesStop, TailOver
<1>6. CASE QueryFails \/ EmptyPage \/ EmptyPageContinues
  BY <1>1, <1>6 DEF QueryFails, EmptyPage, EmptyPageContinues, DriverLabels
<1>7. CASE PageArrives
  <2>1. pc' \in [Feeders -> GateLabels \cup DriverLabels \cup PushLabels]
    BY <1>0, <1>7, FeederStep DEF PageArrives, DriverLabels
  <2>2. PageStart \in 1 .. Bars /\ PageEnd \in 1 .. Bars
    BY <1>7 DEF PageArrives, PageStart, PageEnd, TypeOK
  <2>3. page' \in [lo : 1 .. Bars + 1, hi : 0 .. Bars, more : BOOLEAN]
    BY <1>7, <2>2 DEF PageArrives
  <2> QED
    BY <1>7, <2>1, <2>2, <2>3 DEF PageArrives, TypeOK
<1>8. CASE WaitOver \/ PauseOver \/ PageUnusable \/ BarStops
           \/ \E from \in {"wait", "tail", "pause"} : WaitStopped(from)
  BY <1>1, <1>8
  DEF WaitOver, PauseOver, PageUnusable, BarStops, WaitStopped, DriverLabels
<1>9. CASE BarBegins
  <2>1. pc' \in [Feeders -> GateLabels \cup DriverLabels \cup PushLabels]
    BY <1>0, <1>9, FeederStep DEF BarBegins
  <2>2. bar \in Nat /\ bar' \in 1 .. Bars + 1
    BY <1>9 DEF BarBegins, TypeOK
  <2>3. cur' \in [Feeders -> Nat] /\ seen' \in [Feeders -> BOOLEAN]
    BY <1>9, <2>2 DEF BarBegins, TypeOK
  <2> QED
    BY <1>9, <2>1, <2>2, <2>3 DEF BarBegins, TypeOK
<1>10. CASE BarSkipped
  <2>1. bar' \in 1 .. Bars + 1
    BY <1>10 DEF BarSkipped, TypeOK
  <2> QED
    BY <1>10, <2>1 DEF BarSkipped, TypeOK
<1>11. CASE PageReplayed
  <2>1. pc' \in [Feeders -> GateLabels \cup DriverLabels \cup PushLabels]
    BY <1>0, <1>11, FeederStep DEF PageReplayed, DriverLabels
  <2>2. cursor' \in 0 .. Bars
    BY <1>11 DEF PageReplayed, TypeOK
  <2> QED
    BY <1>11, <2>1, <2>2 DEF PageReplayed, TypeOK
<1>12. CASE WindowReplayed
  <2>1. pc' \in [Feeders -> GateLabels \cup DriverLabels \cup PushLabels]
    BY <1>0, <1>12, FeederStep DEF WindowReplayed, DriverLabels
  <2> QED
    BY <1>0, <1>12, <2>1 DEF WindowReplayed, TypeOK
<1> QED
  BY <1>3, <1>4, <1>5, <1>6, <1>7, <1>8, <1>9, <1>10, <1>11, <1>12
  DEF DriverThread, Answer

(* The pushers' steps.                                                     *)
LEMMA TypePush ==
  ASSUME TypeOK, NEW p \in Pushers, PushArrives(p) \/ Push(p) PROVE TypeOK'
<1>0. p \in Feeders /\ PushLabels \cup {"ingest"}
        \subseteq GateLabels \cup DriverLabels \cup PushLabels
  BY DEF Feeders, GateLabels
<1> USE DEF driverVars, pushVars, gateVars, stopVars, histVars
<1>1. CASE PushArrives(p)
  <2>1. pc' \in [Feeders -> GateLabels \cup DriverLabels \cup PushLabels]
    BY <1>0, <1>1, FeederStep DEF PushArrives, PushLabels
  <2>2. batch' \in [Pushers -> Batches \cup {NoBatch}]
    BY <1>1 DEF PushArrives, TypeOK
  <2>3. pushes' \in [Pushers -> 0 .. MaxPushes]
    BY <1>1 DEF PushArrives, TypeOK
  <2> QED
    BY <1>1, <2>1, <2>2, <2>3 DEF PushArrives, TypeOK
<1>2. CASE PushBegins(p)
  <2>1. pc' \in [Feeders -> GateLabels \cup DriverLabels \cup PushLabels]
    BY <1>0, <1>2, FeederStep DEF PushBegins, PushLabels
  <2>2. idx' \in [Pushers -> Nat \ {0}] /\ lastEff' \in [Pushers -> Nat]
    BY <1>2 DEF PushBegins, TypeOK
  <2> QED
    BY <1>2, <2>1, <2>2 DEF PushBegins, TypeOK
<1>3. CASE PushEvent(p)
  <2>1. pc' \in [Feeders -> GateLabels \cup DriverLabels \cup PushLabels]
    BY <1>0, <1>3, FeederStep DEF PushEvent, PushLabels
  <2>2. idx' \in [Pushers -> Nat \ {0}] /\ idx[p] \in Nat
    BY <1>3 DEF PushEvent, TypeOK
  <2>3. cur' \in [Feeders -> Nat] /\ seen' \in [Feeders -> BOOLEAN]
    <3> DEFINE e == batch[p].events[idx[p]]
    <3>1. CASE Ingested(e)
      <4>1. cur' = [cur EXCEPT ![p] = e.time] /\ seen' = [seen EXCEPT ![p] = bound]
        BY <1>3, <3>1 DEF PushEvent
      <4>2. e.time \in Nat
        <5>1. batch[p] \in Batches \cup {NoBatch}
          BY DEF TypeOK
        <5>2. batch[p].events \in Seq(Event)
          <6>1. CASE batch[p] \in Batches
            <7>1. batch[p] \in [events : Seq(Event), eos : BOOLEAN]
              BY <6>1
            <7> QED BY <7>1
          <6>2. CASE batch[p] = NoBatch
            BY <6>2 DEF NoBatch
          <6> QED BY <5>1, <6>1, <6>2
        <5>3. idx[p] \in 1 .. Len(batch[p].events)
          <6>1. idx[p] \in Nat \ {0} /\ Len(batch[p].events) \in Nat
            BY <5>2 DEF TypeOK
          <6>2. idx[p] <= Len(batch[p].events)
            BY <1>3 DEF PushEvent
          <6> QED BY <6>1, <6>2
        <5>4. e \in Event
          BY <5>2, <5>3
        <5> QED
          BY <5>4 DEF Event
      <4> QED
        BY <4>1, <4>2 DEF TypeOK
    <3>2. CASE ~Ingested(e)
      BY <1>3, <3>2 DEF PushEvent, TypeOK
    <3> QED
      BY <3>1, <3>2
  <2>4. UNCHANGED <<driverVars, batch, pushes, lastEff, gateVars, lastTs,
                    completers, bound, stopVars, prepared, histVars>>
    BY <1>3 DEF PushEvent
  <2> QED
    BY <2>1, <2>2, <2>3, <2>4 DEF TypeOK
<1>4. CASE PushStamps(p)
  <2>1. pc' \in [Feeders -> GateLabels \cup DriverLabels \cup PushLabels]
    BY <1>0, <1>4, FeederStep DEF PushStamps, PushLabels
  <2> QED
    BY <1>4, <2>1 DEF PushStamps, TypeOK
<1>5. CASE PushEnds(p)
  <2>1. pc' \in [Feeders -> GateLabels \cup DriverLabels \cup PushLabels]
    BY <1>0, <1>5, FeederStep DEF PushEnds, PushLabels
  <2> QED
    BY <1>0, <1>5, <2>1 DEF PushEnds, TypeOK
<1> QED
  BY <1>1, <1>2, <1>3, <1>4, <1>5 DEF Push

(* The steps of the rest of the worker.                                    *)
LEMMA TypeWorker ==
  ASSUME TypeOK, Worker \/ StopRequested \/ Prepare \/ Down PROVE TypeOK'
<1> USE DEF driverVars, pushVars, gateVars, stopVars, histVars
<1>1. UNCHANGED <<driverVars, pushVars, pc, cur, seen, gateVars, lastTs,
                  completers, histVars>>
  BY DEF Worker, Bind, JobCompleted, StopRequested, StopBegins, StopSignalsFeed,
         StopJoinsFeed, StopStrategy, StopClearsAdapter, Prepare, Down, vars
<1>2. /\ bound' \in BOOLEAN /\ prepared' \in BOOLEAN /\ inProgress' \in BOOLEAN
      /\ feedStop' \in BOOLEAN /\ live' \in BOOLEAN /\ onStop' \in BOOLEAN
  <2>1. /\ bound \in BOOLEAN /\ prepared \in BOOLEAN /\ inProgress \in BOOLEAN
        /\ feedStop \in BOOLEAN /\ live \in BOOLEAN /\ onStop \in BOOLEAN
    BY DEF TypeOK
  <2>2. CASE Bind \/ Prepare \/ Down
    BY <2>1, <2>2 DEF Bind, Prepare, Down, vars
  <2>3. CASE JobCompleted \/ StopRequested
    BY <2>1, <2>3 DEF JobCompleted, StopRequested, StopBegins
  <2>4. CASE StopSignalsFeed \/ StopJoinsFeed
    BY <2>1, <2>4 DEF StopSignalsFeed, StopJoinsFeed
  <2>5. CASE StopStrategy \/ StopClearsAdapter
    BY <2>1, <2>5 DEF StopStrategy, StopClearsAdapter
  <2> QED
    BY <2>2, <2>3, <2>4, <2>5 DEF Worker
<1> QED
  BY <1>1, <1>2 DEF TypeOK

-----------------------------------------------------------------------------
(***************************************************************************)
(* Where the driver is tells what it has fed.                              *)
(***************************************************************************)

LEMMA UpToFacts ==
  /\ UpTo(0) = {} /\ UpTo(Bars) = Good
  /\ \A n \in Nat : n + 1 \in Good => UpTo(n + 1) = UpTo(n) \cup {n + 1}
  /\ \A n \in Nat : n + 1 \notin Good => UpTo(n + 1) = UpTo(n)
  /\ \A n \in Nat, k \in Nat : k <= n /\ UpTo(n) = {} => UpTo(k) = {}
BY DEF UpTo, Good

LEMMA PageInit == Init => PageInv /\ FirstInv
<1> SUFFICES ASSUME Init PROVE PageInv /\ FirstInv
  OBVIOUS
<1>1. pc[Driver] = "unborn"
  BY DEF Init, Feeders
<1>2. fed = {} /\ cursor = 0 /\ veryFirst = TRUE /\ completers = {} /\ first = FALSE
  BY DEF Init
<1> QED
  BY <1>1, <1>2, UpToFacts DEF PageInv, FirstInv, GateLabels, BetweenPages

(* Steps that leave the driver, its page and what it fed alone.            *)
LEMMA PageFrame ==
  ASSUME PageInv, prepared => prepared', first => first',
         pc'[Driver] = pc[Driver], cur'[Driver] = cur[Driver],
         seen'[Driver] = seen[Driver], UNCHANGED driverVars, fed' = fed,
         Driver \in completers' => Driver \in completers
  PROVE  PageInv'
BY DEF PageInv, driverVars, UpTo

LEMMA PageGateway ==
  ASSUME TypeOK, PageInv, NEW f \in Feeders, Gateway(f) PROVE PageInv'
<1> USE DEF driverVars, pushVars, gateVars, stopVars, histVars
<1>0. bar \in Nat /\ Driver \in Feeders
  BY DEF TypeOK, Feeders
<1>1. CASE f # Driver
  <2>1. pc'[Driver] = pc[Driver] /\ fed' = fed
    BY <1>0, <1>1
    DEF Gateway, IngestSetsClock, MarkFirstData, RecordFirstData, RecordRaises,
        ApplyEvent, HookReturns, Called, Step, TypeOK
  <2>2. UNCHANGED <<driverVars, cur, seen, completers, prepared>> /\ (first => first')
    BY DEF Gateway, IngestSetsClock, MarkFirstData, RecordFirstData,
           RecordRaises, ApplyEvent, HookReturns
  <2> QED
    BY <2>1, <2>2, PageFrame
<1>2. CASE f = Driver
  <2>1. ASSUME pc[Driver] \in GateLabels, pc'[Driver] \in GateLabels \ {"handle"},
               pc[Driver] # "handle", first' \/ first' = first,
               pc'[Driver] \in {"journal", "call", "handle"} => first',
               UNCHANGED <<driverVars, cur, seen, completers, prepared, fed>>
        PROVE  PageInv'
    BY <2>1 DEF PageInv, UpTo, GateLabels, BetweenPages
  <2>2. CASE IngestSetsClock(f)
    <3>1. pc[Driver] = "ingest" /\ pc'[Driver] = "mark"
      BY <1>0, <1>2, <2>2 DEF IngestSetsClock, Step, TypeOK
    <3> QED
      BY <2>1, <2>2, <3>1 DEF IngestSetsClock, GateLabels
  <2>3. CASE MarkFirstData(f)
    <3>1. pc[Driver] = "mark" /\ pc'[Driver] \in {"call", "journal"}
      BY <1>0, <1>2, <2>3 DEF MarkFirstData, Step, TypeOK
    <3> QED
      BY <2>1, <2>3, <3>1 DEF MarkFirstData, GateLabels
  <2>4. CASE RecordFirstData(f)
    <3>1. pc[Driver] = "journal" /\ pc'[Driver] = "call"
      BY <1>0, <1>2, <2>4 DEF RecordFirstData, Step, TypeOK
    <3>2. first
      BY <3>1 DEF PageInv
    <3> QED
      BY <2>1, <2>4, <3>1, <3>2 DEF RecordFirstData, GateLabels
  <2>5. CASE RecordRaises(f)
    <3>1. pc'[Driver] = "dead" /\ pc[Driver] = "journal"
      BY <1>0, <1>2, <2>5 DEF RecordRaises, Step, TypeOK
    <3>2. first
      BY <3>1 DEF PageInv
    <3> QED
      BY <2>5, <3>1, <3>2 DEF RecordRaises, PageInv, GateLabels, BetweenPages
  <2>6. CASE ApplyEvent(f)
    <3>1. pc[Driver] = "call"
      BY <1>2, <2>6 DEF ApplyEvent, Step
    <3>2. /\ cur[Driver] = bar - 1 /\ seen[Driver] /\ bar > 1
          /\ bar - 1 \in Good /\ fed = UpTo(bar - 2) /\ first
      BY <3>1 DEF PageInv, GateLabels
    <3>3. pc'[Driver] = "handle" /\ fed' = fed \cup {bar - 1}
      BY <1>0, <1>2, <2>6, <3>2 DEF ApplyEvent, Called, Step, TypeOK
    <3>4. fed' = UpTo(bar - 1)
      <4>1. bar - 2 \in Nat /\ (bar - 2) + 1 = bar - 1
        BY <1>0, <3>2
      <4> QED
        BY <4>1, <3>2, <3>3, UpToFacts
    <3>5. UpTo(bar - 1)' = UpTo(bar - 1) /\ UNCHANGED <<driverVars, cur, seen, first, completers, prepared>>
      BY <2>6 DEF ApplyEvent, UpTo
    <3> QED
      BY <3>1, <3>2, <3>3, <3>4, <3>5 DEF PageInv, GateLabels, BetweenPages
  <2>7. CASE HookReturns(f)
    <3>1. pc[Driver] = "handle" /\ pc'[Driver] = "pause"
      BY <1>0, <1>2, <2>7 DEF HookReturns, Step, TypeOK
    <3> QED
      BY <2>7, <3>1 DEF HookReturns, PageInv, GateLabels, BetweenPages, UpTo
  <2> QED
    BY <2>2, <2>3, <2>4, <2>5, <2>6, <2>7 DEF Gateway
<1> QED
  BY <1>1, <1>2

LEMMA PageWorker ==
  ASSUME TypeOK, PageInv, Worker \/ StopRequested \/ Prepare \/ Down
  PROVE  PageInv'
<1> USE DEF driverVars, pushVars, gateVars, stopVars, histVars
<1>1. /\ UNCHANGED <<pc, cur, seen, driverVars, fed, completers, first>>
      /\ prepared => prepared'
  BY DEF Worker, Bind, JobCompleted, StopRequested, StopBegins, StopSignalsFeed,
         StopJoinsFeed, StopStrategy, StopClearsAdapter, Prepare, Down, vars
<1> QED
  BY <1>1, PageFrame

LEMMA PagePush ==
  ASSUME TypeOK, PageInv, NEW p \in Pushers, PushArrives(p) \/ Push(p)
  PROVE  PageInv'
<1> USE DEF driverVars, pushVars, gateVars, stopVars, histVars
<1>0. p # Driver /\ p \in Feeders /\ Driver \in Feeders
  BY DEF Feeders
<1>1. pc'[Driver] = pc[Driver]
  BY <1>0 DEF PushArrives, Push, PushBegins, PushEvent, PushStamps, PushEnds, Step, TypeOK
<1>2. cur'[Driver] = cur[Driver] /\ seen'[Driver] = seen[Driver]
  BY <1>0 DEF PushArrives, Push, PushBegins, PushEvent, PushStamps, PushEnds, TypeOK
<1>3. /\ UNCHANGED <<driverVars, fed, first, prepared>>
      /\ Driver \in completers' => Driver \in completers
  BY <1>0 DEF PushArrives, Push, PushBegins, PushEvent, PushStamps, PushEnds
<1> QED
  BY <1>1, <1>2, <1>3, PageFrame

LEMMA PageDriver ==
  ASSUME TypeOK, PageInv, DriverThread PROVE PageInv'
<1> USE DEF driverVars, pushVars, gateVars, stopVars, histVars
<1>0. /\ Driver \in Feeders /\ bar \in Nat /\ cursor \in Nat /\ page.hi \in Nat
      /\ page.hi <= Bars /\ bar <= Bars + 1 /\ veryFirst \in BOOLEAN
  BY DEF TypeOK, Feeders
<1>1. ASSUME NEW from \in BetweenPages, NEW to \in BetweenPages \cup {"done"},
             DriverLeaves(from, to)
      PROVE  PageInv'
  <2>1. pc[Driver] = from /\ pc'[Driver] = to
    BY <1>0, <1>1 DEF DriverLeaves, Step, TypeOK
  <2> QED
    BY <1>1, <2>1 DEF DriverLeaves, PageInv, GateLabels, BetweenPages, UpTo
<1>2. ASSUME NEW from \in {"bar", "pause"}, NEW to \in {"bar", "done"},
             DriverLeaves(from, to)
      PROVE  PageInv'
  <2>1. pc[Driver] = from /\ pc'[Driver] = to
    BY <1>0, <1>2 DEF DriverLeaves, Step, TypeOK
  <2> QED
    BY <1>2, <2>1 DEF DriverLeaves, PageInv, GateLabels, BetweenPages, UpTo
<1>3. ASSUME NEW from \in {"query", "tail"}, DriverCompletes(from) PROVE PageInv'
  <2>1. pc[Driver] = from /\ pc'[Driver] = "done"
    BY <1>0, <1>3 DEF DriverCompletes, Step, TypeOK
  <2> QED
    BY <1>3, <2>1 DEF DriverCompletes, PageInv, GateLabels, BetweenPages, UpTo
<1>4. CASE DriverStarts
  <2>1. pc[Driver] = "unborn" /\ pc'[Driver] = "outer"
    BY <1>0, <1>4 DEF DriverStarts, Step, TypeOK
  <2> QED
    BY <1>4, <2>1 DEF DriverStarts, PageInv, GateLabels, BetweenPages, UpTo
<1>5. CASE DriverEnters \/ DriverGivesUp \/ DriverQueries \/ QueryFails
           \/ EmptyPage \/ EmptyPageContinues \/ WaitOver
  BY <1>1, <1>5
  DEF DriverEnters, DriverGivesUp, DriverQueries, QueryFails, EmptyPage,
      EmptyPageContinues, WaitOver, BetweenPages
<1>6. CASE \E from \in {"wait", "tail", "pause"} : WaitStopped(from)
  BY <1>1, <1>2, <1>6 DEF WaitStopped, BetweenPages
<1>7. CASE BarStops \/ PauseOver
  BY <1>2, <1>7 DEF BarStops, PauseOver
<1>8. CASE DriverSeesStop \/ TailOver
  BY <1>3, <1>8 DEF DriverSeesStop, TailOver
<1>9. CASE PageArrives
  <2>1. pc[Driver] = "answer" /\ pc'[Driver] = "bar"
    BY <1>0, <1>9 DEF PageArrives, Step, TypeOK
  <2>2. /\ fed = UpTo(cursor) /\ veryFirst <=> cursor = 0
        /\ Driver \notin completers
    BY <2>1 DEF PageInv, BetweenPages
  <2>3. PageStart = cursor + 1
    BY <2>2 DEF PageStart
  <2>4. PageEnd \in Nat /\ cursor < PageEnd /\ PageStart <= PageEnd
    BY <1>0, <1>9, <2>3 DEF PageArrives, PageEnd
  <2>5. page'.hi = PageEnd /\ (PageEnd < Bars => page'.more) /\ bar' = cursor + 1
    BY <1>9, <2>3 DEF PageArrives
  <2>6. /\ prepared' /\ UNCHANGED <<fed, cursor, veryFirst, completers, first>>
    BY <1>9 DEF PageArrives
  <2>7. UpTo(bar - 1)' = UpTo(cursor)
    BY <1>0, <2>5 DEF UpTo
  <2> QED
    BY <1>0, <2>1, <2>2, <2>4, <2>5, <2>6, <2>7 DEF PageInv, GateLabels, BetweenPages
<1>10. CASE BarBegins
  <2>1. pc[Driver] = "bar" /\ pc'[Driver] = "ingest"
    BY <1>0, <1>10 DEF BarBegins, Step, TypeOK
  <2>2. bar \in Good /\ cur'[Driver] = bar /\ seen'[Driver] /\ bar' = bar + 1
    BY <1>0, <1>10 DEF BarBegins, Good, TypeOK
  <2>3. UpTo(bar - 2)' = UpTo(bar - 1) /\ fed' = fed
    BY <1>0, <1>10, <2>2 DEF BarBegins, UpTo
  <2> QED
    BY <1>0, <1>10, <2>1, <2>2, <2>3 DEF BarBegins, PageInv, GateLabels, BetweenPages
<1>11. CASE BarSkipped
  <2>1. /\ pc[Driver] = "bar" /\ pc' = pc /\ bar' = bar + 1 /\ bar \notin Good
        /\ bar <= page.hi
    BY <1>11 DEF BarSkipped, Good
  <2>2. UpTo(bar - 1)' = UpTo(bar) /\ bar - 1 \in Nat /\ bar = (bar - 1) + 1
    BY <1>0, <2>1 DEF UpTo, TypeOK
  <2>3. UpTo(bar) = UpTo(bar - 1)
    BY <2>1, <2>2, UpToFacts
  <2>4. /\ pc'[Driver] = "bar"
        /\ UNCHANGED <<fed, cursor, veryFirst, page, completers, first, prepared>>
    BY <1>11, <2>1 DEF BarSkipped
  <2>5. /\ cursor' < bar' /\ bar' <= page.hi + 1 /\ fed' = UpTo(bar - 1)'
    BY <1>0, <2>1, <2>2, <2>3, <2>4 DEF PageInv, TypeOK
  <2> QED
    BY <1>0, <2>1, <2>4, <2>5 DEF PageInv, GateLabels, BetweenPages
<1>12. CASE PageReplayed
  <2>1. pc[Driver] = "bar" /\ pc'[Driver] = "query"
    BY <1>0, <1>12 DEF PageReplayed, Step, TypeOK
  <2>2. bar - 1 = page.hi /\ page.hi # 0 /\ fed = UpTo(bar - 1)
    BY <1>0, <1>12, <2>1 DEF PageReplayed, PageInv
  <2>3. UpTo(cursor)' = UpTo(bar - 1)
    BY <1>12, <2>2 DEF PageReplayed, UpTo
  <2> QED
    BY <1>0, <1>12, <2>1, <2>2, <2>3 DEF PageReplayed, PageInv, GateLabels, BetweenPages
<1>13. CASE PageUnusable
  <2>1. pc[Driver] = "bar" /\ pc'[Driver] = "wait"
    BY <1>0, <1>13 DEF PageUnusable, DriverLeaves, Step, TypeOK
  <2>2. fed = {} /\ fed = UpTo(bar - 1) /\ cursor <= bar - 1 /\ bar - 1 \in Nat
    BY <1>0, <1>13, <2>1 DEF PageUnusable, PageInv
  <2>3. fed = UpTo(cursor)
    BY <1>0, <2>2, UpToFacts
  <2>4. UpTo(cursor)' = UpTo(cursor)
    BY <1>13 DEF PageUnusable, DriverLeaves, UpTo
  <2> QED
    BY <1>13, <2>1, <2>3, <2>4
    DEF PageUnusable, DriverLeaves, PageInv, GateLabels, BetweenPages
<1>14. CASE WindowReplayed
  <2>1. pc[Driver] = "bar" /\ pc'[Driver] = "done"
    BY <1>0, <1>14 DEF WindowReplayed, Step, TypeOK
  <2> QED
    BY <1>14, <2>1 DEF WindowReplayed, PageInv, GateLabels, BetweenPages
<1> QED
  BY <1>4, <1>5, <1>6, <1>7, <1>8, <1>9, <1>10, <1>11, <1>12, <1>13, <1>14
  DEF DriverThread, Answer

(***************************************************************************)
(* Types, for every window, page size and set of pushers.                  *)
(***************************************************************************)

LEMMA TypeAndPage ==
  ASSUME TypeOK, PageInv, [Next]_vars PROVE TypeOK' /\ PageInv'
<1>1. CASE UNCHANGED vars
  BY <1>1
  DEF vars, driverVars, pushVars, gateVars, stopVars, histVars, TypeOK, PageInv, UpTo
<1>2. CASE Next
  BY <1>2, TypeDriver, TypeGateway, TypePush, TypeWorker, PageDriver, PageGateway,
     PagePush, PageWorker
  DEF Next
<1> QED
  BY <1>1, <1>2

(* Whatever the two sources do, the driver's page, cursor and program      *)
(* counter stay in the window and tell exactly which bars it has fed.      *)
THEOREM ReplayTypes == Spec => [](TypeOK /\ PageInv)
<1>1. Init => TypeOK /\ PageInv
  BY TypeInit, PageInit
<1>2. (TypeOK /\ PageInv) /\ [Next]_vars => (TypeOK /\ PageInv)'
  BY TypeAndPage
<1> QED
  BY <1>1, <1>2, PTL DEF Spec

-----------------------------------------------------------------------------
(***************************************************************************)
(* Stopping.  No step gives the driver a new bar once the shutdown has     *)
(* begun, so at most the one already on its way through the gateway is     *)
(* late; and the join leaves no driver that could still handle one.        *)
(***************************************************************************)

OnItsWay == {"ingest", "mark", "journal", "call"}

StopInv ==
  /\ late \in Nat /\ late <= 1
  /\ ~inProgress => late = 0
  /\ late > 0 => pc[Driver] \notin OnItsWay
  /\ onStop => ~live
  /\ ~live => inProgress /\ pc[Driver] \in {"unborn", "done", "dead"}

(* A driver step outside the gateway.                                      *)
LEMMA StopDriver ==
  ASSUME TypeOK, StopInv, DriverThread PROVE StopInv'
<1> USE DEF driverVars, pushVars, gateVars, stopVars, histVars
<1>0. Driver \in Feeders
  BY DEF Feeders
<1>1. /\ UNCHANGED <<late, inProgress, onStop, live>>
  BY DEF DriverThread, DriverStarts, DriverEnters, DriverSeesStop, DriverGivesUp,
         DriverQueries, Answer, QueryFails, PageArrives, EmptyPage,
         EmptyPageContinues, WaitOver, TailOver, WaitStopped, BarStops, BarBegins,
         BarSkipped, PauseOver, PageReplayed, PageUnusable, WindowReplayed,
         DriverLeaves, DriverCompletes
<1>2. CASE BarBegins
  <2>1. ~inProgress /\ pc[Driver] = "bar"
    BY <1>2 DEF BarBegins, Step
  <2> QED
    BY <1>1, <2>1 DEF StopInv
<1>3. CASE ~BarBegins
  <2>1. /\ pc'[Driver] \notin OnItsWay
        /\ pc[Driver] \in {"unborn", "done", "dead"} => live
    <3>1. CASE DriverStarts \/ DriverEnters \/ DriverSeesStop \/ DriverGivesUp
               \/ DriverQueries
      BY <1>0, <3>1
      DEF DriverStarts, DriverEnters, DriverSeesStop, DriverGivesUp, DriverQueries,
          DriverLeaves, DriverCompletes, Step, TypeOK, OnItsWay
    <3>2. CASE Answer \/ WaitOver \/ TailOver
               \/ \E from \in {"wait", "tail", "pause"} : WaitStopped(from)
      BY <1>0, <3>2
      DEF Answer, QueryFails, PageArrives, EmptyPage, EmptyPageContinues, WaitOver,
          TailOver, WaitStopped, DriverLeaves, DriverCompletes, Step, TypeOK, OnItsWay
    <3>3. CASE BarStops \/ BarSkipped \/ PauseOver \/ PageReplayed \/ PageUnusable
               \/ WindowReplayed
      BY <1>0, <3>3
      DEF BarStops, BarSkipped, PauseOver, PageReplayed, PageUnusable,
          WindowReplayed, DriverLeaves, Step, TypeOK, OnItsWay
    <3> QED
      BY <1>3, <3>1, <3>2, <3>3 DEF DriverThread
  <2> QED
    BY <1>1, <2>1 DEF StopInv
<1> QED
  BY <1>2, <1>3

LEMMA StopGateway ==
  ASSUME TypeOK, StopInv, NEW f \in Feeders, Gateway(f) PROVE StopInv'
<1> USE DEF driverVars, pushVars, gateVars, stopVars, histVars
<1>0. Driver \in Feeders /\ UNCHANGED <<inProgress, onStop, live>>
  BY DEF Feeders, Gateway, IngestSetsClock, MarkFirstData, RecordFirstData,
         RecordRaises, ApplyEvent, HookReturns
<1>1. CASE f # Driver
  <2>1. pc'[Driver] = pc[Driver] /\ late' = late
    BY <1>0, <1>1
    DEF Gateway, IngestSetsClock, MarkFirstData, RecordFirstData, RecordRaises,
        ApplyEvent, HookReturns, Called, Step, TypeOK
  <2> QED
    BY <1>0, <2>1 DEF StopInv
<1>2. CASE f = Driver /\ ApplyEvent(f)
  <2>1. pc[Driver] = "call" /\ pc'[Driver] \in {"handle", "pause"}
    BY <1>0, <1>2 DEF ApplyEvent, Step, TypeOK
  <2>2. late = 0 /\ late' \in {0, IF inProgress THEN 1 ELSE 0}
    BY <1>2, <2>1 DEF ApplyEvent, Called, StopInv, OnItsWay
  <2> QED
    BY <1>0, <2>1, <2>2 DEF StopInv, OnItsWay
<1>3. CASE f = Driver /\ ~ApplyEvent(f)
  <2>1. /\ late' = late
        /\ pc[Driver] \in OnItsWay \cup {"handle"}
        /\ pc'[Driver] \in OnItsWay => pc[Driver] \in OnItsWay
    BY <1>0, <1>3
    DEF Gateway, IngestSetsClock, MarkFirstData, RecordFirstData, RecordRaises,
        HookReturns, Step, TypeOK, OnItsWay
  <2> QED
    BY <1>0, <2>1 DEF StopInv, OnItsWay
<1> QED
  BY <1>1, <1>2, <1>3

LEMMA StopPush ==
  ASSUME TypeOK, StopInv, NEW p \in Pushers, PushArrives(p) \/ Push(p)
  PROVE  StopInv'
<1> USE DEF driverVars, pushVars, gateVars, stopVars, histVars
<1>0. p # Driver /\ p \in Feeders /\ Driver \in Feeders
  BY DEF Feeders
<1>1. pc'[Driver] = pc[Driver] /\ UNCHANGED <<late, inProgress, onStop, live>>
  BY <1>0 DEF PushArrives, Push, PushBegins, PushEvent, PushStamps, PushEnds, Step, TypeOK
<1> QED
  BY <1>1 DEF StopInv

LEMMA StopWorker ==
  ASSUME TypeOK, StopInv, Worker \/ StopRequested \/ Prepare \/ Down
  PROVE  StopInv'
<1> USE DEF driverVars, pushVars, gateVars, stopVars, histVars, StopInv
<1>1. CASE Bind \/ Prepare \/ Down \/ StopClearsAdapter \/ StopStrategy
  BY <1>1 DEF Bind, Prepare, Down, vars, StopClearsAdapter, StopStrategy
<1>2. CASE JobCompleted \/ StopRequested
  BY <1>2 DEF JobCompleted, StopRequested, StopBegins
<1>3. CASE StopSignalsFeed \/ StopJoinsFeed
  BY <1>3 DEF StopSignalsFeed, StopJoinsFeed
<1> QED
  BY <1>1, <1>2, <1>3 DEF Worker

LEMMA StopInductive == Spec => []StopInv
<1>1. Init => StopInv
  BY DEF Init, StopInv, Feeders, OnItsWay
<1>2. TypeOK /\ StopInv /\ [Next]_vars => StopInv'
  <2> SUFFICES ASSUME TypeOK, StopInv, [Next]_vars PROVE StopInv'
    OBVIOUS
  <2>1. CASE UNCHANGED vars
    BY <2>1 DEF vars, stopVars, histVars, StopInv
  <2>2. CASE Next
    BY <2>2, StopDriver, StopGateway, StopPush, StopWorker DEF Next
  <2> QED
    BY <2>1, <2>2
<1> QED
  BY <1>1, <1>2, ReplayTypes, PTL DEF Spec

(* Once the shutdown has begun the driver gives the strategy at most one   *)
(* more bar, however long its window, its pages and its queries are.       *)
THEOREM StopPrompt == Spec => []StopIsPrompt
<1>1. StopInv => StopIsPrompt
  BY DEF StopInv, StopIsPrompt
<1> QED
  BY <1>1, StopInductive, PTL

(* The driver never has the strategy handle a bar after its on_stop.       *)
THEOREM NoLateBar == Spec => []NoBarAfterOnStop
<1>1. StopInv => NoBarAfterOnStop
  BY DEF StopInv, NoBarAfterOnStop
<1> QED
  BY <1>1, StopInductive, PTL

-----------------------------------------------------------------------------
(***************************************************************************)
(* The promise of ReplayWindow, for a worker that only the driver feeds.   *)
(***************************************************************************)

LEMMA FirstStep ==
  ASSUME Pushers = {}, TypeOK, PageInv, FirstInv, [Next]_vars
  PROVE  FirstInv'
<1> USE DEF driverVars, pushVars, gateVars, stopVars, histVars
<1>0. Driver \in Feeders /\ cursor \in 0 .. Bars
  BY DEF Feeders, TypeOK
<1>1. ASSUME UNCHANGED <<first, cursor>>, prepared => prepared',
             pc'[Driver] = "tail" => pc[Driver] = "tail"
      PROVE  FirstInv'
  BY <1>1 DEF FirstInv
<1>2. CASE UNCHANGED vars
  BY <1>1, <1>2 DEF vars
<1>3. CASE Worker \/ StopRequested \/ Prepare \/ Down
  <2>1. UNCHANGED <<pc, first, cursor>> /\ (prepared => prepared')
    BY <1>3 DEF Worker, Bind, JobCompleted, StopRequested, StopBegins,
       StopSignalsFeed, StopJoinsFeed, StopStrategy, StopClearsAdapter, Prepare,
       Down, vars
  <2> QED
    BY <1>1, <2>1
<1>4. CASE Gateway(Driver)
  <2>1. pc[Driver] \in GateLabels /\ pc'[Driver] # "tail" /\ prepared' = prepared
    BY <1>0, <1>4
    DEF Gateway, IngestSetsClock, MarkFirstData, RecordFirstData, RecordRaises,
        ApplyEvent, HookReturns, Step, TypeOK, GateLabels
  <2>2. prepared
    BY <2>1 DEF PageInv
  <2> QED
    BY <2>1, <2>2 DEF FirstInv
<1>5. CASE EmptyPage
  <2>1. pc[Driver] = "answer" /\ pc'[Driver] = IF first THEN "tail" ELSE "wait"
    BY <1>0, <1>5 DEF EmptyPage, DriverLeaves, Step, TypeOK
  <2>2. veryFirst <=> cursor = 0
    BY <2>1 DEF PageInv, BetweenPages
  <2>3. first => cursor = Bars
    BY <1>0, <1>5, <2>2 DEF EmptyPage, FirstInv, PageStart
  <2>4. UNCHANGED <<first, cursor, prepared>>
    BY <1>5 DEF EmptyPage, DriverLeaves
  <2> QED
    BY <2>1, <2>3, <2>4 DEF FirstInv
<1>6. CASE DriverThread /\ ~EmptyPage
  <2>1. pc'[Driver] # "tail"
    <3>1. CASE DriverStarts \/ DriverEnters \/ DriverSeesStop \/ DriverGivesUp
               \/ DriverQueries
      BY <1>0, <3>1
      DEF DriverStarts, DriverEnters, DriverSeesStop, DriverGivesUp, DriverQueries,
          DriverLeaves, DriverCompletes, Step, TypeOK
    <3>2. CASE QueryFails \/ PageArrives \/ EmptyPageContinues \/ WaitOver
               \/ TailOver \/ \E from \in {"wait", "tail", "pause"} : WaitStopped(from)
      BY <1>0, <3>2
      DEF QueryFails, PageArrives, EmptyPageContinues, WaitOver,
          TailOver, WaitStopped, DriverLeaves, DriverCompletes, Step, TypeOK
    <3>3. CASE BarStops \/ BarBegins \/ BarSkipped \/ PauseOver \/ PageReplayed
               \/ PageUnusable \/ WindowReplayed
      BY <1>0, <3>3
      DEF BarStops, BarBegins, BarSkipped, PauseOver, PageReplayed, PageUnusable,
          WindowReplayed, DriverLeaves, Step, TypeOK
    <3> QED
      BY <1>6, <3>1, <3>2, <3>3 DEF DriverThread, Answer
  <2>2. UNCHANGED <<first, prepared>>
    BY <1>6
    DEF DriverThread, DriverStarts, DriverEnters, DriverSeesStop, DriverGivesUp,
        DriverQueries, Answer, QueryFails, PageArrives, EmptyPageContinues,
        WaitOver, TailOver, WaitStopped, BarStops, BarBegins, BarSkipped,
        PauseOver, PageReplayed, PageUnusable, WindowReplayed, DriverLeaves,
        DriverCompletes
  <2> QED
    BY <2>1, <2>2 DEF FirstInv
<1> QED
  BY <1>2, <1>3, <1>4, <1>5, <1>6 DEF Next, DriverThread, Answer, Feeders

(* Every step of the worker is a step of the promise, or none.             *)
LEMMA StepKeepsPromise ==
  ASSUME Pushers = {}, TypeOK, PageInv, FirstInv, [Next]_vars
  PROVE  [Promise!WindowNext]_<<fed, Driver \in completers, feedStop>>
<1> USE DEF driverVars, pushVars, gateVars, stopVars, histVars
<1>0. Driver \in Feeders /\ bar \in Nat
  BY DEF Feeders, TypeOK
<1>1. ASSUME UNCHANGED <<fed, completers, feedStop>>
      PROVE  UNCHANGED <<fed, Driver \in completers, feedStop>>
  BY <1>1
<1>2. ASSUME UNCHANGED <<fed, completers>>, feedStop' \in BOOLEAN
      PROVE  Promise!Cut
  BY <1>2 DEF Promise!Cut
<1>3. ASSUME completers' = completers \cup {Driver}, UNCHANGED <<fed, feedStop>>,
             fed = Good \/ feedStop
      PROVE  Promise!Finish
  BY <1>3 DEF Promise!Finish
<1>4. CASE UNCHANGED vars
  BY <1>1, <1>4 DEF vars
<1>5. CASE Worker \/ StopRequested \/ Prepare \/ Down
  <2>1. UNCHANGED <<fed, completers>> /\ feedStop' \in BOOLEAN
    BY <1>5 DEF Worker, Bind, JobCompleted, StopRequested, StopBegins,
       StopSignalsFeed, StopJoinsFeed, StopStrategy, StopClearsAdapter, Prepare,
       Down, vars, TypeOK
  <2> QED
    BY <1>2, <2>1 DEF Promise!WindowNext
<1>6. CASE ApplyEvent(Driver)
  <2>1. pc[Driver] = "call"
    BY <1>6 DEF ApplyEvent, Step
  <2>2. /\ cur[Driver] = bar - 1 /\ seen[Driver] /\ bar > 1
        /\ bar - 1 \in Good /\ fed = UpTo(bar - 2) /\ Driver \notin completers
    BY <2>1 DEF PageInv, GateLabels
  <2>3. fed' = fed \cup {bar - 1} /\ UNCHANGED <<completers, feedStop>>
    BY <1>6, <2>2 DEF ApplyEvent, Called
  <2>4. /\ bar - 1 \in Good \ fed
        /\ \A c \in Good : c < bar - 1 => c \in fed
        /\ \A c \in fed : c < bar - 1
    BY <1>0, <2>2 DEF UpTo, Good
  <2> QED
    BY <2>2, <2>3, <2>4 DEF Promise!WindowNext, Promise!Give
<1>7. CASE Gateway(Driver) /\ ~ApplyEvent(Driver)
  BY <1>1, <1>7
  DEF Gateway, IngestSetsClock, MarkFirstData, RecordFirstData, RecordRaises,
      HookReturns
<1>8. CASE DriverSeesStop
  BY <1>3, <1>8 DEF DriverSeesStop, DriverCompletes, Promise!WindowNext
<1>9. CASE TailOver
  <2>1. pc[Driver] = "tail"
    BY <1>9 DEF TailOver, DriverCompletes, Step
  <2>2. fed = Good
    BY <2>1, UpToFacts DEF PageInv, FirstInv, BetweenPages
  <2> QED
    BY <1>3, <1>9, <2>2 DEF TailOver, DriverCompletes, Promise!WindowNext
<1>10. CASE WindowReplayed
  <2>1. pc[Driver] = "bar"
    BY <1>10 DEF WindowReplayed, Step
  <2>2. page.hi = Bars /\ bar - 1 = Bars
    BY <1>0, <1>10, <2>1 DEF WindowReplayed, PageInv, TypeOK
  <2>3. fed = Good
    BY <2>1, <2>2, UpToFacts DEF PageInv
  <2> QED
    BY <1>3, <1>10, <2>3 DEF WindowReplayed, Promise!WindowNext
<1>11. CASE DriverStarts
  BY <1>2, <1>11 DEF DriverStarts, Promise!WindowNext
<1>12. CASE DriverEnters \/ DriverGivesUp \/ DriverQueries \/ Answer \/ WaitOver
            \/ (\E from \in {"wait", "tail", "pause"} : WaitStopped(from))
            \/ BarStops \/ BarBegins \/ BarSkipped \/ PauseOver
            \/ PageReplayed \/ PageUnusable
  BY <1>1, <1>12
  DEF DriverEnters, DriverGivesUp, DriverQueries, Answer, QueryFails, PageArrives,
      EmptyPage, EmptyPageContinues, WaitOver, WaitStopped, BarStops, BarBegins,
      BarSkipped, PauseOver, PageReplayed, PageUnusable, DriverLeaves
<1> QED
  BY <1>4, <1>5, <1>6, <1>7, <1>8, <1>9, <1>10, <1>11, <1>12
  DEF Next, DriverThread, Feeders

(* Only the start of the driver takes the stop event back.                 *)
LEMMA FeedStopStays ==
  ASSUME Pushers = {}, ~DriverStarts, feedStop, [Next]_vars PROVE feedStop'
<1> USE DEF stopVars
<1>1. CASE DriverThread
  BY <1>1
  DEF DriverThread, DriverEnters, DriverSeesStop, DriverGivesUp, DriverQueries,
      Answer, QueryFails, PageArrives, EmptyPage, EmptyPageContinues, WaitOver,
      TailOver, WaitStopped, BarStops, BarBegins, BarSkipped, PauseOver,
      PageReplayed, PageUnusable, WindowReplayed, DriverLeaves, DriverCompletes
<1>2. CASE \E f \in Feeders : Gateway(f)
  BY <1>2
  DEF Gateway, IngestSetsClock, MarkFirstData, RecordFirstData, RecordRaises,
      ApplyEvent, HookReturns
<1>3. CASE Worker \/ StopRequested \/ Prepare \/ Down \/ UNCHANGED vars
  BY <1>3
  DEF Worker, Bind, JobCompleted, StopRequested, StopBegins, StopSignalsFeed,
      StopJoinsFeed, StopStrategy, StopClearsAdapter, Prepare, Down, vars
<1> QED
  BY <1>1, <1>2, <1>3 DEF Next

LEMMA DriverInductive == ASSUME Pushers = {} PROVE Spec => []DriverInv
<1>1. Init => DriverInv
  BY TypeInit, PageInit DEF DriverInv
<1>2. DriverInv /\ [Next]_vars => DriverInv'
  BY TypeAndPage, FirstStep DEF DriverInv
<1> QED
  BY <1>1, <1>2, PTL DEF Spec

(* A worker that only the driver feeds replays its window as ReplayWindow  *)
(* promises, for every window, warm-up, page size and set of unusable      *)
(* bars, whatever the service answers and whenever the worker is stopped.  *)
THEOREM DriverReplaysWindow == ASSUME Pushers = {} PROVE Spec => ReplaysWindow
<1>1. Init => Promise!WindowInit
  BY DEF Init, Promise!WindowInit
<1>2. DriverInv /\ [Next]_vars
        => [Promise!WindowNext]_<<fed, Driver \in completers, feedStop>>
  BY StepKeepsPromise DEF DriverInv
<1> QED
  BY <1>1, <1>2, DriverInductive, PTL
  DEF Spec, ReplaysWindow, Promise!WindowSpec, Promise!windowVars

(* Such a driver declares the job complete only with every usable bar of   *)
(* the window replayed, or while the worker is being stopped.              *)
THEOREM CompletesWhole == ASSUME Pushers = {} PROVE Spec => []CompletionIsWhole
<1>1. Init => CompletionIsWhole
  BY DEF Init, CompletionIsWhole
<1>2. DriverInv /\ CompletionIsWhole /\ [Next]_vars => CompletionIsWhole'
  <2> SUFFICES ASSUME DriverInv, CompletionIsWhole, [Next]_vars,
                      Driver \in completers'
               PROVE  fed' = Good \/ feedStop'
    BY DEF CompletionIsWhole
  <2>1. [Promise!WindowNext]_<<fed, Driver \in completers, feedStop>>
    BY StepKeepsPromise DEF DriverInv
  <2>2. CASE Promise!Give \/ Promise!Finish
    BY <2>2 DEF Promise!Give, Promise!Finish, CompletionIsWhole
  <2>3. CASE ~Promise!Give /\ ~Promise!Finish
    <3>1. Driver \in completers /\ fed' = fed
      BY <2>1, <2>3 DEF Promise!WindowNext, Promise!Cut
    <3>2. feedStop => feedStop'
      <4>1. ~DriverStarts
        BY <3>1 DEF DriverStarts, Step, DriverInv, PageInv, BetweenPages
      <4> QED
        BY <4>1, FeedStopStays
    <3> QED
      BY <3>1, <3>2 DEF CompletionIsWhole
  <2> QED
    BY <2>2, <2>3
<1> QED
  BY <1>1, <1>2, DriverInductive, PTL DEF Spec
=============================================================================
