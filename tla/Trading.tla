------------------------------ MODULE Trading ------------------------------
(***************************************************************************)
(* A worker that trades live, seen from its journal: the main thread that  *)
(* starts, serves and stops it, the heartbeat thread, and the feed thread  *)
(* that brings events to the strategy.  Strategy code runs on the feed     *)
(* thread (hooks) and on the main thread (on_stop) and places orders from  *)
(* both.  All of them record in one journal, which may fail; the process   *)
(* may crash at any step and is started again on the same files.           *)
(***************************************************************************)
EXTENDS RuntimeJournal, OrderIntents, StrategyEvents, FiniteSets

CONSTANTS
  MaxEvents,   \* bound: events handed over, per process
  MaxBeats,    \* bound: heartbeats of the periodic thread, per process
  MaxFaults,   \* bound: journal writes and indicators that fail
  MaxCrashes   \* bound: crashes

VARIABLES
  main,       \* the main thread's place in Program
  phase,      \* LifecycleService._phase
  closing,    \* _shutdown_in_progress
  beat,       \* the heartbeat thread: off, idle, checked, recording, ended
  late,       \* threads whose join timed out
  delivered,  \* the events the feed has handed over, a restart may again
  beats, faults, crashes

processVars == <<main, phase, closing, beat, late>>
boundVars   == <<delivered, beats, faults, crashes>>
vars == <<processVars, journalVars, orderVars, eventVars, boundVars>>

Plain(kind, state) ==
  [kind |-> kind, state |-> state, id |-> 0, result |-> "none"]

Phases == {"none", "INITIALIZING", "READY", "RUNNING", "STOPPING", "STOPPED"}

(* The main thread, the heartbeat thread and the feed record; strategy code*)
(* runs on the feed (hooks) and on the main thread (on_stop).              *)
ASSUME CallersAssumption ==
  {"main", "beat", "feed"} \subseteq Threads /\ Callers = {"main", "feed"}

(* The journal takes what they record.                                     *)
ASSUME EntriesAssumption ==
  /\ \A k \in {"phase", "heartbeat", "step", "terminated", "first_data"},
        s \in Phases : Plain(k, s) \in Entries
  /\ \A i \in 0 .. MaxIntents, r \in Results :
        [kind |-> "order", state |-> "none", id |-> i, result |-> r] \in Entries

Do(what, state) == [do |-> what, state |-> state]

(* __init__, start() and run(), then stop().  A step record next to        *)
(* another record, with nothing in between that a thread could see, is     *)
(* part of it.                                                             *)
Program == <<
  Do("phase", "INITIALIZING"), Do("phase", "READY"), Do("beat", "none"),
  Do("start_beats", "none"),   Do("phase", "RUNNING"), Do("beat", "none"),
  Do("serve", "none"),
  Do("close", "none"),         Do("join_feed", "none"),
  Do("step", "none"),          Do("join_beats", "none"),
  Do("phase", "STOPPING"),     Do("on_stop", "none"),
  Do("terminated", "STOPPED"), Do("phase", "STOPPED") >>

Serve   == CHOOSE n \in 1 .. Len(Program) : Program[n].do = "serve"
Ended   == Len(Program) + 1
Aborted == 0   \* stop(), start() or run() left by an exception
Doing(what) == main \in 1 .. Len(Program) /\ Program[main].do = what

ProcessInit ==
  /\ main = 1 /\ phase = "none" /\ closing = FALSE
  /\ beat = "off" /\ late = {}

Init ==
  /\ ProcessInit /\ JournalInit /\ OrdersInit /\ EventsInit
  /\ delivered = {} /\ beats = 0 /\ faults = 0 /\ crashes = 0

Free(t) == call[t] = NoCall
Live    == ~closing /\ phase \in {"READY", "RUNNING"}

(***************************************************************************)
(* The main thread                                                         *)
(***************************************************************************)
(* _set_phase: the field first, then the journal.                          *)
SetPhase ==
  /\ Doing("phase") /\ Record("main", Plain("phase", Program[main].state))
  /\ phase' = Program[main].state
  /\ UNCHANGED <<main, closing, beat, late, orderVars, eventVars, boundVars>>

(* The heartbeat of start() and the one of run().                          *)
MainBeats ==
  /\ Doing("beat") /\ Live /\ Record("main", Plain("heartbeat", phase))
  /\ UNCHANGED <<processVars, orderVars, eventVars, boundVars>>

RecordStep ==
  /\ Doing("step") /\ Record("main", Plain("step", "none"))
  /\ UNCHANGED <<processVars, orderVars, eventVars, boundVars>>

(* emit_terminated: the event carries the final state before _set_phase.   *)
EmitTerminated ==
  /\ Doing("terminated")
  /\ Record("main", Plain("terminated", Program[main].state))
  /\ UNCHANGED <<processVars, orderVars, eventVars, boundVars>>

Moves(n) == main' = n /\ UNCHANGED <<journalVars, orderVars, eventVars, boundVars>>

StartBeats ==
  /\ Doing("start_beats") /\ beat' = "idle"
  /\ Moves(main + 1) /\ UNCHANGED <<phase, closing, late>>

(* A stop is asked for while the worker serves.                            *)
StopBegins ==
  /\ Doing("serve") /\ Moves(main + 1)
  /\ UNCHANGED <<phase, closing, beat, late>>

Closes ==
  /\ Doing("close") /\ closing' = TRUE
  /\ Record("main", Plain("step", "none"))
  /\ UNCHANGED <<main, phase, beat, late, orderVars, eventVars, boundVars>>

(* Joins wait for the thread, or for their timeout: 60 s, interval + 2 s.  *)
JoinFeed ==
  /\ Doing("join_feed") /\ Moves(main + 1)
  /\ late' = late \cup IF at = "idle" THEN {} ELSE {"feed"}
  /\ UNCHANGED <<phase, closing, beat>>

(* Mutant of JoinBeats: the thread is told to stop and not waited for.     *)
JoinBeatsForgets ==
  /\ Doing("join_beats") /\ Moves(main + 1)
  /\ beat' = IF beat = "idle" THEN "ended" ELSE beat
  /\ UNCHANGED <<phase, closing, late>>

JoinBeats ==
  /\ Doing("join_beats") /\ Moves(main + 1)
  /\ beat' = IF beat = "idle" THEN "ended" ELSE beat
  /\ late' = late \cup IF beat = "idle" THEN {} ELSE {"beat"}
  /\ UNCHANGED <<phase, closing>>

(* _stop_strategy_loop: on_stop of the strategy returns.                   *)
OnStopEnds ==
  /\ Doing("on_stop") /\ intent["main"] = NoIntent
  /\ Moves(main + 1) /\ UNCHANGED <<phase, closing, beat, late>>

(***************************************************************************)
(* The heartbeat thread: emit_periodic_heartbeat checks, then reads the    *)
(* phase once more for the report, whose event the gateway records first.  *)
(***************************************************************************)
BeatChecks ==
  /\ beat = "idle" /\ beats < MaxBeats /\ Live
  /\ beat' = "checked" /\ beats' = beats + 1
  /\ UNCHANGED <<main, phase, closing, late, journalVars, orderVars, eventVars,
                 delivered, faults, crashes>>

BeatRecords ==
  /\ beat = "checked" /\ Record("beat", Plain("heartbeat", phase))
  /\ beat' = "recording"
  /\ UNCHANGED <<main, phase, closing, late, orderVars, eventVars, boundVars>>

(***************************************************************************)
(* The feed thread and the strategy                                        *)
(***************************************************************************)
FeedDispatches ==
  /\ main >= Serve /\ Live /\ Free("feed") /\ intent["feed"] = NoIntent
  /\ Cardinality(delivered) < MaxEvents
  /\ \E e \in Events \ delivered :
       /\ Dispatch(e) /\ delivered' = delivered \cup {e}
       /\ IF first THEN NoRecord ELSE Record("feed", Plain("first_data", "none"))
  /\ UNCHANGED <<processVars, orderVars, beats, faults, crashes>>

BridgeApplies ==
  /\ Apply
  /\ UNCHANGED <<processVars, journalVars, orderVars, boundVars>>

BridgeAdvances ==
  /\ \/ Advance /\ faults' = faults
     \/ /\ faults < MaxFaults /\ faults' = faults + 1
        /\ \E n \in 1 .. Len(Indicators) : IndicatorRaises(n)
  /\ UNCHANGED <<processVars, journalVars, orderVars, delivered, beats, crashes>>

HookReturns ==
  /\ HookEnds /\ intent["feed"] = NoIntent
  /\ UNCHANGED <<processVars, journalVars, orderVars, boundVars>>

InStrategy(t) == IF t = "feed" THEN at = "hook" ELSE Doing("on_stop")

(* An order that cannot be placed raises into the strategy, which may      *)
(* catch it: nothing changes here.  Otherwise it is submitted; without a   *)
(* gRPC call the callback records it at once.                              *)
PlaceOrder(t) ==
  /\ InStrategy(t) /\ Free(t)
  /\ \E o \in Orders : Placeable(o)
  /\ Submit(t, created_at(stamp, clock), IF t = "feed" THEN ev.ts ELSE 0)
  /\ IF egress = "disabled" THEN Record(t, OrderEntry(intent'[t])) ELSE NoRecord
  /\ UNCHANGED <<processVars, eventVars, boundVars>>

CallAnswered(t) ==
  /\ Answered(t)
  /\ Record(t, OrderEntry(intent'[t]))
  /\ UNCHANGED <<processVars, eventVars, boundVars>>

CallRaises(t) ==
  /\ Raised(t)
  /\ Record(t, OrderEntry(intent'[t]))
  /\ UNCHANGED <<processVars, eventVars, boundVars>>

(***************************************************************************)
(* The journal on behalf of a thread                                       *)
(***************************************************************************)
(* What the thread does when its record is over: ok, and committed or not. *)
(* An error reaches the boundary of the first event, the heartbeat loop's  *)
(* handler, the gateway or the submitter, or ends start, run or stop.      *)
Continues(t, ok, committed) ==
  \/ /\ t \in Callers /\ intent[t] # NoIntent
     /\ GatewayNotified(t, committed) \/ CallbackDone(t)
     /\ UNCHANGED <<processVars, eventVars>>
  \/ /\ t = "feed" /\ intent[t] = NoIntent
     /\ IF ok THEN FirstRecorded ELSE FirstLost
     /\ UNCHANGED <<processVars, orderVars>>
  \/ /\ t = "main" /\ intent[t] = NoIntent
     /\ main' = IF ok THEN main + 1 ELSE Aborted
     /\ UNCHANGED <<phase, closing, beat, late, orderVars, eventVars>>
  \/ /\ t = "beat" /\ beat' = IF "beat" \in late THEN "ended" ELSE "idle"
     /\ UNCHANGED <<main, phase, closing, late, orderVars, eventVars>>

(* After the gateway's record comes the callback's.                        *)
NextCall(t) ==
  IF t \in Callers /\ intent'[t] # NoIntent THEN Recording(OrderEntry(intent'[t]))
  ELSE NoCall

RecordCommits(t) ==
  /\ Commit(t)
  /\ UNCHANGED <<processVars, orderVars, eventVars, boundVars>>

RecordEnds(t) ==
  /\ call[t].at = "committed" /\ Continues(t, TRUE, TRUE)
  /\ WriteLine(t, NextCall(t)) /\ UNCHANGED boundVars

JournalRetries(t) ==
  /\ faults < MaxFaults /\ faults' = faults + 1
  /\ DatabaseLocked(t)
  /\ UNCHANGED <<processVars, orderVars, eventVars, delivered, beats, crashes>>

JournalRaises(t) ==
  /\ faults < MaxFaults /\ faults' = faults + 1
  /\ \/ /\ MayWrite(t) /\ Continues(t, FALSE, FALSE)
        /\ CommitFails(t, NextCall(t))
     \/ /\ call[t].at = "committed" /\ Continues(t, FALSE, TRUE)
        /\ LineFails(t, NextCall(t))
  /\ UNCHANGED <<delivered, beats, crashes>>

(***************************************************************************)
(* Crash and restart: the process is new, the files and the risk service   *)
(* remember.                                                               *)
(***************************************************************************)
Crash ==
  /\ crashes < MaxCrashes /\ crashes' = crashes + 1
  /\ JournalDies
  /\ main' = 1 /\ phase' = "none" /\ closing' = FALSE
  /\ beat' = "off" /\ late' = {}
  /\ intent' = [t \in Callers |-> NoIntent]
  /\ ev' = NoEvent /\ at' = "idle" /\ first' = FALSE /\ stamp' = 0 /\ clock' = 0
  /\ data' = [k \in Kinds |-> <<>>] /\ values' = [n \in Names |-> 0]
  /\ delivered' = {} /\ beats' = 0
  /\ UNCHANGED <<egress, ids, faults>>

MainStep ==
  \/ SetPhase \/ MainBeats \/ RecordStep \/ EmitTerminated
  \/ StartBeats \/ Closes \/ JoinFeed \/ JoinBeats \/ OnStopEnds
StrategyStep(t) == PlaceOrder(t) \/ CallAnswered(t) \/ CallRaises(t)
JournalStep(t) ==
  RecordCommits(t) \/ RecordEnds(t) \/ JournalRetries(t) \/ JournalRaises(t)

Next ==
  \/ MainStep \/ StopBegins
  \/ BeatChecks \/ BeatRecords
  \/ FeedDispatches \/ BridgeApplies \/ BridgeAdvances \/ HookReturns
  \/ \E t \in Callers : StrategyStep(t)
  \/ \E t \in Threads : JournalStep(t)
  \/ Crash

Spec == Init /\ [][Next]_vars

(* The worker's own threads go on; the risk service's call ends within its *)
(* timeout and on_stop returns.  Nothing is asked of the hooks: a hook     *)
(* that never returns is what the join's timeout is for.                   *)
FairSpec ==
  /\ Spec
  /\ WF_vars(MainStep) /\ WF_vars(BeatRecords)
  /\ \A t \in Threads : WF_vars(RecordCommits(t) \/ RecordEnds(t))
  /\ \A t \in Callers : WF_vars(CallAnswered(t) \/ CallRaises(t))

-----------------------------------------------------------------------------
TypeOK ==
  /\ JournalTypeOK /\ OrdersTypeOK /\ EventsTypeOK
  /\ main \in 0 .. Ended /\ closing \in BOOLEAN
  /\ phase \in Phases
  /\ beat \in {"off", "idle", "checked", "recording", "ended"}
  /\ late \subseteq {"feed", "beat"}

(* An intent placed in a hook is dated by the event of that hook, not by   *)
(* an earlier event or by one that came meanwhile                          *)
(* (_intent_created_at_for_payload, _peek_last_data_event_timestamp).      *)
IntentDatedByItsEvent ==
  \A t \in Callers : intent[t].of # 0 => intent[t].stamp = intent[t].of

(* When an intent is done with, the journal has the answer under its id,   *)
(* unless both of its two records failed; no row of the id says otherwise, *)
(* and an intent whose call raised has no row of its own                   *)
(* (OmsGateway._notify_order_intent_result, _submit).                      *)
RowsOf(i)   == {r \in intents : r.id = i.id}
Settled(t)  == intent[t].at = "callback" /\ intent'[t] = NoIntent /\ crashes' = crashes
Unwritten(t) ==
  call[t].at # "committed" /\ (intent[t].missed \/ egress = "disabled")
AnsweredIntentJournalled ==
  [][ \A t \in Callers : Settled(t) =>
        /\ \A r \in RowsOf(intent[t]) :
             ~intent[t].raised /\ r.result = intent[t].result
        /\ RowsOf(intent[t]) # {} \/ intent[t].raised \/ Unwritten(t) ]_vars

(* Once the worker has stopped, the instance row says so and keeps saying  *)
(* so, unless the join of the heartbeat thread timed out                   *)
(* (record_lifecycle_event writes the phase a heartbeat read earlier).     *)
StoppedRowStays == main = Ended /\ "beat" \notin late => row = "STOPPED"

(* A stop runs to its end, or to an exception of the journal: no thread    *)
(* keeps the journal's lock or the strategy's threads from it.             *)
StopEnds == (main > Serve) ~> (main \in {Ended, Aborted} \/ main < Serve)
=============================================================================
