--------------------------- MODULE Trading_proofs ---------------------------
(***************************************************************************)
(* Theorems about a worker that trades: what the journal keeps of its      *)
(* phases and of its orders, and what a hook of the strategy sees; for any *)
(* number of events, intents, heartbeats, failures and crashes.            *)
(***************************************************************************)
EXTENDS Trading, RuntimeJournal_proofs, FiniteSetTheorems

(* The main thread's program, as the proofs use it.                        *)
LEMMA ProgramFacts ==
  /\ Len(Program) = 15 /\ Ended = 16 /\ Serve = 7
  /\ \A n \in 1 .. 15 : Program[n].do = "on_stop" => n = 13
  /\ Program[13].do = "on_stop"
  /\ \A n \in 1 .. 15 : Program[n].do = "join_beats" => n = 11
  /\ \A n \in 1 .. 15 : Program[n].do = "start_beats" => n = 4
  /\ \A n \in 1 .. 15 : Program[n].do = "serve" => n = 7
  /\ \A n \in 1 .. 15 : Program[n].do = "join_feed" => n = 9
  /\ \A n \in 1 .. 15 :
       Program[n].do \in {"phase", "beat", "step", "terminated", "close"} =>
         n \in {1, 2, 3, 5, 6, 8, 10, 12, 14, 15}
  /\ Program[15].do = "phase" /\ Program[15].state = "STOPPED"
  /\ \A n \in 1 .. 15 : Program[n].state \in Phases
<1>1. /\ Len(Program) = 15
      /\ Program[1] = Do("phase", "INITIALIZING") /\ Program[2] = Do("phase", "READY")
      /\ Program[3] = Do("beat", "none") /\ Program[4] = Do("start_beats", "none")
      /\ Program[5] = Do("phase", "RUNNING") /\ Program[6] = Do("beat", "none")
      /\ Program[7] = Do("serve", "none") /\ Program[8] = Do("close", "none")
      /\ Program[9] = Do("join_feed", "none") /\ Program[10] = Do("step", "none")
      /\ Program[11] = Do("join_beats", "none") /\ Program[12] = Do("phase", "STOPPING")
      /\ Program[13] = Do("on_stop", "none") /\ Program[14] = Do("terminated", "STOPPED")
      /\ Program[15] = Do("phase", "STOPPED")
  BY DEF Program
<1>2. \A what, state : Do(what, state).do = what /\ Do(what, state).state = state
  BY DEF Do
<1>3. \A n \in 1 .. 15 : Program[n].do = "serve" <=> n = 7
  BY <1>1, <1>2
<1>4. Serve = 7
  BY <1>1, <1>3 DEF Serve
<1>5. \A n \in 1 .. 15 : Program[n].state \in Phases
  BY <1>1, <1>2 DEF Phases
<1> QED BY <1>1, <1>2, <1>4, <1>5 DEF Ended

(* The record of an order is one the journal takes.                        *)
LEMMA OrderEntries ==
  ASSUME NEW i \in Intents, i # NoIntent, i.result # "none"
  PROVE  OrderEntry(i) \in Entries /\ OrderEntry(i).kind = "order"
         /\ OrderEntry(i).id = (IF i.known THEN i.id ELSE 0)
         /\ OrderEntry(i).result = i.result /\ OrderEntry(i).state = "none"
<1>1. (IF i.known THEN i.id ELSE 0) \in 0 .. MaxIntents /\ i.result \in Results
  BY IntentsAssumption DEF Intents, NoIntent
<1> QED BY <1>1, EntriesAssumption DEF OrderEntry

-----------------------------------------------------------------------------
(* What the operations of the journal do to the calls.                     *)
LEMMA RecordFacts ==
  ASSUME JournalInv, NEW t \in Threads, NEW e, Record(t, e)
  PROVE  /\ call[t] = NoCall
         /\ call'[t] # NoCall /\ call'[t].at = "waiting" /\ call'[t].entry = e
         /\ \A u \in Threads \ {t} : call'[u] = call[u]
         /\ UNCHANGED <<intents, row>>
  BY DEF Record, JournalInv, JournalTypeOK, Recording, NoCall

LEMMA MayWriteFacts ==
  ASSUME JournalInv, NEW t \in Threads, MayWrite(t)
  PROVE  /\ call[t] # NoCall /\ call[t] \in Calls
         /\ \A u \in Threads \ {t} : call[u].at # "committed"
  BY OnlyWriter DEF MayWrite, NoCall, JournalInv, JournalTypeOK, Holding

LEMMA CommitFacts ==
  ASSUME JournalInv, NEW t \in Threads, Commit(t)
  PROVE  /\ call[t] # NoCall /\ call'[t] # NoCall /\ call'[t].entry = call[t].entry
         /\ call'[t].at = "committed"
         /\ \A u \in Threads \ {t} : call'[u] = call[u] /\ call[u].at # "committed"
         /\ Inserted(call[t].entry)
<1>1. MayWrite(t)
  BY DEF Commit
<1>2. call' = [call EXCEPT ![t] = [call[t] EXCEPT !.at = "committed", !.after = Committed]]
  BY <1>1, MayWriteFacts DEF Commit, JournalInv, JournalTypeOK
<1>3. /\ call'[t] = [call[t] EXCEPT !.at = "committed", !.after = Committed]
      /\ \A u \in Threads \ {t} : call'[u] = call[u]
  BY <1>2 DEF JournalInv, JournalTypeOK
<1>4. call'[t].at = "committed" /\ call'[t].entry = call[t].entry
  BY <1>1, <1>3, MayWriteFacts DEF Calls, NoCall
<1>5. call'[t] # NoCall
  BY <1>4 DEF NoCall
<1>6. Inserted(call[t].entry)
  BY DEF Commit
<1> QED BY <1>1, <1>3, <1>4, <1>5, <1>6, MayWriteFacts

LEMMA LockedFacts ==
  ASSUME JournalInv, NEW t \in Threads, DatabaseLocked(t)
  PROVE  /\ call[t] # NoCall /\ call'[t] # NoCall /\ call'[t].entry = call[t].entry
         /\ call'[t].at = "retrying"
         /\ \A u \in Threads \ {t} : call'[u] = call[u]
         /\ UNCHANGED <<intents, row>>
<1>1. MayWrite(t)
  BY DEF DatabaseLocked
<1>2. call' = [call EXCEPT ![t] = [call[t] EXCEPT !.at = "retrying", !.tries = @ + 1]]
  BY <1>1, MayWriteFacts DEF DatabaseLocked, JournalInv, JournalTypeOK
<1>3. /\ call'[t] = [call[t] EXCEPT !.at = "retrying", !.tries = @ + 1]
      /\ \A u \in Threads \ {t} : call'[u] = call[u]
  BY <1>2 DEF JournalInv, JournalTypeOK
<1>4. call'[t].at = "retrying" /\ call'[t].entry = call[t].entry
  BY <1>1, <1>3, MayWriteFacts DEF Calls, NoCall
<1>5. call'[t] # NoCall
  BY <1>4 DEF NoCall
<1>6. UNCHANGED <<intents, row>>
  BY DEF DatabaseLocked
<1> QED BY <1>1, <1>3, <1>4, <1>5, <1>6, MayWriteFacts

(* A record that is over leaves the other calls as they are: no earlier    *)
(* row waits for its line.                                                 *)
LEMMA OverFacts ==
  ASSUME JournalInv, NEW t \in Threads, NEW next,
         WriteLine(t, next) \/ CommitFails(t, next) \/ LineFails(t, next)
  PROVE  /\ call[t] # NoCall
         /\ call'[t] = next
         /\ \A u \in Threads \ {t} : call'[u] = call[u]
         /\ UNCHANGED <<intents, row>>
<1>1. call[t] # NoCall /\ Over(t, next)
  BY DEF WriteLine, CommitFails, LineFails, MayWrite, NoCall
<1>2. ASSUME NEW u \in Threads \ {t} PROVE call'[u] = call[u]
  <2>1. call'[u] = [call[u] EXCEPT !.after = @ \ {t}]
    BY <1>1, <1>2 DEF Over
  <2>2. call[u] \in Calls /\ call[u].after = {}
    BY DEF JournalInv, JournalTypeOK, NoneBefore
  <2>3. call[u].after \ {t} = call[u].after
    BY <2>2
  <2>4. [call[u] EXCEPT !.after = call[u].after \ {t}] = call[u]
    BY <2>2, <2>3 DEF Calls, NoCall
  <2> QED BY <2>1, <2>4
<1> QED BY <1>1, <1>2 DEF Over

-----------------------------------------------------------------------------
(* What the operations on an intent do.                                    *)
HasIntent(t) == t \in Callers /\ intent[t] # NoIntent

LEMMA NoIntentIsNowhere == NoIntent.at = "none"
  BY DEF NoIntent

LEMMA SubmitFacts ==
  ASSUME OrdersTypeOK, NEW t \in Callers, NEW s \in Nat, NEW o \in Nat, Submit(t, s, o)
  PROVE  /\ OrdersTypeOK' /\ intent[t] = NoIntent /\ ids' = ids + 1 /\ egress' = egress
         /\ \A u \in Callers \ {t} : intent'[u] = intent[u]
         /\ intent'[t] # NoIntent /\ intent'[t].id = ids' /\ intent'[t].known
         /\ ~intent'[t].raised /\ intent'[t].stamp = s /\ intent'[t].of = o
         /\ egress = "disabled" =>
              intent'[t].at = "callback" /\ intent'[t].result = "unavailable"
         /\ egress # "disabled" => intent'[t].at = "calling"
<1> DEFINE new == [id |-> ids + 1, known |-> TRUE, raised |-> FALSE, stamp |-> s, of |-> o,
                   at |-> IF egress = "disabled" THEN "callback" ELSE "calling",
                   result |-> IF egress = "disabled" THEN "unavailable" ELSE "none",
                   missed |-> FALSE]
<1>1. intent' = [intent EXCEPT ![t] = new] /\ ids < MaxIntents /\ ids' = ids + 1
      /\ intent[t] = NoIntent /\ egress' = egress
  BY DEF Submit
<1>2. ids' \in 1 .. MaxIntents
  BY <1>1, IntentsAssumption DEF OrdersTypeOK
<1>3. new \in Intents /\ new # NoIntent /\ new.id = ids'
  BY <1>1, <1>2 DEF Intents, NoIntent, Results
<1>4. intent'[t] = new /\ \A u \in Callers \ {t} : intent'[u] = intent[u]
  BY <1>1 DEF OrdersTypeOK
<1>5. OrdersTypeOK'
  BY <1>1, <1>2, <1>3 DEF OrdersTypeOK
<1> QED BY <1>1, <1>3, <1>4, <1>5

LEMMA AnsweredFacts ==
  ASSUME OrdersTypeOK, NEW t \in Callers, Answered(t)
  PROVE  /\ OrdersTypeOK' /\ UNCHANGED <<ids, egress>> /\ intent[t].at = "calling"
         /\ \A u \in Callers \ {t} : intent'[u] = intent[u]
         /\ intent'[t] = [intent[t] EXCEPT !.at = "gateway", !.result = "answered"]
         /\ intent'[t] \in Intents /\ intent'[t] # NoIntent
         /\ intent'[t].at = "gateway" /\ intent'[t].result = "answered"
         /\ intent'[t].id = intent[t].id /\ intent'[t].known = intent[t].known
         /\ intent'[t].raised = intent[t].raised
         /\ intent'[t].stamp = intent[t].stamp /\ intent'[t].of = intent[t].of
<1> DEFINE new == [intent[t] EXCEPT !.at = "gateway", !.result = "answered"]
<1>1. intent[t] \in Intents /\ intent[t] # NoIntent /\ intent[t].at = "calling"
  BY DEF Answered, OrdersTypeOK, NoIntent
<1>2. intent' = [intent EXCEPT ![t] = new]
  BY DEF Answered, OrdersTypeOK
<1>3. /\ new \in Intents /\ new.at = "gateway" /\ new.result = "answered"
      /\ new.id = intent[t].id /\ new.known = intent[t].known
      /\ new.raised = intent[t].raised
      /\ new.stamp = intent[t].stamp /\ new.of = intent[t].of
  BY <1>1 DEF Intents, Results
<1>4. intent'[t] = new /\ \A u \in Callers \ {t} : intent'[u] = intent[u]
  BY <1>2 DEF OrdersTypeOK
<1>5. intent'[t] # NoIntent
  BY <1>3, <1>4, NoIntentIsNowhere
<1>6. OrdersTypeOK' /\ UNCHANGED <<ids, egress>>
  BY <1>2, <1>3 DEF OrdersTypeOK, Answered
<1> QED BY <1>1, <1>3, <1>4, <1>5, <1>6

LEMMA RaisedFacts ==
  ASSUME OrdersTypeOK, NEW t \in Callers, Raised(t)
  PROVE  /\ OrdersTypeOK' /\ UNCHANGED <<ids, egress>> /\ intent[t].at = "calling"
         /\ \A u \in Callers \ {t} : intent'[u] = intent[u]
         /\ intent'[t] = [intent[t] EXCEPT !.at = "callback", !.known = FALSE,
                                           !.raised = TRUE, !.result = "unavailable"]
         /\ intent'[t] \in Intents /\ intent'[t] # NoIntent
         /\ intent'[t].at = "callback" /\ ~intent'[t].known /\ intent'[t].raised
         /\ intent'[t].result = "unavailable" /\ intent'[t].id = intent[t].id
         /\ intent'[t].stamp = intent[t].stamp /\ intent'[t].of = intent[t].of
<1> DEFINE new == [intent[t] EXCEPT !.at = "callback", !.known = FALSE,
                                    !.raised = TRUE, !.result = "unavailable"]
<1>1. intent[t] \in Intents /\ intent[t] # NoIntent /\ intent[t].at = "calling"
  BY DEF Raised, OrdersTypeOK, NoIntent
<1>2. intent' = [intent EXCEPT ![t] = new]
  BY DEF Raised, OrdersTypeOK
<1>3. /\ new \in Intents /\ new.at = "callback" /\ new.known = FALSE /\ new.raised = TRUE
      /\ new.result = "unavailable" /\ new.id = intent[t].id
      /\ new.stamp = intent[t].stamp /\ new.of = intent[t].of
  BY <1>1 DEF Intents, Results
<1>4. intent'[t] = new /\ \A u \in Callers \ {t} : intent'[u] = intent[u]
  BY <1>2 DEF OrdersTypeOK
<1>5. intent'[t] # NoIntent
  BY <1>3, <1>4, NoIntentIsNowhere
<1>6. OrdersTypeOK' /\ UNCHANGED <<ids, egress>>
  BY <1>2, <1>3 DEF OrdersTypeOK, Raised
<1> QED BY <1>1, <1>3, <1>4, <1>5, <1>6

LEMMA NotifiedFacts ==
  ASSUME OrdersTypeOK, NEW t \in Callers, NEW c \in BOOLEAN, GatewayNotified(t, c)
  PROVE  /\ OrdersTypeOK' /\ UNCHANGED <<ids, egress>> /\ intent[t].at = "gateway"
         /\ \A u \in Callers \ {t} : intent'[u] = intent[u]
         /\ intent'[t] \in Intents /\ intent'[t] # NoIntent
         /\ intent'[t].at = "callback" /\ (~c => intent'[t].missed)
         /\ intent'[t].id = intent[t].id /\ intent'[t].known = intent[t].known
         /\ intent'[t].raised = intent[t].raised /\ intent'[t].result = intent[t].result
         /\ intent'[t].stamp = intent[t].stamp /\ intent'[t].of = intent[t].of
<1> DEFINE new == [intent[t] EXCEPT !.at = "callback", !.missed = ~c]
<1>1. intent[t] \in Intents /\ intent[t] # NoIntent /\ intent[t].at = "gateway"
  BY DEF GatewayNotified, OrdersTypeOK, NoIntent
<1>2. intent' = [intent EXCEPT ![t] = new]
  BY DEF GatewayNotified, OrdersTypeOK
<1>3. /\ new \in Intents /\ new.at = "callback" /\ (~c => new.missed)
      /\ new.id = intent[t].id /\ new.known = intent[t].known
      /\ new.raised = intent[t].raised /\ new.result = intent[t].result
      /\ new.stamp = intent[t].stamp /\ new.of = intent[t].of
  BY <1>1 DEF Intents
<1>4. intent'[t] = new /\ \A u \in Callers \ {t} : intent'[u] = intent[u]
  BY <1>2 DEF OrdersTypeOK
<1>5. intent'[t] # NoIntent
  BY <1>3, <1>4, NoIntentIsNowhere
<1>6. OrdersTypeOK' /\ UNCHANGED <<ids, egress>>
  BY <1>2, <1>3 DEF OrdersTypeOK, GatewayNotified
<1> QED BY <1>1, <1>3, <1>4, <1>5, <1>6

LEMMA CallbackFacts ==
  ASSUME OrdersTypeOK, NEW t \in Callers, CallbackDone(t)
  PROVE  /\ OrdersTypeOK' /\ UNCHANGED <<ids, egress>> /\ intent[t].at = "callback"
         /\ \A u \in Callers \ {t} : intent'[u] = intent[u]
         /\ intent'[t] = NoIntent
<1>1. intent' = [intent EXCEPT ![t] = NoIntent] /\ NoIntent \in Intents
  BY DEF CallbackDone, Intents
<1> QED BY <1>1 DEF CallbackDone, OrdersTypeOK

-----------------------------------------------------------------------------
(* Why HookSeesItsEvent and IntentDatedByItsEvent are inductive: only an   *)
(* event whose kind has a hook takes the bridge, which has the event's     *)
(* time from the dispatch on, its data from Apply on and its indicators    *)
(* from Advance on.                                                        *)
EventInv ==
  /\ data \in [Kinds -> Seq(Nat)]
  /\ at \in {"bridge", "applied"} => ev.kind \in Hooks
  /\ at \in {"bridge", "applied", "hook"} => stamp = ev.ts
  /\ at = "applied" \/ (at = "hook" /\ ev.kind \in Hooks) =>
       clock = ev.ts /\ latest(ev.kind) = ev.ts
  /\ at = "hook" /\ ev.kind \in Hooks => WorldShows(ev)

(* What happens to an event, as it meets the other actors.                 *)
EventStep ==
  \/ \E e \in Events : Dispatch(e)
  \/ FirstRecorded \/ FirstLost \/ Apply \/ Advance \/ HookEnds
  \/ \E n \in 1 .. Len(Indicators) : IndicatorRaises(n)

EventsDie ==
  /\ ev' = NoEvent /\ at' = "idle" /\ first' = FALSE /\ stamp' = 0 /\ clock' = 0
  /\ data' = [k \in Kinds |-> <<>>] /\ values' = [n \in Names |-> 0]

LEMMA EventFacts ==
  ASSUME EventsTypeOK, at # "idle"
  PROVE  ev \in Events /\ ev.kind \in Kinds /\ ev.ts \in Nat \ {0} /\ ev # NoEvent
  BY EventsAssumption DEF EventsTypeOK

(* Storing an event makes it the latest of its kind.                       *)
LEMMA StoredIsLatest ==
  ASSUME EventsTypeOK, EventInv, at # "idle", data' = Stored
  PROVE  /\ data' \in [Kinds -> Seq(Nat)]
         /\ latest(ev.kind)' = ev.ts \/ ev' # ev
<1>1. /\ ev.kind \in Kinds /\ ev.ts \in Nat /\ data[ev.kind] \in Seq(Nat)
  BY EventFacts DEF EventInv
<1>2. ASSUME NEW s \in Seq(Nat), NEW x \in Nat
      PROVE  Append(s, x) \in Seq(Nat) /\ Append(s, x) # <<>> /\ Last(Append(s, x)) = x
  BY <1>2 DEF Last
<1>3. <<ev.ts>> \in Seq(Nat) /\ <<ev.ts>> # <<>> /\ Last(<<ev.ts>>) = ev.ts
  BY <1>1 DEF Last
<1> DEFINE new == IF ev.kind = "bar" THEN Append(data[ev.kind], ev.ts) ELSE <<ev.ts>>
<1>4. new \in Seq(Nat) /\ new # <<>> /\ Last(new) = ev.ts
  BY <1>1, <1>2, <1>3
<1>5. data' = [data EXCEPT ![ev.kind] = new]
  BY DEF Stored, EventInv
<1> HIDE DEF new
<1>6. data' \in [Kinds -> Seq(Nat)] /\ data'[ev.kind] = new
  BY <1>1, <1>4, <1>5 DEF EventInv
<1> QED BY <1>4, <1>6 DEF latest

LEMMA EventsKept ==
  ASSUME EventsTypeOK, EventInv, EventStep \/ EventsDie \/ UNCHANGED eventVars
  PROVE  EventsTypeOK' /\ EventInv'
<1> USE DEF EventsTypeOK, EventInv
<1>n. NoEvent \notin Events /\ NoEvent.ts = 0
  BY EventsAssumption DEF NoEvent, Kinds
<1>1. ASSUME NEW e \in Events, Dispatch(e) PROVE EventsTypeOK' /\ EventInv'
  <2>1. e.kind \in Kinds /\ e.ts \in Nat \ {0}
    BY EventsAssumption
  <2>2. /\ ev' = e /\ at' \in {"first", "bridge", "hook"} /\ first' = TRUE
        /\ stamp' \in {e.ts, stamp} /\ UNCHANGED <<clock, data, values>>
        /\ at' = "bridge" => e.kind \in Hooks
        /\ at' = "hook" => e.kind \notin Hooks
        /\ at' # "first" => stamp' = e.ts
    BY <1>1 DEF Dispatch, Routed, replay_sdk_hook_overridden
  <2> QED BY <1>n, <2>1, <2>2
<1>2. CASE FirstRecorded
  <2>1. /\ ev' = ev /\ at' \in {"bridge", "hook"} /\ first' = first
        /\ stamp' = ev.ts /\ UNCHANGED <<clock, data, values>>
        /\ at' = "bridge" => ev.kind \in Hooks
        /\ at' = "hook" => ev.kind \notin Hooks
        /\ at # "idle"
    BY <1>2 DEF FirstRecorded, Routed, replay_sdk_hook_overridden
  <2> QED BY <2>1, EventFacts
<1>3. CASE FirstLost \/ HookEnds
  BY <1>3 DEF FirstLost, HookEnds, EventEnds
<1>4. CASE Apply
  <2>1. /\ clock' = ev.ts /\ at = "bridge" /\ UNCHANGED <<first, stamp, values>>
    BY <1>4 DEF Apply
  <2>2. CASE ev.valid /\ at' = "applied" /\ ev' = ev /\ data' = Stored
    <3>1. data' \in [Kinds -> Seq(Nat)] /\ latest(ev.kind)' = ev.ts
      BY <2>1, <2>2, StoredIsLatest
    <3> QED BY <2>1, <2>2, <3>1, EventFacts
  <2>3. CASE EventEnds /\ data' = data
    BY <2>1, <2>3, EventFacts DEF EventEnds
  <2> QED BY <1>4, <2>2, <2>3 DEF Apply
<1>5. ASSUME at = "applied", NEW n \in 0 .. Len(Indicators), values' = Advanced(n)
      PROVE  values' \in [Names -> Nat]
  BY <1>5, EventFacts DEF Advanced
<1>6. CASE Advance
  <2>1. /\ at = "applied" /\ at' = "hook" /\ values' = Advanced(Len(Indicators))
        /\ UNCHANGED <<ev, first, stamp, clock, data>>
    BY <1>6 DEF Advance
  <2>2. Len(Indicators) \in 0 .. Len(Indicators)
    BY IndicatorsAssumption
  <2>3. latest(ev.kind)' = ev.ts /\ clock = ev.ts
    BY <2>1 DEF latest
  <2>4. \A i \in 1 .. Len(Indicators) :
          Indicators[i].source = ev.kind => values'[Indicators[i].name] = ev.ts
    BY <2>1 DEF Advanced, Names
  <2>5. WorldShows(ev)'
    BY <2>1, <2>3, <2>4 DEF WorldShows
  <2> QED BY <1>5, <2>1, <2>3, <2>5
<1>7. ASSUME NEW n \in 1 .. Len(Indicators), IndicatorRaises(n)
      PROVE  EventsTypeOK' /\ EventInv'
  <2>1. /\ at = "applied" /\ at' = "idle" /\ ev' = NoEvent /\ values' = Advanced(n - 1)
        /\ UNCHANGED <<first, stamp, clock, data>>
    BY <1>7 DEF IndicatorRaises, EventEnds
  <2>2. n - 1 \in 0 .. Len(Indicators)
    OBVIOUS
  <2> QED BY <1>5, <2>1, <2>2
<1>8. CASE EventsDie
  <2>1. /\ ev' = NoEvent /\ at' = "idle" /\ first' = FALSE /\ stamp' = 0 /\ clock' = 0
    BY <1>8 DEF EventsDie
  <2>2. values' \in [Names -> Nat]
    BY <1>8 DEF EventsDie
  <2>3. <<>> \in Seq(Nat)
    OBVIOUS
  <2>4. data' \in [Kinds -> Seq(Nat)]
    BY <1>8, <2>3 DEF EventsDie
  <2> QED BY <2>1, <2>2, <2>4
<1>9. CASE UNCHANGED eventVars
  BY <1>9 DEF eventVars, latest, WorldShows
<1> QED BY <1>1, <1>2, <1>3, <1>4, <1>6, <1>7, <1>8, <1>9 DEF EventStep

-----------------------------------------------------------------------------
(* Why AnsweredIntentJournalled is inductive: a thread that has an intent  *)
(* records that intent and nothing else, the ids are never used twice, and *)
(* what the journal has under an id is the answer of its intent.           *)
RecordInv ==
  \A t \in Threads : call[t] # NoCall =>
    /\ t \in {"main", "beat", "feed"}
    /\ HasIntent(t) => call[t].entry = OrderEntry(intent[t])
    /\ ~HasIntent(t) => call[t].entry.kind # "order"

OrderOK(t) ==
  HasIntent(t) =>
    /\ intent[t].id \in 1 .. ids
    /\ (intent[t].at = "calling") <=> (call[t] = NoCall)
    /\ intent[t].known <=> ~intent[t].raised
    /\ intent[t].at \in {"calling", "gateway"} => ~intent[t].raised
    /\ intent[t].at = "calling" => RowsOf(intent[t]) = {}
    /\ intent[t].at # "calling" => intent[t].result # "none"
    /\ \A r \in RowsOf(intent[t]) : ~intent[t].raised /\ r.result = intent[t].result
    /\ call[t].at = "committed" /\ ~intent[t].raised => RowsOf(intent[t]) # {}
    /\ \/ RowsOf(intent[t]) # {} \/ intent[t].raised \/ intent[t].missed
       \/ intent[t].at # "callback" \/ egress = "disabled"

OrderInv ==
  /\ \A r \in intents : r.id \in 0 .. ids
  /\ \A t, u \in Callers : t # u /\ HasIntent(t) => intent[t].id # intent[u].id
  /\ \A t \in Callers : OrderOK(t)

(* Strategy code runs on the main thread in on_stop only.                  *)
IntentInv ==
  /\ HasIntent("main") => main = 13
  /\ IntentDatedByItsEvent

(* Why StoppedRowStays is inductive: after its join a heartbeat thread that*)
(* has ended records nothing, the feed's records carry no state, and the   *)
(* main thread's last record carries STOPPED.                              *)
StopInv ==
  /\ (beat = "recording") <=> (call["beat"] # NoCall)
  /\ main \in 1 .. 4 => beat = "off"
  /\ main > 11 /\ "beat" \notin late => beat = "ended"
  /\ call["feed"] # NoCall => call["feed"].entry.state = "none"
  /\ call["main"] # NoCall =>
       \/ main \in {1, 2, 3, 5, 6, 8, 10, 12, 14, 15}
       \/ main = 13 /\ HasIntent("main")
  /\ main = 15 /\ call["main"] # NoCall => call["main"].entry.state = "STOPPED"
  /\ main = 15 /\ call["main"].at = "committed" => row = "STOPPED"
  /\ StoppedRowStays

TradingInv ==
  /\ TypeOK /\ JournalInv /\ EventInv
  /\ RecordInv /\ OrderInv /\ IntentInv /\ StopInv

LEMMA WorkerThreads ==
  /\ "main" \in Threads /\ "beat" \in Threads /\ "feed" \in Threads
  /\ Callers = {"main", "feed"} /\ Callers \subseteq Threads
  BY CallersAssumption

(* A record that is not of an order, by a thread that has no intent.       *)
LEMMA PlainRecorded ==
  ASSUME TradingInv, NEW t \in {"main", "beat", "feed"}, NEW e \in Entries,
         Record(t, e), ~HasIntent(t), e.kind # "order", UNCHANGED orderVars
  PROVE  RecordInv' /\ OrderInv'
<1> USE WorkerThreads DEF TradingInv, orderVars
<1>1. /\ call[t] = NoCall /\ call'[t] # NoCall /\ call'[t].at = "waiting"
      /\ call'[t].entry = e /\ \A u \in Threads \ {t} : call'[u] = call[u]
      /\ UNCHANGED <<intents, row>>
  BY RecordFacts
<1>2. RecordInv'
  BY <1>1 DEF RecordInv, HasIntent
<1>3. \A u \in Callers : OrderOK(u) => OrderOK(u)'
  BY <1>1 DEF OrderOK, HasIntent, RowsOf
<1> QED BY <1>1, <1>2, <1>3 DEF OrderInv, HasIntent

(* The row of a record that is not of an order changes no order's rows; the*)
(* row of an order has its id, unless its call has raised.                 *)
LEMMA RecordCommitted ==
  ASSUME TradingInv, NEW t \in Threads, Commit(t), UNCHANGED orderVars
  PROVE  RecordInv' /\ OrderInv'
<1> USE WorkerThreads DEF TradingInv, orderVars
<1>1. /\ call[t] # NoCall /\ call'[t] # NoCall /\ call'[t].entry = call[t].entry
      /\ call'[t].at = "committed"
      /\ \A u \in Threads \ {t} : call'[u] = call[u] /\ call[u].at # "committed"
      /\ Inserted(call[t].entry)
  BY CommitFacts
<1>2. RecordInv'
  BY <1>1 DEF RecordInv, HasIntent
<1>3. CASE ~HasIntent(t)
  <2>1. intents' = intents
    BY <1>1, <1>3 DEF RecordInv, Inserted
  <2>2. \A u \in Callers : OrderOK(u) => OrderOK(u)'
    BY <1>1, <1>3, <2>1 DEF OrderOK, HasIntent, RowsOf
  <2> QED BY <1>2, <2>1, <2>2 DEF OrderInv, HasIntent
<1>4. CASE HasIntent(t)
  <2> DEFINE e == call[t].entry
  <2>1. e = OrderEntry(intent[t]) /\ t \in Callers /\ intent[t] # NoIntent
        /\ intent[t] \in Intents
    BY <1>1, <1>4 DEF RecordInv, HasIntent, TypeOK, OrdersTypeOK
  <2>2. OrderOK(t) /\ intent[t].at # "calling" /\ intent[t].result # "none"
    BY <1>1, <1>4 DEF OrderInv, OrderOK, HasIntent
  <2>3. /\ e.kind = "order" /\ e.result = intent[t].result
        /\ e.id = IF intent[t].raised THEN 0 ELSE intent[t].id
    BY <2>1, <2>2, <1>4, OrderEntries DEF OrderOK
  <2>4. intents' = intents \cup {e}
    BY <1>1, <2>3 DEF Inserted
  <2>5. intent[t].id \in 1 .. ids /\ ids \in Nat
    BY <1>4, <2>2 DEF OrderOK, TypeOK, OrdersTypeOK
  <2>6. OrderOK(t)'
    <3>1. CASE intent[t].raised
      <4>1. RowsOf(intent[t])' = RowsOf(intent[t])
        BY <2>3, <2>4, <2>5, <3>1 DEF RowsOf
      <4> QED BY <1>1, <1>4, <2>2, <3>1, <4>1 DEF OrderOK, HasIntent
    <3>2. CASE ~intent[t].raised
      <4>1. RowsOf(intent[t])' = RowsOf(intent[t]) \cup {e}
        BY <2>3, <2>4, <3>2 DEF RowsOf
      <4> HIDE DEF e
      <4> QED BY <1>1, <1>4, <2>2, <2>3, <3>2, <4>1 DEF OrderOK, HasIntent
    <3> QED BY <3>1, <3>2
  <2>7. ASSUME NEW u \in Callers \ {t} PROVE OrderOK(u)'
    <3>1. OrderOK(u)
      BY DEF OrderInv
    <3>2. ASSUME HasIntent(u) PROVE RowsOf(intent[u])' = RowsOf(intent[u])
      <4>1. intent[u].id # intent[t].id /\ intent[u].id \in 1 .. ids
        BY <1>4, <2>7, <3>1, <3>2 DEF OrderInv, HasIntent, OrderOK
      <4>2. e.id # intent[u].id
        BY <2>3, <2>5, <4>1
      <4> QED BY <2>4, <4>2 DEF RowsOf
    <3> QED BY <1>1, <2>7, <3>1, <3>2 DEF OrderOK, HasIntent
  <2>8. \A r \in intents' : r.id \in 0 .. ids'
    BY <2>3, <2>4, <2>5 DEF OrderInv
  <2> QED BY <1>2, <2>6, <2>7, <2>8 DEF OrderInv, HasIntent
<1> QED BY <1>3, <1>4

LEMMA RecordRetried ==
  ASSUME TradingInv, NEW t \in Threads, DatabaseLocked(t), UNCHANGED orderVars
  PROVE  RecordInv' /\ OrderInv'
<1> USE WorkerThreads DEF TradingInv, orderVars
<1>1. /\ call[t] # NoCall /\ call'[t] # NoCall /\ call'[t].entry = call[t].entry
      /\ call'[t].at = "retrying"
      /\ \A u \in Threads \ {t} : call'[u] = call[u]
      /\ UNCHANGED <<intents, row>>
  BY LockedFacts
<1>2. RecordInv'
  BY <1>1 DEF RecordInv, HasIntent
<1>3. \A u \in Callers : OrderOK(u) => OrderOK(u)'
  BY <1>1 DEF OrderOK, HasIntent, RowsOf
<1> QED BY <1>1, <1>2, <1>3 DEF OrderInv, HasIntent

(* The strategy places an order, the call is answered, the call raises.    *)
LEMMA OrderPlaced ==
  ASSUME TradingInv, NEW t \in Callers, PlaceOrder(t)
  PROVE  /\ OrdersTypeOK' /\ RecordInv' /\ OrderInv' /\ intent[t] = NoIntent
         /\ InStrategy(t) /\ UNCHANGED <<processVars, eventVars, boundVars>>
         /\ intent'[t].stamp = created_at(stamp, clock)
         /\ intent'[t].of = (IF t = "feed" THEN ev.ts ELSE 0)
         /\ \A u \in Callers \ {t} : intent'[u] = intent[u]
         /\ \/ UNCHANGED journalVars
            \/ Record(t, OrderEntry(intent'[t])) /\ OrderEntry(intent'[t]) \in Entries
                 /\ OrderEntry(intent'[t]).state = "none" /\ intent'[t] # NoIntent
<1> USE WorkerThreads DEF TradingInv
<1>1. /\ InStrategy(t) /\ call[t] = NoCall /\ UNCHANGED <<processVars, eventVars, boundVars>>
      /\ Submit(t, created_at(stamp, clock), IF t = "feed" THEN ev.ts ELSE 0)
      /\ IF egress = "disabled" THEN Record(t, OrderEntry(intent'[t])) ELSE NoRecord
  BY DEF PlaceOrder, Free
<1>2. created_at(stamp, clock) \in Nat /\ (IF t = "feed" THEN ev.ts ELSE 0) \in Nat
  BY <1>1, EventFacts DEF created_at, TypeOK, EventsTypeOK, InStrategy
<1>3. /\ OrdersTypeOK' /\ intent[t] = NoIntent /\ ids' = ids + 1 /\ egress' = egress
      /\ \A u \in Callers \ {t} : intent'[u] = intent[u]
      /\ intent'[t] # NoIntent /\ intent'[t].id = ids' /\ intent'[t].known
      /\ ~intent'[t].raised /\ intent'[t].stamp = created_at(stamp, clock)
      /\ intent'[t].of = (IF t = "feed" THEN ev.ts ELSE 0)
      /\ egress = "disabled" =>
           intent'[t].at = "callback" /\ intent'[t].result = "unavailable"
      /\ egress # "disabled" => intent'[t].at = "calling"
  BY <1>1, <1>2, SubmitFacts DEF TypeOK
<1>4. \A u \in Callers \ {t} : HasIntent(u) => intent[u].id \in 1 .. ids
  BY DEF OrderInv, OrderOK
<1>5. RowsOf(intent'[t]) = {} /\ ids \in Nat
  BY <1>3 DEF RowsOf, OrderInv, TypeOK, OrdersTypeOK
<1>n. NoIntent.id = 0
  BY DEF NoIntent
<1>6. \A u, v \in Callers : u # v /\ HasIntent(u)' => intent'[u].id # intent'[v].id
  <2> SUFFICES ASSUME NEW u \in Callers, NEW v \in Callers, u # v, HasIntent(u)'
               PROVE  intent'[u].id # intent'[v].id
    OBVIOUS
  <2>1. CASE u = t
    <3>1. intent'[v] = intent[v] /\ (intent[v].id = 0 \/ intent[v].id \in 1 .. ids)
      BY <1>3, <1>4, <1>n, <2>1 DEF HasIntent
    <3> QED BY <1>3, <1>5, <2>1, <3>1
  <2>2. CASE v = t
    <3>1. intent'[u] = intent[u] /\ intent[u].id \in 1 .. ids
      BY <1>3, <1>4, <2>2 DEF HasIntent
    <3> QED BY <1>3, <1>5, <2>2, <3>1
  <2>3. CASE u # t /\ v # t
    BY <1>3, <2>3 DEF OrderInv, HasIntent
  <2> QED BY <2>1, <2>2, <2>3
<1>7. CASE egress = "disabled"
  <2>1. Record(t, OrderEntry(intent'[t])) /\ intent'[t] \in Intents
    BY <1>1, <1>3, <1>7 DEF OrdersTypeOK
  <2>2. OrderEntry(intent'[t]) \in Entries /\ OrderEntry(intent'[t]).state = "none"
    BY <1>3, <1>7, <2>1, OrderEntries
  <2>3. /\ call'[t] # NoCall /\ call'[t].at = "waiting"
        /\ call'[t].entry = OrderEntry(intent'[t])
        /\ \A u \in Threads \ {t} : call'[u] = call[u]
        /\ UNCHANGED <<intents, row>>
    BY <2>1, RecordFacts
  <2>4. RecordInv'
    BY <1>3, <2>3 DEF RecordInv, HasIntent
  <2>5. OrderOK(t)'
    BY <1>3, <1>5, <1>7, <2>3 DEF OrderOK, HasIntent, RowsOf
  <2>6. \A u \in Callers \ {t} : OrderOK(u) => OrderOK(u)'
    BY <1>3, <1>5, <2>3 DEF OrderOK, HasIntent, RowsOf
  <2>7. OrderInv'
    BY <1>3, <1>5, <1>6, <2>3, <2>5, <2>6 DEF OrderInv
  <2> QED BY <1>1, <1>3, <2>1, <2>2, <2>4, <2>7
<1>8. CASE egress # "disabled"
  <2>1. UNCHANGED journalVars
    BY <1>1, <1>8 DEF NoRecord
  <2>2. UNCHANGED <<call, intents, row>>
    BY <2>1 DEF journalVars
  <2>4. RecordInv'
    BY <1>1, <1>3, <2>2 DEF RecordInv, HasIntent
  <2>5. OrderOK(t)'
    <3>1. call'[t] = NoCall /\ call'[t].at # "committed"
      BY <1>1, <2>2 DEF NoCall
    <3> QED BY <1>3, <1>5, <1>8, <2>2, <3>1 DEF OrderOK, HasIntent, RowsOf
  <2>6. \A u \in Callers \ {t} : OrderOK(u) => OrderOK(u)'
    BY <1>3, <1>5, <2>2 DEF OrderOK, HasIntent, RowsOf
  <2>7. OrderInv'
    BY <1>3, <1>5, <1>6, <2>2, <2>5, <2>6 DEF OrderInv
  <2> QED BY <1>1, <1>3, <2>1, <2>4, <2>7
<1> QED BY <1>7, <1>8

LEMMA CallOver ==
  ASSUME TradingInv, NEW t \in Callers, CallAnswered(t) \/ CallRaises(t)
  PROVE  /\ OrdersTypeOK' /\ RecordInv' /\ OrderInv' /\ HasIntent(t)
         /\ UNCHANGED <<processVars, eventVars, boundVars>>
         /\ intent'[t].stamp = intent[t].stamp /\ intent'[t].of = intent[t].of
         /\ \A u \in Callers \ {t} : intent'[u] = intent[u]
         /\ Record(t, OrderEntry(intent'[t])) /\ OrderEntry(intent'[t]) \in Entries
         /\ OrderEntry(intent'[t]).state = "none" /\ intent'[t] # NoIntent
<1> USE WorkerThreads DEF TradingInv
<1>1. /\ Record(t, OrderEntry(intent'[t]))
      /\ UNCHANGED <<processVars, eventVars, boundVars>>
      /\ Answered(t) \/ Raised(t)
  BY DEF CallAnswered, CallRaises
<1>2. /\ OrdersTypeOK' /\ UNCHANGED <<ids, egress>> /\ intent[t].at = "calling"
      /\ \A u \in Callers \ {t} : intent'[u] = intent[u]
      /\ intent'[t] \in Intents /\ intent'[t] # NoIntent /\ intent'[t].id = intent[t].id
      /\ intent'[t].stamp = intent[t].stamp /\ intent'[t].of = intent[t].of
      /\ intent'[t].result # "none"
      /\ \/ /\ intent'[t].at = "gateway" /\ intent'[t].raised = intent[t].raised
            /\ intent'[t].known = intent[t].known
         \/ intent'[t].at = "callback" /\ ~intent'[t].known /\ intent'[t].raised
  <2>1. CASE Answered(t)
    BY <2>1, AnsweredFacts DEF TypeOK
  <2>2. CASE Raised(t)
    BY <2>2, RaisedFacts DEF TypeOK
  <2> QED BY <1>1, <2>1, <2>2
<1>3. HasIntent(t) /\ OrderOK(t) /\ RowsOf(intent[t]) = {}
  BY <1>2, NoIntentIsNowhere DEF HasIntent, OrderInv, OrderOK
<1>4. OrderEntry(intent'[t]) \in Entries /\ OrderEntry(intent'[t]).state = "none"
  BY <1>2, OrderEntries
<1>5. /\ call'[t] # NoCall /\ call'[t].at = "waiting"
      /\ call'[t].entry = OrderEntry(intent'[t])
      /\ \A u \in Threads \ {t} : call'[u] = call[u]
      /\ UNCHANGED <<intents, row>>
  BY <1>1, RecordFacts
<1>6. RecordInv'
  BY <1>2, <1>5 DEF RecordInv, HasIntent
<1>7. {r \in intents' : r.id = intent'[t].id} = {}
  BY <1>2, <1>3, <1>5 DEF RowsOf
<1>8. OrderOK(t)'
  BY <1>2, <1>3, <1>5, <1>7 DEF OrderOK, HasIntent, RowsOf
<1>9. \A u \in Callers \ {t} : OrderOK(u) => OrderOK(u)'
  BY <1>2, <1>5 DEF OrderOK, HasIntent, RowsOf
<1>10. OrderInv'
  BY <1>2, <1>3, <1>5, <1>8, <1>9 DEF OrderInv, HasIntent
<1> QED BY <1>1, <1>2, <1>3, <1>4, <1>6, <1>10

(* A record ends, by its line or by an error, and the thread goes on: with *)
(* an intent to the record of the callback, or out of the strategy's call; *)
(* without one to its next place.                                          *)
RecordOver(t, c) ==
  \E ok \in BOOLEAN :
    /\ Continues(t, ok, c)
    /\ \/ WriteLine(t, NextCall(t)) \/ CommitFails(t, NextCall(t))
       \/ LineFails(t, NextCall(t))
    /\ c <=> call[t].at = "committed"
    /\ ok => c

LEMMA EndsAreOver ==
  ASSUME NEW t \in Threads, RecordEnds(t) \/ JournalRaises(t)
  PROVE  /\ \E c \in BOOLEAN : RecordOver(t, c)
         /\ UNCHANGED <<delivered, beats, crashes>>
<1>1. CASE RecordEnds(t)
  <2>1. RecordOver(t, TRUE)
    BY <1>1 DEF RecordEnds, RecordOver
  <2> QED BY <1>1, <2>1 DEF RecordEnds, boundVars
<1>2. CASE JournalRaises(t)
  <2>1. CASE MayWrite(t) /\ Continues(t, FALSE, FALSE) /\ CommitFails(t, NextCall(t))
    <3>1. call[t].at # "committed"
      BY <2>1 DEF MayWrite
    <3>2. RecordOver(t, FALSE)
      BY <2>1, <3>1 DEF RecordOver
    <3> QED BY <1>2, <3>2 DEF JournalRaises
  <2>2. CASE call[t].at = "committed" /\ Continues(t, FALSE, TRUE)
             /\ LineFails(t, NextCall(t))
    <3>1. RecordOver(t, TRUE)
      BY <2>2 DEF RecordOver
    <3> QED BY <1>2, <3>1 DEF JournalRaises
  <2> QED BY <1>2, <2>1, <2>2 DEF JournalRaises
<1> QED BY <1>1, <1>2

LEMMA RecordEnded ==
  ASSUME TradingInv, NEW t \in Threads, NEW c \in BOOLEAN, RecordOver(t, c)
  PROVE  /\ OrdersTypeOK' /\ RecordInv' /\ OrderInv'
         /\ call[t] # NoCall /\ call'[t] = NextCall(t) /\ NextCall(t) \in NextCalls
         /\ \A u \in Threads \ {t} : call'[u] = call[u]
         /\ UNCHANGED <<intents, row>>
         /\ \/ /\ HasIntent(t) /\ HasIntent(t)' /\ UNCHANGED <<processVars, eventVars>>
               /\ call'[t].entry = OrderEntry(intent'[t])
               /\ OrderEntry(intent'[t]).state = "none"
               /\ intent'[t].stamp = intent[t].stamp /\ intent'[t].of = intent[t].of
               /\ \A u \in Callers \ {t} : intent'[u] = intent[u]
               /\ call'[t].at = "waiting"
            \/ /\ HasIntent(t) /\ UNCHANGED <<processVars, eventVars>>
               /\ intent'[t] = NoIntent /\ call'[t] = NoCall
               /\ \A u \in Callers \ {t} : intent'[u] = intent[u]
            \/ /\ ~HasIntent(t) /\ UNCHANGED orderVars /\ call'[t] = NoCall
               /\ \E ok \in BOOLEAN :
                    Continues(t, ok, c) /\ (ok => call[t].at = "committed")
<1> USE WorkerThreads DEF TradingInv
<1>0. PICK ok \in BOOLEAN :
        /\ Continues(t, ok, c)
        /\ WriteLine(t, NextCall(t)) \/ CommitFails(t, NextCall(t))
             \/ LineFails(t, NextCall(t))
        /\ ok => call[t].at = "committed"
  BY DEF RecordOver
<1>1. /\ call[t] # NoCall /\ call'[t] = NextCall(t)
      /\ \A u \in Threads \ {t} : call'[u] = call[u]
      /\ UNCHANGED <<intents, row>>
  BY <1>0, OverFacts
<1>2. \A e : Recording(e) # NoCall /\ Recording(e).at = "waiting" /\ Recording(e).entry = e
  BY DEF Recording, NoCall
<1>3. NoCall.at = "none" /\ NoCall \in NextCalls
  BY DEF NoCall, NextCalls
<1>4. CASE HasIntent(t) /\ GatewayNotified(t, c) /\ UNCHANGED <<processVars, eventVars>>
  <2>1. /\ OrdersTypeOK' /\ UNCHANGED <<ids, egress>> /\ intent[t].at = "gateway"
        /\ \A u \in Callers \ {t} : intent'[u] = intent[u]
        /\ intent'[t] \in Intents /\ intent'[t] # NoIntent
        /\ intent'[t].at = "callback" /\ (~c => intent'[t].missed)
        /\ intent'[t].id = intent[t].id /\ intent'[t].known = intent[t].known
        /\ intent'[t].raised = intent[t].raised /\ intent'[t].result = intent[t].result
        /\ intent'[t].stamp = intent[t].stamp /\ intent'[t].of = intent[t].of
    <3>1. t \in Callers /\ OrdersTypeOK /\ GatewayNotified(t, c)
      BY <1>4 DEF HasIntent, TypeOK
    <3> HIDE DEF TradingInv
    <3> QED BY <3>1, NotifiedFacts
  <2>2. HasIntent(t)' /\ OrderOK(t) /\ t \in Callers
    BY <1>4, <2>1 DEF HasIntent, OrderInv
  <2>3. intent'[t].result # "none" /\ ~intent[t].raised
    BY <1>4, <2>1, <2>2 DEF OrderOK
  <2>4. OrderEntry(intent'[t]) \in Entries /\ OrderEntry(intent'[t]).state = "none"
    BY <2>1, <2>3, OrderEntries
  <2>5. NextCall(t) = Recording(OrderEntry(intent'[t]))
    BY <2>1, <2>2 DEF NextCall
  <2>6. /\ call'[t] # NoCall /\ call'[t].at = "waiting"
        /\ call'[t].entry = OrderEntry(intent'[t]) /\ NextCall(t) \in NextCalls
    BY <1>1, <1>2, <2>4, <2>5 DEF NextCalls
  <2>7. RecordInv'
    BY <1>1, <2>1, <2>2, <2>6 DEF RecordInv, HasIntent
  <2>8. c => RowsOf(intent[t]) # {}
    BY <1>4, <2>2, <2>3 DEF RecordOver, OrderOK
  <2>9. RowsOf(intent[t])' = RowsOf(intent[t])
    BY <1>1, <2>1 DEF RowsOf
  <2>10. OrderOK(t)'
    BY <1>4, <2>1, <2>2, <2>3, <2>6, <2>8, <2>9 DEF OrderOK, HasIntent
  <2>11. \A u \in Callers \ {t} : OrderOK(u) => OrderOK(u)'
    BY <1>1, <2>1 DEF OrderOK, HasIntent, RowsOf
  <2>12. OrderInv'
    BY <1>1, <1>4, <2>1, <2>2, <2>10, <2>11 DEF OrderInv, HasIntent
  <2> QED BY <1>1, <1>4, <2>1, <2>2, <2>4, <2>6, <2>7, <2>12
<1>5. CASE HasIntent(t) /\ CallbackDone(t) /\ UNCHANGED <<processVars, eventVars>>
  <2>1. /\ OrdersTypeOK' /\ UNCHANGED <<ids, egress>>
        /\ \A u \in Callers \ {t} : intent'[u] = intent[u]
        /\ intent'[t] = NoIntent
    BY <1>5, CallbackFacts DEF HasIntent, TypeOK
  <2>2. ~HasIntent(t)' /\ NextCall(t) = NoCall
    BY <2>1 DEF HasIntent, NextCall
  <2>3. RecordInv'
    BY <1>1, <2>1, <2>2 DEF RecordInv, HasIntent
  <2>4. \A u \in Callers \ {t} : OrderOK(u) => OrderOK(u)'
    BY <1>1, <2>1 DEF OrderOK, HasIntent, RowsOf
  <2>5. OrderOK(t)'
    BY <2>2 DEF OrderOK
  <2>6. NoIntent.id = 0
    BY DEF NoIntent
  <2>7. \A u, v \in Callers : u # v /\ HasIntent(u)' => intent'[u].id # intent'[v].id
    <3> SUFFICES ASSUME NEW u \in Callers, NEW v \in Callers, u # v, HasIntent(u)'
                 PROVE  intent'[u].id # intent'[v].id
      OBVIOUS
    <3>1. u # t /\ intent'[u] = intent[u] /\ HasIntent(u)
      BY <2>1, <2>2 DEF HasIntent
    <3>2. intent[u].id \in 1 .. ids /\ intent[u].id # intent[v].id
      BY <3>1 DEF OrderInv, OrderOK
    <3>3. intent[u].id # 0
      BY <3>2
    <3> QED BY <2>1, <2>6, <3>1, <3>2, <3>3
  <2>8. OrderInv'
    BY <1>1, <2>1, <2>4, <2>5, <2>7 DEF OrderInv
  <2> QED BY <1>1, <1>3, <1>5, <2>1, <2>2, <2>3, <2>8
<1>6. CASE ~HasIntent(t) /\ UNCHANGED orderVars
  <2>1. NextCall(t) = NoCall /\ OrdersTypeOK'
    BY <1>6 DEF NextCall, HasIntent, orderVars, TypeOK, OrdersTypeOK
  <2>2. RecordInv'
    BY <1>1, <1>6, <2>1 DEF RecordInv, HasIntent, orderVars
  <2>3. \A u \in Callers : u # t => (OrderOK(u) => OrderOK(u)')
    BY <1>1, <1>6 DEF OrderOK, HasIntent, RowsOf, orderVars
  <2>4. OrderOK(t)'
    BY <1>6 DEF OrderOK, HasIntent, orderVars
  <2>5. OrderInv'
    BY <1>1, <1>6, <2>3, <2>4 DEF OrderInv, HasIntent, orderVars
  <2> QED BY <1>0, <1>1, <1>3, <1>6, <2>1, <2>2, <2>5
<1>7. \/ HasIntent(t) /\ UNCHANGED <<processVars, eventVars>>
           /\ (GatewayNotified(t, c) \/ CallbackDone(t))
      \/ ~HasIntent(t) /\ UNCHANGED orderVars
  BY <1>0 DEF Continues, HasIntent
<1> QED BY <1>4, <1>5, <1>6, <1>7

-----------------------------------------------------------------------------
(* Every step keeps TradingInv, and uses the journal as JournalNext says.  *)
LEMMA Assembled ==
  ASSUME TradingInv, [JournalNext]_journalVars, OrdersTypeOK',
         EventStep \/ EventsDie \/ UNCHANGED eventVars,
         main' \in 0 .. Ended, closing' \in BOOLEAN, phase' \in Phases,
         beat' \in {"off", "idle", "checked", "recording", "ended"},
         late' \subseteq {"feed", "beat"},
         RecordInv', OrderInv', IntentInv', StopInv'
  PROVE  TradingInv'
<1>1. JournalInv'
  BY InvNext DEF TradingInv
<1>2. EventsTypeOK' /\ EventInv'
  BY EventsKept DEF TradingInv, TypeOK
<1> QED BY <1>1, <1>2 DEF TradingInv, TypeOK, JournalInv

LEMMA PlainEntries ==
  ASSUME NEW k \in {"phase", "heartbeat", "step", "terminated", "first_data"},
         NEW s \in Phases
  PROVE  /\ Plain(k, s) \in Entries /\ Plain(k, s).kind # "order"
         /\ Plain(k, s).state = s
  BY EntriesAssumption DEF Plain

(* A thread's intent is out of the way of a step that leaves them alone.   *)
LEMMA IntentsAlone ==
  ASSUME IntentInv, UNCHANGED orderVars, HasIntent("main") => main' = main
  PROVE  IntentInv'
  BY DEF IntentInv, HasIntent, IntentDatedByItsEvent, orderVars

(* The main thread records: _set_phase, its heartbeats, the steps of the   *)
(* stop, emit_terminated.                                                  *)
LEMMA MainRecords ==
  ASSUME TradingInv,
         NEW k \in {"phase", "heartbeat", "step", "terminated"}, NEW s \in Phases,
         Record("main", Plain(k, s)),
         main \in {1, 2, 3, 5, 6, 8, 10, 12, 14, 15}, main = 15 => s = "STOPPED",
         phase' \in Phases, closing' \in BOOLEAN,
         UNCHANGED <<main, beat, late, orderVars, eventVars>>
  PROVE  TradingInv' /\ [JournalNext]_journalVars
<1> USE WorkerThreads
<1> DEFINE e == Plain(k, s)
<1>1. e \in Entries /\ e.kind # "order" /\ e.state = s
  BY PlainEntries
<1> HIDE DEF e
<1>2. Record("main", e)
  BY DEF e
<1>3. ~HasIntent("main")
  BY DEF TradingInv, IntentInv
<1>4. RecordInv' /\ OrderInv'
  BY <1>1, <1>2, <1>3, PlainRecorded
<1>5. [JournalNext]_journalVars
  BY <1>1, <1>2 DEF JournalNext
<1>6. /\ call["main"] = NoCall /\ call'["main"] # NoCall /\ call'["main"].entry = e
      /\ call'["main"].at = "waiting"
      /\ \A u \in Threads \ {"main"} : call'[u] = call[u]
      /\ UNCHANGED <<intents, row>>
  BY <1>2, RecordFacts DEF TradingInv
<1>7. call'["beat"] = call["beat"] /\ call'["feed"] = call["feed"] /\ row' = row
  BY <1>6
<1>8. StopInv'
  BY <1>1, <1>6, <1>7, ProgramFacts DEF StopInv, StoppedRowStays, TradingInv, HasIntent
<1>9. IntentInv'
  BY <1>3, IntentsAlone DEF TradingInv
<1>10. OrdersTypeOK'
  BY DEF TradingInv, TypeOK, OrdersTypeOK, orderVars
<1>11. main' \in 0 .. Ended /\ beat' \in {"off", "idle", "checked", "recording", "ended"}
       /\ late' \subseteq {"feed", "beat"}
  BY DEF TradingInv, TypeOK
<1> QED BY <1>4, <1>5, <1>8, <1>9, <1>10, <1>11, Assembled

(* The main thread goes on without a record.                               *)
LEMMA MainMoves ==
  ASSUME TradingInv, main \in {4, 7, 9, 11, 13}, ~HasIntent("main"), main' = main + 1,
         beat' \in {"off", "idle", "checked", "recording", "ended"},
         late \subseteq late', late' \subseteq {"feed", "beat"},
         beat = "recording" <=> beat' = "recording",
         main' > 11 /\ "beat" \notin late' => beat' = "ended",
         UNCHANGED <<phase, closing, journalVars, orderVars, eventVars>>
  PROVE  TradingInv' /\ [JournalNext]_journalVars
<1> USE WorkerThreads
<1>1. UNCHANGED <<call, intents, row>>
  BY DEF journalVars
<1>2. RecordInv' /\ OrderInv'
  BY <1>1 DEF TradingInv, RecordInv, OrderInv, OrderOK, HasIntent, RowsOf, orderVars
<1>3. call["main"] = NoCall /\ NoCall.at = "none"
  BY DEF TradingInv, StopInv, NoCall
<1>4. main' \in {5, 8, 10, 12, 14} /\ Ended = 16
  BY ProgramFacts
<1>5. StopInv'
  BY <1>1, <1>3, <1>4 DEF StopInv, StoppedRowStays, TradingInv
<1>6. IntentInv'
  BY IntentsAlone DEF TradingInv
<1>7. OrdersTypeOK'
  BY DEF TradingInv, TypeOK, OrdersTypeOK, orderVars
<1>8. phase' \in Phases /\ closing' \in BOOLEAN /\ main' \in 0 .. Ended
  BY <1>4 DEF TradingInv, TypeOK
<1>9. [JournalNext]_journalVars
  OBVIOUS
<1> QED BY <1>2, <1>5, <1>6, <1>7, <1>8, <1>9, Assembled

LEMMA MainStepKeeps ==
  ASSUME TradingInv, MainStep \/ StopBegins
  PROVE  TradingInv' /\ [JournalNext]_journalVars
<1> USE ProgramFacts, WorkerThreads
<1>1. /\ main \in 0 .. Ended /\ closing \in BOOLEAN /\ phase \in Phases
      /\ beat \in {"off", "idle", "checked", "recording", "ended"}
      /\ late \subseteq {"feed", "beat"}
  BY DEF TradingInv, TypeOK
<1>2. ASSUME NEW what, Doing(what)
      PROVE  main \in 1 .. 15 /\ Program[main].do = what
  BY <1>2 DEF Doing
<1>3. HasIntent("main") => main = 13
  BY DEF TradingInv, IntentInv
<1>4. "none" \in Phases /\ "STOPPED" \in Phases
  BY DEF Phases
<1>5. CASE SetPhase
  <2>1. main \in 1 .. 15 /\ Program[main].do = "phase"
    BY <1>2, <1>5 DEF SetPhase
  <2>2. /\ main \in {1, 2, 3, 5, 6, 8, 10, 12, 14, 15} /\ Program[main].state \in Phases
        /\ main = 15 => Program[main].state = "STOPPED"
    BY <2>1
  <2> QED BY <1>1, <1>5, <2>2, MainRecords DEF SetPhase
<1>6. CASE MainBeats
  <2>1. main \in 1 .. 15 /\ Program[main].do = "beat"
    BY <1>2, <1>6 DEF MainBeats
  <2>2. main \in {1, 2, 3, 5, 6, 8, 10, 12, 14, 15} /\ main # 15
    BY <2>1
  <2> QED BY <1>1, <1>6, <2>2, MainRecords DEF MainBeats, processVars
<1>7. CASE RecordStep
  <2>1. main \in 1 .. 15 /\ Program[main].do = "step"
    BY <1>2, <1>7 DEF RecordStep
  <2>2. main \in {1, 2, 3, 5, 6, 8, 10, 12, 14, 15} /\ main # 15
    BY <2>1
  <2> QED BY <1>1, <1>4, <1>7, <2>2, MainRecords DEF RecordStep, processVars
<1>8. CASE EmitTerminated
  <2>1. main \in 1 .. 15 /\ Program[main].do = "terminated"
    BY <1>2, <1>8 DEF EmitTerminated
  <2>2. /\ main \in {1, 2, 3, 5, 6, 8, 10, 12, 14, 15} /\ main # 15
        /\ Program[main].state \in Phases
    BY <2>1
  <2> QED BY <1>1, <1>8, <2>2, MainRecords DEF EmitTerminated, processVars
<1>9. CASE Closes
  <2>1. main \in 1 .. 15 /\ Program[main].do = "close"
    BY <1>2, <1>9 DEF Closes
  <2>2. main \in {1, 2, 3, 5, 6, 8, 10, 12, 14, 15} /\ main # 15
    BY <2>1
  <2> QED BY <1>1, <1>4, <1>9, <2>2, MainRecords DEF Closes
<1>10. CASE StartBeats
  <2>1. main = 4 /\ beat = "off"
    <3>1. main \in 1 .. 15 /\ Program[main].do = "start_beats"
      BY <1>2, <1>10 DEF StartBeats
    <3>2. main = 4
      BY <3>1
    <3> QED BY <3>2 DEF TradingInv, StopInv
  <2> QED BY <1>1, <1>3, <1>10, <2>1, MainMoves DEF StartBeats, Moves
<1>11. CASE StopBegins
  <2>1. main = 7
    <3>1. main \in 1 .. 15 /\ Program[main].do = "serve"
      BY <1>2, <1>11 DEF StopBegins
    <3> QED BY <3>1
  <2> QED BY <1>1, <1>3, <1>11, <2>1, MainMoves DEF StopBegins, Moves
<1>12. CASE JoinFeed
  <2>1. main = 9
    <3>1. main \in 1 .. 15 /\ Program[main].do = "join_feed"
      BY <1>2, <1>12 DEF JoinFeed
    <3> QED BY <3>1
  <2>2. late \subseteq late' /\ late' \subseteq {"feed", "beat"} /\ main' = 10
    BY <1>1, <1>12, <2>1 DEF JoinFeed, Moves
  <2> QED BY <1>1, <1>3, <1>12, <2>1, <2>2, MainMoves DEF JoinFeed, Moves
<1>13. CASE JoinBeats
  <2>1. main = 11
    <3>1. main \in 1 .. 15 /\ Program[main].do = "join_beats"
      BY <1>2, <1>13 DEF JoinBeats
    <3> QED BY <3>1
  <2>2. /\ late \subseteq late' /\ late' \subseteq {"feed", "beat"}
        /\ beat' \in {"off", "idle", "checked", "recording", "ended"}
        /\ (beat = "recording") <=> (beat' = "recording")
        /\ "beat" \notin late' => beat' = "ended"
    BY <1>1, <1>13 DEF JoinBeats
  <2> QED BY <1>1, <1>3, <1>13, <2>1, <2>2, MainMoves DEF JoinBeats, Moves
<1>14. CASE OnStopEnds
  <2>1. main = 13
    <3>1. main \in 1 .. 15 /\ Program[main].do = "on_stop"
      BY <1>2, <1>14 DEF OnStopEnds
    <3> QED BY <3>1
  <2>2. "beat" \notin late => beat = "ended"
    BY <2>1 DEF TradingInv, StopInv
  <2>3. ~HasIntent("main")
    BY <1>14 DEF OnStopEnds, HasIntent
  <2> QED BY <1>1, <1>14, <2>1, <2>2, <2>3, MainMoves DEF OnStopEnds, Moves
<1> QED BY <1>5, <1>6, <1>7, <1>8, <1>9, <1>10, <1>11, <1>12, <1>13, <1>14 DEF MainStep

(* The heartbeat thread checks, and records.                               *)
LEMMA BeatKeeps ==
  ASSUME TradingInv, BeatChecks \/ BeatRecords
  PROVE  TradingInv' /\ [JournalNext]_journalVars
<1> USE WorkerThreads, ProgramFacts
<1>1. /\ main \in 0 .. Ended /\ closing \in BOOLEAN /\ phase \in Phases
      /\ late \subseteq {"feed", "beat"} /\ OrdersTypeOK
  BY DEF TradingInv, TypeOK
<1>2. UNCHANGED <<main, phase, closing, late, orderVars, eventVars>>
  BY DEF BeatChecks, BeatRecords
<1>3. IntentInv' /\ OrdersTypeOK'
  BY <1>1, <1>2, IntentsAlone DEF TradingInv, OrdersTypeOK, orderVars
<1>4. CASE BeatChecks
  <2>1. beat = "idle" /\ beat' = "checked" /\ UNCHANGED journalVars
    BY <1>4 DEF BeatChecks
  <2>2. UNCHANGED <<call, intents, row>>
    BY <2>1 DEF journalVars
  <2>3. RecordInv' /\ OrderInv'
    BY <1>2, <2>2 DEF TradingInv, RecordInv, OrderInv, OrderOK, HasIntent, RowsOf, orderVars
  <2>4. StopInv'
    BY <1>2, <2>1, <2>2 DEF TradingInv, StopInv, StoppedRowStays, HasIntent, orderVars
  <2> QED BY <1>1, <1>2, <1>3, <2>1, <2>3, <2>4, Assembled
<1>5. CASE BeatRecords
  <2> DEFINE e == Plain("heartbeat", phase)
  <2>1. e \in Entries /\ e.kind # "order"
    BY <1>1, PlainEntries
  <2>2. beat = "checked" /\ beat' = "recording" /\ Record("beat", e)
    BY <1>5 DEF BeatRecords
  <2> HIDE DEF e
  <2>3. RecordInv' /\ OrderInv'
    BY <1>2, <2>1, <2>2, PlainRecorded DEF HasIntent
  <2>4. /\ call'["beat"] # NoCall /\ row' = row
        /\ call'["main"] = call["main"] /\ call'["feed"] = call["feed"]
    BY <2>2, RecordFacts DEF TradingInv
  <2>5. StopInv'
    BY <1>2, <2>2, <2>4 DEF TradingInv, StopInv, StoppedRowStays, HasIntent, orderVars
  <2>6. [JournalNext]_journalVars
    BY <2>1, <2>2 DEF JournalNext
  <2> QED BY <1>1, <1>2, <1>3, <2>2, <2>3, <2>5, <2>6, Assembled
<1> QED BY <1>4, <1>5

(* The feed hands an event over; the bridge takes it to its hook.          *)
LEMMA FeedKeeps ==
  ASSUME TradingInv, FeedDispatches \/ BridgeApplies \/ BridgeAdvances \/ HookReturns
  PROVE  TradingInv' /\ [JournalNext]_journalVars
<1> USE WorkerThreads
<1>1. /\ UNCHANGED <<main, phase, closing, beat, late, orderVars>>
      /\ EventStep
  BY DEF FeedDispatches, BridgeApplies, BridgeAdvances, HookReturns, processVars, EventStep
<1>2. /\ main' \in 0 .. Ended /\ closing' \in BOOLEAN /\ phase' \in Phases
      /\ beat' \in {"off", "idle", "checked", "recording", "ended"}
      /\ late' \subseteq {"feed", "beat"} /\ OrdersTypeOK' /\ IntentInv'
  BY <1>1, IntentsAlone DEF TradingInv, TypeOK, OrdersTypeOK, orderVars
<1>3. CASE UNCHANGED journalVars
  <2>1. UNCHANGED <<call, intents, row>>
    BY <1>3 DEF journalVars
  <2>2. RecordInv' /\ OrderInv'
    BY <1>1, <2>1 DEF TradingInv, RecordInv, OrderInv, OrderOK, HasIntent, RowsOf, orderVars
  <2>3. StopInv'
    BY <1>1, <2>1 DEF TradingInv, StopInv, StoppedRowStays, HasIntent, orderVars
  <2> QED BY <1>1, <1>2, <1>3, <2>2, <2>3, Assembled
<1>4. CASE FeedDispatches /\ Record("feed", Plain("first_data", "none"))
  <2> DEFINE e == Plain("first_data", "none")
  <2>1. e \in Entries /\ e.kind # "order" /\ e.state = "none"
    BY PlainEntries DEF Phases
  <2>2. Record("feed", e) /\ ~HasIntent("feed")
    BY <1>4 DEF FeedDispatches, HasIntent
  <2> HIDE DEF e
  <2>3. RecordInv' /\ OrderInv'
    BY <1>1, <2>1, <2>2, PlainRecorded
  <2>4. /\ call'["feed"].entry = e /\ row' = row
        /\ call'["main"] = call["main"] /\ call'["beat"] = call["beat"]
    BY <2>2, RecordFacts DEF TradingInv
  <2>5. StopInv'
    BY <1>1, <2>1, <2>4 DEF TradingInv, StopInv, StoppedRowStays, HasIntent, orderVars
  <2>6. [JournalNext]_journalVars
    BY <2>1, <2>2 DEF JournalNext
  <2> QED BY <1>1, <1>2, <2>3, <2>5, <2>6, Assembled
<1> QED BY <1>3, <1>4
       DEF FeedDispatches, BridgeApplies, BridgeAdvances, HookReturns, NoRecord

(* The strategy places an order, or its call comes back.                   *)
LEMMA StrategyKeeps ==
  ASSUME TradingInv, NEW t \in Callers, StrategyStep(t)
  PROVE  TradingInv' /\ [JournalNext]_journalVars
<1> USE WorkerThreads
<1>1. /\ OrdersTypeOK' /\ RecordInv' /\ OrderInv'
      /\ UNCHANGED <<main, phase, closing, beat, late, eventVars>>
      /\ \A u \in Callers \ {t} : intent'[u] = intent[u]
      /\ \/ UNCHANGED journalVars
         \/ /\ Record(t, OrderEntry(intent'[t])) /\ OrderEntry(intent'[t]) \in Entries
            /\ OrderEntry(intent'[t]).state = "none" /\ intent'[t] # NoIntent
  <2>1. CASE PlaceOrder(t)
    BY <2>1, OrderPlaced DEF processVars
  <2>2. CASE CallAnswered(t) \/ CallRaises(t)
    BY <2>2, CallOver DEF processVars
  <2> QED BY <2>1, <2>2 DEF StrategyStep
<1>2. /\ t = "main" => main = 13
      /\ intent'[t].of # 0 => intent'[t].stamp = intent'[t].of
  <2>1. CASE PlaceOrder(t)
    <3>1. /\ InStrategy(t) /\ intent'[t].stamp = created_at(stamp, clock)
          /\ intent'[t].of = (IF t = "feed" THEN ev.ts ELSE 0)
      BY <2>1, OrderPlaced
    <3>2. CASE t = "feed"
      <4>1. at = "hook" /\ stamp = ev.ts /\ ev.ts \in Nat \ {0}
        BY <3>1, <3>2, EventFacts DEF InStrategy, TradingInv, TypeOK, EventInv
      <4> QED BY <3>1, <3>2, <4>1 DEF created_at
    <3>3. CASE t = "main"
      <4>1. main \in 1 .. 15 /\ Program[main].do = "on_stop"
        BY <3>1, <3>3, ProgramFacts DEF InStrategy, Doing
      <4> QED BY <3>1, <3>3, <4>1, ProgramFacts
    <3> QED BY <3>2, <3>3
  <2>2. CASE CallAnswered(t) \/ CallRaises(t)
    BY <2>2, CallOver DEF TradingInv, IntentInv, IntentDatedByItsEvent
  <2> QED BY <2>1, <2>2 DEF StrategyStep
<1>3. IntentInv'
  BY <1>1, <1>2 DEF TradingInv, IntentInv, IntentDatedByItsEvent, HasIntent
<1>4. [JournalNext]_journalVars
  BY <1>1 DEF JournalNext
<1>5. StopInv'
  <2>1. CASE UNCHANGED journalVars
    <3>1. UNCHANGED <<call, row>>
      BY <2>1 DEF journalVars
    <3>2. t = "main" => HasIntent("main")' \/ call["main"] = NoCall
      <4>1. CASE PlaceOrder(t)
        BY <4>1 DEF PlaceOrder, Free
      <4>2. CASE CallAnswered(t) \/ CallRaises(t)
        BY <4>2, CallOver DEF HasIntent
      <4> QED BY <4>1, <4>2 DEF StrategyStep
    <3>3. t # "main" => intent'["main"] = intent["main"]
      BY <1>1
    <3> QED BY <1>1, <3>1, <3>2, <3>3 DEF TradingInv, StopInv, StoppedRowStays, HasIntent
  <2>2. CASE /\ Record(t, OrderEntry(intent'[t]))
             /\ OrderEntry(intent'[t]).state = "none" /\ intent'[t] # NoIntent
    <3>1. /\ call'[t].entry = OrderEntry(intent'[t]) /\ row' = row
          /\ \A u \in Threads \ {t} : call'[u] = call[u]
      BY <2>2, RecordFacts DEF TradingInv
    <3>2. "beat" # t /\ call'["beat"] = call["beat"]
      BY <3>1
    <3>3. CASE t = "main"
      <4>1. main = 13 /\ call'["feed"] = call["feed"] /\ HasIntent("main")'
        BY <1>2, <2>2, <3>1, <3>3 DEF HasIntent
      <4> QED BY <1>1, <3>1, <3>2, <4>1, ProgramFacts
             DEF TradingInv, StopInv, StoppedRowStays
    <3>4. CASE t = "feed"
      <4>1. call'["main"] = call["main"] /\ intent'["main"] = intent["main"]
        BY <1>1, <3>1, <3>4
      <4> QED BY <1>1, <2>2, <3>1, <3>2, <3>4, <4>1
             DEF TradingInv, StopInv, StoppedRowStays, HasIntent
    <3> QED BY <3>3, <3>4
  <2> QED BY <1>1, <2>1, <2>2
<1> QED BY <1>1, <1>3, <1>4, <1>5, Assembled DEF TradingInv, TypeOK

(* The journal commits, tries again, or is done, on behalf of a thread.    *)
LEMMA CommitKeeps ==
  ASSUME TradingInv, NEW t \in Threads, RecordCommits(t) \/ JournalRetries(t)
  PROVE  TradingInv' /\ [JournalNext]_journalVars
<1> USE WorkerThreads, ProgramFacts
<1>1. /\ UNCHANGED <<main, phase, closing, beat, late, orderVars, eventVars>>
      /\ Commit(t) \/ DatabaseLocked(t)
  BY DEF RecordCommits, JournalRetries, processVars
<1>2. /\ main' \in 0 .. Ended /\ closing' \in BOOLEAN /\ phase' \in Phases
      /\ beat' \in {"off", "idle", "checked", "recording", "ended"}
      /\ late' \subseteq {"feed", "beat"} /\ OrdersTypeOK' /\ IntentInv'
  BY <1>1, IntentsAlone DEF TradingInv, TypeOK, OrdersTypeOK, orderVars
<1>3. [JournalNext]_journalVars
  BY <1>1 DEF JournalNext
<1>4. RecordInv' /\ OrderInv'
  BY <1>1, RecordCommitted, RecordRetried
<1>5. /\ call[t] # NoCall /\ call'[t] # NoCall /\ call'[t].entry = call[t].entry
      /\ \A u \in Threads \ {t} : call'[u] = call[u]
  BY <1>1, CommitFacts, LockedFacts DEF TradingInv
<1>6. /\ \A u \in Threads : call'[u].entry = call[u].entry
      /\ \A u \in Threads : (call'[u] = NoCall) <=> (call[u] = NoCall)
  BY <1>5
<1>7. CASE DatabaseLocked(t)
  <2>1. row' = row /\ \A u \in Threads : call'[u].at = "committed" => call[u].at = "committed"
    BY <1>7, LockedFacts DEF TradingInv
  <2> QED BY <1>1, <1>2, <1>3, <1>4, <1>6, <2>1, Assembled
         DEF TradingInv, StopInv, StoppedRowStays, HasIntent, orderVars
<1>8. CASE Commit(t)
  <2>1. /\ \A u \in Threads \ {t} : call[u].at # "committed" /\ call'[u].at # "committed"
        /\ row' = (IF call[t].entry.state = "none" THEN row ELSE call[t].entry.state)
    BY <1>5, <1>8, CommitFacts DEF TradingInv, Inserted
  <2>2. t \in {"main", "beat", "feed"}
    BY <1>5 DEF TradingInv, RecordInv
  <2>3. main = 15 /\ call'["main"].at = "committed" => row' = "STOPPED"
    <3>1. CASE t = "main"
      BY <1>5, <2>1, <3>1 DEF TradingInv, StopInv
    <3>2. CASE t # "main"
      BY <2>1, <3>2
    <3> QED BY <3>1, <3>2
  <2>4. StoppedRowStays'
    <3> SUFFICES ASSUME main = 16, "beat" \notin late PROVE row' = "STOPPED"
      BY <1>1 DEF StoppedRowStays
    <3>1. row = "STOPPED"
      BY DEF TradingInv, StopInv, StoppedRowStays
    <3>2. beat = "ended" /\ call["beat"] = NoCall /\ call["main"] = NoCall
      BY DEF TradingInv, StopInv
    <3>3. t = "feed" /\ call[t].entry.state = "none"
      BY <1>5, <2>2, <3>2 DEF TradingInv, StopInv
    <3> QED BY <2>1, <3>1, <3>3
  <2>5. StopInv'
    BY <1>1, <1>6, <2>3, <2>4 DEF TradingInv, StopInv, HasIntent, orderVars
  <2> QED BY <1>1, <1>2, <1>3, <1>4, <2>5, Assembled
<1> QED BY <1>1, <1>7, <1>8

LEMMA EndKeeps ==
  ASSUME TradingInv, NEW t \in Threads, RecordEnds(t) \/ JournalRaises(t)
  PROVE  TradingInv' /\ [JournalNext]_journalVars
<1> USE WorkerThreads, ProgramFacts
<1>1. PICK c \in BOOLEAN : RecordOver(t, c)
  BY EndsAreOver
<1>2. /\ OrdersTypeOK' /\ RecordInv' /\ OrderInv'
      /\ call[t] # NoCall /\ call'[t] = NextCall(t) /\ NextCall(t) \in NextCalls
      /\ \A u \in Threads \ {t} : call'[u] = call[u]
      /\ row' = row
  BY <1>1, RecordEnded
<1>3. [JournalNext]_journalVars
  BY <1>1, <1>2 DEF RecordOver, JournalNext
<1>4. /\ main \in 0 .. Ended /\ closing \in BOOLEAN /\ phase \in Phases
      /\ beat \in {"off", "idle", "checked", "recording", "ended"}
      /\ late \subseteq {"feed", "beat"}
  BY DEF TradingInv, TypeOK
<1>5. t \in {"main", "beat", "feed"} /\ NoCall.at = "none"
  BY <1>2 DEF TradingInv, RecordInv, NoCall
<1>6. CASE /\ HasIntent(t) /\ UNCHANGED <<processVars, eventVars>>
           /\ \A u \in Callers \ {t} : intent'[u] = intent[u]
           /\ \/ /\ HasIntent(t)' /\ call'[t].entry = OrderEntry(intent'[t])
                 /\ OrderEntry(intent'[t]).state = "none" /\ call'[t].at = "waiting"
                 /\ intent'[t].stamp = intent[t].stamp /\ intent'[t].of = intent[t].of
              \/ intent'[t] = NoIntent /\ call'[t] = NoCall
  <2>1. UNCHANGED <<main, phase, closing, beat, late>> /\ UNCHANGED eventVars
    BY <1>6 DEF processVars
  <2>2. NoIntent.of = 0 /\ (t = "main" => main = 13)
    BY <1>6 DEF NoIntent, TradingInv, IntentInv
  <2>3. IntentInv'
    <3>1. ASSUME NEW u \in Callers, intent'[u].of # 0
          PROVE  intent'[u].stamp = intent'[u].of
      BY <1>6, <2>2, <3>1 DEF TradingInv, IntentInv, IntentDatedByItsEvent
    <3>2. HasIntent("main")' => main' = 13
      BY <1>6, <2>1, <2>2 DEF TradingInv, IntentInv, HasIntent
    <3> QED BY <3>1, <3>2 DEF IntentInv, IntentDatedByItsEvent
  <2>4. StopInv'
    <3>1. t # "beat" /\ call'["beat"] = call["beat"]
      BY <1>2, <1>6 DEF HasIntent
    <3>2. CASE t = "main"
      <4>1. call'["feed"] = call["feed"]
        BY <1>2, <3>2
      <4> QED BY <1>2, <1>5, <1>6, <2>1, <2>2, <3>1, <3>2, <4>1
             DEF TradingInv, StopInv, StoppedRowStays
    <3>3. CASE t = "feed"
      <4>1. call'["main"] = call["main"] /\ intent'["main"] = intent["main"]
        BY <1>2, <1>6, <3>3
      <4> QED BY <1>2, <1>6, <2>1, <3>1, <3>3, <4>1
             DEF TradingInv, StopInv, StoppedRowStays, HasIntent
    <3> QED BY <1>5, <3>1, <3>2, <3>3
  <2> QED BY <1>2, <1>3, <1>4, <2>1, <2>3, <2>4, Assembled
<1>7. CASE /\ ~HasIntent(t) /\ UNCHANGED orderVars /\ call'[t] = NoCall
           /\ \E ok \in BOOLEAN :
                Continues(t, ok, c) /\ (ok => call[t].at = "committed")
  <2>1. PICK ok \in BOOLEAN : Continues(t, ok, c) /\ (ok => call[t].at = "committed")
    BY <1>7
  <2>2. CASE t = "feed"
    <3>1. UNCHANGED <<main, phase, closing, beat, late>> /\ (FirstRecorded \/ FirstLost)
      BY <1>7, <2>1, <2>2 DEF Continues, HasIntent, processVars
    <3>2. EventStep
      BY <3>1 DEF EventStep
    <3>3. IntentInv'
      BY <1>7, <3>1, IntentsAlone DEF TradingInv
    <3>4. call'["main"] = call["main"] /\ call'["beat"] = call["beat"]
      BY <1>2, <2>2
    <3>5. StopInv'
      BY <1>2, <1>7, <2>2, <3>1, <3>4
         DEF TradingInv, StopInv, StoppedRowStays, HasIntent, orderVars
    <3> QED BY <1>2, <1>3, <1>4, <3>1, <3>2, <3>3, <3>5, Assembled
  <2>3. CASE t = "main"
    <3>1. /\ main' = (IF ok THEN main + 1 ELSE 0)
          /\ UNCHANGED <<phase, closing, beat, late, eventVars>>
      BY <1>7, <2>1, <2>3 DEF Continues, HasIntent, Aborted
    <3>2. main \in {1, 2, 3, 5, 6, 8, 10, 12, 14, 15}
      BY <1>2, <1>7, <2>3 DEF TradingInv, StopInv
    <3>3. main' \in {0, 2, 3, 4, 6, 7, 9, 11, 13, 15, 16} /\ main' \in 0 .. Ended
      BY <3>1, <3>2
    <3>4. call'["feed"] = call["feed"] /\ call'["beat"] = call["beat"]
      BY <1>2, <2>3
    <3>5. IntentInv'
      BY <1>7, <2>3, IntentsAlone DEF TradingInv
    <3>6. StoppedRowStays'
      <4> SUFFICES ASSUME main' = 16, "beat" \notin late' PROVE row' = "STOPPED"
        BY DEF StoppedRowStays
      <4>1. main = 15 /\ ok
        BY <3>1, <3>2
      <4> QED BY <1>2, <2>1, <2>3, <4>1 DEF TradingInv, StopInv
    <3>7. main' \in 1 .. 4 => beat' = "off"
      <4> SUFFICES ASSUME main' \in 1 .. 4 PROVE beat = "off"
        BY <3>1
      <4>1. main \in 1 .. 4
        BY <3>1, <3>2
      <4> QED BY <4>1 DEF TradingInv, StopInv
    <3>8. main' > 11 /\ "beat" \notin late' => beat' = "ended"
      <4> SUFFICES ASSUME main' > 11, "beat" \notin late PROVE beat = "ended"
        BY <3>1
      <4>1. main > 11
        BY <3>1, <3>2
      <4> QED BY <4>1 DEF TradingInv, StopInv
    <3>9. StopInv'
      BY <1>2, <1>5, <1>7, <2>3, <3>1, <3>4, <3>6, <3>7, <3>8 DEF TradingInv, StopInv
    <3> QED BY <1>2, <1>3, <1>4, <3>1, <3>3, <3>5, <3>9, Assembled
  <2>4. CASE t = "beat"
    <3>1. /\ beat' = (IF "beat" \in late THEN "ended" ELSE "idle")
          /\ UNCHANGED <<main, phase, closing, late, eventVars>>
      BY <2>1, <2>4 DEF Continues
    <3>2. beat = "recording"
      BY <1>2, <2>4 DEF TradingInv, StopInv
    <3>3. call'["main"] = call["main"] /\ call'["feed"] = call["feed"]
      BY <1>2, <2>4
    <3>4. IntentInv'
      BY <1>7, <3>1, IntentsAlone DEF TradingInv
    <3>5. StopInv'
      BY <1>2, <1>7, <2>4, <3>1, <3>2, <3>3
         DEF TradingInv, StopInv, StoppedRowStays, HasIntent, orderVars
    <3> QED BY <1>2, <1>3, <1>4, <3>1, <3>4, <3>5, Assembled
  <2> QED BY <1>5, <2>2, <2>3, <2>4
<1> QED BY <1>1, <1>6, <1>7, RecordEnded

(* The process dies: the rows stay, and so do the ids in them.             *)
LEMMA CrashKeeps ==
  ASSUME TradingInv, Crash
  PROVE  TradingInv' /\ [JournalNext]_journalVars
<1> USE WorkerThreads, ProgramFacts
<1>1. /\ JournalDies /\ EventsDie /\ UNCHANGED <<egress, ids>>
      /\ main' = 1 /\ phase' = "none" /\ closing' = FALSE /\ beat' = "off" /\ late' = {}
      /\ intent' = [t \in Callers |-> NoIntent]
  BY DEF Crash, EventsDie
<1>2. /\ UNCHANGED <<intents, row>> /\ \A t \in Threads : call'[t] = NoCall
      /\ \A t \in Callers : intent'[t] = NoIntent /\ ~HasIntent(t)'
  BY <1>1 DEF JournalDies, HasIntent
<1>3. NoCall.at = "none" /\ NoIntent.of = 0 /\ NoIntent \in Intents
  BY DEF NoCall, NoIntent, Intents
<1>4. RecordInv'
  BY <1>2 DEF RecordInv
<1>5. OrderInv'
  <2>1. \A t \in Callers : OrderOK(t)'
    BY <1>2 DEF OrderOK
  <2>2. \A t \in Callers : ~HasIntent(t)'
    BY <1>2
  <2> QED BY <1>1, <1>2, <2>1, <2>2 DEF OrderInv, TradingInv
<1>6. IntentInv'
  BY <1>2, <1>3 DEF IntentInv, IntentDatedByItsEvent
<1>7. StopInv'
  <2>1. call'["main"] = NoCall /\ call'["beat"] = NoCall /\ call'["feed"] = NoCall
    BY <1>2
  <2> QED BY <1>1, <1>3, <2>1 DEF StopInv, StoppedRowStays
<1>8. [JournalNext]_journalVars
  BY <1>1 DEF JournalNext
<1>9. OrdersTypeOK'
  BY <1>1, <1>3 DEF TradingInv, TypeOK, OrdersTypeOK
<1>10. phase' \in Phases /\ main' \in 0 .. Ended
  BY <1>1 DEF Phases
<1> QED BY <1>1, <1>4, <1>5, <1>6, <1>7, <1>8, <1>9, <1>10, Assembled

LEMMA TradingInit == Init => TradingInv
<1> SUFFICES ASSUME Init PROVE TradingInv
  OBVIOUS
<1> USE WorkerThreads, ProgramFacts
<1>1. /\ main = 1 /\ phase = "none" /\ closing = FALSE /\ beat = "off" /\ late = {}
      /\ JournalInit /\ OrdersInit /\ EventsInit
  BY DEF Init, ProcessInit
<1>2. /\ JournalInv /\ intents = {} /\ \A t \in Threads : call[t] = NoCall
  BY <1>1, InvInit DEF JournalInit
<1>3. /\ egress \in {"open", "disabled"} /\ ids = 0
      /\ \A t \in Callers : intent[t] = NoIntent /\ ~HasIntent(t)
  BY <1>1 DEF OrdersInit, HasIntent
<1>4. NoCall.at = "none" /\ NoIntent.of = 0 /\ NoIntent \in Intents
  BY DEF NoCall, NoIntent, Intents
<1>5. OrdersTypeOK
  BY <1>1, <1>3, <1>4, IntentsAssumption DEF OrdersInit, OrdersTypeOK
<1>6. EventsTypeOK /\ EventInv
  <2>1. <<>> \in Seq(Nat)
    OBVIOUS
  <2>2. data \in [Kinds -> Seq(Nat)]
    BY <1>1, <2>1 DEF EventsInit
  <2> QED BY <1>1, <2>2 DEF EventsInit, EventsTypeOK, EventInv
<1>7. RecordInv
  BY <1>2 DEF RecordInv
<1>8. OrderInv
  BY <1>2, <1>3 DEF OrderInv, OrderOK
<1>9. IntentInv
  BY <1>3, <1>4 DEF IntentInv, IntentDatedByItsEvent
<1>10. StopInv
  <2>1. call["main"] = NoCall /\ call["beat"] = NoCall /\ call["feed"] = NoCall
    BY <1>2
  <2> QED BY <1>1, <1>4, <2>1 DEF StopInv, StoppedRowStays
<1>11. TypeOK
  <2>1. main \in 0 .. Ended /\ phase \in Phases /\ late \subseteq {"feed", "beat"}
    BY <1>1 DEF Phases
  <2>2. JournalTypeOK /\ EventsTypeOK
    BY <1>2, <1>6 DEF JournalInv
  <2> QED BY <1>1, <1>5, <2>1, <2>2 DEF TypeOK
<1> QED BY <1>2, <1>6, <1>7, <1>8, <1>9, <1>10, <1>11 DEF TradingInv

LEMMA TradingNext ==
  ASSUME TradingInv, [Next]_vars
  PROVE  TradingInv' /\ [JournalNext]_journalVars
<1>1. CASE MainStep \/ StopBegins
  BY <1>1, MainStepKeeps
<1>2. CASE BeatChecks \/ BeatRecords
  BY <1>2, BeatKeeps
<1>3. CASE FeedDispatches \/ BridgeApplies \/ BridgeAdvances \/ HookReturns
  BY <1>3, FeedKeeps
<1>4. ASSUME NEW t \in Callers, StrategyStep(t)
      PROVE  TradingInv' /\ [JournalNext]_journalVars
  BY <1>4, StrategyKeeps
<1>5. ASSUME NEW t \in Threads, JournalStep(t)
      PROVE  TradingInv' /\ [JournalNext]_journalVars
  BY <1>5, CommitKeeps, EndKeeps DEF JournalStep
<1>6. CASE Crash
  BY <1>6, CrashKeeps
<1>7. CASE UNCHANGED vars
  <2>1. UNCHANGED <<processVars, journalVars, orderVars, eventVars, boundVars>>
    BY <1>7 DEF vars
  <2>2. /\ UNCHANGED <<main, phase, closing, beat, late, call, intents, row>>
        /\ UNCHANGED <<egress, intent, ids>>
    BY <2>1 DEF processVars, journalVars, orderVars
  <2>3. /\ main' \in 0 .. Ended /\ closing' \in BOOLEAN /\ phase' \in Phases
        /\ beat' \in {"off", "idle", "checked", "recording", "ended"}
        /\ late' \subseteq {"feed", "beat"} /\ OrdersTypeOK' /\ IntentInv'
    BY <2>1, <2>2, IntentsAlone DEF TradingInv, TypeOK, OrdersTypeOK
  <2>4. RecordInv' /\ OrderInv'
    BY <2>2 DEF TradingInv, RecordInv, OrderInv, OrderOK, HasIntent, RowsOf
  <2>5. StopInv'
    BY <2>2 DEF TradingInv, StopInv, StoppedRowStays, HasIntent
  <2> QED BY <2>1, <2>3, <2>4, <2>5, Assembled
<1> QED BY <1>1, <1>2, <1>3, <1>4, <1>5, <1>6, <1>7 DEF Next

-----------------------------------------------------------------------------
(* The state of a trading worker, as the two threads of the strategy, the  *)
(* heartbeat thread, failing journals and crashes leave it.                *)
THEOREM TradingInvariant == Spec => []TradingInv
  BY TradingInit, TradingNext, PTL DEF Spec

(* Every variable keeps its type: no call, intent, event or journal row    *)
(* has a shape that the code which reads it does not know.                 *)
THEOREM TradingTypes == Spec => []TypeOK
<1>1. TradingInv => TypeOK
  BY DEF TradingInv
<1> QED BY <1>1, TradingInvariant, PTL

(* What filter_series returns of a non-empty series when it is asked for   *)
(* the last entry at the time of the newest one: that entry alone.         *)
LEMMA NewestAlone ==
  ASSUME NEW s \in Seq(Nat), s # <<>>, NEW ts \in Nat, Last(s) = ts
  PROVE  filter_series(s, ts, ts, 1) = <<ts>>
<1> DEFINE within   == {i \in DOMAIN s : ts <= s[i] /\ s[i] <= ts}
           after(i) == Cardinality({j \in within : j > i})
           size     == IF Cardinality(within) > 1 THEN 1 ELSE Cardinality(within)
<1>1. /\ within \subseteq 1 .. Len(s) /\ IsFiniteSet(within)
      /\ Len(s) \in within
  <2>1. Len(s) \in Nat \ {0} /\ DOMAIN s = 1 .. Len(s) /\ s[Len(s)] = ts
    BY DEF Last
  <2>2. IsFiniteSet(1 .. Len(s))
    BY <2>1, FS_Interval
  <2>3. within \subseteq 1 .. Len(s) /\ Len(s) \in within
    BY <2>1
  <2> QED BY <2>2, <2>3, FS_Subset
<1>2. size = 1
  <2>1. Cardinality(within) \in Nat /\ Cardinality(within) # 0
    BY <1>1, FS_CardinalityType, FS_EmptySet
  <2> QED BY <2>1
<1>3. ASSUME NEW i \in within
      PROVE  after(i) = 0 <=> i = Len(s)
  <2>1. IsFiniteSet({j \in within : j > i})
    BY <1>1, FS_Subset
  <2>2. after(i) = 0 <=> {j \in within : j > i} = {}
    BY <2>1, FS_EmptySet
  <2>3. {j \in within : j > i} = {} <=> i = Len(s)
    BY <1>1
  <2> QED BY <2>2, <2>3
<1>4. (CHOOSE i \in within : after(i) = 1 - 1) = Len(s)
  <2> HIDE DEF within, after
  <2>1. after(Len(s)) = 1 - 1 /\ \A i \in within : after(i) = 1 - 1 => i = Len(s)
    BY <1>1, <1>3
  <2> QED BY <1>1, <2>1
<1>5. filter_series(s, ts, ts, 1) =
        [n \in 1 .. size |-> s[CHOOSE i \in within : after(i) = size - n]]
  BY DEF filter_series
<1>6. @ = [n \in 1 .. 1 |-> s[CHOOSE i \in within : after(i) = 1 - n]]
  <2> HIDE DEF size, after, within
  <2> QED BY <1>2
<1>7. @ = [n \in 1 .. 1 |-> ts]
  <2> HIDE DEF after, within
  <2>1. ASSUME NEW n \in 1 .. 1
        PROVE  s[CHOOSE i \in within : after(i) = 1 - n] = ts
    <3>1. n = 1
      OBVIOUS
    <3> QED BY <1>4, <3>1 DEF Last
  <2> QED BY <2>1
<1>8. @ = <<ts>>
  OBVIOUS
<1> QED BY <1>5, <1>6, <1>7, <1>8

(* A hook of the strategy runs on a world that contains its event: the SDK *)
(* clock, the newest data of its kind, the series that is filtered up to   *)
(* the event and every indicator of that source show it, also after events *)
(* that failed half-way (dispatch_on_bar, dispatch_on_quote,               *)
(* dispatch_on_tick of ReplaySdkBridge).                                   *)
THEOREM HookFindsItsEvent == Spec => []HookSeesItsEvent
<1>1. ASSUME TradingInv, at = "hook", ev.kind \in Hooks
      PROVE  get_series(ev.kind, ev.ts, ev.ts, 1) = <<ev.ts>>
  <2>1. EventsTypeOK /\ EventInv /\ WorldShows(ev)
    BY <1>1 DEF TradingInv, TypeOK, EventInv
  <2>2. ev.kind \in Kinds /\ ev.ts \in Nat \ {0}
    BY <1>1, <2>1, EventFacts
  <2>3. data[ev.kind] \in Seq(Nat) /\ latest(ev.kind) = ev.ts
    BY <2>1, <2>2 DEF EventInv, WorldShows
  <2>4. data[ev.kind] # <<>> /\ Last(data[ev.kind]) = ev.ts
    BY <2>2, <2>3 DEF latest
  <2> QED BY <2>2, <2>3, <2>4, NewestAlone DEF get_series
<1>2. TradingInv => HookSeesItsEvent
  BY <1>1 DEF HookSeesItsEvent, TradingInv, EventInv
<1> QED BY <1>2, TradingInvariant, PTL

(* An intent placed in a hook is dated by the event of that hook           *)
(* (_intent_created_at_for_payload reads _last_data_event_timestamp, which *)
(* is set before the hook is reached, for the first event too).            *)
THEOREM IntentsAreDated == Spec => []IntentDatedByItsEvent
<1>1. TradingInv => IntentDatedByItsEvent
  BY DEF TradingInv, IntentInv
<1> QED BY <1>1, TradingInvariant, PTL

(* Once the worker has stopped, the instance row says so and keeps saying  *)
(* so, unless the join of the heartbeat thread timed out                   *)
(* (record_lifecycle_event writes the phase a heartbeat read earlier).     *)
THEOREM StoppedIsKept == Spec => []StoppedRowStays
<1>1. TradingInv => StoppedRowStays
  BY DEF TradingInv, StopInv
<1> QED BY <1>1, TradingInvariant, PTL

(* When an intent is done with, the journal has its answer under its id,   *)
(* unless both of its records failed; no row of the id says otherwise; an  *)
(* intent whose call raised has no row of its own                          *)
(* (OmsGateway._notify_order_intent_result, _submit).                      *)
THEOREM AnswersAreJournalled == Spec => AnsweredIntentJournalled
<1>1. ASSUME TradingInv, NEW t \in Callers, Settled(t)
      PROVE  /\ \A r \in RowsOf(intent[t]) :
                  ~intent[t].raised /\ r.result = intent[t].result
             /\ RowsOf(intent[t]) # {} \/ intent[t].raised \/ Unwritten(t)
  <2>1. intent[t].at = "callback" /\ HasIntent(t)
    BY <1>1, NoIntentIsNowhere DEF Settled, HasIntent
  <2>2. OrderOK(t)
    BY <1>1 DEF TradingInv, OrderInv
  <2> QED BY <2>1, <2>2 DEF OrderOK, Unwritten
<1>2. TradingInv =>
        [ \A t \in Callers : Settled(t) =>
            /\ \A r \in RowsOf(intent[t]) :
                 ~intent[t].raised /\ r.result = intent[t].result
            /\ RowsOf(intent[t]) # {} \/ intent[t].raised \/ Unwritten(t) ]_vars
  BY <1>1
<1> QED BY <1>2, TradingInvariant, PTL DEF AnsweredIntentJournalled

(* The worker uses the journal only as RuntimeJournal says it is used, so  *)
(* what is proved of the journal holds in the worker                       *)
(* (RuntimeJournalSink._persist_state under _with_sqlite_lock_retry).      *)
THEOREM WorkerUsesTheJournal == Spec => JournalSpec
<1>1. Init => JournalInit
  BY DEF Init
<1>2. TradingInv /\ [Next]_vars => [JournalNext]_journalVars
  BY TradingNext
<1> QED BY <1>1, <1>2, TradingInvariant, PTL DEF Spec, JournalSpec

(* The text file of a trading worker tells the rows in the order they were *)
(* committed, whatever threads, failures and crashes come between a row    *)
(* and its line.                                                           *)
THEOREM WorkerKeepsTheOrder == Spec => LinesFollowRows
  BY WorkerUsesTheJournal, JournalKeepsOrder, PTL
=============================================================================
