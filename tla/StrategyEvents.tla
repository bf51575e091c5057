--------------------------- MODULE StrategyEvents ---------------------------
(***************************************************************************)
(* One market data event on its way to the strategy: the tick dispatch of  *)
(* LifecycleService, StrategyAdapter.on_event with its error boundary, and *)
(* the ReplaySdkBridge, which moves the clock, stores the event and        *)
(* advances the indicators before it calls the hook.  An exception on the  *)
(* way, in the SDK, in an indicator or in the hook, ends the event and is  *)
(* not seen by the feed; what was done before it stays done.               *)
(***************************************************************************)
EXTENDS Naturals, Sequences, FiniteSets, SequencesExt

CONSTANTS
  Events,      \* [kind, ts, valid], as the live feed hands them over
  Hooks,       \* the kinds whose hook the strategy overrides
  Indicators   \* the registrations, in order: [name, source]

Kinds == {"bar", "quote", "tick"}
ASSUME EventsAssumption ==
  \A e \in Events :
    e.kind \in Kinds /\ e.ts \in Nat \ {0} /\ e.valid \in BOOLEAN
ASSUME HooksAssumption == Hooks \subseteq Kinds
ASSUME IndicatorsAssumption == Indicators \in Seq([name : STRING, source : Kinds])

VARIABLES
  ev,      \* the event being dispatched
  at,      \* where it is: idle, first, bridge, applied, hook
  first,   \* _first_data_received
  stamp,   \* _last_data_event_timestamp, 0: None
  clock,   \* the SDK clock the strategy reads
  data,    \* InMemoryReplayDataService: per kind, of the one symbol
  values   \* IndicatorService: the event each indicator last took

eventVars == <<ev, at, first, stamp, clock, data, values>>

NoEvent == [kind |-> "none", ts |-> 0]
Names   == {Indicators[i].name : i \in 1 .. Len(Indicators)}

EventsInit ==
  /\ ev = NoEvent /\ at = "idle" /\ first = FALSE
  /\ stamp = 0 /\ clock = 0
  /\ data = [k \in Kinds |-> <<>>]
  /\ values = [n \in Names |-> 0]

(* The event is over.  Mutant: it is kept.                                 *)
EventEndsKept ==
  /\ at' = "idle" /\ ev' = ev

EventEnds ==
  /\ at' = "idle" /\ ev' = NoEvent

replay_sdk_hook_overridden(kind) == kind \in Hooks

(* A kind without a hook of its own goes to on_event as it is: the bridge  *)
(* is not used, neither clock nor data nor indicators know of it.          *)
Routed(e) == IF replay_sdk_hook_overridden(e.kind) THEN "bridge" ELSE "hook"

(* _dispatch_paper_live_tick up to the adapter.  Mutant: the time is noted *)
(* by whoever ends the event, as a push of the replay ingress does.        *)
DispatchUnstamped(e) ==
  /\ at = "idle" /\ ev' = e
  /\ first' = TRUE
  /\ at' = IF first THEN Routed(e) ELSE "first"
  /\ stamp' = stamp
  /\ UNCHANGED <<clock, data, values>>

Dispatch(e) ==
  /\ at = "idle" /\ ev' = e
  /\ first' = TRUE
  /\ at' = IF first THEN Routed(e) ELSE "first"
  /\ stamp' = IF first THEN e.ts ELSE stamp
  /\ UNCHANGED <<clock, data, values>>

(* The first event goes on once its marker is in the journal ...           *)
FirstRecorded ==
  /\ at = "first" /\ at' = Routed(ev) /\ stamp' = ev.ts
  /\ UNCHANGED <<ev, first, clock, data, values>>

(* ... and is lost when the journal raises.                                *)
FirstLost ==
  /\ at = "first" /\ EventEnds
  /\ UNCHANGED <<first, stamp, clock, data, values>>

(* The bars are a series; of quotes and ticks the last one is kept.        *)
Stored ==
  [data EXCEPT ![ev.kind] =
     IF ev.kind = "bar" THEN Append(@, ev.ts) ELSE <<ev.ts>>]

(* apply_bar, apply_quote, apply_tick: the clock first; an event the SDK's *)
(* own checks refuse ends here.  Mutant: only such an event moves it.      *)
ApplyUntimed ==
  /\ at = "bridge"
  /\ clock' = IF ev.valid THEN clock ELSE ev.ts
  /\ \/ ev.valid /\ at' = "applied" /\ ev' = ev /\ data' = Stored
     \/ ~ev.valid /\ EventEnds /\ data' = data
  /\ UNCHANGED <<first, stamp, values>>

Apply ==
  /\ at = "bridge"
  /\ clock' = ev.ts
  /\ \/ ev.valid /\ at' = "applied" /\ ev' = ev /\ data' = Stored
     \/ ~ev.valid /\ EventEnds /\ data' = data
  /\ UNCHANGED <<first, stamp, values>>

(* The registrations of the event's source, up to the n-th.                *)
Advanced(n) ==
  [x \in Names |->
     IF \E i \in 1 .. n : Indicators[i].name = x /\ Indicators[i].source = ev.kind
     THEN ev.ts ELSE values[x]]

Advance ==
  /\ at = "applied" /\ at' = "hook"
  /\ values' = Advanced(Len(Indicators))
  /\ UNCHANGED <<ev, first, stamp, clock, data>>

(* The update of the n-th registration raises: no hook for this event.     *)
IndicatorRaises(n) ==
  /\ at = "applied" /\ n \in 1 .. Len(Indicators)
  /\ Indicators[n].source = ev.kind
  /\ values' = Advanced(n - 1)
  /\ EventEnds /\ UNCHANGED <<first, stamp, clock, data>>

(* context.data, as a hook reads it: the newest event of a kind, and the   *)
(* last `limit` ones between two times.                                    *)
latest(kind) == IF data[kind] = <<>> THEN 0 ELSE Last(data[kind])

filter_series(s, start, end, limit) ==
  LET within  == {i \in DOMAIN s : start <= s[i] /\ s[i] <= end}
      after(i) == Cardinality({j \in within : j > i})
      size    == IF Cardinality(within) > limit THEN limit ELSE Cardinality(within)
  IN  [n \in 1 .. size |-> s[CHOOSE i \in within : after(i) = size - n]]

get_series(kind, start, end, limit) == filter_series(data[kind], start, end, limit)

(* The hook returns, or raises into the boundary.                          *)
HookEnds ==
  /\ at = "hook" /\ EventEnds
  /\ UNCHANGED <<first, stamp, clock, data, values>>

-----------------------------------------------------------------------------
EventsTypeOK ==
  /\ ev \in Events \cup {NoEvent}
  /\ at \in {"idle", "first", "bridge", "applied", "hook"}
  /\ (at = "idle") = (ev = NoEvent)
  /\ first \in BOOLEAN /\ stamp \in Nat /\ clock \in Nat
  /\ values \in [Names -> Nat]

(* The clock, the newest data of its kind and every indicator of that      *)
(* source show the event.                                                  *)
WorldShows(e) ==
  /\ clock = e.ts
  /\ latest(e.kind) = e.ts
  /\ \A i \in 1 .. Len(Indicators) :
       Indicators[i].source = e.kind => values[Indicators[i].name] = e.ts

(* A hook of the strategy runs on a world that already contains its event: *)
(* context.time, context.data and every indicator of that source show it,  *)
(* also after events that failed half-way (dispatch_on_bar, on_quote,      *)
(* on_tick).                                                               *)
HookSeesItsEvent ==
  at = "hook" /\ ev.kind \in Hooks =>
    /\ WorldShows(ev)
    /\ get_series(ev.kind, ev.ts, ev.ts, 1) = <<ev.ts>>
=============================================================================
