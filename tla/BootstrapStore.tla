--------------------------- MODULE BootstrapStore ---------------------------
(***************************************************************************)
(* The worker's SQLite file as a launch writes it: the instance row of the *)
(* runtime, one row per launch attempt and the lifecycle events.  Every    *)
(* operation is one transaction, so a crash leaves all of it or nothing.   *)
(* BootstrapPersistenceCoordinator and RuntimeJournalSink write the same   *)
(* rows over two connections.                                              *)
(***************************************************************************)
EXTENDS LaunchInputs

VARIABLES
  inst,    \* worker_instances: state and attempt
  rows,    \* worker_launch_attempts: state of each attempt, "none": no row
  events   \* worker_events: [attempt, name, reason]; one per id

storeVars == <<inst, rows, events>>

StoreInit ==
  /\ inst = [state |-> "none", attempt |-> 0]
  /\ rows = [a \in 1 .. MaxAttempts |-> "none"]
  /\ events = {}

(* The row is inserted when it is not there.                               *)
upsert_instance(a, state) == inst' = [state |-> state, attempt |-> a]

(* UPDATE ... WHERE runtime_id: no row, no change.                         *)
update_state(a, state) ==
  inst' = IF inst.state = "none" THEN inst
          ELSE [state |-> state, attempt |-> a]

(* The row of a repeated attempt is refused and keeps the earlier outcome. *)
append_attempt(a) ==
  rows' = [rows EXCEPT ![a] = IF @ = "none" THEN "STARTING" ELSE @]

(* UPDATE ... WHERE launch_attempt: no row, no change.                     *)
mark_outcome(a, state) ==
  rows' = [rows EXCEPT ![a] = IF @ = "none" THEN @ ELSE state]

(* An event whose id is there already is not written again; the id of a    *)
(* launch_failed event does not depend on the reason.                      *)
append_event(a, name, reason) ==
  events' = IF \E e \in events : e.attempt = a /\ e.name = name THEN events
            ELSE events \cup {[attempt |-> a, name |-> name, reason |-> reason]}

(* Mutant of on_bootstrap_start: only the instance row is written.         *)
StartWithoutRow(a) ==
  /\ upsert_instance(a, "INITIALIZING")
  /\ UNCHANGED <<rows, events>>

on_bootstrap_start(a) ==
  /\ upsert_instance(a, "INITIALIZING")
  /\ append_attempt(a)
  /\ UNCHANGED events

on_bootstrap_failure(a, reason) ==
  /\ update_state(a, "FAILED")
  /\ mark_outcome(a, "FAILED")
  /\ append_event(a, "launch_failed", reason)

(* Mutant of on_bootstrap_success: the attempt's row is left alone.        *)
SuccessWithoutRow(a) ==
  /\ update_state(a, "READY")
  /\ append_event(a, "launch_succeeded", "none")
  /\ UNCHANGED rows

on_bootstrap_success(a) ==
  /\ update_state(a, "READY")
  /\ mark_outcome(a, "SUCCEEDED")
  /\ append_event(a, "launch_succeeded", "none")

(* The journal's transactions make sure of the instance row and write only *)
(* it; their events have ids of their own and are not told apart here.     *)
record_phase_change(a, phase) ==
  /\ upsert_instance(a, phase)
  /\ UNCHANGED <<rows, events>>

record_lifecycle_event(a, local_state) ==
  /\ upsert_instance(a, local_state)
  /\ UNCHANGED <<rows, events>>
=============================================================================
