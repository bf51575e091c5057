---------------------------- MODULE RuntimeState ----------------------------
(***************************************************************************)
(* The vocabulary of runtime/domain: worker phases, the table of allowed   *)
(* phase transitions, and the reason codes a shutdown can carry once they  *)
(* have gone through normalize_runtime_reason_code.                        *)
(***************************************************************************)

(* WorkerPhase.  DEGRADED has a row in the table although no handler of    *)
(* the worker ever assigns it.                                             *)
WorkerPhase ==
  {"INITIALIZING", "READY", "RUNNING", "DEGRADED", "STOPPING",
   "STOPPED", "COMPLETED", "FAILED"}

TERMINAL_PHASES == {"STOPPED", "COMPLETED", "FAILED"}

ALLOWED_PHASE_TRANSITIONS ==
  [p \in WorkerPhase |->
     CASE p = "INITIALIZING" -> {"READY", "RUNNING", "FAILED", "STOPPING"}
       [] p = "READY"        -> {"RUNNING", "STOPPING", "FAILED"}
       [] p = "RUNNING"      -> {"DEGRADED", "STOPPING", "FAILED"}
       [] p = "DEGRADED"     -> {"RUNNING", "STOPPING", "FAILED"}
       [] p = "STOPPING"     -> {"STOPPED", "FAILED", "COMPLETED"}
       [] OTHER              -> {}]

can_transition(from_phase, to_phase) ==
  /\ from_phase # to_phase
  /\ from_phase \notin TERMINAL_PHASES
  /\ to_phase \in ALLOWED_PHASE_TRANSITIONS[from_phase]

-----------------------------------------------------------------------------
(* Shutdown reasons after normalisation, the only ones a final report can  *)
(* carry.  POLICY_VIOLATION stands for every other code of                 *)
(* RuntimeWorkerReasonCode as well: the shutdown treats them alike.        *)
(* NoReason stands for Python's None.                                      *)
NoReason == "None"

Reasons ==
  {"STOP_REQUESTED", "KUBERNETES_TERMINATION", "LOCAL_TERMINATION_OBSERVED",
   "UNHEALTHY_EXECUTION_DETECTED", "POLICY_VIOLATION"}

(* normalize_runtime_reason_code, on the codes the shutdown paths pass it. *)
normalize_runtime_reason_code(code) ==
  CASE code \in Reasons                -> code
    [] code = "MANUAL_STOP_REQUESTED"  -> "STOP_REQUESTED"
    [] code = "RUNTIME_JOB_COMPLETED"  -> "LOCAL_TERMINATION_OBSERVED"
    [] code = "ERROR_DETECTED"         -> "UNHEALTHY_EXECUTION_DETECTED"
    [] OTHER                           -> "POLICY_VIOLATION"

(* canonical_reason_from_stop_request: the text of a stop request, by the  *)
(* branch it takes.  An unknown text becomes STOP_REQUESTED, not the       *)
(* POLICY_VIOLATION the normalisation alone would give.                    *)
canonical_reason_from_stop_request(text) ==
  CASE text = ""                                      -> "STOP_REQUESTED"
    [] text \in {"KUBERNETES_TERMINATION", "SIGTERM"} -> "KUBERNETES_TERMINATION"
    [] text \in {"error_detected", "error", "failed"} ->
         normalize_runtime_reason_code("ERROR_DETECTED")
    [] text = "runtime_job_completed"                 ->
         normalize_runtime_reason_code("RUNTIME_JOB_COMPLETED")
    [] OTHER ->
         LET candidate == normalize_runtime_reason_code(text)
         IN IF candidate = "POLICY_VIOLATION" /\ text \notin Reasons
              THEN "STOP_REQUESTED" ELSE candidate

is_failure_shutdown(reason) == reason = "UNHEALTHY_EXECUTION_DETECTED"

(* The runtime_status of the final report to the runtime manager.          *)
FinalStatus(reason) ==
  IF is_failure_shutdown(reason) THEN "FAILED" ELSE "STOPPED"
=============================================================================
