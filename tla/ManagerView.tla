----------------------------- MODULE ManagerView -----------------------------
(***************************************************************************)
(* What the strategy-runtime-manager (SRM) may rely on about one worker:   *)
(* the status records it receives from the first report to the final one.  *)
(*                                                                         *)
(*   status  the runtime_status it holds                                   *)
(*   ask     the canonical reason of the shutdown, None before there is one*)
(*   closed  the final report has been made                                *)
(*                                                                         *)
(* The promise: a shutdown has one reason, fixed once; exactly one final   *)
(* status follows it, the one this reason calls for; and no report of any  *)
(* kind comes after.  A heartbeat in flight may still overwrite STOPPING.  *)
(***************************************************************************)
EXTENDS RuntimeState

CONSTANT Lossy   \* may a report be lost on its way?

VARIABLES status, ask, closed

viewVars == <<status, ask, closed>>

Received(s) == {s} \cup (IF Lossy THEN {status} ELSE {})

ViewInit == status = "NONE" /\ ask = NoReason /\ closed = FALSE

Beat ==
  /\ ~closed
  /\ status' \in {"READY", "RUNNING"}
  /\ UNCHANGED <<ask, closed>>

ReportFailure ==
  /\ ~closed /\ ask = NoReason
  /\ status' \in {"FAILED", "STARTUP_FAILED"}
  /\ UNCHANGED <<ask, closed>>

ReportStopping ==
  /\ ~closed /\ ask = NoReason
  /\ status' = "STOPPING"
  /\ UNCHANGED <<ask, closed>>

Ask ==
  /\ ~closed /\ ask = NoReason
  /\ ask' \in Reasons
  /\ UNCHANGED <<status, closed>>

Finish ==
  /\ ~closed /\ ask # NoReason
  /\ closed' = TRUE
  /\ status' \in Received(FinalStatus(ask))
  /\ UNCHANGED ask

ViewNext == Beat \/ ReportFailure \/ ReportStopping \/ Ask \/ Finish

ViewSpec == ViewInit /\ [][ViewNext]_viewVars

(* A shutdown that has begun is followed by its final report.              *)
ViewFairSpec == ViewSpec /\ WF_viewVars(Finish)
=============================================================================
