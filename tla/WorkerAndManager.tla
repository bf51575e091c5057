-------------------------- MODULE WorkerAndManager --------------------------
(***************************************************************************)
(* The worker process as the runtime manager sees it: WorkerLifecycle      *)
(* implements ManagerView.  The reason of the shutdown is the one a stop   *)
(* request was accepted with or, if there was no request, the one Main     *)
(* resolved when it shut the worker down by itself.                        *)
(***************************************************************************)
EXTENDS WorkerLifecycle, TLC

View == INSTANCE ManagerView
          WITH Lossy  <- LossySrm,
               status <- srm,
               ask    <- IF canonical # NoReason THEN canonical ELSE reason[Main],
               closed <- finals # {}

(* The worker's status reports keep the manager's promise: one reason,     *)
(* fixed by the first accepted request; the final status that reason calls *)
(* for; no report after it, neither by a heartbeat that read the phase     *)
(* before stop() began nor by a second body of stop().                     *)
ImplementsView == View!ViewSpec

(* As ImplementsView, and every accepted shutdown does reach its final     *)
(* report.                                                                 *)
ImplementsFairView == View!ViewFairSpec

(* The threads the coordinator may start are alike (for runs that check    *)
(* invariants only).                                                       *)
CoopSymmetry == Permutations(CoopThreads)
=============================================================================
