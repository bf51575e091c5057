----------------------------- MODULE LiveWorker -----------------------------
(***************************************************************************)
(* What the Redis feeds of a PAPER / LIVE worker share with the            *)
(* LifecycleService that starts and stops them: the shutdown flag, the     *)
(* phase, the adapter and the two stop events.  stop() sets the market     *)
(* data event, joins that thread for 60 s, sets the portfolio event, joins *)
(* that thread, and only then leaves RUNNING and drops the adapter.  The   *)
(* whole of stop() and who may call it is WorkerLifecycle's subject.       *)
(***************************************************************************)
EXTENDS Naturals, Sequences, FiniteSets

CONSTANTS
  MaxFaults,    \* bound on lost connections and failed commands
  MaxRestarts   \* bound on process crashes followed by a new launch

ASSUME BoundsAssumption == MaxFaults \in Nat /\ MaxRestarts \in Nat

VARIABLES
  closing,   \* _shutdown_in_progress
  running,   \* _phase is READY or RUNNING
  adapter,   \* _strategy_adapter is not None
  mdStop,    \* _live_md_feed_stop
  pfStop,    \* _portfolio_update_feed_stop
  stopPc,    \* where the body of stop() is
  faults,    \* connections lost and commands failed so far
  restarts   \* crashes so far

workerVars == <<closing, running, adapter, mdStop, pfStop, stopPc>>
faultVars  == <<faults, restarts>>

WorkerInit ==
  /\ closing = FALSE /\ running = TRUE /\ adapter = TRUE
  /\ mdStop = FALSE /\ pfStop = FALSE
  /\ stopPc = "idle"

(* The test both feeds make before they touch the strategy.                *)
Accepting == ~closing /\ running /\ adapter

StopBegins ==
  /\ stopPc = "idle"
  /\ closing' = TRUE
  /\ stopPc' = "md"
  /\ UNCHANGED <<running, adapter, mdStop, pfStop>>

StopSetsMarketData ==
  /\ stopPc = "md"
  /\ mdStop' = TRUE
  /\ stopPc' = "mdJoin"
  /\ UNCHANGED <<closing, running, adapter, pfStop>>

(* join(timeout=60): gone says that the thread has ended; if it has not,   *)
(* the join may only give up while the thread may be stuck in a read.      *)
StopJoinsMarketData(gone, stuck) ==
  /\ stopPc = "mdJoin" /\ (gone \/ stuck)
  /\ stopPc' = "pf"
  /\ UNCHANGED <<closing, running, adapter, mdStop, pfStop>>

(* Mutant of StopSetsPortfolio: the event is not set before the join.      *)
StopForgetsPortfolio ==
  /\ stopPc = "pf"
  /\ stopPc' = "pfJoin"
  /\ UNCHANGED <<closing, running, adapter, mdStop, pfStop>>

StopSetsPortfolio ==
  /\ stopPc = "pf"
  /\ pfStop' = TRUE
  /\ stopPc' = "pfJoin"
  /\ UNCHANGED <<closing, running, adapter, mdStop>>

StopJoinsPortfolio(gone) ==
  /\ stopPc = "pfJoin" /\ gone
  /\ stopPc' = "strategy"
  /\ UNCHANGED <<closing, running, adapter, mdStop, pfStop>>

(* The phase leaves RUNNING and the adapter is dropped.                    *)
StopLeavesRunning ==
  /\ stopPc = "strategy"
  /\ running' = FALSE /\ adapter' = FALSE
  /\ stopPc' = "done"
  /\ UNCHANGED <<closing, mdStop, pfStop>>

Fault == faults < MaxFaults /\ faults' = faults + 1 /\ UNCHANGED restarts
=============================================================================
