----------------------------- MODULE LiveFeeds -----------------------------
(***************************************************************************)
(* The two Redis feeds of a PAPER / LIVE worker, the strategy they meet    *)
(* in, stop() and the launches of the process one after the other.         *)
(***************************************************************************)
EXTENDS MarketDataFeed, PortfolioFeed

VARIABLE
  view   \* the account the strategy is reading: step, stamp, cash, and the
         \* cash in force when it began

NoView == [step |-> "none", stamp |-> 0, cash |-> 0, inForce |-> 0]

vars == <<workerVars, faultVars, mdVars, pfVars, view>>

Init ==
  /\ WorkerInit /\ MdInit /\ PfInit
  /\ pfOn = config.balances
  /\ faults = 0 /\ restarts = 0
  /\ view = NoView

(* account.portfolio() in a strategy's handler: get_snapshot returns the   *)
(* snapshot object itself, and _snapshot_to_portfolio reads ts_event and   *)
(* then cash_balance from it.                                              *)
ReadStamp ==
  /\ md = "strategy" /\ view.step = "none"
  /\ view' = [step |-> "stamped", stamp |-> snapshot.stamp, cash |-> 0,
              inForce |-> snapshot.cash]
  /\ UNCHANGED <<workerVars, faultVars, mdVars, pfVars>>

ReadCash ==
  /\ md = "strategy" /\ view.step = "stamped"
  /\ view' = [view EXCEPT !.step = "read", !.cash = snapshot.cash]
  /\ UNCHANGED <<workerVars, faultVars, mdVars, pfVars>>

StrategyEnds ==
  /\ view.step # "stamped"
  /\ StrategyReturns
  /\ view' = NoView
  /\ UNCHANGED <<workerVars, pfVars>>

StopStep ==
  /\ \/ StopBegins \/ StopSetsMarketData
     \/ StopJoinsMarketData(MdGone, MdStuck)
     \/ StopSetsPortfolio \/ StopJoinsPortfolio(PfGone) \/ StopLeavesRunning
  /\ UNCHANGED <<faultVars, mdVars, pfVars, view>>

(* The process dies and the manager launches it again: Redis keeps the     *)
(* streams and the groups; a new consumer name, new positions, a new       *)
(* subscription and the account of the launch context.                     *)
Crash ==
  /\ restarts < MaxRestarts /\ stopPc = "idle"
  /\ restarts' = restarts + 1
  /\ md' = "off" /\ pos' = NoId /\ mark' = NoId /\ upto' = NoId
  /\ key' = NoKey /\ todo' = <<>> /\ base' = Unset
  /\ before' = [k \in Keys |-> before[k] \cup Range(handled[k])]
  /\ handled' = [k \in Keys |-> <<>>]
  /\ pf' = "off" /\ subscribed' = FALSE /\ inbox' = <<>>
  /\ snapshot' = Opening /\ applying' = 0
  /\ lost' = 1 .. published
  /\ view' = NoView
  /\ UNCHANGED <<workerVars, faults, config, redisVars, pfOn, published>>

Next ==
  \/ (Publish \/ MaybeStart \/ Reader) /\ UNCHANGED <<workerVars, pfVars, view>>
  \/ ((pfOn /\ PublishUpdate) \/ PfMaybeStart \/ Subscriber)
       /\ UNCHANGED <<workerVars, mdVars, view>>
  \/ ReadStamp \/ ReadCash \/ StrategyEnds
  \/ StopStep
  \/ Crash

Spec == Init /\ [][Next]_vars

(* Python schedules the two threads and stop() once it has begun; Redis    *)
(* answers, times out or fails every read; the strategy's handler returns. *)
(* Nothing obliges anyone to publish, to request a stop or to crash.       *)
FairSpec ==
  /\ Spec
  /\ WF_vars((MaybeStart \/ Reader) /\ UNCHANGED <<workerVars, pfVars, view>>)
  /\ WF_vars((PfMaybeStart \/ Subscriber) /\ UNCHANGED <<workerVars, mdVars, view>>)
  /\ WF_vars(ReadStamp \/ ReadCash \/ StrategyEnds)
  /\ WF_vars(stopPc # "idle" /\ StopStep)

-----------------------------------------------------------------------------
TypeOK ==
  /\ {closing, running, adapter, mdStop, pfStop, subscribed} \subseteq BOOLEAN
  /\ stopPc \in {"idle", "md", "mdJoin", "pf", "pfJoin", "strategy", "done"}
  /\ md \in {"off", "none", "open", "loop", "read", "backoff", "batch",
             "field", "strategy", "ack", "ended", "dead"}
  /\ pf \in {"off", "none", "loop", "read", "backoff", "apply", "ended", "dead"}
  /\ key \in Keys \cup {NoKey}
  /\ \A k \in Keys : /\ glast[k] \in -1 .. Len(streams[k])
                     /\ pel[k] \subseteq 1 .. Len(streams[k])
                     /\ pos[k] \in -1 .. Len(streams[k])
                     /\ mark[k] <= upto[k] \/ md \notin {"batch", "ack"}
  /\ snapshot.stamp \in 0 .. published /\ snapshot.cash \in 0 .. published

Ids(k) == Range(handled[k])

(* From the first entry it takes of a stream, one process of the worker    *)
(* handles every following entry, in order and once, whatever connections  *)
(* it loses in between.  When it reads from an id and not from "$", that   *)
(* first entry is the first one behind the id: XREAD is then durable, as   *)
(* the feed's module says of Redis Streams.                                *)
ConsecutiveEntries ==
  ~config.group =>
    \A k \in Keys :
      /\ \A i \in 1 .. Len(handled[k]) - 1 :
           handled[k][i + 1] = handled[k][i] + 1
      /\ k \in Subscribed /\ config.start # Latest /\ md = "read" =>
           \A i \in base[k] + 1 .. mark[k] : i \in Ids(k)

(* With a consumer group no entry is handled twice, neither by one process *)
(* nor by the process launched after a crash.                              *)
GroupNeverTwice ==
  config.group => \A k \in Keys : /\ IsInjective(handled[k])
                                  /\ Ids(k) \cap before[k] = {}

(* XACK comes after processing: what a group has delivered and no longer   *)
(* holds as pending has been handled.  And a reader that goes back to      *)
(* Redis has acknowledged all it handled: it only ever asks for ">" and    *)
(* would never see the entry again.                                        *)
AckedWasHandled ==
  config.group =>
    \A k \in Subscribed :
      /\ \A i \in born[k] + 1 .. glast[k] :
           i \in pel[k] \cup before[k] \cup Ids(k)
      /\ md \in {"loop", "read"} => pel[k] \cap Ids(k) = {}

(* The balance account.portfolio() returns is not older than the one in    *)
(* force when the strategy asked.                                          *)
ViewNotOlderThanCall == view.step = "read" => view.cash >= view.inForce

(* An update of this job that reaches the subscription is shown, unless    *)
(* the connection is lost, the worker is closing or a refused cash value   *)
(* has ended the subscriber.                                               *)
UpdatesShown ==
  \A n \in 1 .. MaxUpdates :
    (published >= n) ~> (snapshot.cash >= n \/ n \in lost \/ closing \/ pf = "dead")

(* stop() gets past both joins.                                            *)
StopFinishes == closing ~> stopPc = "done"
=============================================================================
