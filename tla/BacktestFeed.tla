---------------------------- MODULE BacktestFeed ----------------------------
(***************************************************************************)
(* BacktestReplay implements ReplayWindow, and the batches its runs push.  *)
(***************************************************************************)
EXTENDS BacktestReplay

Promise == INSTANCE ReplayWindow
             WITH Window <- Good,
                  given  <- fed,
                  over   <- Driver \in completers,
                  cut    <- feedStop

(* The bars the driver replays: each usable bar of the window once, in     *)
(* order, without a gap, across pages, retries and unusable bars; complete *)
(* only at the end or when stopped.                                        *)
ReplaysWindow == Promise!WindowSpec

(* Pushes for the runs: two bars of the window; one bar outside it, one    *)
(* event of another kind and the end of the stream.                        *)
AtTime(t) == [time |-> t, kind |-> "bar"]
TwoBars == [events |-> <<AtTime(2), AtTime(3)>>, eos |-> FALSE]
LastPush == [events |-> <<AtTime(9), AtTime(4), [time |-> 4, kind |-> "other"]>>,
             eos |-> TRUE]
RunBatches == {TwoBars, LastPush}
NoBatches == {}
OneBroken == {2}
FirstPageBroken == {1, 2}
=============================================================================
