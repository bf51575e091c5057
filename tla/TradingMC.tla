------------------------------ MODULE TradingMC -----------------------------
(***************************************************************************)
(* A small trading worker: a strategy with a hook for bars, two indicators *)
(* of bars, and events that arrive in any order.                           *)
(***************************************************************************)
EXTENDS Trading

E(kind, ts, valid) == [kind |-> kind, ts |-> ts, valid |-> valid]
MCEvents == {E("bar", 1, TRUE), E("tick", 2, TRUE), E("bar", 3, FALSE)}

MCIndicators == << [name |-> "sma", source |-> "bar"],
                   [name |-> "atr", source |-> "bar"] >>

O(form, side, qty) == [form |-> form, call |-> "BUY", side |-> side, qty |-> qty]
MCOrders == {O("intent", "BUY", TRUE), O("intent", "SELL", TRUE),
             O("id", "BUY", TRUE), O("id", "BUY", FALSE)}

MCEntries ==
  [kind : {"phase", "heartbeat", "step", "terminated", "first_data", "order"},
   state : {"none", "INITIALIZING", "READY", "RUNNING", "STOPPING", "STOPPED"},
   id : 0 .. MaxIntents, result : {"none"} \cup Results]
=============================================================================
