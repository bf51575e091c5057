---------------------------- MODULE OrderIntents ----------------------------
(***************************************************************************)
(* The orders a strategy places: context.orders.buy and sell, the intent   *)
(* submitter and the OMS gateway in front of the risk service.  A thread   *)
(* that runs strategy code submits one intent at a time and waits for the  *)
(* answer; the strategy never learns it.  The gateway records an answered  *)
(* call in the journal, and the submitter's callback records it again; a   *)
(* call that raised is recorded by the callback only, without its id.      *)
(***************************************************************************)
EXTENDS Naturals, Sequences

CONSTANTS
  Callers,    \* the threads that run strategy code
  Orders,     \* how the strategy asks: [form, call, side, qty]
  MaxIntents  \* bound: intents submitted

ASSUME IntentsAssumption == MaxIntents \in Nat

VARIABLES
  egress,    \* "open", or "disabled" by disable_order_intent_grpc
  intent,    \* the intent each thread is submitting
  ids        \* order_intent_ids allocated

orderVars == <<egress, intent, ids>>

Results  == {"answered", "unavailable"}   \* accepted or rejected, or no answer
NoIntent == [id |-> 0, at |-> "none", result |-> "none", known |-> FALSE,
             raised |-> FALSE, stamp |-> 0, of |-> 0, missed |-> FALSE]
Intents  == [id : 1 .. MaxIntents, at : {"calling", "gateway", "callback"},
             result : Results \cup {"none"}, known : BOOLEAN,
             raised : BOOLEAN, stamp : Nat, of : Nat, missed : BOOLEAN] \cup {NoIntent}

OrdersInit ==
  /\ egress \in {"open", "disabled"}
  /\ intent = [t \in Callers |-> NoIntent]
  /\ ids = 0

(* buy(id, qty) builds the intent itself; buy(intent) checks its side.     *)
Placeable(o) ==
  /\ o.form = "id" => o.qty
  /\ o.form = "intent" => o.side = o.call

(* _intent_created_at_for_payload: the time of the latest event, before    *)
(* the first one the SDK clock.                                            *)
created_at(stamp, clock) == IF stamp # 0 THEN stamp ELSE clock

(* _submit up to the call; "of" is the event whose hook placed it.         *)
Submit(t, stamp, of) ==
  /\ intent[t] = NoIntent /\ ids < MaxIntents
  /\ ids' = ids + 1
  /\ intent' = [intent EXCEPT ![t] =
       [id |-> ids + 1, known |-> TRUE, raised |-> FALSE, stamp |-> stamp, of |-> of,
        at |-> IF egress = "disabled" THEN "callback" ELSE "calling",
        result |-> IF egress = "disabled" THEN "unavailable" ELSE "none",
        missed |-> FALSE]]
  /\ UNCHANGED egress

(* The call returns: accepted or rejected; without a gRPC target the       *)
(* stand-in client refuses.                                                *)
Answered(t) ==
  /\ intent[t].at = "calling"
  /\ intent' = [intent EXCEPT ![t].at = "gateway", ![t].result = "answered"]
  /\ UNCHANGED <<egress, ids>>

(* _normalize_grpc_error: the call raises.  After a lost connection or a   *)
(* deadline the risk service may have taken the intent all the same; the   *)
(* worker cannot tell.                                                     *)
Raised(t) ==
  /\ intent[t].at = "calling"
  /\ intent' = [intent EXCEPT ![t].at = "callback", ![t].known = FALSE,
                              ![t].raised = TRUE, ![t].result = "unavailable"]
  /\ UNCHANGED <<egress, ids>>

(* The gateway has recorded the answer, or swallowed the journal's error.  *)
(* Mutant: the error reaches the submitter, which takes it for a failed    *)
(* call.                                                                   *)
GatewayNotifiedRaises(t, committed) ==
  /\ intent[t].at = "gateway"
  /\ intent' = [intent EXCEPT ![t].at = "callback",
                  ![t].known = committed,
                  ![t].result = IF committed THEN @ ELSE "unavailable",
                              ![t].missed = ~committed]
  /\ UNCHANGED <<egress, ids>>

GatewayNotified(t, committed) ==
  /\ intent[t].at = "gateway"
  /\ intent' = [intent EXCEPT ![t].at = "callback",
                              ![t].missed = ~committed]
  /\ UNCHANGED <<egress, ids>>

(* The callback too, and the strategy's call returns.                      *)
CallbackDone(t) ==
  /\ intent[t].at = "callback"
  /\ intent' = [intent EXCEPT ![t] = NoIntent]
  /\ UNCHANGED <<egress, ids>>

(* The journal's record of an intent at this moment.                       *)
OrderEntry(i) ==
  [kind |-> "order", state |-> "none",
   id |-> IF i.known THEN i.id ELSE 0, result |-> i.result]

OrdersTypeOK ==
  /\ intent \in [Callers -> Intents]
  /\ ids \in 0 .. MaxIntents /\ egress \in {"open", "disabled"}
=============================================================================
