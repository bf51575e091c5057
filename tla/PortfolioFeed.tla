---------------------------- MODULE PortfolioFeed ----------------------------
(***************************************************************************)
(* The thread swr-portfolio-update-feed: it subscribes to the Pub/Sub      *)
(* channel of the job's partition and writes the balances of its own job   *)
(* into the account snapshot the strategy reads.                           *)
(*                                                                         *)
(* The ledger numbers its updates; kind says what the reader makes of one: *)
(* "own" an update of this job, "other" one of another job of the          *)
(* partition or one that does not parse, "badcash" one of this job whose   *)
(* cash float() refuses, which no handler catches.  Pub/Sub keeps nothing: *)
(* what is published while nobody is subscribed is lost.                   *)
(***************************************************************************)
EXTENDS LiveWorker

CONSTANTS
  Kinds,        \* kinds of update the ledger publishes
  MaxUpdates    \* bound on the updates published

ASSUME PortfolioAssumption ==
  /\ Kinds \subseteq {"own", "other", "badcash"}
  /\ MaxUpdates \in Nat

VARIABLES
  pfOn,        \* portfolio_update_enabled, a job_id and a Redis URL
  pf,          \* where the subscriber is
  subscribed,  \* the Pub/Sub connection is open
  inbox,       \* messages delivered to it and not read
  published,   \* updates the ledger has published
  snapshot,    \* PortfolioSnapshot: its stamp and its cash, as update numbers
  applying,    \* number of the update being written, 0 if none
  lost         \* history: updates no reader will see

pfVars == <<pfOn, pf, subscribed, inbox, published, snapshot, applying, lost>>

Opening == [stamp |-> 0, cash |-> 0]

PfInit ==
  /\ pfOn \in BOOLEAN
  /\ pf = "off" /\ subscribed = FALSE /\ inbox = <<>> /\ published = 0
  /\ snapshot = Opening /\ applying = 0 /\ lost = {}

Unread == {inbox[i].n : i \in DOMAIN inbox}

(* portfolio-ledger-service: PUBLISH.                                      *)
PublishUpdate ==
  /\ published < MaxUpdates
  /\ published' = published + 1
  /\ \E kind \in Kinds :
       LET m == [n |-> published', kind |-> kind]
       IN  IF subscribed THEN inbox' = Append(inbox, m) /\ UNCHANGED lost
                         ELSE lost' = lost \cup {m.n} /\ UNCHANGED inbox
  /\ UNCHANGED <<pfOn, pf, subscribed, snapshot, applying, faultVars>>

(* run() starts the thread once, in PAPER and LIVE, when it is configured. *)
PfMaybeStart ==
  /\ pf = "off" /\ stopPc = "idle"
  /\ pf' = IF pfOn THEN "loop" ELSE "none"
  /\ UNCHANGED <<pfOn, subscribed, inbox, published, snapshot, applying, lost,
                 faultVars>>

PfSeesStop ==
  /\ pf \in {"loop", "backoff"} /\ pfStop
  /\ pf' = "ended"
  /\ subscribed' = FALSE /\ inbox' = <<>> /\ lost' = lost \cup Unread
  /\ UNCHANGED <<pfOn, published, snapshot, applying, faultVars>>

Subscribe ==
  /\ pf = "loop" /\ ~pfStop /\ ~subscribed
  /\ subscribed' = TRUE
  /\ pf' = "read"
  /\ UNCHANGED <<pfOn, inbox, published, snapshot, applying, lost, faultVars>>

ReadAgain ==
  /\ pf = "loop" /\ ~pfStop /\ subscribed
  /\ pf' = "read"
  /\ UNCHANGED <<pfOn, subscribed, inbox, published, snapshot, applying, lost,
                 faultVars>>

(* Mutant of GetMessage: the newest message of the buffer is taken first.  *)
GetNewestMessage ==
  /\ pf = "read" /\ inbox # <<>>
  /\ inbox' = SubSeq(inbox, 1, Len(inbox) - 1)
  /\ LET m == inbox[Len(inbox)]
     IN  IF m.kind = "own" /\ Accepting
           THEN pf' = "apply" /\ applying' = m.n /\ UNCHANGED lost
           ELSE pf' = "loop" /\ lost' = lost \cup {m.n} /\ UNCHANGED applying
  /\ UNCHANGED <<pfOn, subscribed, published, snapshot, faultVars>>

(* get_message(timeout=1.0): a message that does not parse or belongs to   *)
(* another job is skipped, an update is dropped while the worker is not    *)
(* accepting, and a cash value float() refuses ends the thread.            *)
GetMessage ==
  /\ pf = "read" /\ inbox # <<>>
  /\ inbox' = Tail(inbox)
  /\ LET m == Head(inbox)
     IN  \/ /\ m.kind = "other" \/ ~Accepting
            /\ pf' = "loop" /\ lost' = lost \cup {m.n}
            /\ UNCHANGED <<applying, subscribed>>
         \/ /\ m.kind = "own" /\ Accepting
            /\ pf' = "apply" /\ applying' = m.n
            /\ UNCHANGED <<lost, subscribed>>
         \/ /\ m.kind = "badcash" /\ Accepting
            /\ pf' = "dead" /\ lost' = lost \cup {m.n} \cup Unread
            /\ subscribed' = FALSE
            /\ UNCHANGED applying
  /\ UNCHANGED <<pfOn, published, snapshot, faultVars>>

GetNothing ==
  /\ pf = "read" /\ inbox = <<>>
  /\ pf' = "loop"
  /\ UNCHANGED <<pfOn, subscribed, inbox, published, snapshot, applying, lost,
                 faultVars>>

(* apply_pls_balance_update writes ts_event, then replaces cash_balance;   *)
(* its lock does not keep a reader of the snapshot object out.             *)
ApplyStamp ==
  /\ pf = "apply" /\ snapshot.stamp # applying
  /\ snapshot' = [snapshot EXCEPT !.stamp = applying]
  /\ UNCHANGED <<pfOn, pf, subscribed, inbox, published, applying, lost, faultVars>>

(* Mutant of ApplyCash: only the time stamp of the snapshot is replaced.   *)
ApplyNoCash ==
  /\ pf = "apply" /\ snapshot.stamp = applying
  /\ applying' = 0
  /\ pf' = "loop"
  /\ UNCHANGED <<pfOn, subscribed, inbox, published, snapshot, lost, faultVars>>

ApplyCash ==
  /\ pf = "apply" /\ snapshot.stamp = applying
  /\ snapshot' = [snapshot EXCEPT !.cash = applying]
  /\ applying' = 0
  /\ pf' = "loop"
  /\ UNCHANGED <<pfOn, subscribed, inbox, published, lost, faultVars>>

PfFails ==
  /\ \/ pf = "loop" /\ ~pfStop /\ ~subscribed
     \/ pf = "read"
  /\ pf' = "backoff"
  /\ subscribed' = FALSE /\ inbox' = <<>> /\ lost' = lost \cup Unread
  /\ Fault
  /\ UNCHANGED <<pfOn, published, snapshot, applying>>

PfReconnects ==
  /\ pf = "backoff" /\ ~pfStop
  /\ pf' = "loop"
  /\ UNCHANGED <<pfOn, subscribed, inbox, published, snapshot, applying, lost,
                 faultVars>>

PfGone == pf \in {"off", "none", "ended", "dead"}

Subscriber ==
  \/ PfSeesStop \/ Subscribe \/ ReadAgain \/ GetMessage \/ GetNothing
  \/ ApplyStamp \/ ApplyCash \/ PfFails \/ PfReconnects
=============================================================================
