--------------------------- MODULE RuntimeJournal ---------------------------
(***************************************************************************)
(* RuntimeJournalSink: every record is a row committed to SQLite and then  *)
(* a line appended to a text file, under one lock.  A locked database is   *)
(* tried again; any other error, and any error of the text file, is raised *)
(* to the thread that records.  The process may die between the two.       *)
(***************************************************************************)
EXTENDS Naturals, Sequences

CONSTANTS
  Threads,   \* the threads that record
  Entries,   \* what they may record: [kind, state, ...]
  Retries    \* further tries on a locked database (4 in the code)

ASSUME RetriesAssumption == Retries \in Nat
ASSUME ThreadsAssumption == "free" \notin Threads

VARIABLES
  lock,   \* the thread that holds _lock, or "free"
  call,   \* the record each thread is writing; "after": the threads with an
          \* earlier row whose line is still to come
  intents,\* the rows of order_intent_journal; no one reads the others
  row     \* worker_instances.state

journalVars == <<lock, call, intents, row>>

NoCall == [at |-> "none", entry |-> "none", tries |-> 0, after |-> {}]
Recording(entry) ==
  [at |-> "waiting", entry |-> entry, tries |-> 0, after |-> {}]
Calls ==
  [at : {"waiting", "retrying", "committed"}, entry : Entries,
   tries : 0 .. Retries, after : SUBSET Threads] \cup {NoCall}
NextCalls == {NoCall} \cup {Recording(e) : e \in Entries}

JournalInit ==
  /\ lock = "free" /\ call = [t \in Threads |-> NoCall]
  /\ intents = {} /\ row = "none"

(* The thread starts to record and has to wait for the lock.               *)
Record(t, entry) ==
  /\ call[t] = NoCall
  /\ call' = [call EXCEPT ![t] = Recording(entry)]
  /\ UNCHANGED <<lock, intents, row>>

NoRecord == UNCHANGED journalVars

(* The lock is free, or the thread has it since an earlier try.            *)
MayWrite(t) ==
  \/ call[t].at = "waiting" /\ lock = "free"
  \/ call[t].at = "retrying"

Committed == {t \in Threads : call[t].at = "committed"}

(* What one transaction leaves: the row, and the instance's state when the *)
(* record carries one.                                                     *)
Inserted(e) ==
  /\ intents' = IF e.kind = "order" THEN intents \cup {e} ELSE intents
  /\ row' = IF e.state = "none" THEN row ELSE e.state

(* Mutant of Commit: the lock is given back with the transaction.          *)
CommitUnlocks(t) ==
  /\ MayWrite(t) /\ Inserted(call[t].entry)
  /\ call' = [call EXCEPT ![t].at = "committed", ![t].after = Committed]
  /\ lock' = "free"

Commit(t) ==
  /\ MayWrite(t) /\ Inserted(call[t].entry)
  /\ call' = [call EXCEPT ![t].at = "committed", ![t].after = Committed]
  /\ lock' = t

(* It sleeps with the lock and tries again.                                *)
DatabaseLocked(t) ==
  /\ MayWrite(t) /\ call[t].tries < Retries
  /\ call' = [call EXCEPT ![t].at = "retrying", ![t].tries = @ + 1]
  /\ lock' = t
  /\ UNCHANGED <<intents, row>>

(* The record is over, by its line or by an exception, and the thread goes *)
(* on, perhaps to another record.                                          *)
Over(t, next) ==
  /\ call' = [u \in Threads |->
               IF u = t THEN next ELSE [call[u] EXCEPT !.after = @ \ {t}]]
  /\ UNCHANGED <<intents, row>>

WriteLine(t, next) ==
  /\ call[t].at = "committed"
  /\ Over(t, next) /\ lock' = "free"

(* The last try on a locked database, or an error of another kind.         *)
CommitFails(t, next) ==
  /\ MayWrite(t)
  /\ Over(t, next) /\ lock' = "free"

(* Mutant of LineFails: the exception leaves the lock behind.              *)
LineFailsLocked(t, next) ==
  /\ call[t].at = "committed"
  /\ Over(t, next) /\ lock' = lock

LineFails(t, next) ==
  /\ call[t].at = "committed"
  /\ Over(t, next) /\ lock' = "free"

(* The process dies; the two files stay as they are.                       *)
JournalDies ==
  /\ lock' = "free" /\ call' = [t \in Threads |-> NoCall]
  /\ UNCHANGED <<intents, row>>

(* The journal under any use of it.                                        *)
JournalNext ==
  \/ \E t \in Threads :
        \/ \E e \in Entries : Record(t, e)
        \/ Commit(t) \/ DatabaseLocked(t)
        \/ \E next \in NextCalls :
              WriteLine(t, next) \/ CommitFails(t, next) \/ LineFails(t, next)
  \/ JournalDies

JournalSpec == JournalInit /\ [][JournalNext]_journalVars

-----------------------------------------------------------------------------
JournalTypeOK ==
  /\ lock \in Threads \cup {"free"}
  /\ call \in [Threads -> Calls]
  /\ intents \subseteq Entries

(* The text file tells the rows in the order they were committed: no line  *)
(* is written while an earlier row still waits for its own, whatever       *)
(* threads, failures and crashes come between a row and its line           *)
(* (record_order_intent, _persist_state).                                  *)
LinesFollowRows ==
  [][\A t \in Threads : WriteLine(t, call'[t]) => call[t].after = {}]_journalVars
=============================================================================
