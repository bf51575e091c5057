----------------------- MODULE RuntimeJournal_proofs -----------------------
(***************************************************************************)
(* Theorems about RuntimeJournal, for every set of threads, every set of   *)
(* records and any number of retries.                                      *)
(***************************************************************************)
EXTENDS RuntimeJournal, TLAPS

Holding == {"retrying", "committed"}

(* The lock is held exactly through the tries and up to the line, and a    *)
(* row is committed when no earlier one waits for its line.                *)
LockIsHeld == \A t \in Threads : (lock = t) <=> (call[t].at \in Holding)
NoneBefore == \A t \in Threads : call[t].after = {}

JournalInv == JournalTypeOK /\ LockIsHeld /\ NoneBefore

(* What Over leaves of the other threads' records is a record.             *)
LEMMA AfterLess ==
  ASSUME NEW c \in Calls, NEW t \in Threads
  PROVE  /\ [c EXCEPT !.after = @ \ {t}] \in Calls
         /\ [c EXCEPT !.after = @ \ {t}].at = c.at
         /\ c.after = {} => [c EXCEPT !.after = @ \ {t}].after = {}
  BY DEF Calls, NoCall

(* A record that is over: the thread is at rest or has begun another one.  *)
LEMMA NextFacts ==
  ASSUME NEW next \in NextCalls
  PROVE  next \in Calls /\ next.at \notin Holding /\ next.after = {}
  BY RetriesAssumption DEF NextCalls, Calls, NoCall, Recording, Holding

(* A thread that may write is the only one that has begun to.              *)
LEMMA OnlyWriter ==
  ASSUME JournalInv, NEW t \in Threads,
         MayWrite(t) \/ call[t].at = "committed"
  PROVE  /\ \A u \in Threads \ {t} : call[u].at \notin Holding
         /\ MayWrite(t) => Committed = {} /\ call[t].entry \in Entries
  BY ThreadsAssumption
     DEF JournalInv, JournalTypeOK, LockIsHeld, MayWrite, Committed, Holding,
         Calls, NoCall

(* Init establishes the invariant.                                         *)
LEMMA InvInit == JournalInit => JournalInv
  BY ThreadsAssumption
     DEF JournalInit, JournalInv, JournalTypeOK, LockIsHeld, NoneBefore,
         Calls, NoCall, Holding

(* The three ways a record ends.                                           *)
LEMMA InvOver ==
  ASSUME JournalInv, NEW t \in Threads, NEW next \in NextCalls,
         MayWrite(t) \/ call[t].at = "committed",
         Over(t, next), lock' = "free"
  PROVE  JournalInv'
<1>1. \A u \in Threads : /\ call'[u] \in Calls
                         /\ call'[u].at \notin Holding
                         /\ call'[u].after = {}
  <2> SUFFICES ASSUME NEW u \in Threads
               PROVE  /\ call'[u] \in Calls
                      /\ call'[u].at \notin Holding
                      /\ call'[u].after = {}
    OBVIOUS
  <2>1. CASE u = t
    BY <2>1, NextFacts DEF Over
  <2>2. CASE u # t
    <3>1. call'[u] = [call[u] EXCEPT !.after = @ \ {t}]
      BY <2>2 DEF Over
    <3>2. call[u] \in Calls /\ call[u].after = {}
      BY DEF JournalInv, JournalTypeOK, NoneBefore
    <3>3. call[u].at \notin Holding
      BY <2>2, OnlyWriter
    <3> QED BY <3>1, <3>2, <3>3, AfterLess
  <2> QED BY <2>1, <2>2
<1>2. call' \in [Threads -> Calls]
  BY <1>1 DEF Over
<1>3. LockIsHeld'
  BY <1>1, ThreadsAssumption DEF LockIsHeld
<1> QED BY <1>1, <1>2, <1>3
       DEF JournalInv, JournalTypeOK, NoneBefore, Over

(* Every step keeps the invariant.                                         *)
LEMMA InvNext == JournalInv /\ [JournalNext]_journalVars => JournalInv'
<1> SUFFICES ASSUME JournalInv, [JournalNext]_journalVars PROVE JournalInv'
  OBVIOUS
<1> USE DEF JournalInv
<1>1. ASSUME NEW t \in Threads, NEW e \in Entries, Record(t, e)
      PROVE  JournalInv'
  <2>1. Recording(e) \in Calls /\ Recording(e).at = "waiting"
        /\ Recording(e).after = {}
    BY RetriesAssumption DEF Recording, Calls
  <2>2. call'[t] = Recording(e) /\ \A u \in Threads \ {t} : call'[u] = call[u]
    BY <1>1 DEF Record, JournalTypeOK
  <2>3. JournalTypeOK'
    BY <1>1, <2>1 DEF Record, JournalTypeOK
  <2>4. call[t].at = "none"
    BY <1>1 DEF Record, NoCall
  <2>5. LockIsHeld'
    BY <1>1, <2>1, <2>2, <2>4 DEF Record, LockIsHeld, Holding
  <2>6. NoneBefore'
    BY <2>1, <2>2 DEF NoneBefore
  <2> QED BY <2>3, <2>5, <2>6
<1>2. ASSUME NEW t \in Threads, Commit(t) PROVE JournalInv'
  <2>1. /\ \A u \in Threads \ {t} : call[u].at \notin Holding
        /\ Committed = {} /\ call[t].entry \in Entries
    BY <1>2, OnlyWriter DEF Commit
  <2>2. call[t] \in Calls /\ call[t] # NoCall
    BY <1>2 DEF Commit, MayWrite, JournalTypeOK, NoCall
  <2>3. call' = [call EXCEPT ![t] =
                 [call[t] EXCEPT !.at = "committed", !.after = {}]]
    BY <1>2, <2>1, <2>2 DEF Commit, JournalTypeOK
  <2>4. /\ call'[t] \in Calls /\ call'[t].at = "committed"
        /\ call'[t].after = {}
        /\ \A u \in Threads \ {t} : call'[u] = call[u]
    BY <2>2, <2>3 DEF JournalTypeOK, Calls
  <2>5. JournalTypeOK'
    BY <1>2, <2>1, <2>3, <2>4 DEF Commit, Inserted, JournalTypeOK
  <2>6. LockIsHeld'
    BY <1>2, <2>1, <2>4 DEF Commit, LockIsHeld, Holding
  <2>7. NoneBefore'
    BY <2>4 DEF NoneBefore
  <2> QED BY <2>5, <2>6, <2>7
<1>3. ASSUME NEW t \in Threads, DatabaseLocked(t) PROVE JournalInv'
  <2>1. \A u \in Threads \ {t} : call[u].at \notin Holding
    BY <1>3, OnlyWriter DEF DatabaseLocked
  <2>2. call[t] \in Calls /\ call[t] # NoCall /\ call[t].after = {}
    BY <1>3 DEF DatabaseLocked, MayWrite, JournalTypeOK, NoCall, NoneBefore
  <2>3. call' = [call EXCEPT ![t] =
                 [call[t] EXCEPT !.at = "retrying", !.tries = @ + 1]]
    BY <1>3, <2>2 DEF DatabaseLocked, JournalTypeOK
  <2>4. /\ call'[t] \in Calls /\ call'[t].at = "retrying"
        /\ call'[t].after = {}
        /\ \A u \in Threads \ {t} : call'[u] = call[u]
    BY <1>3, <2>2, <2>3, RetriesAssumption
       DEF DatabaseLocked, JournalTypeOK, Calls
  <2>5. JournalTypeOK'
    BY <1>3, <2>3, <2>4 DEF DatabaseLocked, JournalTypeOK
  <2>6. LockIsHeld'
    BY <1>3, <2>1, <2>4 DEF DatabaseLocked, LockIsHeld, Holding
  <2>7. NoneBefore'
    BY <2>4 DEF NoneBefore
  <2> QED BY <2>5, <2>6, <2>7
<1>4. ASSUME NEW t \in Threads, NEW next \in NextCalls,
             WriteLine(t, next) \/ CommitFails(t, next) \/ LineFails(t, next)
      PROVE  JournalInv'
  BY <1>4, InvOver DEF WriteLine, CommitFails, LineFails
<1>5. CASE JournalDies
  BY <1>5, ThreadsAssumption
     DEF JournalDies, JournalTypeOK, LockIsHeld, NoneBefore, Calls, NoCall,
         Holding
<1>6. CASE UNCHANGED journalVars
  BY <1>6 DEF journalVars, JournalTypeOK, LockIsHeld, NoneBefore
<1> QED BY <1>1, <1>2, <1>3, <1>4, <1>5, <1>6 DEF JournalNext

(* The journal's state has its type, and a record holds the lock from its  *)
(* first try to its line, whatever the threads record and whichever of     *)
(* their records fail (_with_sqlite_lock_retry, _persist_state).           *)
THEOREM JournalInvariant == JournalSpec => []JournalInv
  BY InvInit, InvNext, PTL DEF JournalSpec

(* The lines of the text file follow the order of the rows.                *)
THEOREM JournalKeepsOrder == JournalSpec => LinesFollowRows
<1>1. JournalInv =>
        [\A t \in Threads : WriteLine(t, call'[t]) => call[t].after = {}]_journalVars
  BY DEF JournalInv, NoneBefore
<1> QED BY <1>1, JournalInvariant, PTL DEF LinesFollowRows
=============================================================================
