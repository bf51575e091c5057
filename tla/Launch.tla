------------------------------- MODULE Launch -------------------------------
(***************************************************************************)
(* The launches of one runtime: main() from the environment check to       *)
(* worker_app.run(), LifecycleService.start() with its bootstrap pipeline, *)
(* and the ways a launch ends early.  A process may crash at any step; the *)
(* manager then launches it again, under the same attempt (a container     *)
(* restart) or the next one, with the disk and the SQLite file as they     *)
(* were left.                                                              *)
(***************************************************************************)
EXTENDS ArtifactBootstrap, BootstrapStore, SequencesExt

CONSTANTS
  Jobs,         \* what a launch may be given, see LaunchInputs
  MaxLaunches,  \* processes started
  MaxFaults     \* posts and transactions that fail

ASSUME LaunchesAssumption == MaxLaunches \in Nat \ {0} /\ MaxFaults \in Nat

(* What may be wrong with the strategy's module, its class, its marker, or *)
(* with what main() and start() set up.                                    *)
Faults == {"none", "malformed", "import", "symbol", "value", "base", "init", "mypy",
           "marker", "major", "migration", "deps", "bind"}

(* The records LaunchInputs describes; no launch is past the last attempt. *)
Launchable ==
  [env    : SUBSET {"runtime_id", "srm_url"}, module : BOOLEAN,
   sds    : {"off", "ok", "unreachable", "http_error", "empty_body", "invalid_json"},
   file   : {"absent", "unreadable", "ok"},
   given  : SUBSET STRING, mode : STRING, window : BOOLEAN,
   stated : {NotANumber} \cup 0 .. MaxAttempts,
   uri    : {"bundle", "zip", "path", "registry", "registry_zip", "remote"},
   held   : Versions \cup {0}, base : BOOLEAN,
   sound  : {"ok", "corrupt", "unsafe"},
   digest : Versions \cup {NoDigest, OddDigest},
   fault  : Faults, busy : SUBSET ({"http", "control", "replay"} \X Int),
   ports  : {"extra", "no_fallback", "default"}]

ASSUME JobsAssumption == Jobs \subseteq Launchable

VARIABLES
  pc,        \* the process's next step; "exited", "awaiting", "running"
  job,       \* what it was launched with
  failure,   \* the exception start() or main() failed with
  deps,      \* _runtime_dependencies is set
  seen,      \* LifecycleSignalDedupe of this process
  sent,      \* history: what this process posted to the manager, in order
  lost,      \* history: a post of this process failed
  heard,     \* history: what the manager received, of every process
  launches, faults

processVars == <<pc, job, failure, deps, seen>>
mailVars    == <<sent, lost, heard>>
vars == <<processVars, mailVars, artifactVars, storeVars,
          launches, faults>>

attempt == launch_attempt(job)

Init ==
  /\ pc = "env" /\ job \in Jobs /\ launch_attempt(job) \in {NotANumber, 0, 1}
  /\ failure = NoFailure /\ deps = FALSE /\ seen = {}
  /\ sent = <<>> /\ lost = FALSE /\ heard = {}
  /\ ArtifactInit /\ StoreInit
  /\ launches = 1 /\ faults = 0

(***************************************************************************)
(* Posts to the manager.                                                   *)
(***************************************************************************)
Report(status, reason, retryable) ==
  [status |-> status, code |-> reason, retryable |-> retryable,
   attempt |-> attempt, launch |-> launches]

(* A post arrives, is refused or not delivered (an answer the client maps  *)
(* to accepted = False), or raises: the connection is lost under the       *)
(* response, when the manager may have the post or not.                    *)
Post(r, outcome) ==
  /\ sent' = Append(sent, r)
  /\ \/ outcome = "answered" /\ heard' = heard \cup {r}
        /\ UNCHANGED <<lost, faults>>
     \/ outcome \in {"answered", "raised"} /\ faults < MaxFaults
        /\ faults' = faults + 1 /\ lost' = TRUE /\ heard' = heard
     \/ outcome = "raised" /\ faults < MaxFaults
        /\ faults' = faults + 1 /\ lost' = TRUE /\ heard' = heard \cup {r}

NoPost == UNCHANGED <<mailVars, faults>>

(* After the settings a post goes to their URL.  When that is blank the    *)
(* client does nothing and answers that it was accepted, and the reports   *)
(* that need no client are left out.                                       *)
ManagerConfigured == strategy_runtime_manager_base_url(job) # ""

Tell(r, outcome) ==
  IF ManagerConfigured THEN Post(r, outcome)
                       ELSE outcome = "answered" /\ NoPost

(* A transaction that still finds the database locked after the retries.   *)
Locked == faults < MaxFaults /\ faults' = faults + 1 /\ UNCHANGED mailVars

Goes(next) == pc' = next /\ UNCHANGED <<job, failure, deps, seen, launches>>
Fails(e, next) ==
  /\ pc' = next /\ failure' = e
  /\ UNCHANGED <<job, deps, seen, launches>>

(***************************************************************************)
(* main()                                                                  *)
(***************************************************************************)
(* An environment without the id or the URL cannot be reported at all.     *)
EnvInvalid ==
  /\ pc = "env" /\ ~validate_minimal_env(job)
  /\ Fails(At("main", "env"), "exited") /\ NoPost
  /\ UNCHANGED <<artifactVars, storeVars>>

EnvValid ==
  /\ pc = "env" /\ validate_minimal_env(job)
  /\ \/ Post(Report("STARTING", "none", FALSE), "answered") /\ Goes("settings")
     \/ Post(Report("STARTING", "none", FALSE), "raised")
        /\ Fails(At("main", "post"), "exited")
  /\ UNCHANGED <<artifactVars, storeVars>>

LoadSettings ==
  /\ pc = "settings"
  /\ LET r == load_settings(job, SkipDigest) IN
       CASE r = "ok" -> Goes("container")
         [] is_runtime_context_fetch_failure(r) -> Fails(At("main", r), "context")
         [] OTHER -> Fails(At("main", r), "exited")
  /\ NoPost /\ UNCHANGED <<artifactVars, storeVars>>

ReportContextFailure ==
  /\ pc = "context"
  /\ LET s == runtime_context_failure_status(failure.reason)
     IN  \E outcome \in {"answered", "raised"} :
           Post(Report("STARTUP_FAILED", s.code, s.retryable), outcome)
  /\ Goes("exited") /\ UNCHANGED <<artifactVars, storeVars>>

(* Opening the SQLite file runs the migrations; the lifecycle service,     *)
(* when it is made, journals INITIALIZING.                                 *)
BuildContainer ==
  /\ pc = "container"
  /\ \/ /\ job.fault = "migration"
        /\ Fails(At("main", "migration"), "exited")
        /\ NoPost /\ UNCHANGED storeVars
     \/ /\ job.fault # "migration" /\ Locked
        /\ Fails(At("main", "journal"), "exited")
        /\ UNCHANGED storeVars
     \/ /\ job.fault # "migration"
        /\ record_phase_change(attempt, "INITIALIZING")
        /\ Goes("servers") /\ NoPost
  /\ UNCHANGED artifactVars

StartServers ==
  /\ pc = "servers"
  /\ IF ServersStart(job) THEN Goes("start")
                          ELSE Fails(At("main", "bind"), "exited")
  /\ NoPost /\ UNCHANGED <<artifactVars, storeVars>>

(***************************************************************************)
(* start() and the bootstrap pipeline                                      *)
(***************************************************************************)
(* The pipeline's transactions are not retried; an error is not a          *)
(* BootstrapFailure.                                                       *)
TransactionFails ==
  /\ pc \in {"start", "record", "success"}
  /\ Locked /\ Fails(Other, "failing")
  /\ UNCHANGED <<artifactVars, storeVars>>

BootstrapStarts ==
  /\ pc = "start"
  /\ on_bootstrap_start(attempt)
  /\ Goes("fetch") /\ NoPost /\ UNCHANGED artifactVars

(* Mutant of StageFails: a failure is raised without being recorded.       *)
StageFailsUnrecorded(e) == Fails(e, "failing")

(* Only a BootstrapFailure is recorded; anything else leaves run().        *)
StageFails(e) == Fails(e, IF e = Other THEN "failing" ELSE "record")

Fetch ==
  /\ pc = "fetch"
  /\ IF fetch(job) = NoFailure
     THEN FetchBegins(job) /\ Goes("write")
     ELSE StageFails(fetch(job)) /\ UNCHANGED artifactVars
  /\ NoPost /\ UNCHANGED storeVars

Write ==
  /\ pc = "write"
  /\ \/ \E f \in left : WriteFile(job, f) /\ Goes("write")
     \/ /\ UnsafeEntry(job)
        /\ StageFails(At("ARTIFACT_FETCH", "artifact_unsafe_zip"))
        /\ left' = {} /\ UNCHANGED <<disk, code>>
  /\ NoPost /\ UNCHANGED storeVars

(* A file cannot be written: the disk is full or an entry is damaged.      *)
WriteFails ==
  /\ pc = "write" /\ left # {}
  /\ faults < MaxFaults /\ faults' = faults + 1
  /\ StageFails(WriteFailure(job))
  /\ left' = {} /\ UNCHANGED <<disk, code, mailVars, storeVars>>

Verify ==
  /\ pc = "write" /\ left = {} /\ ~UnsafeEntry(job)
  /\ IF verify(job) = NoFailure THEN Goes("load") ELSE StageFails(verify(job))
  /\ NoPost /\ UNCHANGED <<artifactVars, storeVars>>

Load ==
  /\ pc = "load"
  /\ IF load(job) = NoFailure
     THEN Import(job) /\ Goes("sdk")
     ELSE StageFails(load(job)) /\ UNCHANGED artifactVars
  /\ NoPost /\ UNCHANGED storeVars

ValidateSdk ==
  /\ pc = "sdk"
  /\ IF sdk_validate(job) = NoFailure THEN Goes("success")
                                      ELSE StageFails(sdk_validate(job))
  /\ NoPost /\ UNCHANGED <<artifactVars, storeVars>>

RecordFailure ==
  /\ pc = "record"
  /\ on_bootstrap_failure(attempt, failure.reason)
  /\ Goes("failing") /\ NoPost /\ UNCHANGED artifactVars

RecordSuccess ==
  /\ pc = "success"
  /\ on_bootstrap_success(attempt)
  /\ Goes("deps") /\ NoPost /\ UNCHANGED artifactVars

InitializeDependencies ==
  /\ pc = "deps"
  /\ IF job.fault = "deps" \/ ~build_runtime_dependencies(job.mode)
     THEN Fails(Other, "failing")
     ELSE pc' = "bind" /\ deps' = TRUE
          /\ UNCHANGED <<job, failure, seen, launches>>
  /\ NoPost /\ UNCHANGED <<artifactVars, storeVars>>

BindStrategy ==
  /\ pc = "bind"
  /\ IF job.fault = "bind" THEN Fails(Other, "failing") ELSE Goes("succeeded")
  /\ NoPost /\ UNCHANGED <<artifactVars, storeVars>>

(* A lifecycle signal is journalled, then remembered as seen, then sent.   *)
identity_key(type) == <<attempt, type>>
create(type)       == Report(type, "none", FALSE)
decide(type)       == identity_key(type) \notin seen
Remembers(type)    == seen' = seen \cup {identity_key(type)}
emit_signal(type, outcome) == Tell(create(type), outcome)

Emit(type, outcome) ==
  /\ decide(type) /\ Remembers(type) /\ emit_signal(type, outcome)

EmitSucceeded ==
  /\ pc = "succeeded"
  /\ record_lifecycle_event(attempt, "READY")
  /\ \/ Emit("launch_succeeded", "answered")
        /\ pc' = "report" /\ UNCHANGED failure
     \/ Emit("launch_succeeded", "raised")
        /\ pc' = "failing" /\ failure' = Other
  /\ UNCHANGED <<job, deps, launches, artifactVars>>

(* Errors of this report are swallowed.                                    *)
ReportRunning ==
  /\ pc = "report"
  /\ \E outcome \in {"answered", "raised"} :
       Tell(Report("RUNNING", "none", FALSE), outcome)
  /\ Goes("ready") /\ UNCHANGED <<artifactVars, storeVars>>

SetReady ==
  /\ pc = "ready"
  /\ record_phase_change(attempt, "READY")
  /\ Goes("run") /\ NoPost /\ UNCHANGED artifactVars

SetRunning ==
  /\ pc = "run"
  /\ record_phase_change(attempt, "RUNNING")
  /\ Goes("running") /\ NoPost /\ UNCHANGED artifactVars

(* A startup step that cannot be journalled fails the start.  The last     *)
(* steps, those of the heartbeat, come after READY.                        *)
StepNotJournalled ==
  /\ pc \in {"deps", "bind", "succeeded", "ready", "run"}
  /\ Locked /\ Fails(Other, "failing")
  /\ UNCHANGED <<artifactVars, storeVars>>

(* RUNNING is journalled by run(), after start(): nothing is rolled back.  *)
RunNotJournalled ==
  /\ pc = "run"
  /\ Locked /\ Goes("awaiting")
  /\ UNCHANGED <<artifactVars, storeVars>>

(***************************************************************************)
(* A start that failed                                                     *)
(***************************************************************************)
(* Mutant of EnterFailed: the phase is not journalled.                     *)
EnterFailedUnjournalled ==
  /\ pc = "failing"
  /\ IF deps /\ Owned(job) /\ job.mode # "BACKTEST"
     THEN \E outcome \in {"answered", "raised"} :
            Tell(Report("FAILED", "none", FALSE), outcome)
     ELSE NoPost
  /\ Goes("rollback") /\ UNCHANGED <<artifactVars, storeVars>>

(* _set_phase(FAILED): with the dependencies there the manager is told     *)
(* FAILED over the heartbeat client, which sends nothing of a backtest or  *)
(* of a launch without a deployment id.                                    *)
EnterFailed ==
  /\ pc = "failing"
  /\ IF deps /\ Owned(job) /\ job.mode # "BACKTEST"
     THEN \E outcome \in {"answered", "raised"} :
            Tell(Report("FAILED", "none", FALSE), outcome)
     ELSE NoPost
  /\ record_phase_change(attempt, "FAILED")
  /\ Goes("rollback") /\ UNCHANGED artifactVars

(* When the phase or the event cannot be journalled the rollback, or the   *)
(* rest of it, does not happen; WorkerApp swallows the exception.          *)
RollbackSkipped ==
  /\ pc \in {"failing", "rollback"}
  /\ Locked /\ Goes("awaiting")
  /\ UNCHANGED <<artifactVars, storeVars>>

RollbackReport ==
  /\ pc = "rollback" /\ failure # Other
  /\ \E outcome \in {"answered", "raised"} :
       Tell(Report("STARTUP_FAILED",
                   bootstrap_failure_srm_reason_code(failure.stage), FALSE),
            outcome)
  /\ pc' = "awaiting" /\ deps' = TRUE
  /\ UNCHANGED <<job, failure, seen, launches, artifactVars, storeVars>>

(* The dependencies are built for the signal if they can be.               *)
RollbackSignal ==
  /\ pc = "rollback" /\ failure = Other
  /\ IF deps \/ job.fault # "deps"
     THEN /\ \E outcome \in {"answered", "raised"} :
               Emit("launch_failed", outcome)
          /\ deps' = TRUE
     ELSE NoPost /\ UNCHANGED <<deps, seen>>
  /\ pc' = "awaiting"
  /\ UNCHANGED <<job, failure, launches, artifactVars, storeVars>>

(***************************************************************************)
(* The process and its launcher                                            *)
(***************************************************************************)
Ended == {"exited", "awaiting", "running"}

(* A crash, or the manager's stop of a worker that waits or runs.          *)
ProcessEnds ==
  /\ pc # "exited" /\ launches < MaxLaunches
  /\ pc' = "exited" /\ failure' = At("main", "crash")
  /\ NoPost
  /\ UNCHANGED <<job, deps, seen, launches, artifactVars, storeVars>>

(* What a restart of the container may find better.                        *)
Healed(j) == [j EXCEPT !.busy = {},
                       !.sds = IF @ = "off" THEN @ ELSE "ok",
                       !.fault = IF @ \in {"deps", "bind"} THEN "none" ELSE @]

Relaunch ==
  /\ pc = "exited" /\ launches < MaxLaunches
  /\ \/ job' \in {job, Healed(job)}
     \/ job' \in Jobs /\ attempt < launch_attempt(job')
  /\ pc' = "env" /\ launches' = launches + 1
  /\ failure' = NoFailure /\ deps' = FALSE /\ seen' = {}
  /\ sent' = <<>> /\ lost' = FALSE
  /\ left' = {} /\ code' = Blank
  /\ UNCHANGED <<heard, disk, storeVars, faults>>

Step ==
  \/ EnvInvalid \/ EnvValid \/ LoadSettings \/ ReportContextFailure
  \/ BuildContainer \/ StartServers
  \/ BootstrapStarts \/ Fetch \/ Write \/ WriteFails \/ Verify \/ Load \/ ValidateSdk
  \/ RecordFailure \/ RecordSuccess \/ TransactionFails
  \/ InitializeDependencies \/ BindStrategy \/ EmitSucceeded
  \/ ReportRunning \/ SetReady \/ SetRunning \/ StepNotJournalled
  \/ RunNotJournalled
  \/ EnterFailed \/ RollbackSkipped \/ RollbackReport \/ RollbackSignal

Next == Step \/ ProcessEnds \/ Relaunch

Spec == Init /\ [][Next]_vars

(***************************************************************************)
(* Properties                                                              *)
(***************************************************************************)
Statuses == {"STARTING", "STARTUP_FAILED", "RUNNING", "FAILED",
             "launch_succeeded", "launch_failed"}
Successes == {"RUNNING", "launch_succeeded"}
Failures  == {"STARTUP_FAILED", "FAILED", "launch_failed"}

Codes == {"none", "SWR_CONTEXT_VALIDATION_FAILED", "SWR_CONTEXT_FETCH_FAILED",
          "SWR_ARTIFACT_NOT_FOUND", "SWR_ARTIFACT_DIGEST_MISMATCH",
          "SWR_ENTRYPOINT_INVALID", "SWR_SDK_COMPATIBILITY_FAILED"}

Reports == [status : Statuses, code : Codes, retryable : BOOLEAN,
            attempt : Int, launch : 1 .. MaxLaunches]

Bootstrapped == {"fetch", "write", "load", "sdk", "record", "success", "deps",
                 "bind", "succeeded", "report", "ready", "run", "running"}

(* Type correctness; and an attempt that bootstraps has its row.           *)
TypeOK ==
  /\ job \in Jobs \cup {Healed(j) : j \in Jobs}
  /\ pc \in Ended \cup Bootstrapped \cup
       {"env", "settings", "context", "container", "servers", "start",
        "failing", "rollback"}
  /\ disk \in [Roots -> [Files -> Versions \cup {0}]]
  /\ left \subseteq Files /\ code \in [Files -> Versions \cup {0}]
  /\ rows \in [1 .. MaxAttempts -> {"none", "STARTING", "SUCCEEDED", "FAILED"}]
  /\ inst.state \in {"none", "INITIALIZING", "READY", "RUNNING", "FAILED"}
  /\ pc \in Bootstrapped => rows[attempt] # "none"
  /\ heard \subseteq Reports /\ Len(sent) <= 5

Loaded == pc \in {"sdk", "success", "deps", "bind", "succeeded", "report",
                  "ready", "run", "running"}

(* The strategy runs the artifact of its own launch: every file of that    *)
(* version was imported at that version, whatever earlier attempts or      *)
(* interrupted extractions left on the disk; and a root of its own holds   *)
(* no other file.  strategy_bundle/ may keep files of other versions.      *)
CodeIsThisLaunchs ==
  Loaded =>
    /\ job.held # 0
    /\ \A f \in Files : IF f \in Has[job.held] THEN code[f] = job.held
                        ELSE code[f] = 0 \/ import_root(job) = 0

(* An instance row that says READY or RUNNING belongs to an attempt whose  *)
(* row says SUCCEEDED and whose launch_succeeded event is stored, through  *)
(* crashes and repeated attempts.                                          *)
ReadyMeansSucceeded ==
  inst.state \in {"READY", "RUNNING"} =>
    /\ rows[inst.attempt] = "SUCCEEDED"
    /\ \E e \in events : e.attempt = inst.attempt
                          /\ e.name = "launch_succeeded"

(* What a process tells the manager of its bootstrap is in the SQLite file *)
(* by then: success only after the attempt's row says SUCCEEDED, a stage's *)
(* failure only after it says FAILED; and never success after a failure.   *)
ToldAfterRecorded ==
  [][sent' # sent /\ sent' # <<>> =>
       LET r == Last(sent') IN
         /\ r.status \in Successes =>
              /\ rows[attempt] = "SUCCEEDED"
              /\ \A i \in 1 .. Len(sent) : sent[i].status \notin Failures
         /\ r.status = "STARTUP_FAILED" /\ pc # "context"
              => rows[attempt] = "FAILED" /\ inst.state = "FAILED"]_vars

(* When no post and no transaction fails, a worker that waits after a      *)
(* failed start is FAILED in the store.  The manager has been told if the  *)
(* settings have its URL, but for dependencies that cannot be built, over  *)
(* which the signal would go; without the URL, the default, STARTING is    *)
(* the last it has heard.                                                  *)
FailedStartIsKnown ==
  pc = "awaiting" /\ faults = 0 =>
    /\ inst = [state |-> "FAILED", attempt |-> attempt]
    /\ LET told == {r.status : r \in {h \in heard : h.launch = launches}} IN
         IF ManagerConfigured
         THEN told \cap Failures # {} \/ job.fault = "deps"
         ELSE told = {"STARTING"}
=============================================================================
