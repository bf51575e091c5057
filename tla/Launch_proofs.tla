---------------------------- MODULE Launch_proofs ----------------------------
(***************************************************************************)
(* Theorems about the launches of a runtime: what the store, the disk and  *)
(* the manager know of them, for any number of attempts, processes, lost   *)
(* posts, failed transactions and crashes, and any jobs and artifacts.     *)
(***************************************************************************)
EXTENDS Launch, TLAPS

-----------------------------------------------------------------------------
(* What a launch is given.                                                 *)
LEMMA HealedFacts ==
  ASSUME NEW j \in Launchable
  PROVE  /\ Healed(j) \in Launchable /\ Healed(Healed(j)) = Healed(j)
         /\ Healed(j).held = j.held /\ Healed(j).uri = j.uri
         /\ launch_attempt(Healed(j)) = launch_attempt(j)
<1> DEFINE sds(k)   == IF k.sds = "off" THEN k.sds ELSE "ok"
           fault(k) == IF k.fault \in {"deps", "bind"} THEN "none" ELSE k.fault
           new(k)   == [k EXCEPT !.busy = {}, !.sds = sds(k), !.fault = fault(k)]
<1>1. \A k : Healed(k) = new(k)
  BY Zenon DEF Healed
<1>2. ASSUME NEW k \in Launchable
      PROVE  /\ sds(k) \in {"off", "ok"} /\ ((sds(k) # "off") <=> (k.sds # "off"))
             /\ fault(k) \in Faults /\ fault(k) \notin {"deps", "bind"}
  BY DEF Launchable, Faults
<1> HIDE DEF sds, fault
<1>3. ASSUME NEW k \in Launchable
      PROVE  /\ new(k).busy = {} /\ new(k).sds = sds(k) /\ new(k).fault = fault(k)
             /\ new(k).held = k.held /\ new(k).uri = k.uri /\ new(k).stated = k.stated
  BY DEF Launchable
<1>4. ASSUME NEW k \in Launchable PROVE new(k) \in Launchable
  <2>1. [k EXCEPT !.busy = {}] \in Launchable
    BY DEF Launchable
  <2>2. ASSUME NEW h \in Launchable, NEW v \in {"off", "ok"}
        PROVE  [h EXCEPT !.sds = v] \in Launchable
    BY DEF Launchable
  <2>3. ASSUME NEW h \in Launchable, NEW v \in Faults
        PROVE  [h EXCEPT !.fault = v] \in Launchable
    BY DEF Launchable
  <2>4. \A v, w : [k EXCEPT !.busy = {}, !.sds = v, !.fault = w] =
                 [[[k EXCEPT !.busy = {}] EXCEPT !.sds = v] EXCEPT !.fault = w]
    BY DEF Launchable
  <2> QED BY <1>2, <2>1, <2>2, <2>3, <2>4
<1> HIDE DEF new
<1>5. sds(new(j)) = new(j).sds /\ fault(new(j)) = new(j).fault /\ new(j).busy = {}
  BY <1>2, <1>3 DEF sds, fault
<1>6. new(new(j)) = new(j)
  <2>1. new(new(j)) = [new(j) EXCEPT !.busy = new(j).busy, !.sds = new(j).sds,
                                     !.fault = new(j).fault]
    BY <1>5, Zenon DEF new
  <2>2. ASSUME NEW h \in Launchable
        PROVE  [h EXCEPT !.busy = h.busy, !.sds = h.sds, !.fault = h.fault] = h
    BY DEF Launchable
  <2> QED BY <1>4, <2>1, <2>2
<1>7. launch_attempt(new(j)) = launch_attempt(j)
  <2>1. (new(j).sds # "off") <=> (j.sds # "off")
    BY <1>2, <1>3
  <2>2. new(j).stated = j.stated
    BY <1>3
  <2> QED BY <2>1, <2>2 DEF launch_attempt, runtime_identity_from_env
<1> QED BY <1>1, <1>3, <1>4, <1>6, <1>7

LEMMA AttemptFacts ==
  ASSUME NEW j \in Launchable
  PROVE  /\ launch_attempt(j) \in Int /\ launch_attempt(j) <= MaxAttempts
         /\ j.held \in Versions \cup {0} /\ import_root(j) \in {0, launch_attempt(j)}
  BY AttemptsAssumption
     DEF launch_attempt, runtime_identity_from_env, import_root, materialization_dir,
         Launchable, NotANumber

(* A launch that gets past its settings has a proper attempt: a zero, a    *)
(* negative number and text were refused or made 1.                        *)
LEMMA SettingsFacts ==
  ASSUME NEW j \in Launchable, load_settings(j, SkipDigest) = "ok"
  PROVE  launch_attempt(j) \in 1 .. MaxAttempts
<1>1. CASE j.sds # "off"
  BY <1>1, AttemptsAssumption
     DEF launch_attempt, runtime_identity_from_env, Launchable, NotANumber
<1>2. CASE j.sds = "off"
  <2>1. settings_from_prepared(j, read_bundle_json(j), SkipDigest) = "ok"
    BY <1>2 DEF load_settings, Launchable
  <2>2. read_bundle_json(j).attempt = j.stated
    BY DEF read_bundle_json
  <2>3. ModeErrors(read_bundle_json(j)) = {}
    BY <2>1 DEF settings_from_prepared, FieldErrors
  <2>4. ~(j.stated < 1)
    BY <2>2, <2>3 DEF ModeErrors
  <2> QED BY <1>2, <2>4, AttemptsAssumption DEF launch_attempt, Launchable, NotANumber
<1> QED BY <1>1, <1>2

Stages == {"ARTIFACT_FETCH", "ARTIFACT_VERIFY", "ENTRYPOINT_LOAD", "SDK_VALIDATE"}

LEMMA AtFacts ==
  /\ \A s, r : At(s, r).stage = s /\ At(s, r).reason = r
  /\ \A s \in Stages : \A r : At(s, r) # Other /\ At(s, r) # NoFailure
  /\ Other # NoFailure
  BY DEF At, Other, NoFailure, Stages

(* Every stage fails with its own code or with an exception of no stage.   *)
LEMMA StageFacts ==
  ASSUME NEW j \in Launchable
  PROVE  /\ fetch(j) \notin {NoFailure, Other} => fetch(j).stage \in Stages
         /\ verify(j) # NoFailure => verify(j) # Other /\ verify(j).stage \in Stages
         /\ load(j) # NoFailure => load(j) # Other /\ load(j).stage \in Stages
         /\ sdk_validate(j) # NoFailure =>
              sdk_validate(j) # Other /\ sdk_validate(j).stage \in Stages
         /\ WriteFailure(j) # Other => WriteFailure(j).stage \in Stages
         /\ fetch(j) = NoFailure => j.held \in Versions
<1> USE AtFacts DEF Stages
<1>1. fetch(j) \notin {NoFailure, Other} => fetch(j).stage \in Stages
  BY DEF fetch, verified_zip_extract, resolve_provider, registry_fetch, local_fetch
<1>2. verify(j) # NoFailure => verify(j) # Other /\ verify(j).stage \in Stages
  BY DEF verify
<1>3. load(j) # NoFailure => load(j) # Other /\ load(j).stage \in Stages
  BY DEF load
<1>4. sdk_validate(j) # NoFailure =>
        sdk_validate(j) # Other /\ sdk_validate(j).stage \in Stages
  BY DEF sdk_validate, validate_mypy, validate_sdk_marker
<1>5. WriteFailure(j) # Other => WriteFailure(j).stage \in Stages
  BY DEF WriteFailure
<1>6. fetch(j) = NoFailure => j.held # 0
  BY DEF fetch, resolve_provider, registry_fetch, local_fetch, Zipped, Launchable
<1> QED BY <1>1, <1>2, <1>3, <1>4, <1>5, <1>6, AttemptFacts

-----------------------------------------------------------------------------
(* What a step does to the mail and to the count of failures: a post that  *)
(* is sent arrives unless it counts as a failure; a transaction that finds *)
(* the database locked counts as one.  Without a URL nothing is sent.      *)
Sends(r) ==
  /\ sent' = Append(sent, r) /\ heard' \in {heard, heard \cup {r}}
  /\ faults' \in Nat /\ (faults' = 0 => faults = 0 /\ heard' = heard \cup {r})

Quiet == UNCHANGED <<sent, heard>> /\ faults' \in Nat /\ (faults' = 0 => faults = 0)

LEMMA MailFacts ==
  ASSUME faults \in Nat
  PROVE  /\ \A r, o : Post(r, o) => Sends(r)
         /\ \A r, o : Tell(r, o) => IF ManagerConfigured THEN Sends(r) ELSE Quiet
         /\ NoPost => Quiet /\ faults' = faults
         /\ Locked => Quiet /\ faults' # 0
<1>1. ASSUME NEW r, NEW o, Post(r, o) PROVE Sends(r)
  BY <1>1 DEF Post, Sends
<1>2. NoPost => Quiet /\ faults' = faults
  BY DEF NoPost, Quiet, mailVars
<1>3. Locked => Quiet /\ faults' # 0
  BY DEF Locked, Quiet, mailVars
<1>4. ASSUME NEW r, NEW o, Tell(r, o)
      PROVE  IF ManagerConfigured THEN Sends(r) ELSE Quiet
  BY <1>1, <1>2, <1>4 DEF Tell
<1> QED BY <1>1, <1>2, <1>3, <1>4

(* The places where no attempt of the launch has been read, and those where*)
(* start() has left the pipeline behind.                                   *)
Early   == {"env", "settings", "context", "exited"}
Started == {"deps", "bind", "succeeded", "report", "ready", "run", "running"}
Places  == Ended \cup Bootstrapped \cup
           {"env", "settings", "context", "container", "servers", "start",
            "failing", "rollback"}

(* A job is one the manager may give; past the settings its attempt is one *)
(* of the runtime's; a failure that is recorded or reported under a code   *)
(* is one of a stage.                                                      *)
JobInv ==
  /\ job \in Jobs \cup {Healed(j) : j \in Jobs}
  /\ pc \in Places /\ launches \in 1 .. MaxLaunches /\ faults \in Nat
  /\ pc \notin Early => attempt \in 1 .. MaxAttempts
  /\ pc \in {"record", "failing", "rollback"} =>
       failure = Other \/ failure.stage \in Stages
  /\ pc = "record" => failure # Other

LEMMA JobFacts ==
  ASSUME JobInv
  PROVE  /\ job \in Launchable /\ attempt \in Int /\ attempt <= MaxAttempts
         /\ job.held \in Versions \cup {0} /\ import_root(job) \in {0, attempt}
<1>1. job \in Launchable
  BY JobsAssumption, HealedFacts DEF JobInv
<1> QED BY <1>1, AttemptFacts DEF attempt

(* A step of a launch keeps its job, and JobInv.                           *)
LEMMA JobStep ==
  ASSUME JobInv, Step
  PROVE  JobInv' /\ UNCHANGED <<job, launches>>
<1> USE MailFacts, AtFacts DEF JobInv, Quiet, Sends
<1>2. fetch(job) \notin {NoFailure, Other} => fetch(job).stage \in Stages
  BY JobFacts, StageFacts
<1>3. ASSUME UNCHANGED <<job, launches>>, faults' \in Nat, pc' \in Places,
             pc' \notin Early => attempt \in 1 .. MaxAttempts,
             pc' \in {"record", "failing", "rollback"} =>
               failure' = Other \/ failure'.stage \in Stages,
             pc' = "record" => failure' # Other
      PROVE  JobInv' /\ UNCHANGED <<job, launches>>
  BY <1>3 DEF attempt
<1> USE DEF Goes, Fails, Early, Places, Ended, Bootstrapped
<1>4. CASE EnvInvalid \/ EnvValid
  BY <1>3, <1>4 DEF EnvInvalid, EnvValid
<1>5. CASE LoadSettings
  <2>1. load_settings(job, SkipDigest) = "ok" => attempt \in 1 .. MaxAttempts
    BY JobFacts, SettingsFacts DEF attempt
  <2> QED BY <1>3, <1>5, <2>1 DEF LoadSettings
<1>6. CASE ReportContextFailure \/ BuildContainer \/ StartServers
  BY <1>3, <1>6 DEF ReportContextFailure, BuildContainer, StartServers
<1>7. CASE BootstrapStarts \/ RecordFailure \/ RecordSuccess \/ TransactionFails
  BY <1>3, <1>7 DEF BootstrapStarts, RecordFailure, RecordSuccess, TransactionFails
<1>8. CASE Fetch
  BY <1>2, <1>3, <1>8 DEF Fetch, StageFails
<1>9. CASE Write \/ WriteFails
  <2>1. WriteFailure(job) # Other => WriteFailure(job).stage \in Stages
    BY JobFacts, StageFacts
  <2>2. "ARTIFACT_FETCH" \in Stages
    BY DEF Stages
  <2> QED BY <1>3, <1>9, <2>1, <2>2 DEF Write, WriteFails, StageFails
<1>10. CASE Verify
  <2>1. verify(job) # NoFailure => verify(job) # Other /\ verify(job).stage \in Stages
    BY JobFacts, StageFacts
  <2> QED BY <1>3, <1>10, <2>1 DEF Verify, StageFails
<1>11. CASE Load
  <2>1. load(job) # NoFailure => load(job) # Other /\ load(job).stage \in Stages
    BY JobFacts, StageFacts
  <2> QED BY <1>3, <1>11, <2>1 DEF Load, StageFails
<1>12. CASE ValidateSdk
  <2>1. sdk_validate(job) # NoFailure =>
          sdk_validate(job) # Other /\ sdk_validate(job).stage \in Stages
    BY JobFacts, StageFacts
  <2> QED BY <1>3, <1>12, <2>1 DEF ValidateSdk, StageFails
<1>13. CASE InitializeDependencies \/ BindStrategy
  BY <1>3, <1>13 DEF InitializeDependencies, BindStrategy
<1>14. CASE EmitSucceeded
  BY <1>3, <1>14 DEF EmitSucceeded, Emit, emit_signal
<1>15. CASE ReportRunning \/ SetReady \/ SetRunning
  BY <1>3, <1>15 DEF ReportRunning, SetReady, SetRunning
<1>16. CASE StepNotJournalled \/ RunNotJournalled \/ RollbackSkipped
  BY <1>3, <1>16 DEF StepNotJournalled, RunNotJournalled, RollbackSkipped
<1>17. CASE EnterFailed
  BY <1>3, <1>17 DEF EnterFailed
<1>18. CASE RollbackReport \/ RollbackSignal
  BY <1>3, <1>18 DEF RollbackReport, RollbackSignal, Emit, emit_signal
<1> QED BY <1>4, <1>5, <1>6, <1>7, <1>8, <1>9, <1>10, <1>11, <1>12, <1>13, <1>14,
          <1>15, <1>16, <1>17, <1>18 DEF Step

(* The next launch has the job of the last one, healed or not, or a later  *)
(* attempt.                                                                *)
LEMMA JobRelaunched ==
  ASSUME JobInv, Relaunch
  PROVE  /\ JobInv' /\ attempt' \in Int
         /\ \/ attempt' > attempt
            \/ attempt' = attempt /\ job'.held = job.held
<1> USE DEF Relaunch
<1>1. job' \in Jobs \cup {Healed(j) : j \in Jobs}
  <2>1. CASE job' \in {job, Healed(job)}
    BY <2>1, JobsAssumption, HealedFacts DEF JobInv
  <2> QED BY <2>1
<1>2. /\ attempt' \in Int
      /\ attempt' > attempt \/ (attempt' = attempt /\ job'.held = job.held)
  <2>1. CASE job' \in {job, Healed(job)}
    BY <2>1, JobFacts, HealedFacts DEF attempt
  <2>2. CASE job' \in Jobs /\ attempt < launch_attempt(job')
    BY <2>2, JobFacts, AttemptFacts, JobsAssumption DEF attempt
  <2> QED BY <2>1, <2>2
<1>3. launches' \in 1 .. MaxLaunches
  BY LaunchesAssumption DEF JobInv
<1> QED BY <1>1, <1>2, <1>3 DEF JobInv, Early, Places, Ended, Bootstrapped

LEMMA JobEnded ==
  ASSUME JobInv, ProcessEnds
  PROVE  JobInv' /\ UNCHANGED <<job, launches>> /\ Quiet
  BY MailFacts DEF ProcessEnds, JobInv, Early, Places, Ended, Bootstrapped, Quiet

-----------------------------------------------------------------------------
(* Why CodeIsThisLaunchs is inductive: an attempt writes only its own root *)
(* and strategy_bundle/, and a later attempt's root is blank; a file that  *)
(* is no longer to be written is there at the artifact's version.          *)
Contents == [Files -> Versions \cup {0}]

DiskInv ==
  /\ disk \in [Roots -> Contents] /\ left \subseteq Files /\ code \in Contents
  /\ \A r \in 1 .. MaxAttempts : r > attempt => disk[r] = Blank
  /\ attempt \in 1 .. MaxAttempts =>
       \A f \in Files :
         \/ disk[attempt][f] = 0
         \/ f \in Has[job.held] /\ disk[attempt][f] = job.held
  /\ pc \in {"write", "load"} =>
       /\ job.held \in Versions /\ left \subseteq Has[job.held]
       /\ \A f \in Has[job.held] \ left : disk[import_root(job)][f] = job.held
  /\ pc = "load" => left = {}
  /\ Loaded => job.held \in Versions
  /\ CodeIsThisLaunchs

LEMMA DiskFacts == Blank \in Contents /\ \A f \in Files : Blank[f] = 0
  BY DEF Blank, Contents

(* The stages that touch the disk, and the steps that leave it alone.      *)
LEMMA DiskWritten ==
  ASSUME JobInv, DiskInv, NEW f \in left, WriteFile(job, f), pc = "write",
         Goes("write")
  PROVE  DiskInv'
<1>1. /\ job \in Launchable /\ attempt \in 1 .. MaxAttempts /\ attempt' = attempt
      /\ import_root(job) \in {0, attempt} /\ import_root(job)' = import_root(job)
      /\ import_root(job) \in Roots
  BY JobFacts DEF JobInv, Early, Goes, Roots, attempt, import_root, materialization_dir,
                  Zipped
<1>2. /\ left' = left \ {f} /\ code' = code /\ job' = job /\ pc' = "write"
      /\ disk' = [disk EXCEPT ![import_root(job)][f] = job.held]
      /\ job.held \in Versions /\ f \in Has[job.held] /\ f \in Files
  BY DEF WriteFile, Goes, DiskInv
<1> DEFINE root == import_root(job)
<1>3. /\ disk' \in [Roots -> Contents] /\ disk'[root][f] = job.held
      /\ \A g \in Files \ {f} : disk'[root][g] = disk[root][g]
      /\ \A r \in Roots \ {root} : disk'[r] = disk[r]
  BY <1>1, <1>2 DEF DiskInv, Contents
<1> HIDE DEF root
<1>4. \A r \in 1 .. MaxAttempts : r > attempt => disk'[r] = Blank
  BY <1>1, <1>3 DEF DiskInv, Roots, root
<1>5. \A g \in Files : disk'[attempt][g] = 0
                       \/ (g \in Has[job.held] /\ disk'[attempt][g] = job.held)
  <2> SUFFICES ASSUME NEW g \in Files
               PROVE  disk'[attempt][g] = 0
                      \/ (g \in Has[job.held] /\ disk'[attempt][g] = job.held)
    OBVIOUS
  <2>0. attempt \in Roots
    BY <1>1 DEF Roots
  <2>1. CASE root = attempt
    BY <1>1, <1>2, <1>3, <2>1 DEF DiskInv
  <2>2. CASE root # attempt
    BY <1>1, <1>3, <2>0, <2>2 DEF DiskInv
  <2> QED BY <2>1, <2>2
<1>6. \A g \in Has[job.held] \ left' : disk'[root][g] = job.held
  <2>1. Has[job.held] \subseteq Files
    BY <1>2, ArtifactAssumption
  <2> QED BY <1>2, <1>3, <2>1 DEF DiskInv, root
<1>7. left' \subseteq Has[job.held] /\ left' \subseteq Files
  BY <1>2 DEF DiskInv
<1> QED BY <1>1, <1>2, <1>3, <1>4, <1>5, <1>6, <1>7
       DEF DiskInv, CodeIsThisLaunchs, Loaded, root

LEMMA DiskKept ==
  ASSUME JobInv, DiskInv, UNCHANGED <<job, disk, code>>, left' \in {left, {}},
         pc' \in {"write", "load"} => pc = "write" /\ left' = left,
         pc' = "load" => left = {},
         Loaded' => Loaded
  PROVE  DiskInv'
<1>1. attempt' = attempt /\ import_root(job)' = import_root(job)
  BY DEF attempt, import_root, materialization_dir, Zipped, launch_attempt,
         runtime_identity_from_env
<1>2. /\ disk' = disk /\ code' = code /\ job' = job /\ left' \subseteq Files
  BY DEF DiskInv
<1>3. CodeIsThisLaunchs'
  BY <1>1, <1>2 DEF DiskInv, CodeIsThisLaunchs
<1> QED BY <1>1, <1>2, <1>3 DEF DiskInv

(* Every step keeps DiskInv.                                               *)
LEMMA DiskStep ==
  ASSUME JobInv, DiskInv, Step
  PROVE  DiskInv'
<1>1. JobInv' /\ UNCHANGED <<job, launches>>
  BY JobStep
<1> USE DEF Goes, Fails, Loaded, artifactVars
<1>2. CASE \/ EnvInvalid \/ EnvValid \/ LoadSettings \/ ReportContextFailure
           \/ BuildContainer \/ StartServers \/ BootstrapStarts
  BY <1>1, <1>2, DiskKept
     DEF EnvInvalid, EnvValid, LoadSettings, ReportContextFailure, BuildContainer,
         StartServers, BootstrapStarts
<1>3. CASE RecordFailure \/ RecordSuccess \/ TransactionFails \/ WriteFails
  BY <1>1, <1>3, DiskKept
     DEF RecordFailure, RecordSuccess, TransactionFails, WriteFails, StageFails
<1>4. CASE Fetch /\ fetch(job) # NoFailure
  BY <1>1, <1>4, DiskKept DEF Fetch, StageFails
<1>5. CASE Fetch /\ fetch(job) = NoFailure
  <2>1. /\ FetchBegins(job) /\ pc = "fetch" /\ pc' = "write" /\ job' = job
    BY <1>5 DEF Fetch
  <2>2. job.held \in Versions /\ Has[job.held] \subseteq Files
    BY <1>5, JobFacts, StageFacts, ArtifactAssumption
  <2>3. /\ attempt \in 1 .. MaxAttempts /\ attempt' = attempt
        /\ import_root(job) \in {0, attempt} /\ import_root(job) \in Roots
    BY <2>1, JobFacts DEF JobInv, Early, Roots, attempt
  <2>4. /\ disk' \in [Roots -> Contents]
        /\ \A r \in Roots : disk'[r] = disk[r] \/ (r = import_root(job) /\ disk'[r] = Blank)
    BY <2>1, <2>3, DiskFacts DEF FetchBegins, DiskInv
  <2>5. \A r \in 1 .. MaxAttempts : r > attempt => disk'[r] = Blank
    BY <2>3, <2>4 DEF DiskInv, Roots
  <2>6. \A f \in Files : disk'[attempt][f] = 0
                         \/ (f \in Has[job.held] /\ disk'[attempt][f] = job.held)
    <3>1. attempt \in Roots
      BY <2>3 DEF Roots
    <3>2. CASE disk'[attempt] = disk[attempt]
      BY <2>3, <3>2 DEF DiskInv
    <3>3. CASE disk'[attempt] = Blank
      BY <3>3, DiskFacts
    <3> QED BY <2>4, <3>1, <3>2, <3>3
  <2>7. left' = Has[job.held] /\ code' = code
    BY <2>1 DEF FetchBegins
  <2> QED BY <2>1, <2>2, <2>3, <2>4, <2>5, <2>6, <2>7
         DEF DiskInv, CodeIsThisLaunchs
<1>6. CASE Write
  <2>1. CASE \E f \in left : WriteFile(job, f) /\ Goes("write")
    <3>1. pc = "write"
      BY <1>6 DEF Write
    <3> QED BY <2>1, <3>1, DiskWritten
  <2>2. CASE pc' \in {"record", "failing"} /\ left' = {} /\ UNCHANGED <<disk, code>>
    BY <1>1, <2>2, DiskKept
  <2> QED BY <1>6, <2>1, <2>2 DEF Write, StageFails
<1>7. CASE Verify
  BY <1>1, <1>7, DiskKept DEF Verify, StageFails
<1>8. CASE Load /\ load(job) # NoFailure
  BY <1>1, <1>8, DiskKept DEF Load, StageFails
<1>9. CASE Load /\ load(job) = NoFailure
  <2>1. /\ pc = "load" /\ pc' = "sdk" /\ job' = job
        /\ code' = disk[import_root(job)] /\ disk' = disk /\ left' = left
    BY <1>9 DEF Load, Import
  <2>2. /\ attempt \in 1 .. MaxAttempts /\ attempt' = attempt
        /\ import_root(job) \in {0, attempt} /\ import_root(job) \in Roots
        /\ import_root(job)' = import_root(job)
    BY <2>1, JobFacts DEF JobInv, Early, Roots, attempt, import_root, materialization_dir,
                          Zipped
  <2>3. job.held \in Versions /\ left = {} /\ code' \in Contents
    BY <2>1, <2>2 DEF DiskInv
  <2>4. \A f \in Files : f \in Has[job.held] => code'[f] = job.held
    BY <2>1, <2>3 DEF DiskInv
  <2>5. ASSUME NEW f \in Files, f \notin Has[job.held]
        PROVE  code'[f] = 0 \/ import_root(job) = 0
    BY <2>1, <2>2, <2>5 DEF DiskInv
  <2>6. job.held # 0
    BY <2>3, ArtifactAssumption
  <2>7. CodeIsThisLaunchs'
    BY <2>1, <2>2, <2>4, <2>5, <2>6 DEF CodeIsThisLaunchs
  <2> QED BY <2>1, <2>2, <2>3, <2>7 DEF DiskInv
<1>10. CASE ValidateSdk \/ InitializeDependencies \/ BindStrategy \/ EmitSucceeded
  BY <1>1, <1>10, DiskKept
     DEF ValidateSdk, StageFails, InitializeDependencies, BindStrategy, EmitSucceeded
<1>11. CASE ReportRunning \/ SetReady \/ SetRunning \/ StepNotJournalled
            \/ RunNotJournalled
  BY <1>1, <1>11, DiskKept
     DEF ReportRunning, SetReady, SetRunning, StepNotJournalled, RunNotJournalled
<1>12. CASE EnterFailed \/ RollbackSkipped \/ RollbackReport \/ RollbackSignal
  BY <1>1, <1>12, DiskKept
     DEF EnterFailed, RollbackSkipped, RollbackReport, RollbackSignal
<1> QED BY <1>2, <1>3, <1>4, <1>5, <1>6, <1>7, <1>8, <1>9, <1>10, <1>11, <1>12 DEF Step

LEMMA DiskRelaunched ==
  ASSUME JobInv, DiskInv, Relaunch
  PROVE  DiskInv'
<1>1. /\ attempt' \in Int /\ attempt \in Int
      /\ attempt' > attempt \/ (attempt' = attempt /\ job'.held = job.held)
  BY JobRelaunched, JobFacts
<1>2. /\ pc' = "env" /\ left' = {} /\ code' = Blank /\ disk' = disk
  BY DEF Relaunch
<1>3. attempt' \in 1 .. MaxAttempts =>
        \A f \in Files : disk'[attempt'][f] = 0
                         \/ (f \in Has[job'.held] /\ disk'[attempt'][f] = job'.held)
  <2>1. CASE attempt' > attempt
    BY <1>2, <2>1, DiskFacts DEF DiskInv
  <2>2. CASE attempt' = attempt /\ job'.held = job.held
    BY <1>2, <2>2 DEF DiskInv
  <2> QED BY <1>1, <2>1, <2>2
<1>4. \A r \in 1 .. MaxAttempts : r > attempt' => disk'[r] = Blank
  BY <1>1, <1>2 DEF DiskInv
<1>5. Blank \in Contents
  BY DiskFacts
<1> QED BY <1>2, <1>3, <1>4, <1>5 DEF DiskInv, CodeIsThisLaunchs, Loaded

-----------------------------------------------------------------------------
(* Why ReadyMeansSucceeded and the store's half of ToldAfterRecorded and   *)
(* FailedStartIsKnown are inductive: an attempt has its row before its     *)
(* pipeline runs, its outcome before start() goes on, its failure before   *)
(* the rollback reports it.                                                *)
Stored(a) ==
  /\ rows[a] = "SUCCEEDED"
  /\ \E e \in events : e.attempt = a /\ e.name = "launch_succeeded"

StoreInv ==
  /\ rows \in [1 .. MaxAttempts -> {"none", "STARTING", "SUCCEEDED", "FAILED"}]
  /\ inst.state \in {"none", "INITIALIZING", "READY", "RUNNING", "FAILED"}
  /\ pc \notin Early \cup {"container"} => inst.state # "none"
  /\ pc \in Bootstrapped => rows[attempt] # "none"
  /\ pc \in Started => Stored(attempt)
  /\ inst.state \in {"READY", "RUNNING"} => Stored(inst.attempt)
  /\ pc \in {"failing", "rollback"} /\ failure # Other =>
       rows[attempt] = "FAILED" /\ inst.state = "FAILED"
  /\ pc = "rollback" \/ (pc = "awaiting" /\ faults = 0) =>
       inst = [state |-> "FAILED", attempt |-> attempt]

LEMMA StoreKept ==
  ASSUME StoreInv, UNCHANGED <<job, storeVars>>,
         pc' \notin Early \cup {"container"} => pc \notin Early \cup {"container"},
         pc' \in Bootstrapped => pc \in Bootstrapped,
         pc' \in Started => pc \in Started,
         pc' \in {"failing", "rollback"} /\ failure' # Other =>
           pc \in {"failing", "rollback"} /\ failure # Other,
         pc' = "rollback" \/ (pc' = "awaiting" /\ faults' = 0) => pc = "rollback"
  PROVE  StoreInv'
<1>1. attempt' = attempt /\ rows' = rows /\ inst' = inst /\ events' = events
  BY DEF attempt, storeVars
<1> QED BY <1>1 DEF StoreInv, Stored

(* A record of the journal: the instance row takes the phase.              *)
LEMMA PhaseStored ==
  ASSUME JobInv, StoreInv, job' = job, NEW s \in {"INITIALIZING", "READY", "RUNNING", "FAILED"},
         inst' = [state |-> s, attempt |-> attempt], UNCHANGED <<rows, events>>,
         s \in {"READY", "RUNNING"} => pc \in Started,
         pc' \in Bootstrapped => pc \in Bootstrapped,
         pc' \in Started => pc \in Started,
         pc' \in {"failing", "rollback"} /\ failure' # Other =>
           pc \in {"failing", "rollback"} /\ failure # Other /\ s = "FAILED",
         pc' = "rollback" => s = "FAILED", pc' # "awaiting"
  PROVE  StoreInv'
<1>1. attempt' = attempt /\ inst'.state = s /\ inst'.attempt = attempt
  BY DEF attempt
<1> QED BY <1>1 DEF StoreInv, Stored

LEMMA StoreStep ==
  ASSUME JobInv, StoreInv, Step
  PROVE  StoreInv'
<1>1. job' = job /\ attempt' = attempt /\ faults \in Nat
  BY JobStep DEF attempt, JobInv
<1>2. /\ NoPost => Quiet /\ faults' = faults
      /\ Locked => Quiet /\ faults' # 0
      /\ \A r, o : Post(r, o) => Sends(r)
  BY <1>1, MailFacts
<1> USE DEF Goes, Fails, Early, Started, Bootstrapped
<1>3. CASE EnvInvalid \/ EnvValid \/ LoadSettings \/ ReportContextFailure
  BY <1>1, <1>3, StoreKept DEF EnvInvalid, EnvValid, LoadSettings, ReportContextFailure
<1>4. CASE BuildContainer
  <2>1. CASE pc' = "exited" /\ UNCHANGED storeVars
    BY <1>1, <2>1, StoreKept
  <2>2. CASE pc = "container" /\ pc' = "servers"
             /\ inst' = [state |-> "INITIALIZING", attempt |-> attempt]
             /\ UNCHANGED <<rows, events>>
    BY <1>1, <2>2, PhaseStored
  <2> QED BY <1>4, <2>1, <2>2
         DEF BuildContainer, record_phase_change, upsert_instance
<1>5. CASE StartServers \/ TransactionFails
  BY <1>1, <1>5, StoreKept DEF StartServers, TransactionFails
<1>6. CASE BootstrapStarts
  <2>1. /\ pc = "start" /\ pc' = "fetch" /\ events' = events
        /\ inst' = [state |-> "INITIALIZING", attempt |-> attempt]
        /\ rows' = [rows EXCEPT ![attempt] =
                      IF rows[attempt] = "none" THEN "STARTING" ELSE rows[attempt]]
    BY <1>6 DEF BootstrapStarts, on_bootstrap_start, upsert_instance, append_attempt
  <2>2. attempt \in 1 .. MaxAttempts
    BY <2>1 DEF JobInv
  <2>3. /\ rows' \in [1 .. MaxAttempts -> {"none", "STARTING", "SUCCEEDED", "FAILED"}]
        /\ rows'[attempt] # "none" /\ inst'.state = "INITIALIZING"
    BY <2>1, <2>2 DEF StoreInv
  <2> QED BY <1>1, <2>1, <2>3 DEF StoreInv
<1>7. CASE Fetch \/ Write \/ WriteFails \/ Verify \/ Load \/ ValidateSdk
  <2>1. /\ UNCHANGED storeVars /\ pc \in {"fetch", "write", "load", "sdk"}
        /\ \/ pc' \in {"write", "load", "sdk", "success", "record"}
           \/ pc' = "failing" /\ failure' = Other
    BY <1>7 DEF Fetch, Write, WriteFails, Verify, Load, ValidateSdk, StageFails
  <2> QED BY <1>1, <2>1, StoreKept
<1>8. CASE RecordFailure
  <2>1. /\ pc = "record" /\ pc' = "failing" /\ failure' = failure
        /\ inst' = [state |-> "FAILED", attempt |-> attempt]
        /\ rows' = [rows EXCEPT ![attempt] = "FAILED"]
    BY <1>8 DEF RecordFailure, on_bootstrap_failure, update_state, mark_outcome, StoreInv
  <2>2. attempt \in 1 .. MaxAttempts
    BY <2>1 DEF JobInv
  <2>3. /\ rows' \in [1 .. MaxAttempts -> {"none", "STARTING", "SUCCEEDED", "FAILED"}]
        /\ rows'[attempt] = "FAILED" /\ inst'.state = "FAILED"
    BY <2>1, <2>2 DEF StoreInv
  <2> QED BY <1>1, <2>1, <2>3 DEF StoreInv
<1>9. CASE RecordSuccess
  <2>1. /\ pc = "success" /\ pc' = "deps"
        /\ inst' = [state |-> "READY", attempt |-> attempt]
        /\ rows' = [rows EXCEPT ![attempt] = "SUCCEEDED"]
    BY <1>9 DEF RecordSuccess, on_bootstrap_success, update_state, mark_outcome, StoreInv
  <2>2. attempt \in 1 .. MaxAttempts
    BY <2>1 DEF JobInv
  <2>3. /\ rows' \in [1 .. MaxAttempts -> {"none", "STARTING", "SUCCEEDED", "FAILED"}]
        /\ rows'[attempt] = "SUCCEEDED" /\ inst'.state = "READY" /\ inst'.attempt = attempt
    BY <2>1, <2>2 DEF StoreInv
  <2>4. \E e \in events' : e.attempt = attempt /\ e.name = "launch_succeeded"
    <3> DEFINE e0 == [attempt |-> attempt, name |-> "launch_succeeded", reason |-> "none"]
               known == \E e \in events : e.attempt = attempt /\ e.name = "launch_succeeded"
    <3>1. events' = IF known THEN events ELSE events \cup {e0}
      BY <1>9 DEF RecordSuccess, on_bootstrap_success, append_event
    <3>2. e0.attempt = attempt /\ e0.name = "launch_succeeded"
      OBVIOUS
    <3>3. CASE known
      BY <3>1, <3>3
    <3>4. CASE ~known
      <4> HIDE DEF e0, known
      <4> QED BY <3>1, <3>2, <3>4
    <3> QED BY <3>3, <3>4
  <2> QED BY <1>1, <2>1, <2>3, <2>4 DEF StoreInv, Stored
<1>10. CASE InitializeDependencies \/ BindStrategy
  BY <1>1, <1>10, StoreKept DEF InitializeDependencies, BindStrategy
<1>11. CASE EmitSucceeded
  <2>1. /\ pc = "succeeded" /\ inst' = [state |-> "READY", attempt |-> attempt]
        /\ UNCHANGED <<rows, events>>
        /\ pc' = "report" \/ (pc' = "failing" /\ failure' = Other)
    BY <1>11 DEF EmitSucceeded, record_lifecycle_event, upsert_instance
  <2> QED BY <1>1, <2>1, PhaseStored
<1>12. CASE ReportRunning
  BY <1>1, <1>12, StoreKept DEF ReportRunning
<1>13. CASE SetReady \/ SetRunning
  <2>1. /\ pc \in {"ready", "run"} /\ UNCHANGED <<rows, events>>
        /\ pc' \in {"run", "running"}
        /\ \E s \in {"READY", "RUNNING"} : inst' = [state |-> s, attempt |-> attempt]
    BY <1>13 DEF SetReady, SetRunning, record_phase_change, upsert_instance
  <2> QED BY <1>1, <2>1, PhaseStored
<1>14. CASE StepNotJournalled \/ RunNotJournalled \/ RollbackSkipped
  <2>1. /\ UNCHANGED storeVars /\ faults' # 0
        /\ \/ pc' = "failing" /\ failure' = Other
           \/ pc' = "awaiting" /\ pc \notin Early \cup {"container"}
        /\ pc \notin Early \cup {"container"}
    BY <1>2, <1>14 DEF StepNotJournalled, RunNotJournalled, RollbackSkipped
  <2> QED BY <1>1, <2>1, StoreKept
<1>15. CASE EnterFailed
  <2>1. /\ pc = "failing" /\ pc' = "rollback" /\ failure' = failure
        /\ inst' = [state |-> "FAILED", attempt |-> attempt] /\ UNCHANGED <<rows, events>>
    BY <1>15 DEF EnterFailed, record_phase_change, upsert_instance
  <2> QED BY <1>1, <2>1, PhaseStored
<1>16. CASE RollbackReport \/ RollbackSignal
  <2>1. pc = "rollback" /\ pc' = "awaiting" /\ UNCHANGED storeVars
    BY <1>16 DEF RollbackReport, RollbackSignal
  <2> QED BY <1>1, <2>1, StoreKept
<1> QED BY <1>3, <1>4, <1>5, <1>6, <1>7, <1>8, <1>9, <1>10, <1>11, <1>12, <1>13, <1>14,
          <1>15, <1>16 DEF Step

LEMMA StoreRestarts ==
  ASSUME JobInv, StoreInv, ProcessEnds \/ Relaunch
  PROVE  StoreInv'
<1>1. pc' \in {"exited", "env"} /\ UNCHANGED storeVars
  BY DEF ProcessEnds, Relaunch
<1> QED BY <1>1 DEF StoreInv, Stored, storeVars, Early, Started, Bootstrapped

-----------------------------------------------------------------------------
(* What the manager is told: five posts at the most, a failure only at the *)
(* launch's end, and that end is heard when nothing failed on the way.     *)
MaxSent(p) ==
  CASE p = "env"                                     -> 0
    [] p = "report"                                  -> 2
    [] p \in {"ready", "run", "running", "failing"}  -> 3
    [] p = "rollback"                                -> 4
    [] p \in {"exited", "awaiting"}                  -> 5
    [] OTHER                                         -> 1

Unfailed == \A i \in 1 .. Len(sent) : sent[i].status \notin Failures

Told(statuses) ==
  \E h \in heard : h.launch = launches /\ h.status \in statuses

MailInv ==
  /\ heard \subseteq Reports /\ sent \in Seq(Reports) /\ Len(sent) <= MaxSent(pc)
  /\ pc \notin {"exited", "rollback", "awaiting"} => Unfailed
  /\ \A h \in heard : h.launch <= launches
  /\ pc \notin {"env", "exited"} /\ faults = 0 => Told({"STARTING"})
  /\ pc # "exited" /\ ~ManagerConfigured =>
       \A h \in heard : h.launch = launches => h.status = "STARTING"
  /\ pc = "awaiting" /\ faults = 0 /\ ManagerConfigured =>
       Told(Failures) \/ job.fault = "deps"

LEMMA ReportFacts ==
  ASSUME JobInv, NEW s \in Statuses, NEW c \in Codes, NEW b \in BOOLEAN
  PROVE  /\ Report(s, c, b) \in Reports
         /\ Report(s, c, b).status = s /\ Report(s, c, b).launch = launches
         /\ Report(s, c, FALSE) \in Reports
         /\ Report(s, c, FALSE).status = s /\ Report(s, c, FALSE).launch = launches
  BY JobFacts DEF Report, Reports, JobInv

LEMMA MailSent ==
  ASSUME JobInv, MailInv, NEW r \in Reports, Sends(r), r.launch = launches,
         UNCHANGED <<job, launches>>,
         MaxSent(pc') \in Nat, MaxSent(pc) + 1 <= MaxSent(pc'), MaxSent(pc) \in Nat,
         pc # "exited", pc' # "env", pc = "env" => r.status = "STARTING",
         ManagerConfigured \/ r.status = "STARTING" \/ pc' = "exited",
         pc' \notin {"exited", "rollback", "awaiting"} =>
           pc \notin {"exited", "rollback", "awaiting"} /\ r.status \notin Failures,
         pc' = "awaiting" => r.status \in Failures
  PROVE  MailInv'
<1>1. /\ sent' \in Seq(Reports) /\ Len(sent') = Len(sent) + 1
      /\ \A i \in 1 .. Len(sent') : IF i = Len(sent) + 1 THEN sent'[i] = r
                                    ELSE i \in 1 .. Len(sent) /\ sent'[i] = sent[i]
  BY DEF MailInv, Sends
<1>2. Len(sent) \in Nat /\ Len(sent) + 1 <= MaxSent(pc') /\ MaxSent(pc)' = MaxSent(pc')
  BY DEF MailInv, MaxSent
<1>3. heard' \subseteq Reports /\ \A h \in heard' : h.launch <= launches'
  BY DEF MailInv, Sends, JobInv
<1>4. pc' \notin {"exited", "rollback", "awaiting"} => Unfailed'
  BY <1>1 DEF MailInv, Unfailed
<1>5. ManagerConfigured' = ManagerConfigured
  BY DEF ManagerConfigured
<1>6. pc' \notin {"env", "exited"} /\ faults' = 0 => Told({"STARTING"})'
  BY DEF MailInv, Sends, Told
<1>7. pc' # "exited" /\ ~ManagerConfigured' =>
        \A h \in heard' : h.launch = launches' => h.status = "STARTING"
  BY <1>5 DEF MailInv, Sends
<1>8. pc' = "awaiting" /\ faults' = 0 => Told(Failures)'
  BY DEF Sends, Told, Failures
<1> QED BY <1>1, <1>2, <1>3, <1>4, <1>6, <1>7, <1>8 DEF MailInv

LEMMA MailQuiet ==
  ASSUME MailInv, Quiet, UNCHANGED <<job, launches>>,
         MaxSent(pc) \in Nat, MaxSent(pc') \in Nat, MaxSent(pc) <= MaxSent(pc'),
         pc \in {"env", "exited"} => pc' = "exited", pc' # "env",
         pc' \notin {"exited", "rollback", "awaiting"} =>
           pc \notin {"exited", "rollback", "awaiting"},
         pc' = "awaiting" /\ faults' = 0 /\ ManagerConfigured => job.fault = "deps"
  PROVE  MailInv'
<1>1. sent' = sent /\ heard' = heard /\ MaxSent(pc)' = MaxSent(pc')
  BY DEF Quiet, MaxSent
<1>2. Len(sent') <= MaxSent(pc)' /\ sent' \in Seq(Reports) /\ heard' \subseteq Reports
  BY <1>1 DEF MailInv
<1>3. Unfailed' <=> Unfailed
  BY <1>1 DEF Unfailed
<1>4. /\ ManagerConfigured' = ManagerConfigured
      /\ Told({"STARTING"})' <=> Told({"STARTING"})
  BY <1>1 DEF ManagerConfigured, Told
<1>5. faults' = 0 => faults = 0
  BY DEF Quiet
<1> QED BY <1>1, <1>2, <1>3, <1>4, <1>5 DEF MailInv

LEMMA MailStep ==
  ASSUME JobInv, MailInv, Step
  PROVE  MailInv'
<1>1. /\ UNCHANGED <<job, launches>> /\ faults \in Nat
      /\ NoPost => Quiet
      /\ Locked => Quiet /\ faults' # 0
      /\ \A r, o : Post(r, o) => Sends(r)
      /\ \A r, o : Tell(r, o) => IF ManagerConfigured THEN Sends(r) ELSE Quiet
  BY JobStep, MailFacts DEF JobInv
<1>0. /\ {"STARTING", "RUNNING", "launch_succeeded"} \subseteq Statuses \ Failures
      /\ Failures \subseteq Statuses /\ "none" \in Codes
      /\ {"FAILED", "STARTUP_FAILED", "launch_failed"} = Failures
  BY DEF Statuses, Failures, Codes
(* A step that posts a report.                                             *)
<1>2. ASSUME NEW r \in Reports, Sends(r), r.launch = launches,
             MaxSent(pc') \in Nat, MaxSent(pc) + 1 <= MaxSent(pc'), MaxSent(pc) \in Nat,
             pc # "exited", pc' # "env", pc = "env" => r.status = "STARTING",
             ManagerConfigured \/ r.status = "STARTING" \/ pc' = "exited",
             \/ pc' \in {"exited", "rollback"}
             \/ pc' = "awaiting" /\ r.status \in Failures
             \/ pc \notin {"exited", "rollback", "awaiting"} /\ pc' # "awaiting"
                 /\ r.status \notin Failures
      PROVE  MailInv'
  BY <1>1, <1>2, MailSent
<1> DEFINE Room(s) ==
             /\ MaxSent(pc) \in Nat /\ MaxSent(pc') \in Nat /\ MaxSent(pc) + 1 <= MaxSent(pc')
             /\ pc # "exited" /\ pc' # "env" /\ (pc = "env" => s = "STARTING")
             /\ \/ pc' \in {"exited", "rollback"}
                \/ pc' = "awaiting" /\ s \in Failures
                \/ pc \notin {"exited", "rollback", "awaiting"} /\ pc' # "awaiting"
                    /\ s \notin Failures
<1>3. ASSUME NEW s \in Statuses, NEW c \in Codes, Sends(Report(s, c, FALSE)), Room(s),
             ManagerConfigured \/ s = "STARTING"
      PROVE  MailInv'
  <2> DEFINE r == Report(s, c, FALSE)
  <2>1. r \in Reports /\ r.status = s /\ r.launch = launches
    BY ReportFacts
  <2> HIDE DEF r
  <2>2. Sends(r)
    BY <1>3 DEF r
  <2> QED BY <1>2, <1>3, <2>1, <2>2
(* A step that posts over the URL of the settings, or nothing without it.  *)
<1>15. ASSUME NEW s \in Statuses, NEW c \in Codes, NEW o, Tell(Report(s, c, FALSE), o),
              Room(s), pc # "env"
       PROVE  MailInv'
  <2>1. CASE ManagerConfigured
    <3>1. Sends(Report(s, c, FALSE))
      BY <1>1, <1>15, <2>1, Zenon
    <3> HIDE DEF Room
    <3> QED BY <1>3, <1>15, <2>1, <3>1
  <2>2. CASE ~ManagerConfigured
    <3>1. Quiet
      BY <1>1, <1>15, <2>2, Zenon
    <3> QED BY <1>1, <1>15, <2>2, <3>1, MailQuiet
  <2> QED BY <2>1, <2>2
<1> USE DEF Goes, Fails
<1>4. CASE EnvInvalid \/ LoadSettings \/ BuildContainer \/ StartServers
  <2>1. /\ Quiet /\ pc' # "awaiting" /\ MaxSent(pc) \in Nat /\ MaxSent(pc') \in Nat
        /\ MaxSent(pc) <= MaxSent(pc') /\ pc \notin {"exited", "rollback", "awaiting"}
        /\ pc' # "env" /\ (pc = "env" => pc' = "exited")
    BY <1>1, <1>4 DEF EnvInvalid, LoadSettings, BuildContainer, StartServers, MaxSent
  <2> QED BY <1>1, <2>1, MailQuiet
<1>5. CASE EnvValid
  <2>1. /\ Sends(Report("STARTING", "none", FALSE)) /\ pc = "env"
        /\ pc' \in {"settings", "exited"}
    BY <1>1, <1>5 DEF EnvValid
  <2>2. Room("STARTING")
    BY <1>0, <2>1 DEF MaxSent
  <2> HIDE DEF Room
  <2> QED BY <1>0, <1>3, <2>1, <2>2, Zenon
<1>6. CASE ReportContextFailure
  <2>1. PICK s : /\ s = runtime_context_failure_status(failure.reason)
                 /\ Sends(Report("STARTUP_FAILED", s.code, s.retryable))
    BY <1>1, <1>6 DEF ReportContextFailure
  <2>2. s.code \in Codes /\ s.retryable \in BOOLEAN
    BY <2>1 DEF runtime_context_failure_status, Codes
  <2>3. pc = "context" /\ pc' = "exited"
    BY <1>6 DEF ReportContextFailure
  <2>4. MaxSent(pc) = 1 /\ MaxSent(pc') = 5
    BY <2>3 DEF MaxSent
  <2> DEFINE r == Report("STARTUP_FAILED", s.code, s.retryable)
  <2>5. r \in Reports /\ r.launch = launches
    BY <1>0, <2>2, ReportFacts
  <2> HIDE DEF r
  <2>6. Sends(r)
    BY <2>1 DEF r
  <2> QED BY <1>2, <2>3, <2>4, <2>5, <2>6
<1>7. CASE BootstrapStarts \/ Fetch \/ Write \/ WriteFails \/ Verify \/ Load \/ ValidateSdk
  <2>1. Quiet
    BY <1>1, <1>7, MailFacts
       DEF BootstrapStarts, Fetch, Write, WriteFails, Verify, Load, ValidateSdk, Quiet, mailVars
  <2>2. pc \in {"start", "fetch", "write", "load", "sdk"}
        /\ pc' \in {"fetch", "write", "load", "sdk", "success", "record", "failing"}
    BY <1>7 DEF BootstrapStarts, Fetch, Write, WriteFails, Verify, Load, ValidateSdk,
                StageFails
  <2>3. MaxSent(pc) = 1 /\ MaxSent(pc') \in {1, 3}
    BY <2>2 DEF MaxSent
  <2> QED BY <1>1, <2>1, <2>2, <2>3, MailQuiet
<1>8. CASE RecordFailure \/ RecordSuccess \/ TransactionFails \/ InitializeDependencies
           \/ BindStrategy \/ SetReady \/ SetRunning
  <2>1. Quiet
    BY <1>1, <1>8
       DEF RecordFailure, RecordSuccess, TransactionFails, InitializeDependencies,
           BindStrategy, SetReady, SetRunning
  <2>2. \/ /\ pc \in {"start", "record", "success", "deps", "bind"}
           /\ pc' \in {"deps", "bind", "succeeded", "failing"}
        \/ pc \in {"ready", "run"} /\ pc' \in {"run", "running"}
    BY <1>8 DEF RecordFailure, RecordSuccess, TransactionFails, InitializeDependencies,
           BindStrategy, SetReady, SetRunning
  <2>3. /\ MaxSent(pc) <= MaxSent(pc') /\ MaxSent(pc) \in Nat /\ MaxSent(pc') \in Nat
        /\ pc \notin {"env", "exited", "rollback", "awaiting"}
        /\ pc' \notin {"env", "awaiting"}
    BY <2>2 DEF MaxSent
  <2> QED BY <1>1, <2>1, <2>3, MailQuiet
<1>9. CASE EmitSucceeded
  <2>1. PICK o : Tell(Report("launch_succeeded", "none", FALSE), o)
    BY <1>9 DEF EmitSucceeded, Emit, emit_signal, create
  <2>2. pc = "succeeded" /\ pc' \in {"report", "failing"}
    BY <1>9 DEF EmitSucceeded
  <2>3. Room("launch_succeeded") /\ pc # "env"
    BY <1>0, <2>2 DEF MaxSent
  <2> HIDE DEF Room
  <2> QED BY <1>0, <1>15, <2>1, <2>3, Zenon
<1>10. CASE ReportRunning
  <2>1. PICK o : Tell(Report("RUNNING", "none", FALSE), o)
    BY <1>10 DEF ReportRunning
  <2>2. pc = "report" /\ pc' = "ready"
    BY <1>10 DEF ReportRunning
  <2>3. Room("RUNNING") /\ pc # "env"
    BY <1>0, <2>2 DEF MaxSent
  <2> HIDE DEF Room
  <2> QED BY <1>0, <1>15, <2>1, <2>3, Zenon
<1>11. CASE StepNotJournalled \/ RunNotJournalled \/ RollbackSkipped
  <2>1. Quiet /\ faults' # 0
    BY <1>1, <1>11 DEF StepNotJournalled, RunNotJournalled, RollbackSkipped
  <2>2. \/ pc \in {"deps", "bind", "succeeded", "ready", "run"} /\ pc' = "failing"
        \/ pc \in {"run", "failing", "rollback"} /\ pc' = "awaiting"
    BY <1>11 DEF StepNotJournalled, RunNotJournalled, RollbackSkipped
  <2>3. /\ MaxSent(pc) <= MaxSent(pc') /\ MaxSent(pc) \in Nat /\ MaxSent(pc') \in Nat
        /\ pc' \notin {"exited", "rollback", "awaiting"} =>
             pc \notin {"exited", "rollback", "awaiting"}
        /\ pc \notin {"env", "exited"} /\ pc' # "env"
    BY <2>2 DEF MaxSent
  <2> QED BY <1>1, <2>1, <2>3, MailQuiet
<1>12. CASE EnterFailed
  <2>1. pc = "failing" /\ pc' = "rollback"
    BY <1>12 DEF EnterFailed
  <2>2. MaxSent(pc) = 3 /\ MaxSent(pc') = 4
    BY <2>1 DEF MaxSent
  <2>3. CASE NoPost
    BY <1>1, <2>1, <2>2, <2>3, MailQuiet
  <2>4. CASE \E outcome \in {"answered", "raised"} :
               Tell(Report("FAILED", "none", FALSE), outcome)
    <3>1. Room("FAILED") /\ "FAILED" \in Statuses /\ pc # "env"
      BY <1>0, <2>1, <2>2
    <3> HIDE DEF Room
    <3> QED BY <1>0, <1>15, <2>4, <3>1, Zenon
  <2> QED BY <1>12, <2>3, <2>4 DEF EnterFailed
<1>13. CASE RollbackReport
  <2>1. /\ pc = "rollback" /\ pc' = "awaiting" /\ failure.stage \in Stages
    BY <1>13 DEF RollbackReport, JobInv
  <2>2. bootstrap_failure_srm_reason_code(failure.stage) \in Codes
    BY <2>1 DEF bootstrap_failure_srm_reason_code, Stages, Codes
  <2>3. PICK o : Tell(Report("STARTUP_FAILED",
                      bootstrap_failure_srm_reason_code(failure.stage), FALSE), o)
    BY <1>13 DEF RollbackReport
  <2>4. MaxSent(pc) = 4 /\ MaxSent(pc') = 5
    BY <2>1 DEF MaxSent
  <2>5. Room("STARTUP_FAILED") /\ "STARTUP_FAILED" \in Statuses /\ pc # "env"
    BY <1>0, <2>1, <2>4
  <2> HIDE DEF Room
  <2> QED BY <1>15, <2>2, <2>3, <2>5, Zenon
<1>14. CASE RollbackSignal
  <2>1. pc = "rollback" /\ pc' = "awaiting"
    BY <1>14 DEF RollbackSignal
  <2>2. MaxSent(pc) = 4 /\ MaxSent(pc') = 5
    BY <2>1 DEF MaxSent
  <2>3. CASE deps \/ job.fault # "deps"
    <3>1. PICK o : Tell(Report("launch_failed", "none", FALSE), o)
      BY <1>14, <2>3 DEF RollbackSignal, Emit, emit_signal, create
    <3>2. Room("launch_failed") /\ "launch_failed" \in Statuses /\ pc # "env"
      BY <1>0, <2>1, <2>2
    <3> HIDE DEF Room
    <3> QED BY <1>0, <1>15, <3>1, <3>2, Zenon
  <2>4. CASE ~(deps \/ job.fault # "deps")
    BY <1>1, <1>14, <2>1, <2>2, <2>4, MailQuiet DEF RollbackSignal
  <2> QED BY <2>3, <2>4
<1> QED BY <1>4, <1>5, <1>6, <1>7, <1>8, <1>9, <1>10, <1>11, <1>12, <1>13, <1>14 DEF Step

LEMMA MailRestarts ==
  ASSUME JobInv, MailInv, ProcessEnds \/ Relaunch
  PROVE  MailInv'
<1>1. CASE ProcessEnds
  <2>1. Quiet /\ pc' = "exited" /\ MaxSent(pc') = 5 /\ MaxSent(pc) \in 0 .. 5
    BY <1>1, JobEnded DEF ProcessEnds, MaxSent
  <2> QED BY <1>1, <2>1, JobEnded, MailQuiet
<1>2. CASE Relaunch
  <2>1. /\ sent' = <<>> /\ heard' = heard /\ pc' = "env" /\ MaxSent(pc)' = 0
        /\ launches \in Nat /\ launches' = launches + 1
    BY <1>2 DEF Relaunch, MaxSent, JobInv
  <2>2. \A h \in heard : h.launch \in Nat /\ h.launch <= launches
    BY DEF MailInv, Reports
  <2> QED BY <2>1, <2>2 DEF MailInv, Unfailed
<1> QED BY <1>1, <1>2

-----------------------------------------------------------------------------
(* The invariant of the launches.                                          *)
LaunchInv == JobInv /\ DiskInv /\ StoreInv /\ MailInv

LEMMA LaunchInvInit == Init => LaunchInv
<1> SUFFICES ASSUME Init PROVE LaunchInv
  OBVIOUS
<1> USE DEF Init
<1>1. JobInv
  BY LaunchesAssumption DEF JobInv, Places, Ended, Bootstrapped, Early
<1>2. DiskInv
  <2>1. disk = [r \in Roots |-> Blank] /\ left = {} /\ code = Blank
    BY DEF ArtifactInit
  <2>2. attempt \in Int /\ \A r \in 1 .. MaxAttempts : disk[r] = Blank
    BY <1>1, <2>1, JobFacts DEF Roots
  <2> QED BY <2>1, <2>2, DiskFacts DEF DiskInv, CodeIsThisLaunchs, Loaded
<1>3. StoreInv
  BY DEF StoreInit, StoreInv, Early, Started, Bootstrapped
<1>4. MailInv
  BY DEF MailInv, MaxSent, Unfailed
<1> QED BY <1>1, <1>2, <1>3, <1>4 DEF LaunchInv

LEMMA LaunchInvNext == LaunchInv /\ [Next]_vars => LaunchInv'
<1> SUFFICES ASSUME LaunchInv, [Next]_vars PROVE LaunchInv'
  OBVIOUS
<1> USE DEF LaunchInv
<1>1. CASE Step
  BY <1>1, JobStep, DiskStep, StoreStep, MailStep
<1>2. CASE ProcessEnds
  <2>1. DiskInv'
    BY <1>2, JobEnded, DiskKept DEF ProcessEnds, artifactVars, Loaded
  <2> QED BY <1>2, <2>1, JobEnded, StoreRestarts, MailRestarts
<1>3. CASE Relaunch
  BY <1>3, JobRelaunched, DiskRelaunched, StoreRestarts, MailRestarts
<1>4. CASE UNCHANGED vars
  <2>1. /\ UNCHANGED <<pc, job, failure, launches, faults, sent, heard, disk, left, code>>
        /\ UNCHANGED <<inst, rows, events>>
    BY <1>4 DEF vars, processVars, mailVars, artifactVars, storeVars
  <2>2. attempt' = attempt /\ import_root(job)' = import_root(job)
    BY <2>1 DEF attempt, import_root, materialization_dir, Zipped
  <2>3. JobInv'
    BY <2>1, <2>2 DEF JobInv
  <2>4. DiskInv'
    BY <2>1, <2>2 DEF DiskInv, CodeIsThisLaunchs, Loaded
  <2>5. StoreInv'
    BY <2>1, <2>2 DEF StoreInv, Stored
  <2>6. MailInv'
    BY <2>1 DEF MailInv, MaxSent, Unfailed, Told, ManagerConfigured
  <2> QED BY <2>3, <2>4, <2>5, <2>6
<1> QED BY <1>1, <1>2, <1>3, <1>4 DEF Next

THEOREM LaunchInvariant == Spec => []LaunchInv
  BY LaunchInvInit, LaunchInvNext, PTL DEF Spec

(* Every variable keeps to its values, and an attempt that bootstraps has  *)
(* its row in the SQLite file.                                             *)
THEOREM LaunchTypes == Spec => []TypeOK
<1>1. LaunchInv => TypeOK
  <2> SUFFICES ASSUME LaunchInv PROVE TypeOK
    OBVIOUS
  <2>1. Len(sent) \in Nat /\ MaxSent(pc) \in 0 .. 5
    BY DEF LaunchInv, MailInv, MaxSent
  <2>2. Len(sent) <= 5
    BY <2>1 DEF LaunchInv, MailInv
  <2> QED BY <2>2
         DEF LaunchInv, JobInv, DiskInv, StoreInv, MailInv, TypeOK, Places, Contents
<1> QED BY <1>1, LaunchInvariant, PTL

(* The strategy that start() loads is the artifact of its own launch, file *)
(* by file, whatever earlier attempts and interrupted extractions left in  *)
(* strategy_bundle/ and in the attempts' own directories.                  *)
THEOREM StrategyIsTheArtifact == Spec => []CodeIsThisLaunchs
<1>1. LaunchInv => CodeIsThisLaunchs
  BY DEF LaunchInv, DiskInv
<1> QED BY <1>1, LaunchInvariant, PTL

(* worker_instances says READY or RUNNING only for an attempt that the     *)
(* bootstrap persistence recorded as succeeded, across crashes, repeated   *)
(* attempts and transactions that fail.                                    *)
THEOREM ReadyIsBacked == Spec => []ReadyMeansSucceeded
<1>1. LaunchInv => ReadyMeansSucceeded
  BY DEF LaunchInv, StoreInv, Stored, ReadyMeansSucceeded
<1> QED BY <1>1, LaunchInvariant, PTL

(* After a start that failed, with no post and no transaction lost, the    *)
(* store says FAILED.  With the manager's URL in the settings it has heard *)
(* of it, unless what failed are the dependencies that carry the signal;   *)
(* without it, the default, all it has heard of the launch is STARTING.    *)
THEOREM FailureIsToldAndStored == Spec => []FailedStartIsKnown
<1>1. LaunchInv => FailedStartIsKnown
  <2> SUFFICES ASSUME LaunchInv, pc = "awaiting", faults = 0
               PROVE  FailedStartIsKnown
    BY DEF FailedStartIsKnown
  <2> DEFINE told == {r.status : r \in {h \in heard : h.launch = launches}}
  <2>1. inst = [state |-> "FAILED", attempt |-> attempt]
    BY DEF LaunchInv, StoreInv
  <2>2. CASE ManagerConfigured
    <3>1. Told(Failures) \/ job.fault = "deps"
      BY <2>2 DEF LaunchInv, MailInv
    <3>2. told \cap Failures # {} \/ job.fault = "deps"
      BY <3>1 DEF Told
    <3> QED BY <2>1, <2>2, <3>2 DEF FailedStartIsKnown
  <2>3. CASE ~ManagerConfigured
    <3>1. /\ Told({"STARTING"})
          /\ \A h \in heard : h.launch = launches => h.status = "STARTING"
      BY <2>3 DEF LaunchInv, MailInv
    <3>2. told = {"STARTING"}
      BY <3>1 DEF Told
    <3> QED BY <2>1, <2>3, <3>2 DEF FailedStartIsKnown
  <2> QED BY <2>2, <2>3
<1> QED BY <1>1, LaunchInvariant, PTL

(* What one step may tell the manager, and what the store says then.       *)
Recorded(r) ==
  /\ r.status \in Successes => rows[attempt] = "SUCCEEDED" /\ Unfailed
  /\ r.status = "STARTUP_FAILED" /\ pc # "context" =>
       rows[attempt] = "FAILED" /\ inst.state = "FAILED"

LEMMA PostsAreRecorded ==
  ASSUME LaunchInv, Step
  PROVE  sent' = sent \/ \E r : sent' = Append(sent, r) /\ Recorded(r)
<1>1. /\ NoPost => sent' = sent
      /\ Locked => sent' = sent
      /\ \A r, o : Post(r, o) => sent' = Append(sent, r)
      /\ \A r, o : Tell(r, o) => sent' = sent \/ sent' = Append(sent, r)
  BY DEF NoPost, Locked, Post, Tell, mailVars
<1>2. \A s, c, b : Report(s, c, b).status = s
  BY DEF Report
<1>3. CASE \/ EnvInvalid \/ LoadSettings \/ BuildContainer \/ StartServers
           \/ BootstrapStarts \/ Fetch \/ Write \/ Verify \/ Load
           \/ ValidateSdk \/ RecordFailure \/ RecordSuccess \/ TransactionFails
           \/ InitializeDependencies \/ BindStrategy \/ SetReady \/ SetRunning
           \/ StepNotJournalled \/ RunNotJournalled \/ RollbackSkipped
  BY <1>1, <1>3
     DEF EnvInvalid, LoadSettings, BuildContainer, StartServers, BootstrapStarts, Fetch,
         Write, Verify, Load, ValidateSdk, RecordFailure, RecordSuccess,
         TransactionFails, InitializeDependencies, BindStrategy, SetReady, SetRunning,
         StepNotJournalled, RunNotJournalled, RollbackSkipped
<1>4. CASE WriteFails
  BY <1>4 DEF WriteFails, mailVars
<1>5. CASE EnvValid
  <2>1. sent' = Append(sent, Report("STARTING", "none", FALSE))
    BY <1>1, <1>5 DEF EnvValid
  <2>2. Report("STARTING", "none", FALSE).status = "STARTING"
    BY <1>2, Zenon
  <2> QED BY <2>1, <2>2 DEF Recorded, Successes
<1>6. CASE ReportContextFailure
  <2>1. PICK c, b : sent' = Append(sent, Report("STARTUP_FAILED", c, b))
    BY <1>1, <1>6 DEF ReportContextFailure
  <2>2. pc = "context"
    BY <1>6 DEF ReportContextFailure
  <2> QED BY <1>2, <2>1, <2>2 DEF Recorded, Successes
<1>7. CASE EmitSucceeded \/ ReportRunning
  <2>1. PICK s \in Successes : sent' = sent \/ sent' = Append(sent, Report(s, "none", FALSE))
    BY <1>1, <1>7 DEF EmitSucceeded, ReportRunning, Emit, emit_signal, create, Successes
  <2>2. pc \in {"succeeded", "report"}
    BY <1>7 DEF EmitSucceeded, ReportRunning
  <2>3. Unfailed /\ rows[attempt] = "SUCCEEDED"
    BY <2>2 DEF LaunchInv, MailInv, StoreInv, Stored, Started
  <2>4. Report(s, "none", FALSE).status = s
    BY <1>2, Zenon
  <2> QED BY <2>1, <2>3, <2>4 DEF Recorded, Successes
<1>8. CASE EnterFailed \/ RollbackSignal
  <2>1. CASE sent' = sent
    BY <2>1
  <2>2. CASE \E s \in {"FAILED", "launch_failed"} : sent' = Append(sent, Report(s, "none", FALSE))
    <3>1. \A s : Report(s, "none", FALSE).status = s
      BY <1>2, Zenon
    <3> QED BY <2>2, <3>1 DEF Recorded, Successes
  <2> QED BY <1>1, <1>8, <2>1, <2>2
         DEF EnterFailed, RollbackSignal, Emit, emit_signal, create
<1>9. CASE RollbackReport
  <2>1. PICK c : sent' = sent \/ sent' = Append(sent, Report("STARTUP_FAILED", c, FALSE))
    BY <1>1, <1>9 DEF RollbackReport
  <2>2. rows[attempt] = "FAILED" /\ inst.state = "FAILED"
    BY <1>9 DEF RollbackReport, LaunchInv, StoreInv
  <2>3. Report("STARTUP_FAILED", c, FALSE).status = "STARTUP_FAILED"
    BY <1>2, Zenon
  <2> QED BY <2>1, <2>2, <2>3 DEF Recorded, Successes
<1> QED BY <1>3, <1>4, <1>5, <1>6, <1>7, <1>8, <1>9 DEF Step

(* launch_succeeded and RUNNING are posted only when the attempt's row     *)
(* says SUCCEEDED and nothing was called a failure before; a stage's       *)
(* failure only when on_bootstrap_failure has recorded it.                 *)
THEOREM RecordedBeforeTold == Spec => ToldAfterRecorded
<1>1. ASSUME LaunchInv, [Next]_vars, sent' # sent, sent' # <<>>
      PROVE  Recorded(Last(sent'))
  <2>1. CASE Step
    <3>1. PICK r : sent' = Append(sent, r) /\ Recorded(r)
      BY <1>1, <2>1, PostsAreRecorded
    <3>2. sent \in Seq(Reports)
      BY <1>1 DEF LaunchInv, MailInv
    <3>3. Last(sent') = r
      BY <3>1, <3>2 DEF Last
    <3> QED BY <3>1, <3>3
  <2>2. CASE ProcessEnds \/ Relaunch
    BY <1>1, <2>2 DEF ProcessEnds, NoPost, mailVars, Relaunch
  <2>3. CASE UNCHANGED vars
    BY <1>1, <2>3 DEF vars, mailVars
  <2> QED BY <1>1, <2>1, <2>2, <2>3 DEF Next
<1>2. LaunchInv /\ [Next]_vars =>
        [sent' # sent /\ sent' # <<>> =>
           LET r == Last(sent') IN
             /\ r.status \in Successes =>
                  /\ rows[attempt] = "SUCCEEDED"
                  /\ \A i \in 1 .. Len(sent) : sent[i].status \notin Failures
             /\ r.status = "STARTUP_FAILED" /\ pc # "context"
                  => rows[attempt] = "FAILED" /\ inst.state = "FAILED"]_vars
  BY <1>1 DEF Recorded, Unfailed
<1> QED BY <1>2, LaunchInvariant, PTL DEF ToldAfterRecorded, Spec
=============================================================================
