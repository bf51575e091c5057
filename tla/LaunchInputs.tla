---------------------------- MODULE LaunchInputs ----------------------------
(***************************************************************************)
(* What a worker process is launched with and how main() judges it: the    *)
(* environment, the deployment service's runtime-context or setting.json,  *)
(* the launch specification made of it, the ports it listens on, and the   *)
(* codes under which a failure is reported to the runtime manager.         *)
(*                                                                         *)
(* A launch is a record j:                                                 *)
(*   env      which of RUNTIME_ID and the manager's URL are set            *)
(*   module   the module's connectivity settings are used, the default     *)
(*   sds      "off" when the deployment service is not configured, else    *)
(*            what its GET returns: "ok", "unreachable", "http_error",     *)
(*            "empty_body", "invalid_json"                                 *)
(*   file     setting.json: "absent", "unreadable" or "ok"                 *)
(*   given    the fields the runtime-context or the file has a value for   *)
(*   mode     its mode, window: it has ts_start and ts_end                 *)
(*   stated   launch_attempt as SWR_LAUNCH_ATTEMPT or the file state it;   *)
(*            NotANumber stands for text int() refuses                     *)
(*   uri      "bundle" a zip under strategy_bundle/, "zip" another local   *)
(*            zip, "path" a local file or directory, "registry" and        *)
(*            "registry_zip" under the local registry, "remote" a scheme   *)
(*            without a provider                                           *)
(*   held     the version of the artifact found there, 0 for none          *)
(*   base     the local registry's base path is configured                 *)
(*   sound    "ok", "corrupt" (not a zip file) or "unsafe" (an entry       *)
(*            leaves the directory)                                        *)
(*   digest   artifact_digest: the version it was computed for, NoDigest,  *)
(*            or OddDigest (not sha256:hex)                                *)
(*   fault    what is wrong with the strategy or the process, "none"       *)
(*   busy     the addresses in use, ports: how fallbacks are configured    *)
(***************************************************************************)
EXTENDS Integers, Sequences, FiniteSets

CONSTANT MaxAttempts   \* launch attempts of the runtime

ASSUME AttemptsAssumption == MaxAttempts \in Nat \ {0}

Required   == {"runtime_id", "strategy_version_id", "account_id", "entrypoint",
               "artifact_uri"}
NotANumber == -1
NoDigest   == 0
OddDigest  == -1

(***************************************************************************)
(* The environment and the source of the launch identity.                  *)
(***************************************************************************)
validate_minimal_env(j) == j.env = {"runtime_id", "srm_url"}

(* A number below one and text become 1.                                   *)
runtime_identity_from_env(j) == IF j.stated < 1 THEN 1 ELSE j.stated

ContextReasons ==
  [fetch      |-> {"unreachable", "http_error"},
   validation |-> {"empty_body", "invalid_json", "missing_identity"}]

is_runtime_context_fetch_failure(r) ==
  r \in ContextReasons.fetch \cup ContextReasons.validation

runtime_context_failure_status(r) ==
  IF r \in ContextReasons.validation
  THEN [code |-> "SWR_CONTEXT_VALIDATION_FAILED", retryable |-> FALSE]
  ELSE [code |-> "SWR_CONTEXT_FETCH_FAILED", retryable |-> TRUE]

(* RUNTIME_ID has been checked; what may be missing is the version.        *)
fetch_bundle(j) ==
  IF j.sds # "ok" THEN j.sds
  ELSE IF "strategy_version_id" \notin j.given THEN "missing_identity"
  ELSE "ok"

(* The runtime-context and the environment merged: blank fields are        *)
(* dropped, the id and the attempt are the environment's.                  *)
worker_bundle_dict(j) ==
  [given |-> j.given \cup {"runtime_id"}, mode |-> j.mode, window |-> j.window,
   attempt |-> runtime_identity_from_env(j)]

(* setting.json as it is.                                                  *)
read_bundle_json(j) ==
  [given |-> j.given, mode |-> j.mode, window |-> j.window,
   attempt |-> j.stated]

(* The fields from_payload() finds wrong: required ones that are blank (a  *)
(* digest only when digests are checked), then those that do not fit.      *)
RequiredErrors(b, digest, skip) ==
  (Required \ b.given)
  \cup {f \in {"artifact_digest"} : ~skip /\ digest = NoDigest}

ModeErrors(b) ==
  {f \in {"mode"} : b.mode \notin {"LIVE", "PAPER", "BACKTEST"}}
  \cup {f \in {"launch_attempt"} : b.attempt < 1}
  \cup {f \in {"parameters"} : b.window # (b.mode = "BACKTEST")}

FieldErrors(b, digest, skip) ==
  RequiredErrors(b, digest, skip) \cup ModeErrors(b)

(* The digest of what is found at a local URI.                             *)
computed_digest(j) ==
  IF j.uri \in {"bundle", "zip", "path"} THEN j.held ELSE NoDigest

(* raw_dict_to_launch_payload() fills a blank digest with it.              *)
launch_digest(j) == IF j.digest = NoDigest THEN computed_digest(j) ELSE j.digest

settings_from_prepared(j, b, skip) ==
  IF b.attempt = NotANumber THEN "value_error"
  ELSE IF FieldErrors(b, launch_digest(j), skip) # {} THEN "launch_spec_invalid"
  ELSE "ok"

(* The manager's URL in the settings: the environment's, which main() has  *)
(* reported STARTING to, unless the module's connectivity settings replace *)
(* it by the constant of the module, which is blank.                       *)
SWR_STRATEGY_RUNTIME_MANAGER_BASE_URL == ""

strategy_runtime_manager_base_url(j) ==
  IF j.module THEN SWR_STRATEGY_RUNTIME_MANAGER_BASE_URL ELSE "srm_url"

load_settings(j, skip) ==
  IF j.sds # "off"
  THEN IF fetch_bundle(j) # "ok" THEN fetch_bundle(j)
       ELSE settings_from_prepared(j, worker_bundle_dict(j), skip)
  ELSE CASE j.file = "absent"     -> "launch_identity_source_missing"
         [] j.file = "unreadable" -> "value_error"
         [] j.file = "ok"         ->
              settings_from_prepared(j, read_bundle_json(j), skip)

(* The attempt the launch specification carries.                           *)
launch_attempt(j) ==
  IF j.sds # "off" THEN runtime_identity_from_env(j) ELSE j.stated

(* A launch from setting.json alone is taken to have no deployment id.     *)
Owned(j) == j.sds # "off"

(***************************************************************************)
(* Ports.  An address is an offset from the preferred port; AnyPort is     *)
(* port 0, which the system chooses and which is never in use.             *)
(***************************************************************************)
AnyPort == -1

bind_candidates(ports) ==
  CASE ports = "extra"       -> {0, 10}
    [] ports = "no_fallback" -> {0}
    [] ports = "default"     -> 0 .. 9 \cup {AnyPort}

first_available(j) ==
  \E a \in bind_candidates(j.ports) : <<"control", a>> \notin j.busy

(* The ingress of replay events, which only a backtest has.                *)
replay_available(j) ==
  \E a \in bind_candidates(j.ports) : <<"replay", a>> \notin j.busy

(* StopControlHttpServer has no fallback.                                  *)
http_available(j) == <<"http", 0>> \notin j.busy

ServersStart(j) ==
  /\ http_available(j)
  /\ first_available(j)
  /\ j.mode = "BACKTEST" => replay_available(j)

(***************************************************************************)
(* What a mode allows a worker to use, and what its dependencies require.  *)
(***************************************************************************)
get_mode_policy(mode) ==
  {"OMS_EGRESS", "MANAGER_SIGNAL"} \cup
  IF mode = "BACKTEST" THEN {"SIMULATED_CLOCK", "REPLAY_INGRESS"}
                       ELSE {"WALL_CLOCK", "DIRECT_HISTORICAL_LOOKBACK"}

build_clock(mode) ==
  IF mode = "BACKTEST" THEN "SIMULATED_CLOCK" ELSE "WALL_CLOCK"

build_runtime_dependencies(mode) ==
  {build_clock(mode), "MANAGER_SIGNAL", "OMS_EGRESS"}
  \cup {c \in {"REPLAY_INGRESS"} : mode = "BACKTEST"}
  \subseteq get_mode_policy(mode)

(***************************************************************************)
(* Codes of bootstrap failures.                                            *)
(***************************************************************************)
bootstrap_failure_srm_reason_code(stage) ==
  CASE stage = "ARTIFACT_FETCH"  -> "SWR_ARTIFACT_NOT_FOUND"
    [] stage = "ARTIFACT_VERIFY" -> "SWR_ARTIFACT_DIGEST_MISMATCH"
    [] stage = "ENTRYPOINT_LOAD" -> "SWR_ENTRYPOINT_INVALID"
    [] stage = "SDK_VALIDATE"    -> "SWR_SDK_COMPATIBILITY_FAILED"
=============================================================================
