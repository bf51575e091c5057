------------------------- MODULE ArtifactBootstrap -------------------------
(***************************************************************************)
(* BootstrapPipeline.run(): the artifact is copied or extracted onto the   *)
(* worker's disk, its digest is checked, the entrypoint is imported and    *)
(* the strategy class is checked against the SDK contract.                 *)
(*                                                                         *)
(* The disk holds one import root per launch attempt and the root          *)
(* strategy_bundle/, which every attempt extracts into; a root maps each   *)
(* file to the version of the artifact it was written from, 0 for none.    *)
(***************************************************************************)
EXTENDS LaunchInputs

CONSTANTS
  Versions,      \* artifact versions, positive numbers
  Files,         \* the files of all versions
  Has,           \* the files of each version
  SkipDigest     \* skip_artifact_digest_validation()

ASSUME ArtifactAssumption ==
  /\ Versions \subseteq Nat \ {0}
  /\ Has \in [Versions -> SUBSET Files]
  /\ SkipDigest \in BOOLEAN

VARIABLES
  disk,   \* version of every file under every import root
  left,   \* files the copy or extraction has still to write
  code    \* the files as the import found them

artifactVars == <<disk, left, code>>

Roots  == {0} \cup 1 .. MaxAttempts     \* 0 is strategy_bundle/
Blank  == [f \in Files |-> 0]

ArtifactInit ==
  /\ disk = [r \in Roots |-> Blank]
  /\ left = {}
  /\ code = Blank

NoFailure == [stage |-> "none", reason |-> "none"]
Other     == [stage |-> "other", reason |-> "other"]   \* not a BootstrapFailure
At(stage, reason) == [stage |-> stage, reason |-> reason]

Zipped(j) == j.uri \in {"bundle", "zip", "registry_zip"} /\ j.held # 0

materialization_dir(j) == launch_attempt(j)
import_root(j) == IF j.uri = "bundle" /\ Zipped(j) THEN 0
                                                   ELSE materialization_dir(j)

(* LocalArtifactProvider: nothing is there.                                *)
local_fetch(j) ==
  IF j.held = 0 THEN At("ARTIFACT_FETCH", "artifact_not_found") ELSE NoFailure

(* The registry's path is looked up under the base, without which fetch()  *)
(* refuses the URI, also that of a zip.                                    *)
registry_fetch(j) ==
  IF ~j.base THEN At("ARTIFACT_FETCH", "artifact_fetch_failed")
             ELSE local_fetch(j)

(* Without a zip file at the URI the provider of its scheme is asked.      *)
resolve_provider(j) ==
  CASE j.uri = "remote" -> At("ARTIFACT_FETCH", "artifact_provider_unsupported")
    [] j.uri \in {"registry", "registry_zip"} -> registry_fetch(j)
    [] OTHER -> local_fetch(j)

(* The zip's own digest is checked before anything is extracted, and a     *)
(* failure there is one of the stage ARTIFACT_FETCH.                       *)
verified_zip_extract(j) ==
  CASE ~SkipDigest /\ launch_digest(j) = NoDigest
         -> At("ARTIFACT_FETCH", "expected_digest_missing")
    [] ~SkipDigest /\ launch_digest(j) = OddDigest
         -> At("ARTIFACT_FETCH", "digest_unsupported")
    [] ~SkipDigest /\ launch_digest(j) # j.held
         -> At("ARTIFACT_FETCH", "digest_mismatch")
    [] j.sound = "corrupt" -> Other            \* BadZipFile
    [] OTHER -> NoFailure

fetch(j) == IF Zipped(j) /\ (j.uri # "registry_zip" \/ j.base)
            THEN verified_zip_extract(j) ELSE resolve_provider(j)

(* A local provider empties the import root; an extraction does not.       *)
FetchBegins(j) ==
  /\ left' = Has[j.held]
  /\ disk' = IF Zipped(j) THEN disk ELSE [disk EXCEPT ![import_root(j)] = Blank]
  /\ UNCHANGED code

(* Mutant of WriteFile: files of an earlier launch are kept.               *)
WriteMissingFile(j, f) ==
  /\ f \in left
  /\ disk' = [disk EXCEPT ![import_root(j)][f] = IF @ = 0 THEN j.held ELSE @]
  /\ left' = left \ {f}
  /\ UNCHANGED code

(* _materialize() and _extract_zip_to_directory(): one file.               *)
WriteFile(j, f) ==
  /\ f \in left
  /\ disk' = [disk EXCEPT ![import_root(j)][f] = j.held]
  /\ left' = left \ {f}
  /\ UNCHANGED code

(* What was extracted before the unsafe entry stays.                       *)
UnsafeEntry(j) == Zipped(j) /\ j.sound = "unsafe"

(* An OSError of a provider's copy is a failure of the stage, one of an    *)
(* extraction is not caught.                                               *)
WriteFailure(j) == IF Zipped(j) THEN Other
                   ELSE At("ARTIFACT_FETCH", "artifact_materialization_failed")

(* A zip was checked before it was extracted; of what a provider copied    *)
(* the digest is computed now.                                             *)
verify(j) ==
  IF SkipDigest \/ Zipped(j) THEN NoFailure
  ELSE CASE launch_digest(j) = OddDigest
              -> At("ARTIFACT_VERIFY", "digest_unsupported")
         [] launch_digest(j) # j.held
              -> At("ARTIFACT_VERIFY", "digest_mismatch")
         [] OTHER -> NoFailure

load(j) ==
  CASE j.fault = "malformed" -> At("ENTRYPOINT_LOAD", "entrypoint_invalid")
    [] j.fault = "import" -> At("ENTRYPOINT_LOAD", "entrypoint_import_failed")
    [] j.fault = "symbol" -> At("ENTRYPOINT_LOAD", "entrypoint_symbol_not_found")
    [] j.fault = "value"  -> At("ENTRYPOINT_LOAD", "entrypoint_symbol_invalid")
    [] OTHER -> NoFailure

Import(j) ==
  /\ code' = disk[import_root(j)]
  /\ UNCHANGED <<disk, left>>

(* mypy runs in a process of its own over the entrypoint's file.           *)
validate_mypy(j) ==
  IF j.fault = "mypy" THEN At("SDK_VALIDATE", "sdk_protocol_mismatch")
                      ELSE NoFailure

validate_sdk_marker(j) ==
  CASE j.fault = "marker" -> At("SDK_VALIDATE", "sdk_marker_invalid")
    [] j.fault = "major"  -> At("SDK_VALIDATE", "sdk_marker_incompatible")
    [] OTHER -> NoFailure

(* The class is instantiated before mypy and the marker are looked at; the *)
(* worker's validator requires no method by name.                          *)
sdk_validate(j) ==
  CASE j.fault = "base" -> At("SDK_VALIDATE", "sdk_protocol_mismatch")
    [] j.fault = "init" -> At("SDK_VALIDATE", "sdk_non_instantiable")
    [] validate_mypy(j) # NoFailure -> validate_mypy(j)
    [] OTHER -> validate_sdk_marker(j)
=============================================================================
