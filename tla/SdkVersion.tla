----------------------------- MODULE SdkVersion -----------------------------
(***************************************************************************)
(* SdkVersionManager.ensure: the SDK baked into the image, or one that pip *)
(* installs into an overlay directory, and the version that is recorded.   *)
(***************************************************************************)

CONSTANTS
  Baked,     \* the version in the image
  Versions,  \* the versions the registry has
  None

SdkConstants == None \notin Versions \cup {Baked}

VARIABLES
  pc, raised, exit,
  config,    \* [sdk, onFailure, ...]: sdk_version and sdk_version_on_failure
  overlay,   \* what is in the overlay directory: None, "broken" or a version
  onPath,    \* the directory is first in sys.path
  imported,  \* the version of claude_agent_sdk in sys.modules, or None
  recorded   \* sdk_version of the transcript, None until ensure returned

sdkVars == <<overlay, onPath, imported, recorded>>
vars == <<pc, raised, exit, config, sdkVars>>

SdkTypeOK ==
  /\ overlay \in Versions \cup {None, "broken"}
  /\ onPath \in BOOLEAN
  /\ imported \in Versions \cup {None, Baked, "broken"}
  /\ recorded \in Versions \cup {None, Baked, "broken"}

Init == overlay = None /\ onPath = FALSE /\ imported = None /\ recorded = None

\* What `import claude_agent_sdk` gives: a module is imported once.
Loads(found) == IF imported # None THEN imported ELSE found
Found == IF onPath /\ overlay # None THEN overlay ELSE Baked

Raises(how) == pc' = "stop" /\ raised' = how /\ UNCHANGED <<exit, config, sdkVars>>

-----------------------------------------------------------------------------

\* _baked_version: the version of whatever is imported.
ReturnBaked ==
  /\ pc' = "dirs" /\ UNCHANGED <<raised, exit, config, onPath>>
  /\ imported' = Loads(Found) /\ recorded' = imported'

Pinned ==
  /\ pc = "sdk" /\ config.sdk = "pinned"
  /\ ReturnBaked
  /\ UNCHANGED overlay

\* What pip was asked for: "latest" is whatever the registry has.
Requested == IF config.sdk = "latest" THEN Versions ELSE {config.sdk} \cap Versions

\* The overlay shadows the baked package.  Its version is read from the metadata
\* or, if that fails, from the package, which is imported for it.
Install ==
  /\ pc = "sdk" /\ config.sdk # "pinned"
  /\ overlay' \in Requested /\ onPath' = TRUE
  /\ \/ recorded' = overlay' /\ UNCHANGED imported
     \/ imported' = Loads(overlay') /\ recorded' = imported'
  /\ pc' = "dirs" /\ UNCHANGED <<raised, exit, config>>

\* pip fails or is timed out, perhaps half-way.
InstallFails ==
  /\ pc = "sdk" /\ config.sdk # "pinned" /\ config.onFailure = "fallback_pinned"
  /\ overlay' \in {None, "broken"}
  /\ ReturnBaked

InstallRaises ==
  /\ pc = "sdk" /\ config.sdk # "pinned" /\ config.onFailure = "fail"
  /\ Raises("user")

\* pip cannot be started.
PipMissing ==
  /\ pc = "sdk" /\ config.sdk # "pinned"
  /\ Raises("crash")

\* Mutant of Import: the SDK is imported at the top of a module.
ImportEarly ==
  /\ pc \in {"sdk", "add"} /\ imported = None
  /\ imported' = Found
  /\ UNCHANGED <<pc, raised, exit, config, overlay, onPath, recorded>>

\* _resolve_claude_cli, for the first command, imports the package.
Import ==
  /\ pc = "add" /\ imported = None
  /\ imported' = Found
  /\ UNCHANGED <<pc, raised, exit, config, overlay, onPath, recorded>>

Next == Pinned \/ Install \/ InstallFails \/ InstallRaises \/ PipMissing \/ Import

-----------------------------------------------------------------------------

\* The version the transcript records is the one that runs: whatever imports
\* the SDK later gets it, on every path of ensure.
VersionIsTheOneImported == recorded # None => Loads(Found) = recorded
=============================================================================
