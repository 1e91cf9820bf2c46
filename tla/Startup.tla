------------------------------ MODULE Startup ------------------------------
(***************************************************************************)
(* One job from the start of the process to its first task: Boot, the      *)
(* server, SdkVersion, PluginManager and TaskSource in the order of        *)
(* Component.run, _run_with_broker and _ensure_sdk_and_env.                *)
(* It implements the first part of Job, which says only that each of these *)
(* may raise.                                                              *)
(***************************************************************************)
EXTENDS Integers, Sequences, Functions

CONSTANTS
  Tokens, Hosts,                     \* see Boot
  Baked, Versions,                   \* see SdkVersion
  Repos, Declared, Guess, Plugins,   \* see PluginManager
  Ids, Budgets, NaN, Bad,            \* see TaskSource
  Configs,  \* the configurations, with their input tables
  MaxRows,  \* bound: rows of an input table
  None

VARIABLES
  pc, raised, exit, config,
  host, given, environ, procenv, marker, pipe, recovered, captured, dumpable, disk, warned,
  overlay, onPath, imported, recorded,
  entry, market, located, todo, resolved, paths, registered, installed,
  table, at, loaded, tasks,
  server,   \* as in Job
  flushed   \* as in Job

B == INSTANCE Boot
S == INSTANCE SdkVersion
P == INSTANCE PluginManager
T == INSTANCE TaskSource

ASSUME ConstantsAssumption ==
  B!BootConstants /\ S!SdkConstants /\ P!PluginConstants /\ T!TaskConstants
ASSUME MaxRowsAssumption == MaxRows \in Nat \ {0}
ASSUME ConfigsAssumption ==
  \A c \in Configs :
    /\ c.sdk \in STRING
    /\ c.onFailure \in {"fail", "fallback_pinned"}
    /\ c.plugins \in Seq([repo : Repos \cup {None}, version : {"latest", "pinned"}, names : Seq(STRING)])
    /\ c.filter \in Seq(Ids \cup {None}) /\ c.prompt \in BOOLEAN /\ c.budget \in Budgets \cup {NaN}
    /\ c.inputs \in Seq([name : STRING, rows : Seq(T!Rows) \cup {None}])
    /\ \A i \in DOMAIN c.inputs : c.inputs[i].rows # None => Len(c.inputs[i].rows) <= MaxRows

bootVars ==
  <<host, given, environ, procenv, marker, pipe, recovered, captured, dumpable, disk, warned>>
sdkVars == <<overlay, onPath, imported, recorded>>
pluginVars == <<entry, market, located, todo, resolved, paths, registered, installed>>
sourceVars == <<table, at, loaded, tasks>>
brokerVars == <<server, flushed>>
vars ==
  <<pc, raised, exit, config, bootVars, sdkVars, pluginVars, sourceVars, brokerVars>>

Places ==
  B!BootPlaces \cup P!PluginPlaces \cup T!LoadPlaces
    \cup {"server", "sdk", "dirs", "stage", "next", "stop", "files", "exited"}

TypeOK ==
  /\ pc \in Places
  /\ raised \in {"none", "user", "crash"}
  /\ exit \in {1, 2, 3} /\ (exit = 3 <=> pc # "exited")
  /\ config \in Configs
  /\ B!BootTypeOK /\ S!SdkTypeOK /\ P!PluginTypeOK /\ T!TaskTypeOK
  /\ server \in {"none", "bound", "up"}
  /\ flushed \in {"unbuilt", "no"}

Init ==
  /\ config \in Configs
  /\ B!Init /\ S!Init /\ P!Init /\ T!Init
  /\ server = "none" /\ flushed = "unbuilt"

-----------------------------------------------------------------------------

Booting == B!Next /\ UNCHANGED <<config, sdkVars, pluginVars, sourceVars, brokerVars>>

StartServer ==
  /\ pc = "server"
  /\ pc' = "sdk" /\ server' = "up"
  /\ UNCHANGED <<raised, exit, config, bootVars, sdkVars, pluginVars, sourceVars, flushed>>

\* Mutant of StartFails: start is outside the try block (Finding 5 of its comment).
StartFailsOutside ==
  /\ pc = "server"
  /\ server' \in {"none", "bound"}
  /\ pc' = "exited" /\ raised' = "crash" /\ exit' = 2
  /\ UNCHANGED <<config, bootVars, sdkVars, pluginVars, sourceVars, flushed>>

\* The port or the thread cannot be had.
StartFails ==
  /\ pc = "server"
  /\ server' \in {"none", "bound"}
  /\ pc' = "stop" /\ raised' = "crash"
  /\ UNCHANGED <<exit, config, bootVars, sdkVars, pluginVars, sourceVars, flushed>>

ChoosingSdk == S!Next /\ UNCHANGED <<bootVars, pluginVars, sourceVars, brokerVars>>

\* The writable directories before the plugins, the workspace, the output
\* directory and the staged files after them.
MakeDirs ==
  /\ pc = "dirs"
  /\ pc' = "plugins"
  /\ UNCHANGED <<raised, exit, config, bootVars, sdkVars, pluginVars, sourceVars, brokerVars>>

FilesFail ==
  /\ pc \in {"dirs", "stage"}
  /\ pc' = "stop" /\ raised' = "crash"
  /\ UNCHANGED <<exit, config, bootVars, sdkVars, pluginVars, sourceVars, brokerVars>>

\* The CLI of the SDK is looked up before the first command.
InstallingPlugins ==
  /\ pc = "add" => imported # None
  /\ P!Next
  /\ UNCHANGED <<bootVars, sdkVars, sourceVars, brokerVars>>

\* _stage_input_files and _build_transcript
Stage ==
  /\ pc = "stage"
  /\ pc' = "load" /\ flushed' = "no"
  /\ UNCHANGED <<raised, exit, config, bootVars, sdkVars, pluginVars, sourceVars, server>>

Loading == T!Next /\ UNCHANGED <<bootVars, sdkVars, pluginVars, brokerVars>>

Next ==
  \/ Booting
  \/ StartServer \/ StartFails
  \/ ChoosingSdk
  \/ MakeDirs \/ FilesFail
  \/ InstallingPlugins
  \/ Stage
  \/ Loading

Spec == Init /\ [][Next]_vars

-----------------------------------------------------------------------------
(* Properties *)

TokenInCustody == B!TokenInCustody
SecretsGuarded == B!SecretsGuarded
VersionIsTheOneImported == S!VersionIsTheOneImported
PluginsServed == P!PluginsServed
SelectionExact == T!SelectionExact
BudgetCapped == T!BudgetCapped

\* What Job calls start, setup and load are the phases above.
JobPc ==
  IF pc \in B!BootPlaces THEN "start"
  ELSE IF pc \in P!PluginPlaces \cup {"sdk", "dirs", "stage"} THEN "setup"
  ELSE IF pc \in T!LoadPlaces THEN "load" ELSE pc
\* A job knows its batch when load returns.
JobBatch == IF pc = "next" THEN [i \in DOMAIN tasks |-> tasks[i].id] ELSE <<>>
\* An exit code of 1 is a UserException to Job; the interpreter gives it too.
JobRaised == IF exit = 1 THEN "user" ELSE raised
Loadable == {b \in UNION {[1..n -> Ids] : n \in 1..MaxRows} : IsInjective(b)}

J == INSTANCE Job WITH
       Batches <- Loadable, Order <- <<>>, Leavings <- {}, MaxMessages <- 0, MaxRuns <- 1,
       Scrub <- [t \in Ids |-> t], Masked <- {},
       run <- 1, pc <- JobPc, raised <- JobRaised, batch <- JobBatch,
       results <- <<>>, sid <- 0, seq <- 0, ok <- FALSE, sessions <- {}, runs <- {},
       heard <- [t \in Ids |-> 0], left <- [f \in {} |-> "good"], pending <- {},
       out <- [t \in {"claude_sessions", "claude_runs"} |-> "none"],
       stored <- {}

\* The job as Job has it is what these components do: whatever any of them
\* raises, the exit code, the server that has to be torn down, the transcript
\* that has to be flushed and the batch are those Job goes on from.
ImplementsJob == J!Spec
=============================================================================
