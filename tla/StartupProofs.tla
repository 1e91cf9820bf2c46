--------------------------- MODULE StartupProofs ---------------------------
(***************************************************************************)
(* Theorems about Startup, for any host, token, repositories, input tables *)
(* and configurations.                                                     *)
(***************************************************************************)
EXTENDS Startup, SequenceTheorems, TLAPS

-----------------------------------------------------------------------------
(* Type correctness *)

\* What the steps have in common: where they are, what was raised and the
\* exit code.
Progress ==
  /\ pc \in Places
  /\ raised \in {"none", "user", "crash"}
  /\ exit \in {1, 2, 3} /\ (exit = 3 <=> pc # "exited")
  /\ config \in Configs
  /\ server \in {"none", "bound", "up"}
  /\ flushed \in {"unbuilt", "no"}

\* A step of the boot is one of its actions, and leaves the rest alone.
LEMMA BootingCases ==
  ASSUME Booting
  PROVE  /\ UNCHANGED <<config, sdkVars, pluginVars, sourceVars, brokerVars>>
         /\ \/ B!NothingToScrub \/ B!OpenPipe \/ B!EntryFails \/ B!Exec \/ B!ExecFails
            \/ B!Unmarked \/ B!ReadChunk \/ B!ReadEof \/ B!Build
            \/ \E how \in B!Exceptions : B!BuildFails(how) \/ B!ParseFails(how)
            \/ B!Protect \/ B!FallBack \/ B!Refuse \/ B!Parse
            \/ B!Scrub \/ B!ScrubFails \/ B!NothingOnDisk \/ B!ScrubRaises
  BY DEF Booting, B!Next, B!EnvScrub, B!Construct, B!Prepare

LEMMA BootingPlaces ==
  ASSUME Booting
  PROVE  pc \in B!BootPlaces /\ pc' \in B!BootPlaces \cup {"server", "exited"}
<1>1. CASE B!NothingToScrub \/ B!OpenPipe \/ B!EntryFails \/ B!Exec \/ B!ExecFails
  BY <1>1 DEF B!NothingToScrub, B!OpenPipe, B!EntryFails, B!Exec, B!ExecFails, B!Goes, B!Exits, B!BootPlaces
<1>2. CASE B!Unmarked \/ B!ReadChunk \/ B!ReadEof \/ B!Build
  BY <1>2 DEF B!Unmarked, B!ReadChunk, B!ReadEof, B!Build, B!Goes, B!processVars, B!BootPlaces
<1>3. ASSUME NEW how \in B!Exceptions, B!BuildFails(how) \/ B!ParseFails(how)
      PROVE  pc \in B!BootPlaces /\ pc' = "exited"
  BY <1>3 DEF B!BuildFails, B!ParseFails, B!Exits, B!BootPlaces
<1>4. CASE B!Protect \/ B!FallBack \/ B!Refuse \/ B!Parse
            \/ B!Scrub \/ B!ScrubFails \/ B!NothingOnDisk \/ B!ScrubRaises
  BY <1>4 DEF B!Protect, B!FallBack, B!Refuse, B!Parse, B!Scrub, B!ScrubFails,
              B!NothingOnDisk, B!ScrubRaises, B!bootVars, B!Goes, B!Exits, B!BootPlaces
<1>. QED BY BootingCases, <1>1, <1>2, <1>3, <1>4

LEMMA BootingType ==
  ASSUME TypeOK, Booting
  PROVE  TypeOK'
<1>1. UNCHANGED <<config, sdkVars, pluginVars, sourceVars, brokerVars>>
  BY BootingCases
<1>2. S!SdkTypeOK' /\ T!TaskTypeOK'
  BY <1>1 DEF TypeOK, S!SdkTypeOK, T!TaskTypeOK, sdkVars, sourceVars
<1>3. (config \in Configs)' /\ (server \in {"none", "bound", "up"})' /\ (flushed \in {"unbuilt", "no"})'
  BY <1>1 DEF TypeOK, brokerVars
<1>4. Progress' /\ B!BootTypeOK'
  <2>1. CASE B!NothingToScrub
    BY <1>3, <2>1 DEF TypeOK, Progress, Places, B!BootPlaces, B!BootTypeOK, B!NothingToScrub, B!Goes, B!bootVars
  <2>2. CASE B!OpenPipe
    BY <1>3, <2>2 DEF TypeOK, Progress, Places, B!BootPlaces, B!BootTypeOK, B!OpenPipe, B!Goes
  <2>3. CASE B!EntryFails
    BY <1>3, <2>3 DEF TypeOK, Progress, Places, B!BootPlaces, B!BootTypeOK, B!EntryFails, B!Exits, B!bootVars
  <2>4. CASE B!Exec
    BY <1>3, <2>4 DEF TypeOK, Progress, Places, B!BootPlaces, B!BootTypeOK, B!Exec, B!Goes, B!bootVars
  <2>5. CASE B!ExecFails
    BY <1>3, <2>5 DEF TypeOK, Progress, Places, B!BootPlaces, B!BootTypeOK, B!ExecFails, B!Goes, B!Warnings
  <2>6. CASE B!Unmarked
    BY <1>3, <2>6 DEF TypeOK, Progress, Places, B!BootPlaces, B!BootTypeOK, B!Unmarked, B!Goes, B!bootVars
  <2>7. CASE B!ReadChunk
    BY <1>3, <2>7, ConstantsAssumption
       DEF TypeOK, Progress, Places, B!BootPlaces, B!BootTypeOK, B!ReadChunk, B!processVars, B!BootConstants
  <2>8. CASE B!ReadEof
    BY <1>3, <2>8 DEF TypeOK, Progress, Places, B!BootPlaces, B!BootTypeOK, B!ReadEof, B!Goes, B!bootVars
  <2>9. CASE B!Build
    BY <1>3, <2>9 DEF TypeOK, Progress, Places, B!BootPlaces, B!BootTypeOK, B!Build, B!Goes, B!OrEmpty
  <2>10. ASSUME NEW how \in B!Exceptions, B!BuildFails(how)
        PROVE  Progress' /\ B!BootTypeOK'
    BY <1>3, <2>10 DEF TypeOK, Progress, Places, B!BootPlaces, B!BootTypeOK, B!BuildFails, B!Exceptions, B!Exits, B!bootVars
  <2>11. CASE B!Protect
    BY <1>3, <2>11 DEF TypeOK, Progress, Places, B!BootPlaces, B!BootTypeOK, B!Protect, B!Goes, B!bootVars
  <2>12. CASE B!FallBack
    BY <1>3, <2>12 DEF TypeOK, Progress, Places, B!BootPlaces, B!BootTypeOK, B!FallBack, B!Goes, B!Warnings
  <2>13. CASE B!Refuse
    BY <1>3, <2>13 DEF TypeOK, Progress, Places, B!BootPlaces, B!BootTypeOK, B!Refuse, B!Exits, B!bootVars
  <2>14. CASE B!Parse
    BY <1>3, <2>14 DEF TypeOK, Progress, Places, B!BootPlaces, B!BootTypeOK, B!Parse, B!Goes, B!bootVars
  <2>15. ASSUME NEW how \in B!Exceptions, B!ParseFails(how)
        PROVE  Progress' /\ B!BootTypeOK'
    BY <1>3, <2>15 DEF TypeOK, Progress, Places, B!BootPlaces, B!BootTypeOK, B!ParseFails, B!Exceptions, B!Exits, B!bootVars
  <2>16. CASE B!Scrub
    BY <1>3, <2>16 DEF TypeOK, Progress, Places, B!BootPlaces, B!BootTypeOK, B!Scrub, B!Goes, B!bootVars
  <2>17. CASE B!ScrubFails
    BY <1>3, <2>17 DEF TypeOK, Progress, Places, B!BootPlaces, B!BootTypeOK, B!ScrubFails, B!Goes, B!Warnings
  <2>18. CASE B!NothingOnDisk
    BY <1>3, <2>18 DEF TypeOK, Progress, Places, B!BootPlaces, B!BootTypeOK, B!NothingOnDisk, B!Goes
  <2>19. CASE B!ScrubRaises
    BY <1>3, <2>19 DEF TypeOK, Progress, Places, B!BootPlaces, B!BootTypeOK, B!ScrubRaises, B!Exits, B!bootVars
  <2>. QED BY BootingCases, <2>1, <2>2, <2>3, <2>4, <2>5, <2>6, <2>7, <2>8, <2>9, <2>10, <2>11, <2>12, <2>13, <2>14,
              <2>15, <2>16, <2>17, <2>18, <2>19
<1>5. pc' \notin P!PluginPlaces
  BY BootingPlaces DEF B!BootPlaces, P!PluginPlaces
<1>6. P!PluginTypeOK'
  BY <1>1, <1>5 DEF TypeOK, P!PluginTypeOK, P!PluginPlaces, pluginVars
<1>. QED BY <1>2, <1>4, <1>6 DEF TypeOK, Progress

LEMMA ChoosingSdkType ==
  ASSUME TypeOK, ChoosingSdk
  PROVE  TypeOK'
<1>1. UNCHANGED <<config, bootVars, pluginVars, sourceVars, brokerVars>>
  BY DEF ChoosingSdk, S!Next, S!Pinned, S!ReturnBaked, S!Install, S!InstallFails, S!InstallRaises,
         S!Raises, S!PipMissing, S!Import
<1>2. (pc \in {"sdk", "add"} /\ pc' \in {"dirs", "stop", "add"} /\ (pc' = "add" => pc = "add"))
        /\ exit' = exit /\ raised' \in {raised, "user", "crash"}
  BY DEF ChoosingSdk, S!Next, S!Pinned, S!ReturnBaked, S!Install, S!InstallFails, S!InstallRaises,
         S!Raises, S!PipMissing, S!Import
<1>3. S!SdkTypeOK'
  <2>1. S!Loads(S!Found) \in Versions \cup {None, Baked, "broken"}
    BY DEF TypeOK, S!SdkTypeOK, S!Loads, S!Found
  <2>2. CASE S!Pinned
    BY <2>1, <2>2 DEF TypeOK, S!SdkTypeOK, S!Pinned, S!ReturnBaked
  <2>3. CASE S!Install
    BY <2>3 DEF TypeOK, S!SdkTypeOK, S!Install, S!Requested, S!Loads
  <2>4. CASE S!InstallFails
    BY <2>1, <2>4 DEF TypeOK, S!SdkTypeOK, S!InstallFails, S!ReturnBaked
  <2>5. CASE S!InstallRaises \/ S!PipMissing
    BY <2>5 DEF TypeOK, S!SdkTypeOK, S!InstallRaises, S!PipMissing, S!Raises, S!sdkVars
  <2>6. CASE S!Import
    BY <2>6 DEF TypeOK, S!SdkTypeOK, S!Import, S!Found
  <2>. QED BY <2>2, <2>3, <2>4, <2>5, <2>6 DEF ChoosingSdk, S!Next
<1>4. B!BootTypeOK'
  BY <1>1, <1>2 DEF TypeOK, B!BootTypeOK, bootVars
<1>5. P!PluginTypeOK'
  BY <1>1, <1>2 DEF TypeOK, P!PluginTypeOK, P!PluginPlaces, pluginVars
<1>6. T!TaskTypeOK'
  BY <1>1 DEF TypeOK, T!TaskTypeOK, sourceVars
<1>7. Progress'
  BY <1>1, <1>2 DEF TypeOK, Progress, Places, P!PluginPlaces, brokerVars
<1>. QED BY <1>3, <1>4, <1>5, <1>6, <1>7 DEF TypeOK, Progress

\* The entry a step of the plugin manager works on is one of the configuration,
\* of a known repository.
LEMMA EntryType ==
  ASSUME TypeOK, pc \in P!PluginPlaces \ {"plugins"}
  PROVE  /\ entry \in 1..Len(config.plugins)
         /\ P!Entry.repo \in Repos /\ P!Entry.version \in {"latest", "pinned"}
         /\ P!Entry.names \in Seq(STRING)
         /\ Declared[P!Entry.repo] \in P!Markets /\ Guess[P!Entry.repo] \in P!Markets
<1>1. entry \in 0..Len(config.plugins) /\ entry > 0 /\ P!Entry.repo # None
  BY DEF TypeOK, P!PluginTypeOK, P!Entry
<1>2. config.plugins \in Seq([repo : Repos \cup {None}, version : {"latest", "pinned"}, names : Seq(STRING)])
  BY ConfigsAssumption DEF TypeOK
<1>3. Len(config.plugins) \in Nat
  BY <1>2, LenProperties
<1>4. entry \in 1..Len(config.plugins)
  BY <1>1, <1>3
<1>5. P!Entry \in [repo : Repos \cup {None}, version : {"latest", "pinned"}, names : Seq(STRING)]
  BY <1>2, <1>4, ElementOfSeq DEF P!Entry
<1>6. P!Entry.repo \in Repos
  BY <1>1, <1>5
<1>7. Declared[P!Entry.repo] \in P!Markets /\ Guess[P!Entry.repo] \in P!Markets
  BY <1>6, ConstantsAssumption DEF P!PluginConstants, P!Markets, P!Range
<1>8. P!Entry.version \in {"latest", "pinned"}
  BY <1>5
<1>9. P!Entry.names \in Seq(STRING)
  BY <1>5
<1>. QED BY <1>4, <1>6, <1>7, <1>8, <1>9

\* The CLI's marketplaces stay well-typed, and none is lost.
LEMMA AddType ==
  ASSUME TypeOK, pc = "add", NEW r \in P!AfterAdd(P!Entry.repo)
  PROVE  /\ r \in [P!Markets -> Repos \cup {None}]
         /\ \A m \in P!Markets : registered[m] # None => r[m] # None
         /\ r[Declared[P!Entry.repo]] # None
         /\ \A m \in P!Markets : r[m] # registered[m] => m = Declared[P!Entry.repo] /\ r[m] = P!Entry.repo
<1>1. P!Entry.repo \in Repos /\ Declared[P!Entry.repo] \in P!Markets
  BY EntryType DEF P!PluginPlaces
<1>2. registered \in [P!Markets -> Repos \cup {None}]
  BY DEF TypeOK, P!PluginTypeOK
<1>3. PICK x \in {P!Entry.repo, registered[Declared[P!Entry.repo]]} \ {None} :
        r = [registered EXCEPT ![Declared[P!Entry.repo]] = x]
  BY DEF P!AfterAdd
<1>. QED BY <1>1, <1>2, <1>3

\* The names to install of an entry.
LEMMA NamesType ==
  ASSUME TypeOK, pc = "names"
  PROVE  P!NamesFor(P!Entry) \in Seq(STRING)
<1>1. P!Entry.names \in Seq(STRING)
  BY EntryType DEF P!PluginPlaces
<1>2. CASE located
  <2>1. registered[market] \in Repos
    BY <1>2 DEF TypeOK, P!PluginTypeOK
  <2>2. Plugins[registered[market]] \in Seq(STRING)
    BY <2>1, ConstantsAssumption DEF P!PluginConstants
  <2>. QED BY <1>1, <1>2, <2>2 DEF P!NamesFor, P!DeclaredPlugins
<1>3. CASE ~located
  BY <1>1, <1>3 DEF P!NamesFor, P!DeclaredPlugins
<1>. QED BY <1>2, <1>3 DEF TypeOK, P!PluginTypeOK

LEMMA InstallingCases ==
  ASSUME InstallingPlugins
  PROVE  /\ UNCHANGED <<exit, config, bootVars, sdkVars, sourceVars, brokerVars>>
         /\ raised' \in {raised, "user", "crash"}
         /\ pc \in P!PluginPlaces
         /\ pc' \in P!PluginPlaces \cup {"stage", "stop"}
  BY DEF InstallingPlugins, P!Next, P!NextEntry, P!UnknownSource, P!PluginsDone, P!Add, P!CommandFails,
         P!Discover, P!DiscoverOnly, P!DiscoverByName, P!DiscoverRaises, P!Update, P!ResolveNames,
         P!NothingToInstall, P!InstallPlugin, P!EntryDone, P!Discovered, P!Goes, P!Raises, P!PluginPlaces

LEMMA InstallingPluginsType ==
  ASSUME TypeOK, InstallingPlugins
  PROVE  TypeOK'
<1>1. UNCHANGED <<exit, config, bootVars, sdkVars, sourceVars, brokerVars>>
        /\ raised' \in {raised, "user", "crash"} /\ pc \in P!PluginPlaces
        /\ pc' \in P!PluginPlaces \cup {"stage", "stop"}
  BY InstallingCases
<1>2. P!PluginTypeOK'
  <2>1. CASE P!NextEntry
    <3>1. Len(config.plugins) \in Nat
      BY ConfigsAssumption, LenProperties DEF TypeOK
    <3>. QED BY <1>1, <2>1, <3>1 DEF TypeOK, P!PluginTypeOK, P!NextEntry, P!Goes, P!PluginPlaces
  <2>2. ASSUME UNCHANGED pluginVars, pc' \in {"stop", "stage", "names"}, pc' = "names" => pc = "update"
        PROVE  P!PluginTypeOK'
    BY <1>1, <2>2 DEF TypeOK, P!PluginTypeOK, P!PluginPlaces, pluginVars
  <2>3. CASE P!UnknownSource \/ P!PluginsDone \/ P!CommandFails \/ P!DiscoverRaises \/ P!Update
               \/ P!NothingToInstall
    BY <2>2, <2>3
       DEF P!UnknownSource, P!PluginsDone, P!CommandFails, P!DiscoverRaises, P!Update, P!NothingToInstall,
           P!Goes, P!Raises, P!pluginVars, pluginVars
  <2>4. CASE P!Add
    <3>1. /\ registered' \in [P!Markets -> Repos \cup {None}]
          /\ \A m \in P!Markets : registered[m] # None => registered'[m] # None
      BY <2>4, AddType DEF P!Add
    <3>. QED BY <1>1, <2>4, <3>1 DEF TypeOK, P!PluginTypeOK, P!Add, P!Goes, P!PluginPlaces
  <2>5. ASSUME pc = "list", NEW m \in P!Markets, NEW f \in BOOLEAN, f => registered[m] # None,
               P!Discovered(m, f)
        PROVE  P!PluginTypeOK'
    <3>1. m # None
      BY ConstantsAssumption DEF P!PluginConstants
    <3>. QED BY <1>1, <2>5, <3>1 DEF TypeOK, P!PluginTypeOK, P!Discovered, P!Goes, P!PluginPlaces
  <2>6. CASE P!Discover \/ P!DiscoverOnly
    BY <2>5, <2>6 DEF P!Discover, P!DiscoverOnly, P!Listed
  <2>7. CASE P!DiscoverByName
    BY <2>5, <2>7, EntryType DEF P!DiscoverByName, P!PluginPlaces
  <2>8. CASE P!ResolveNames
    <3>1. todo' \in Seq(STRING)
      BY <2>8, NamesType DEF P!ResolveNames
    <3>. QED BY <1>1, <2>8, <3>1 DEF TypeOK, P!PluginTypeOK, P!ResolveNames, P!Goes, P!PluginPlaces
  <2>9. CASE P!InstallPlugin
    <3>1. todo' \in Seq(STRING)
      BY <2>9, HeadTailProperties DEF P!InstallPlugin, TypeOK, P!PluginTypeOK
    <3>. QED BY <1>1, <2>9, <3>1 DEF TypeOK, P!PluginTypeOK, P!InstallPlugin, P!PluginPlaces
  <2>10. CASE P!EntryDone
    <3>1. <<IF located THEN "market" ELSE "cache", market>> \in {"market", "cache"} \X P!Markets
      BY <2>10 DEF TypeOK, P!PluginTypeOK, P!EntryDone
    <3>2. paths' \in Seq({"market", "cache"} \X P!Markets)
      BY <2>10, <3>1, AppendProperties DEF P!EntryDone, TypeOK, P!PluginTypeOK
    <3>. QED BY <1>1, <2>10, <3>2 DEF TypeOK, P!PluginTypeOK, P!EntryDone, P!Goes, P!PluginPlaces
  <2>. QED BY <2>1, <2>3, <2>4, <2>6, <2>7, <2>8, <2>9, <2>10 DEF InstallingPlugins, P!Next
<1>3. B!BootTypeOK'
  BY <1>1 DEF TypeOK, B!BootTypeOK, bootVars, P!PluginPlaces
<1>4. S!SdkTypeOK' /\ T!TaskTypeOK'
  BY <1>1 DEF TypeOK, S!SdkTypeOK, T!TaskTypeOK, sdkVars, sourceVars
<1>5. Progress'
  BY <1>1 DEF TypeOK, Progress, Places, P!PluginPlaces, brokerVars
<1>. QED BY <1>2, <1>3, <1>4, <1>5 DEF TypeOK, Progress

\* The rows a table chosen has.
LEMMA InputType ==
  ASSUME TypeOK, NEW i \in DOMAIN config.inputs, config.inputs[i].rows # None
  PROVE  config.inputs[i].rows \in Seq(T!Rows) /\ Len(config.inputs[i].rows) <= MaxRows
<1>1. config.inputs \in Seq([name : STRING, rows : Seq(T!Rows) \cup {None}])
        /\ \A k \in DOMAIN config.inputs : config.inputs[k].rows # None => Len(config.inputs[k].rows) <= MaxRows
  BY ConfigsAssumption DEF TypeOK
<1>2. DOMAIN config.inputs = 1..Len(config.inputs)
  BY <1>1, LenProperties
<1>3. config.inputs[i] \in [name : STRING, rows : Seq(T!Rows) \cup {None}]
  BY <1>1, <1>2, ElementOfSeq
<1>. QED BY <1>1, <1>3

\* A row that is read is a task.
LEMMA RowType ==
  ASSUME TypeOK, at < Len(table)
  PROVE  /\ at + 1 \in 1..Len(table) /\ T!Row \in T!Rows
         /\ T!WellFormed(T!Row) => T!Row \in T!Tasks
<1>1. at + 1 \in 1..Len(table)
  BY LenProperties DEF TypeOK, T!TaskTypeOK
<1>2. T!Row \in T!Rows
  BY <1>1, ElementOfSeq DEF TypeOK, T!TaskTypeOK, T!Row
<1>. QED BY <1>1, <1>2 DEF T!Rows, T!Tasks, T!WellFormed

LEMMA LoadingCases ==
  ASSUME Loading
  PROVE  /\ UNCHANGED <<exit, config, bootVars, sdkVars, pluginVars, brokerVars>>
         /\ raised' \in {raised, "user", "crash"}
         /\ pc \in T!LoadPlaces
         /\ pc' \in T!LoadPlaces \cup {"next", "files"}
  BY DEF Loading, T!Next, T!Select, T!SelectRaises, T!Unreadable, T!UsePrompt, T!NoPrompt, T!ReadRow,
         T!RowRaises, T!RowsRead, T!EmptyTable, T!FilterOne, T!Filtered, T!NothingKept, T!Goes, T!Raises,
         T!LoadPlaces

LEMMA LoadingType ==
  ASSUME TypeOK, Loading
  PROVE  TypeOK'
<1>1. UNCHANGED <<exit, config, bootVars, sdkVars, pluginVars, brokerVars>>
        /\ raised' \in {raised, "user", "crash"} /\ pc \in T!LoadPlaces
        /\ pc' \in T!LoadPlaces \cup {"next", "files"}
  BY LoadingCases
<1>2. T!TaskTypeOK'
  <2>1. CASE T!Select
    <3>1. table' \in Seq(T!Rows)
      BY <2>1, InputType DEF T!Select, T!Chosen, T!inputs
    <3>. QED BY <2>1, <3>1 DEF TypeOK, T!TaskTypeOK, T!Select, T!Goes
  <2>2. CASE UNCHANGED sourceVars
    BY <2>2 DEF TypeOK, T!TaskTypeOK, sourceVars
  <2>3. CASE T!UsePrompt
    <3>1. [id |-> T!ConfigTask, prompt |-> TRUE, budget |-> None] \in T!Tasks
      BY ConstantsAssumption DEF T!TaskConstants, T!Tasks
    <3>2. tasks' \in Seq(T!Tasks)
      BY <2>3, <3>1 DEF T!UsePrompt
    <3>. QED BY <2>3, <3>2 DEF TypeOK, T!TaskTypeOK, T!UsePrompt, T!Goes
  <2>4. CASE T!ReadRow
    <3>1. loaded' \in Seq(T!Tasks)
      BY <2>4, RowType, AppendProperties DEF T!ReadRow, TypeOK, T!TaskTypeOK
    <3>. QED BY <2>4, <3>1 DEF TypeOK, T!TaskTypeOK, T!ReadRow
  <2>5. CASE T!RowsRead
    BY <2>5 DEF TypeOK, T!TaskTypeOK, T!RowsRead, T!Goes
  <2>6. CASE T!FilterOne
    <3>1. at + 1 \in 1..Len(loaded) /\ loaded \in Seq(T!Tasks)
      BY <2>6, LenProperties DEF T!FilterOne, TypeOK, T!TaskTypeOK
    <3>2. loaded[at + 1] \in T!Tasks
      BY <3>1, ElementOfSeq
    <3>3. tasks' \in Seq(T!Tasks)
      BY <2>6, <3>2, AppendProperties DEF T!FilterOne, TypeOK, T!TaskTypeOK
    <3>. QED BY <2>6, <3>3 DEF TypeOK, T!TaskTypeOK, T!FilterOne
  <2>7. CASE T!SelectRaises \/ T!Unreadable \/ T!NoPrompt \/ T!RowRaises \/ T!EmptyTable \/ T!Filtered
               \/ T!NothingKept
    BY <2>2, <2>7
       DEF T!SelectRaises, T!Unreadable, T!NoPrompt, T!RowRaises, T!EmptyTable, T!Filtered, T!NothingKept,
           T!Goes, T!Raises, T!sourceVars, sourceVars
  <2>. QED BY <2>1, <2>3, <2>4, <2>5, <2>6, <2>7 DEF Loading, T!Next
<1>3. B!BootTypeOK' /\ S!SdkTypeOK'
  BY <1>1 DEF TypeOK, B!BootTypeOK, S!SdkTypeOK, bootVars, sdkVars, T!LoadPlaces
<1>4. P!PluginTypeOK'
  BY <1>1 DEF TypeOK, P!PluginTypeOK, pluginVars, P!PluginPlaces, T!LoadPlaces
<1>5. Progress'
  BY <1>1 DEF TypeOK, Progress, Places, T!LoadPlaces, brokerVars
<1>. QED BY <1>2, <1>3, <1>4, <1>5 DEF TypeOK, Progress

\* The steps of Startup's own.
Own == StartServer \/ StartFails \/ MakeDirs \/ FilesFail \/ Stage

LEMMA OwnCases ==
  ASSUME Own
  PROVE  /\ UNCHANGED <<exit, config, bootVars, sdkVars, pluginVars, sourceVars>>
         /\ <<pc, pc'>> \in {<<"server", "sdk">>, <<"server", "stop">>, <<"dirs", "plugins">>,
                             <<"dirs", "stop">>, <<"stage", "stop">>, <<"stage", "load">>}
         /\ raised' \in {raised, "crash"} /\ server' \in {server, "none", "bound", "up"}
         /\ flushed' \in {flushed, "no"}
  BY DEF Own, StartServer, StartFails, MakeDirs, FilesFail, Stage, brokerVars

LEMMA OwnType ==
  ASSUME TypeOK, Own
  PROVE  TypeOK'
<1>1. UNCHANGED <<exit, config, bootVars, sdkVars, pluginVars, sourceVars>>
        /\ pc \notin {"exec", "boot", "exited"} /\ pc' \in {"sdk", "stop", "plugins", "load"}
        /\ raised' \in {raised, "crash"} /\ server' \in {server, "none", "bound", "up"}
        /\ flushed' \in {flushed, "no"}
  BY OwnCases
<1>2. B!BootTypeOK' /\ S!SdkTypeOK'
  BY <1>1 DEF TypeOK, B!BootTypeOK, S!SdkTypeOK, bootVars, sdkVars
<1>3. P!PluginTypeOK' /\ T!TaskTypeOK'
  BY <1>1 DEF TypeOK, P!PluginTypeOK, T!TaskTypeOK, pluginVars, sourceVars, P!PluginPlaces
<1>4. Progress'
  BY <1>1 DEF TypeOK, Progress, Places, P!PluginPlaces, T!LoadPlaces
<1>. QED BY <1>2, <1>3, <1>4 DEF TypeOK, Progress

LEMMA NextCases == Next <=> Booting \/ Own \/ ChoosingSdk \/ InstallingPlugins \/ Loading
  BY DEF Next, Own

LEMMA InitType == Init => TypeOK
<1>. SUFFICES ASSUME Init PROVE TypeOK
  OBVIOUS
<1>1. B!BootTypeOK
  BY ConstantsAssumption DEF Init, B!Init, B!BootTypeOK, B!BootConstants
<1>2. S!SdkTypeOK
  BY DEF Init, S!Init, S!SdkTypeOK
<1>3. P!PluginTypeOK
  <2>1. Len(config.plugins) \in Nat
    BY ConfigsAssumption, LenProperties DEF Init
  <2>2. pc = "entry" /\ P!Init
    BY DEF Init, B!Init
  <2>3. entry \in 0..Len(config.plugins)
    BY <2>1, <2>2 DEF P!Init
  <2>4. /\ market \in P!Markets \cup {None} /\ located = FALSE
        /\ todo \in Seq(STRING) /\ paths \in Seq({"market", "cache"} \X P!Markets)
        /\ registered \in [P!Markets -> Repos \cup {None}]
    BY <2>2 DEF P!Init
  <2>. QED BY <2>2, <2>3, <2>4 DEF P!PluginTypeOK, P!PluginPlaces
<1>4. T!TaskTypeOK
  BY DEF Init, T!Init, T!TaskTypeOK
<1>. QED BY <1>1, <1>2, <1>3, <1>4 DEF Init, B!Init, TypeOK, Places, B!BootPlaces

\* The state of a startup is well-typed in every step: among others, a token is
\* read from a pipe that is open, and a plugin command is run for a repository
\* that is known.
THEOREM StartupTypeCorrect == Spec => []TypeOK
<1>1. TypeOK /\ [Next]_vars => TypeOK'
  <2>. SUFFICES ASSUME TypeOK, [Next]_vars PROVE TypeOK'
    OBVIOUS
  <2>1. CASE Next
    BY <2>1, NextCases, BootingType, OwnType, ChoosingSdkType, InstallingPluginsType, LoadingType
  <2>2. CASE UNCHANGED vars
    BY <2>2
       DEF TypeOK, vars, bootVars, sdkVars, pluginVars, sourceVars, brokerVars, B!BootTypeOK, S!SdkTypeOK,
           P!PluginTypeOK, T!TaskTypeOK
  <2>. QED BY <2>1, <2>2
<1>. QED BY <1>1, InitType, PTL DEF Spec

-----------------------------------------------------------------------------
(* The token and the secrets *)

Early == {"entry", "exec", "boot", "build"}

\* The environment the process was started with has no token, or the log says
\* that it has.
Scrubbed == procenv = None \/ "execve" \in warned

\* Where the token is before the base class has it: in the environment, in the
\* pipe and what was read of it, and in the environment again.
BootInv ==
  /\ captured # None => captured = B!OrEmpty(given) /\ environ = None
  /\ pc \in Early => captured = None
  /\ pc \in {"entry", "exec"} => environ = given /\ procenv = given /\ recovered = 0
  /\ pc = "exec" => given # None /\ pipe = given
  /\ pc = "boot" /\ marker =>
       given # None /\ environ = None /\ procenv = None /\ pipe + recovered = given
  /\ pc = "boot" /\ ~marker => environ = given /\ Scrubbed
  /\ pc = "build" => B!OrEmpty(environ) = B!OrEmpty(given) /\ Scrubbed
  /\ pc \notin Early \cup {"exited"} => captured # None /\ Scrubbed

\* The guards, from the step that makes them on.
GuardInv ==
  /\ pc \in {"parse", "scrub"} \/ B!Launching => ~dumpable \/ host.scope = 1 \/ "ptrace" \in warned
  /\ B!Launching => disk # "secret" \/ "scrub" \in warned

LEMMA TokenType ==
  ASSUME TypeOK
  PROVE  (given = None \/ given \in Nat) /\ None \notin Nat
  BY ConstantsAssumption DEF TypeOK, B!BootTypeOK, B!BootConstants

LEMMA BootInvInit == Init => BootInv
  BY DEF Init, B!Init, BootInv, Early

LEMMA BootingKeepsBootInv ==
  ASSUME TypeOK, BootInv, Booting
  PROVE  BootInv'
<1>1. CASE B!NothingToScrub
  BY <1>1 DEF BootInv, Early, Scrubbed, TypeOK, B!BootTypeOK, B!NothingToScrub, B!Goes, B!bootVars
<1>2. CASE B!OpenPipe
  BY <1>2 DEF BootInv, Early, Scrubbed, B!OpenPipe, B!Goes
<1>3. CASE B!EntryFails
  BY <1>3 DEF BootInv, Early, Scrubbed, B!EntryFails, B!Exits, B!bootVars
<1>4. CASE B!Exec
  BY <1>4, TokenType DEF BootInv, Early, Scrubbed, B!Exec, B!Goes
<1>5. CASE B!ExecFails
  BY <1>5 DEF BootInv, Early, Scrubbed, TypeOK, B!BootTypeOK, B!ExecFails, B!Goes
<1>6. CASE B!Unmarked
  BY <1>6 DEF BootInv, Early, Scrubbed, B!Unmarked, B!Goes, B!bootVars
<1>7. CASE B!ReadChunk
  <2>1. pipe \in Nat /\ recovered \in Nat /\ given \in Nat
    BY <1>7, TokenType DEF BootInv, TypeOK, B!BootTypeOK, B!ReadChunk
  <2>. QED BY <1>7, <2>1 DEF BootInv, Early, Scrubbed, B!ReadChunk, B!processVars
<1>8. CASE B!ReadEof
  <2>1. recovered \in Nat /\ given = recovered
    BY <1>8, TokenType DEF BootInv, TypeOK, B!BootTypeOK, B!ReadEof
  <2>2. B!OrEmpty(environ)' = B!OrEmpty(given)'
    BY <1>8, <2>1, TokenType DEF BootInv, B!ReadEof, B!OrEmpty
  <2>. QED BY <1>8, <2>2 DEF BootInv, Early, Scrubbed, B!ReadEof, B!Goes
<1>9. CASE B!Build
  <2>1. B!OrEmpty(environ) # None
    BY TokenType DEF TypeOK, B!BootTypeOK, B!OrEmpty
  <2>. QED BY <1>9, <2>1 DEF BootInv, Early, Scrubbed, B!Build, B!Goes, B!OrEmpty
<1>10. ASSUME NEW how \in B!Exceptions, B!BuildFails(how) \/ B!ParseFails(how)
       PROVE  BootInv'
  BY <1>10 DEF BootInv, Early, Scrubbed, B!BuildFails, B!ParseFails, B!Exits, B!bootVars
<1>11. CASE B!Protect \/ B!FallBack \/ B!Refuse \/ B!Parse
  BY <1>11 DEF BootInv, Early, Scrubbed, B!Protect, B!FallBack, B!Refuse, B!Parse, B!Goes, B!Exits, B!bootVars
<1>12. CASE B!Scrub \/ B!ScrubFails \/ B!NothingOnDisk \/ B!ScrubRaises
  BY <1>12 DEF BootInv, Early, Scrubbed, B!Scrub, B!ScrubFails,
               B!NothingOnDisk, B!ScrubRaises, B!bootVars, B!Goes, B!Exits
<1>. QED
  BY BootingCases, <1>1, <1>2, <1>3, <1>4, <1>5, <1>6, <1>7, <1>8, <1>9, <1>10, <1>11, <1>12

\* What happens after the boot: it leaves the variables of the boot alone.
Later == Own \/ ChoosingSdk \/ InstallingPlugins \/ Loading

LEMMA ChoosingCases ==
  ASSUME ChoosingSdk
  PROVE  /\ UNCHANGED <<exit, config, bootVars, pluginVars, sourceVars, brokerVars>>
         /\ raised' \in {raised, "user", "crash"}
         /\ pc \in {"sdk", "add"} /\ pc' \in {"dirs", "stop", "add"}
         /\ (pc' = "add" => pc = "add") /\ (pc' = "dirs" => pc = "sdk")
  BY DEF ChoosingSdk, S!Next, S!Pinned, S!ReturnBaked, S!Install, S!InstallFails, S!InstallRaises,
         S!Raises, S!PipMissing, S!Import

LEMMA LaterCases ==
  ASSUME Later
  PROVE  /\ UNCHANGED <<exit, config, bootVars>>
         /\ pc \notin B!BootPlaces \cup {"exited"} /\ pc' \notin B!BootPlaces \cup {"exited"}
<1>1. CASE Own
  BY <1>1, OwnCases DEF B!BootPlaces
<1>2. CASE ChoosingSdk
  BY <1>2, ChoosingCases DEF B!BootPlaces
<1>3. CASE InstallingPlugins
  BY <1>3, InstallingCases DEF B!BootPlaces, P!PluginPlaces
<1>4. CASE Loading
  BY <1>4, LoadingCases DEF B!BootPlaces, T!LoadPlaces
<1>. QED BY <1>1, <1>2, <1>3, <1>4 DEF Later

LEMMA BootInvStep == TypeOK /\ BootInv /\ [Next]_vars => BootInv'
<1>. SUFFICES ASSUME TypeOK, BootInv, [Next]_vars PROVE BootInv'
  OBVIOUS
<1>1. CASE Booting
  BY <1>1, BootingKeepsBootInv
<1>2. CASE Later
  BY <1>2, LaterCases DEF BootInv, Early, Scrubbed, bootVars, B!BootPlaces, B!OrEmpty
<1>3. CASE UNCHANGED vars
  BY <1>3 DEF BootInv, Early, Scrubbed, vars, bootVars, B!OrEmpty
<1>. QED BY <1>1, <1>2, <1>3, NextCases DEF Later

\* The token reaches the base class whole, by whichever way it came, and from
\* then on no child inherits it (_boot, _perform_env_scrub).
THEOREM StartupTokenInCustody == Spec => []TokenInCustody
<1>1. BootInv => TokenInCustody
  BY DEF BootInv, TokenInCustody, B!TokenInCustody, B!Launching, B!BootPlaces, Early, Scrubbed
<1>. QED BY <1>1, BootInvInit, BootInvStep, StartupTypeCorrect, PTL DEF Spec

LEMMA BootingKeepsGuardInv ==
  ASSUME TypeOK, GuardInv, Booting
  PROVE  GuardInv'
<1>1. CASE B!NothingToScrub \/ B!OpenPipe \/ B!EntryFails \/ B!Exec \/ B!ExecFails
  BY <1>1 DEF GuardInv, B!Launching, B!BootPlaces, B!NothingToScrub, B!OpenPipe, B!EntryFails, B!Exec,
              B!ExecFails, B!Goes, B!Exits
<1>2. CASE B!Unmarked \/ B!ReadChunk \/ B!ReadEof \/ B!Build
  BY <1>2 DEF GuardInv, B!Launching, B!BootPlaces, B!Unmarked, B!ReadChunk, B!ReadEof, B!Build, B!Goes,
              B!processVars
<1>3. ASSUME NEW how \in B!Exceptions, B!BuildFails(how) \/ B!ParseFails(how)
      PROVE  GuardInv'
  BY <1>3 DEF GuardInv, B!Launching, B!BootPlaces, B!BuildFails, B!ParseFails, B!Exits
<1>4. CASE B!Protect
  BY <1>4 DEF GuardInv, B!Launching, B!BootPlaces, B!Protect, B!Goes
<1>5. CASE B!FallBack
  BY <1>5 DEF GuardInv, B!Launching, B!BootPlaces, B!FallBack, B!Goes
<1>6. CASE B!Refuse
  BY <1>6 DEF GuardInv, B!Launching, B!BootPlaces, B!Refuse, B!Exits
<1>7. CASE B!Parse
  BY <1>7 DEF GuardInv, B!Launching, B!BootPlaces, B!Parse, B!Goes, B!bootVars
<1>8. CASE B!Scrub \/ B!ScrubFails \/ B!NothingOnDisk \/ B!ScrubRaises
  BY <1>8 DEF GuardInv, B!Launching, B!BootPlaces, B!Scrub, B!ScrubFails,
               B!NothingOnDisk, B!ScrubRaises, B!bootVars, B!Goes, B!Exits
<1>. QED BY BootingCases, <1>1, <1>2, <1>3, <1>4, <1>5, <1>6, <1>7, <1>8

\* Before the secrets are parsed the memory is guarded, and before a child runs
\* config.json has lost them, or the log says which was not to be had,
\* unless the file is gone
\* (_assert_advocate_memory_protected, _scrub_config_json).
THEOREM StartupSecretsGuarded == Spec => []SecretsGuarded
<1>1. Init => GuardInv
  BY DEF Init, B!Init, GuardInv, B!Launching, B!BootPlaces
<1>2. TypeOK /\ GuardInv /\ [Next]_vars => GuardInv'
  <2>. SUFFICES ASSUME TypeOK, GuardInv, [Next]_vars PROVE GuardInv'
    OBVIOUS
  <2>1. CASE Booting
    BY <2>1, BootingKeepsGuardInv
  <2>2. CASE Later
    BY <2>2, LaterCases DEF GuardInv, B!Launching, bootVars, B!BootPlaces
  <2>3. CASE UNCHANGED vars
    BY <2>3 DEF GuardInv, B!Launching, vars, bootVars
  <2>. QED BY <2>1, <2>2, <2>3, NextCases DEF Later
<1>3. GuardInv => SecretsGuarded
  BY DEF GuardInv, SecretsGuarded, B!SecretsGuarded
<1>. QED BY <1>1, <1>2, <1>3, StartupTypeCorrect, PTL DEF Spec

-----------------------------------------------------------------------------
(* The version of the SDK *)

LEMMA ChoosingKeepsVersion ==
  ASSUME TypeOK, VersionIsTheOneImported, ChoosingSdk,
         pc = "sdk" => imported = None /\ ~onPath
  PROVE  VersionIsTheOneImported'
<1>. USE DEF VersionIsTheOneImported, S!VersionIsTheOneImported, S!Loads, S!Found
<1>1. None \notin Versions /\ Baked # None
  BY ConstantsAssumption DEF S!SdkConstants
<1>2. CASE S!Pinned
  BY <1>1, <1>2 DEF S!Pinned, S!ReturnBaked
<1>3. CASE S!Install
  BY <1>1, <1>3 DEF S!Install, S!Requested
<1>4. CASE S!InstallFails
  BY <1>1, <1>4 DEF S!InstallFails, S!ReturnBaked
<1>5. CASE S!InstallRaises \/ S!PipMissing
  BY <1>5 DEF S!InstallRaises, S!PipMissing, S!Raises, S!sdkVars
<1>6. CASE S!Import
  BY <1>6 DEF S!Import
<1>. QED BY <1>2, <1>3, <1>4, <1>5, <1>6 DEF ChoosingSdk, S!Next

\* Nothing imports the SDK before ensure.
SdkInv ==
  /\ VersionIsTheOneImported
  /\ pc \in B!BootPlaces \cup {"server", "sdk"} => imported = None /\ ~onPath

\* The version the transcript records is the one whatever imports the SDK gets:
\* the overlay is in place before the first import, or has no part in it
\* (SdkVersionManager.ensure).
THEOREM StartupVersion == Spec => []VersionIsTheOneImported
<1>1. Init => SdkInv
  BY DEF Init, S!Init, SdkInv, VersionIsTheOneImported, S!VersionIsTheOneImported
<1>2. TypeOK /\ SdkInv /\ [Next]_vars => SdkInv'
  <2>. SUFFICES ASSUME TypeOK, SdkInv, [Next]_vars PROVE SdkInv'
    OBVIOUS
  <2>1. ASSUME UNCHANGED sdkVars,
               pc' \in B!BootPlaces \cup {"server", "sdk"} => pc \in B!BootPlaces \cup {"server", "sdk"}
        PROVE  SdkInv'
    BY <2>1 DEF SdkInv, VersionIsTheOneImported, S!VersionIsTheOneImported, S!Loads, S!Found, sdkVars
  <2>2. CASE Booting
    BY <2>1, <2>2, BootingCases, BootingPlaces
  <2>3. CASE Own
    BY <2>1, <2>3, OwnCases DEF B!BootPlaces
  <2>4. CASE ChoosingSdk
    <3>1. VersionIsTheOneImported'
      BY <2>4, ChoosingKeepsVersion DEF SdkInv
    <3>. QED BY <2>4, <3>1, ChoosingCases DEF SdkInv, B!BootPlaces
  <2>5. CASE InstallingPlugins
    BY <2>1, <2>5, InstallingCases DEF B!BootPlaces, P!PluginPlaces
  <2>6. CASE Loading
    BY <2>1, <2>6, LoadingCases DEF B!BootPlaces, T!LoadPlaces
  <2>7. CASE UNCHANGED vars
    BY <2>1, <2>7 DEF vars
  <2>. QED BY <2>2, <2>3, <2>4, <2>5, <2>6, <2>7, NextCases
<1>3. SdkInv => VersionIsTheOneImported
  BY DEF SdkInv
<1>. QED BY <1>1, <1>2, <1>3, StartupTypeCorrect, PTL DEF Spec

-----------------------------------------------------------------------------
(* The selection of the tasks *)

\* Of a number and a ceiling the lower one is taken.
LEMMA LowerBudget ==
  ASSUME TypeOK, NEW b \in Budgets \cup {None, NaN}, b # NaN, config.budget # NaN
  PROVE  \/ T!Below(T!EffectiveBudget(b), config.budget)
         \/ T!EffectiveBudget(b) = config.budget
<1>1. config.budget \in Budgets /\ Budgets \subseteq Int /\ NaN \notin Int
  BY ConfigsAssumption, ConstantsAssumption DEF TypeOK, T!TaskConstants
<1>2. CASE b = None
  BY <1>2 DEF T!EffectiveBudget
<1>3. CASE b # None
  <2>1. b \in Int /\ config.budget \in Int
    BY <1>1, <1>3
  <2>2. CASE config.budget < b
    BY <1>3, <2>2 DEF T!EffectiveBudget, T!Below
  <2>3. CASE b < config.budget
    <3>1. ~T!Below(config.budget, b)
      BY <2>1, <2>3 DEF T!Below
    <3>. QED BY <1>3, <2>3, <3>1 DEF T!EffectiveBudget, T!Below
  <2>4. CASE b = config.budget
    BY <1>3, <2>4 DEF T!EffectiveBudget
  <2>. QED BY <2>1, <2>2, <2>3, <2>4
<1>. QED BY <1>2, <1>3

\* The ceiling of the configuration applies to every task, except where one of
\* the two budgets is no number (effective_budget).
THEOREM StartupBudgetCapped == Spec => []BudgetCapped
<1>1. TypeOK => BudgetCapped
  <2>. SUFFICES ASSUME TypeOK, NEW i \in DOMAIN tasks, NaN \notin {tasks[i].budget, config.budget}
                PROVE  \/ T!Below(T!EffectiveBudget(tasks[i].budget), config.budget)
                       \/ T!EffectiveBudget(tasks[i].budget) = config.budget
    BY DEF BudgetCapped, T!BudgetCapped
  <2>1. tasks \in Seq(T!Tasks) /\ i \in 1..Len(tasks)
    BY LenProperties DEF TypeOK, T!TaskTypeOK
  <2>2. tasks[i] \in T!Tasks
    BY <2>1, ElementOfSeq
  <2>3. tasks[i].budget \in Budgets \cup {None, NaN}
    BY <2>2 DEF T!Tasks
  <2>. QED BY <2>3, LowerBudget
<1>. QED BY <1>1, StartupTypeCorrect, PTL

\* The first n rows of the table are in order and loaded.
Read(n) ==
  \A i \in 1..n :
    /\ loaded[i] = table[i] /\ T!WellFormed(table[i])
    /\ \A j \in 1..n : table[i].id = table[j].id => i = j

\* The first n rows of the table went through the filter.
Picked(n) ==
  /\ Len(tasks) <= n
  /\ \A i \in 1..Len(tasks) : \E k \in 1..n : tasks[i] = table[k] /\ T!Keeps(table[k])
  /\ \A k \in 1..n : T!Keeps(table[k]) => \E i \in 1..Len(tasks) : tasks[i] = table[k]
  /\ \A i, j \in 1..Len(tasks) : i < j =>
       \E k, l \in 1..n : k < l /\ table[k] = tasks[i] /\ table[l] = tasks[j]

Unloaded == Places \ {"rows", "filter", "next", "files", "stop", "exited"}

SourceInv ==
  /\ pc \in Unloaded => at = 0 /\ loaded = <<>> /\ tasks = <<>>
  /\ pc \in {"rows", "filter"} => T!inputs # <<>>
  /\ pc = "rows" => Len(loaded) = at /\ at <= Len(table) /\ Read(at) /\ tasks = <<>>
  /\ pc = "filter" \/ T!Selected =>
       Len(loaded) = Len(table) /\ at <= Len(table) /\ Read(Len(table)) /\ Picked(at)
  /\ pc \in {"rows", "filter"} \/ T!Selected => Len(table) <= MaxRows
  /\ T!Selected => at = Len(table) /\ tasks # <<>>
  /\ pc = "next" /\ ~T!Selected => \E task \in T!Tasks : tasks = <<task>>

LEMMA ReadRowKeeps ==
  ASSUME TypeOK, SourceInv, T!ReadRow
  PROVE  SourceInv'
<1>1. /\ at < Len(table) /\ at \in Nat /\ Len(loaded) = at /\ Read(at)
      /\ loaded \in Seq(T!Tasks) /\ T!Row \in T!Tasks /\ tasks = <<>>
      /\ T!WellFormed(T!Row) /\ ~T!Seen(T!Row.id)
      /\ loaded' = Append(loaded, T!Row) /\ table' = table /\ at' = at + 1
      /\ pc = "rows" /\ pc' = "rows" /\ UNCHANGED <<tasks, config>>
      /\ Len(table) \in Nat
  BY RowType, LenProperties DEF TypeOK, T!TaskTypeOK, SourceInv, T!ReadRow
<1>2. /\ Len(loaded') = at + 1 /\ loaded'[at + 1] = T!Row
      /\ \A i \in 1..at : loaded'[i] = loaded[i]
  BY <1>1, AppendProperties
<1>3. \A i \in 1..at : table[i].id # T!Row.id
  <2>1. DOMAIN loaded = 1..at
    BY <1>1, LenProperties
  <2>. QED BY <1>1, <2>1 DEF T!Seen, Read
<1>4. Read(at)'
  <2>. SUFFICES ASSUME NEW i \in 1..(at + 1)
                PROVE  /\ loaded'[i] = table[i] /\ T!WellFormed(table[i])
                       /\ \A j \in 1..(at + 1) : table[i].id = table[j].id => i = j
    BY <1>1 DEF Read, T!WellFormed
  <2>1. T!Row = table[at + 1]
    BY DEF T!Row
  <2>2. CASE i = at + 1
    BY <1>1, <1>2, <1>3, <2>1, <2>2
  <2>3. CASE i \in 1..at
    <3>1. loaded'[i] = table[i] /\ T!WellFormed(table[i])
      BY <1>1, <1>2, <2>3 DEF Read
    <3>2. \A j \in 1..at : table[i].id = table[j].id => i = j
      BY <1>1, <2>3 DEF Read
    <3>. QED BY <1>1, <1>3, <2>1, <2>3, <3>1, <3>2
  <2>. QED BY <1>1, <2>2, <2>3
<1>. QED BY <1>1, <1>2, <1>4 DEF SourceInv, Unloaded, T!Selected, T!inputs

LEMMA FilterOneKeeps ==
  ASSUME TypeOK, SourceInv, T!FilterOne
  PROVE  SourceInv'
<1>1. /\ at < Len(table) /\ at \in Nat /\ Len(table) \in Nat /\ Len(loaded) = Len(table)
      /\ tasks \in Seq(T!Tasks) /\ Read(Len(table)) /\ Picked(at)
      /\ at' = at + 1 /\ UNCHANGED <<pc, config, table, loaded>> /\ pc = "filter"
  BY LenProperties DEF TypeOK, T!TaskTypeOK, SourceInv, T!FilterOne
<1>2. loaded[at + 1] = table[at + 1] /\ loaded[at + 1] \in T!Tasks
  <2>1. at + 1 \in 1..Len(loaded) /\ loaded \in Seq(T!Tasks)
    BY <1>1 DEF TypeOK, T!TaskTypeOK
  <2>2. loaded[at + 1] \in T!Tasks
    BY <2>1, ElementOfSeq
  <2>. QED BY <1>1, <2>1, <2>2 DEF Read
<1>3. Read(Len(table))'
  BY <1>1 DEF Read, T!WellFormed
<1>4. ASSUME Len(tasks') <= at + 1,
             \A i \in 1..Len(tasks') : \E k \in 1..(at + 1) : tasks'[i] = table[k] /\ T!Keeps(table[k]),
             \A k \in 1..(at + 1) : T!Keeps(table[k]) => \E i \in 1..Len(tasks') : tasks'[i] = table[k],
             \A i, j \in 1..Len(tasks') : i < j =>
               \E k, l \in 1..(at + 1) : k < l /\ table[k] = tasks'[i] /\ table[l] = tasks'[j]
      PROVE  Picked(at)'
  <2>1. \A k \in 1..(at + 1) : T!Keeps(table[k])' <=> T!Keeps(table[k])
    BY <1>1 DEF T!Keeps, T!Wanted
  <2>2. \A i \in 1..Len(tasks') : \E k \in 1..(at + 1) : tasks'[i] = table[k] /\ T!Keeps(table[k])'
    BY <1>4, <2>1
  <2>3. \A k \in 1..(at + 1) : T!Keeps(table[k])' => \E i \in 1..Len(tasks') : tasks'[i] = table[k]
    BY <1>4, <2>1
  <2>. QED BY <1>1, <1>4, <2>2, <2>3 DEF Picked
<1>5. Picked(at)'
  <2>1. CASE T!Keeps(loaded[at + 1])
    <3>1. tasks' = Append(tasks, table[at + 1])
      BY <1>2, <2>1 DEF T!FilterOne
    <3>2. /\ Len(tasks) \in Nat /\ Len(tasks') = Len(tasks) + 1 /\ tasks'[Len(tasks) + 1] = table[at + 1]
          /\ \A i \in 1..Len(tasks) : tasks'[i] = tasks[i]
      BY <1>1, <1>2, <3>1, AppendProperties, LenProperties
    <3>3. Len(tasks') <= at + 1
      BY <1>1, <3>2 DEF Picked
    <3>4. \A i \in 1..Len(tasks') : \E k \in 1..(at + 1) : tasks'[i] = table[k] /\ T!Keeps(table[k])
      BY <1>1, <1>2, <2>1, <3>2 DEF Picked
    <3>5. \A k \in 1..(at + 1) : T!Keeps(table[k]) => \E i \in 1..Len(tasks') : tasks'[i] = table[k]
      <4>. SUFFICES ASSUME NEW k \in 1..(at + 1), T!Keeps(table[k])
                    PROVE  \E i \in 1..Len(tasks') : tasks'[i] = table[k]
        OBVIOUS
      <4>1. CASE k = at + 1
        BY <3>2, <4>1
      <4>2. CASE k \in 1..at
        <5>1. PICK i \in 1..Len(tasks) : tasks[i] = table[k]
          BY <1>1, <4>2 DEF Picked
        <5>. QED BY <3>2, <5>1
      <4>. QED BY <1>1, <4>1, <4>2
    <3>6. ASSUME NEW i \in 1..Len(tasks'), NEW j \in 1..Len(tasks'), i < j
          PROVE  \E k, l \in 1..(at + 1) : k < l /\ table[k] = tasks'[i] /\ table[l] = tasks'[j]
      <4>1. i \in 1..Len(tasks)
        BY <3>2, <3>6
      <4>2. CASE j = Len(tasks) + 1
        <5>1. PICK k \in 1..at : tasks[i] = table[k]
          BY <1>1, <4>1 DEF Picked
        <5>. QED BY <1>1, <3>2, <4>1, <4>2, <5>1
      <4>3. CASE j \in 1..Len(tasks)
        <5>1. PICK k, l \in 1..at : k < l /\ table[k] = tasks[i] /\ table[l] = tasks[j]
          BY <1>1, <3>6, <4>1, <4>3 DEF Picked
        <5>. QED BY <1>1, <3>2, <4>1, <4>3, <5>1
      <4>. QED BY <3>2, <3>6, <4>2, <4>3
    <3>7. \A i, j \in 1..Len(tasks') : i < j =>
            \E k, l \in 1..(at + 1) : k < l /\ table[k] = tasks'[i] /\ table[l] = tasks'[j]
      BY <3>6
    <3>. QED BY <1>1, <1>4, <3>3, <3>4, <3>5, <3>7
  <2>2. CASE ~T!Keeps(loaded[at + 1])
    <3>1. tasks' = tasks /\ ~T!Keeps(table[at + 1]) /\ Len(tasks) \in Nat
      BY <1>1, <1>2, <2>2, LenProperties DEF T!FilterOne
    <3>2. \A i \in 1..Len(tasks') : \E k \in 1..(at + 1) : tasks'[i] = table[k] /\ T!Keeps(table[k])
      <4>1. \A i \in 1..Len(tasks) : \E k \in 1..at : tasks[i] = table[k] /\ T!Keeps(table[k])
        BY <1>1 DEF Picked
      <4>2. 1..at \subseteq 1..(at + 1)
        BY <1>1
      <4>. QED BY <3>1, <4>1, <4>2
    <3>3. \A k \in 1..(at + 1) : T!Keeps(table[k]) => \E i \in 1..Len(tasks') : tasks'[i] = table[k]
      <4>1. \A k \in 1..at : T!Keeps(table[k]) => \E i \in 1..Len(tasks') : tasks'[i] = table[k]
        BY <1>1, <3>1 DEF Picked
      <4>2. \A k \in 1..(at + 1) : k \in 1..at \/ k = at + 1
        BY <1>1
      <4>. QED BY <3>1, <4>1, <4>2
    <3>4. \A i, j \in 1..Len(tasks') : i < j =>
            \E k, l \in 1..(at + 1) : k < l /\ table[k] = tasks'[i] /\ table[l] = tasks'[j]
      BY <1>1, <3>1 DEF Picked
    <3>5. Len(tasks') <= at + 1
      BY <1>1, <3>1 DEF Picked
    <3>. QED BY <1>1, <1>4, <3>2, <3>3, <3>4, <3>5
  <2>. QED BY <2>1, <2>2
<1>. QED BY <1>1, <1>3, <1>5 DEF SourceInv, Unloaded, T!Selected, T!inputs

LEMMA LoadingKeepsSourceInv ==
  ASSUME TypeOK, SourceInv, Loading
  PROVE  SourceInv'
<1>1. CASE T!Select
  <2>1. /\ table' \in Seq(T!Rows) /\ Len(table') <= MaxRows
        /\ at = 0 /\ loaded = <<>> /\ tasks = <<>> /\ T!inputs # <<>>
    BY <1>1, InputType DEF T!Select, T!Chosen, T!inputs, SourceInv, Unloaded, Places, T!LoadPlaces
  <2>2. Len(table') \in Nat
    BY <2>1, LenProperties
  <2>. QED BY <1>1, <2>1, <2>2 DEF SourceInv, Unloaded, Read, T!Select, T!Goes, T!Selected, T!inputs
<1>2. CASE T!UsePrompt
  <2>1. [id |-> T!ConfigTask, prompt |-> TRUE, budget |-> None] \in T!Tasks
    BY ConstantsAssumption DEF T!TaskConstants, T!Tasks
  <2>. QED BY <1>2, <2>1 DEF SourceInv, Unloaded, T!UsePrompt, T!Goes, T!Selected, T!inputs
<1>3. CASE T!ReadRow
  BY <1>3, ReadRowKeeps
<1>4. CASE T!RowsRead
  <2>1. Len(table) \in Nat
    BY LenProperties DEF TypeOK, T!TaskTypeOK
  <2>2. /\ pc = "rows" /\ pc' = "filter" /\ at = Len(table) /\ at' = 0 /\ tasks = <<>>
        /\ UNCHANGED <<table, loaded, tasks, config>>
        /\ Len(loaded) = at /\ Read(at) /\ T!inputs # <<>> /\ Len(table) <= MaxRows
    BY <1>4 DEF SourceInv, T!RowsRead, T!Goes
  <2>3. Read(Len(table))' /\ Picked(0)'
    BY <2>2 DEF Read, Picked, T!WellFormed
  <2>. QED BY <2>1, <2>2, <2>3 DEF SourceInv, Unloaded, T!Selected, T!inputs
<1>5. CASE T!FilterOne
  BY <1>5, FilterOneKeeps
<1>6. CASE T!Filtered
  <2>1. /\ pc = "filter" /\ pc' = "next" /\ UNCHANGED <<table, at, loaded, tasks, config>>
        /\ at = Len(loaded) /\ tasks # <<>>
    BY <1>6 DEF T!Filtered, T!Goes
  <2>2. /\ Len(loaded) = Len(table) /\ at <= Len(table) /\ Read(Len(table)) /\ Picked(at)
        /\ T!inputs # <<>> /\ Len(table) <= MaxRows
    BY <2>1 DEF SourceInv
  <2>3. Read(Len(table))' /\ Picked(at)'
    BY <2>1, <2>2 DEF Read, Picked, T!WellFormed, T!Keeps, T!Wanted
  <2>. QED BY <2>1, <2>2, <2>3 DEF SourceInv, Unloaded, T!Selected, T!inputs
<1>7. CASE T!SelectRaises \/ T!Unreadable \/ T!NoPrompt \/ T!RowRaises \/ T!EmptyTable \/ T!NothingKept
  <2>1. pc' = "files"
    BY <1>7 DEF T!SelectRaises, T!Unreadable, T!NoPrompt, T!RowRaises, T!EmptyTable, T!NothingKept, T!Raises
  <2>. QED BY <2>1 DEF SourceInv, Unloaded, T!Selected
<1>. QED BY <1>1, <1>2, <1>3, <1>4, <1>5, <1>6, <1>7 DEF Loading, T!Next

LEMMA SourceInvStep == TypeOK /\ SourceInv /\ [Next]_vars => SourceInv'
<1>. SUFFICES ASSUME TypeOK, SourceInv, [Next]_vars PROVE SourceInv'
  OBVIOUS
<1>1. ASSUME UNCHANGED <<config, sourceVars>>,
             pc' \in Unloaded \cup {"stop", "exited"}, pc' \in Unloaded => pc \in Unloaded
      PROVE  SourceInv'
  BY <1>1 DEF SourceInv, Unloaded, T!Selected, sourceVars
<1>2. CASE Booting
  <2>1. pc \in Unloaded /\ pc' \in Unloaded \cup {"exited"}
    BY <1>2, BootingPlaces DEF Unloaded, Places, B!BootPlaces
  <2>. QED BY <1>1, <1>2, <2>1, BootingCases
<1>3. CASE Own
  BY <1>1, <1>3, OwnCases DEF Unloaded, Places, B!BootPlaces, P!PluginPlaces, T!LoadPlaces
<1>4. CASE ChoosingSdk
  <2>1. UNCHANGED <<config, sourceVars>>
    BY <1>4, ChoosingCases
  <2>. QED BY <1>1, <1>4, <2>1, ChoosingCases DEF Unloaded, Places, P!PluginPlaces
<1>5. CASE InstallingPlugins
  BY <1>1, <1>5, InstallingCases DEF Unloaded, Places, P!PluginPlaces
<1>6. CASE Loading
  BY <1>6, LoadingKeepsSourceInv
<1>7. CASE UNCHANGED vars
  <2>1. UNCHANGED <<pc, config, table, at, loaded, tasks>>
    BY <1>7 DEF vars, sourceVars
  <2>2. (T!Selected' <=> T!Selected) /\ T!inputs' = T!inputs
    BY <2>1 DEF T!Selected, T!inputs
  <2>3. Read(at)' = Read(at) /\ Read(Len(table))' = Read(Len(table))
    BY <2>1 DEF Read, T!WellFormed
  <2>4. Picked(at)' = Picked(at)
    BY <2>1 DEF Picked, T!Keeps, T!Wanted
  <2>. QED BY <2>1, <2>2, <2>3, <2>4 DEF SourceInv
<1>. QED BY <1>2, <1>3, <1>4, <1>5, <1>6, <1>7, NextCases

LEMMA SourceInvInit == Init => SourceInv
  BY DEF Init, B!Init, T!Init, SourceInv, Unloaded, T!Selected

\* The batch is the selection the filter names, in the order of the table, and
\* is made only from a table whose every row is in order (TaskSource.load).
THEOREM StartupSelectionExact == Spec => []SelectionExact
<1>1. TypeOK /\ SourceInv => SelectionExact
  <2>. SUFFICES ASSUME TypeOK, SourceInv, T!Selected
                PROVE  /\ \A i, j \in DOMAIN table :
                            T!WellFormed(table[i]) /\ (table[i].id = table[j].id => i = j)
                       /\ T!Range(tasks) = {row \in T!Range(table) : T!Keeps(row)} /\ tasks # <<>>
                       /\ \A i, j \in DOMAIN tasks : i < j =>
                            \E k, l \in DOMAIN table : k < l /\ table[k] = tasks[i] /\ table[l] = tasks[j]
    BY DEF SelectionExact, T!SelectionExact
  <2>1. Read(Len(table)) /\ Picked(Len(table)) /\ tasks # <<>>
    BY DEF SourceInv
  <2>2. DOMAIN table = 1..Len(table) /\ DOMAIN tasks = 1..Len(tasks)
    BY LenProperties DEF TypeOK, T!TaskTypeOK
  <2>3. \A i, j \in DOMAIN table : T!WellFormed(table[i]) /\ (table[i].id = table[j].id => i = j)
    BY <2>1, <2>2 DEF Read
  <2>4. T!Range(tasks) = {row \in T!Range(table) : T!Keeps(row)}
    <3>1. \A row \in T!Range(tasks) : row \in T!Range(table) /\ T!Keeps(row)
      <4>. TAKE row \in T!Range(tasks)
      <4>1. PICK i \in 1..Len(tasks) : row = tasks[i]
        BY <2>2 DEF T!Range
      <4>2. PICK k \in 1..Len(table) : tasks[i] = table[k] /\ T!Keeps(table[k])
        BY <2>1 DEF Picked
      <4>. QED BY <2>2, <4>1, <4>2 DEF T!Range
    <3>2. \A row \in T!Range(table) : T!Keeps(row) => row \in T!Range(tasks)
      <4>. SUFFICES ASSUME NEW row \in T!Range(table), T!Keeps(row) PROVE row \in T!Range(tasks)
        OBVIOUS
      <4>1. PICK k \in 1..Len(table) : row = table[k]
        BY <2>2 DEF T!Range
      <4>2. PICK i \in 1..Len(tasks) : tasks[i] = table[k]
        BY <2>1, <4>1 DEF Picked
      <4>. QED BY <2>2, <4>1, <4>2 DEF T!Range
    <3>. QED BY <3>1, <3>2
  <2>5. \A i, j \in DOMAIN tasks : i < j =>
          \E k, l \in DOMAIN table : k < l /\ table[k] = tasks[i] /\ table[l] = tasks[j]
    <3>1. \A i, j \in 1..Len(tasks) : i < j =>
            \E k, l \in 1..Len(table) : k < l /\ table[k] = tasks[i] /\ table[l] = tasks[j]
      BY <2>1 DEF Picked
    <3>. QED BY <2>2, <3>1
  <2>. QED BY <2>1, <2>3, <2>4, <2>5
<1>. QED BY <1>1, SourceInvInit, SourceInvStep, StartupTypeCorrect, PTL DEF Spec

-----------------------------------------------------------------------------
(* A startup is the first part of a job *)

\* The transcript writer is built before the tasks are loaded.
FlushInv ==
  /\ pc \in T!LoadPlaces \cup {"next", "files"} => flushed = "no"
  /\ pc \in Unloaded \ {"load"} => flushed = "unbuilt"

LEMMA FlushInvStep == TypeOK /\ FlushInv /\ [Next]_vars => FlushInv'
<1>. SUFFICES ASSUME TypeOK, FlushInv, [Next]_vars PROVE FlushInv'
  OBVIOUS
<1>. USE DEF FlushInv, Unloaded, Places, T!LoadPlaces
<1>1. CASE Booting
  <2>1. pc \in B!BootPlaces /\ pc' \in B!BootPlaces \cup {"server", "exited"} /\ flushed' = flushed
    BY <1>1, BootingCases, BootingPlaces DEF brokerVars
  <2>. QED BY <2>1 DEF B!BootPlaces, P!PluginPlaces
<1>2. CASE Own
  <2>1. CASE StartServer \/ StartFails
    BY <2>1 DEF StartServer, StartFails, B!BootPlaces, P!PluginPlaces
  <2>2. CASE MakeDirs \/ FilesFail
    BY <2>2 DEF MakeDirs, FilesFail, B!BootPlaces, P!PluginPlaces, brokerVars
  <2>3. CASE Stage
    BY <2>3 DEF Stage, B!BootPlaces, P!PluginPlaces
  <2>. QED BY <1>2, <2>1, <2>2, <2>3 DEF Own
<1>3. CASE ChoosingSdk
  BY <1>3, ChoosingCases DEF B!BootPlaces, P!PluginPlaces, brokerVars
<1>4. CASE InstallingPlugins
  BY <1>4, InstallingCases DEF B!BootPlaces, P!PluginPlaces, brokerVars
<1>5. CASE Loading
  BY <1>5, LoadingCases DEF B!BootPlaces, P!PluginPlaces, brokerVars
<1>6. CASE UNCHANGED vars
  BY <1>6 DEF vars, brokerVars
<1>. QED BY <1>1, <1>2, <1>3, <1>4, <1>5, <1>6, NextCases

\* What load returns is a batch of the abstract job.
BatchInv == pc = "next" => [i \in DOMAIN tasks |-> tasks[i].id] \in Loadable

LEMMA BatchLoadable == TypeOK /\ SourceInv => BatchInv
<1>. SUFFICES ASSUME TypeOK, SourceInv, pc = "next"
              PROVE  [i \in DOMAIN tasks |-> tasks[i].id] \in Loadable
  BY DEF BatchInv
<1>. DEFINE ids == [i \in DOMAIN tasks |-> tasks[i].id]
<1>1. tasks \in Seq(T!Tasks) /\ DOMAIN tasks = 1..Len(tasks) /\ Len(tasks) \in Nat
  BY LenProperties DEF TypeOK, T!TaskTypeOK
<1>2. \A i \in 1..Len(tasks) : tasks[i].id \in Ids
  <2>. TAKE i \in 1..Len(tasks)
  <2>1. tasks[i] \in T!Tasks
    BY <1>1, ElementOfSeq
  <2>. QED BY <2>1 DEF T!Tasks
<1>3. Len(tasks) \in 1..MaxRows /\ IsInjective(ids)
  <2>1. CASE T!Selected
    <3>1. Read(Len(table)) /\ Picked(Len(table)) /\ tasks # <<>> /\ Len(table) <= MaxRows
      BY <2>1 DEF SourceInv
    <3>2. Len(table) \in Nat /\ MaxRows \in Nat
      BY LenProperties, MaxRowsAssumption DEF TypeOK, T!TaskTypeOK
    <3>3. Len(tasks) # 0
      BY <1>1, <3>1, EmptySeq
    <3>4. Len(tasks) \in 1..MaxRows
      BY <1>1, <3>1, <3>2, <3>3 DEF Picked
    <3>5. ASSUME NEW i \in 1..Len(tasks), NEW j \in 1..Len(tasks), i < j PROVE tasks[i].id # tasks[j].id
      <4>1. PICK k, l \in 1..Len(table) : k < l /\ table[k] = tasks[i] /\ table[l] = tasks[j]
        BY <3>1, <3>5 DEF Picked
      <4>. QED BY <3>1, <3>2, <4>1 DEF Read
    <3>6. \A i, j \in 1..Len(tasks) : tasks[i].id = tasks[j].id => i = j
      <4>. TAKE i, j \in 1..Len(tasks)
      <4>1. i < j \/ j < i \/ i = j
        BY <1>1
      <4>. QED BY <3>5, <4>1
    <3>. QED BY <1>1, <3>4, <3>6 DEF IsInjective
  <2>2. CASE ~T!Selected
    <3>1. PICK task \in T!Tasks : tasks = <<task>>
      BY <2>2 DEF SourceInv
    <3>2. Len(tasks) = 1
      BY <3>1
    <3>. QED BY <1>1, <3>2, MaxRowsAssumption DEF IsInjective
  <2>. QED BY <2>1, <2>2
<1>4. ids \in [1..Len(tasks) -> Ids]
  BY <1>1, <1>2
<1>. QED BY <1>3, <1>4 DEF Loadable

\* Every id is that of a batch.
LEMMA AllTasksAreIds == J!AllTasks = Ids
<1>1. ASSUME NEW t \in Ids PROVE t \in J!AllTasks
  <2>. DEFINE b == [i \in 1..1 |-> t]
  <2>1. b \in Loadable
    BY MaxRowsAssumption DEF Loadable, IsInjective
  <2>2. t \in J!Range(b)
    BY DEF J!Range
  <2>. QED BY <2>1, <2>2 DEF J!AllTasks
<1>2. ASSUME NEW t \in J!AllTasks PROVE t \in Ids
  BY <1>2 DEF J!AllTasks, J!Range, Loadable
<1>. QED BY <1>1, <1>2

LEMMA JobInit == Init => J!Init
<1>. SUFFICES ASSUME Init PROVE J!Init
  OBVIOUS
<1>1. pc = "entry" /\ raised = "none" /\ exit = 3 /\ server = "none" /\ flushed = "unbuilt"
  BY DEF Init, B!Init
<1>2. JobPc = "start" /\ JobBatch = <<>> /\ JobRaised = "none"
  BY <1>1 DEF JobPc, JobBatch, JobRaised, B!BootPlaces
<1>3. [t \in Ids |-> 0] = [t \in J!AllTasks |-> 0]
  BY AllTasksAreIds
<1>4. J!Range(<<>>) = {}
  BY DEF J!Range
<1>5. [t \in {"claude_sessions", "claude_runs"} |-> "none"] = J!NoTables
  BY <1>4 DEF J!NoTables, J!Tables, J!TranscriptTables
<1>. QED BY <1>1, <1>2, <1>3, <1>5 DEF J!Init, J!NoSession, J!Running, J!NoFiles

\* A step that Job does not see.
JobUnchanged == UNCHANGED <<JobPc, JobBatch, JobRaised, exit, server, flushed>>

LEMMA JobStutter == JobUnchanged => UNCHANGED J!vars
  BY DEF JobUnchanged, J!vars, J!progressVars, J!taskVars, J!transcriptVars, J!outputVars

LEMMA BootingEffect ==
  ASSUME Booting
  PROVE  /\ UNCHANGED <<server, flushed>>
         /\ pc' # "exited" => UNCHANGED <<raised, exit>>
         /\ pc' = "exited" => \/ exit' = 1 /\ raised' \in {"user", "crash"}
                              \/ exit' = 2 /\ raised' = "crash"
<1>. DEFINE Effect == IF pc' = "exited"
                        THEN \/ exit' = 1 /\ raised' \in {"user", "crash"}
                             \/ exit' = 2 /\ raised' = "crash"
                        ELSE UNCHANGED <<raised, exit>>
<1>1. ASSUME B!NothingToScrub \/ B!OpenPipe \/ B!EntryFails \/ B!Exec \/ B!ExecFails PROVE Effect
  BY <1>1 DEF B!NothingToScrub, B!OpenPipe, B!EntryFails, B!Exec, B!ExecFails, B!Goes, B!Exits
<1>2. ASSUME B!Unmarked \/ B!ReadChunk \/ B!ReadEof \/ B!Build PROVE Effect
  BY <1>2 DEF B!Unmarked, B!ReadChunk, B!ReadEof, B!Build, B!Goes, B!processVars
<1>3. ASSUME NEW how \in B!Exceptions, B!BuildFails(how) \/ B!ParseFails(how)
      PROVE  Effect
  BY <1>3 DEF B!BuildFails, B!ParseFails, B!Exits, B!Exceptions
<1>4. ASSUME B!Protect \/ B!FallBack \/ B!Refuse \/ B!Parse
            \/ B!Scrub \/ B!ScrubFails \/ B!NothingOnDisk \/ B!ScrubRaises PROVE Effect
  BY <1>4 DEF B!Protect, B!FallBack, B!Refuse, B!Parse, B!Scrub, B!ScrubFails,
              B!NothingOnDisk, B!ScrubRaises, B!bootVars, B!Goes, B!Exits
<1>5. UNCHANGED <<server, flushed>>
  BY BootingCases DEF brokerVars
<1>6. Effect
  BY BootingCases, <1>1, <1>2, <1>3, <1>4
<1>. QED BY <1>5, <1>6

LEMMA BootingIsJob ==
  ASSUME TypeOK, Booting
  PROVE  JobUnchanged \/ J!Accepted \/ \E how \in J!Exceptions : J!Rejected(how)
<1>1. pc \in B!BootPlaces /\ JobPc = "start" /\ exit = 3 /\ JobRaised = raised /\ JobBatch = <<>>
  BY BootingPlaces DEF JobPc, JobRaised, JobBatch, TypeOK, B!BootPlaces
<1>2. CASE pc' \in B!BootPlaces
  BY <1>1, <1>2, BootingEffect DEF JobUnchanged, JobPc, JobBatch, JobRaised, B!BootPlaces
<1>3. CASE pc' = "server"
  <2>1. JobPc' = "server" /\ JobBatch' = <<>> /\ JobRaised' = JobRaised /\ UNCHANGED <<exit, server, flushed>>
    BY <1>1, <1>3, BootingEffect
       DEF JobPc, JobBatch, JobRaised, B!BootPlaces, P!PluginPlaces, T!LoadPlaces
  <2>. QED BY <1>1, <2>1 DEF J!Accepted, J!progressVars, J!taskVars, J!transcriptVars, J!outputVars
<1>4. CASE pc' = "exited"
  <2>1. JobPc' = "exited" /\ JobBatch' = <<>> /\ UNCHANGED <<server, flushed>>
    BY <1>1, <1>4, BootingEffect DEF JobPc, JobBatch, B!BootPlaces, P!PluginPlaces, T!LoadPlaces
  <2>2. JobRaised' \in J!Exceptions /\ exit' = J!ExitCode(JobRaised')
    BY <1>4, BootingEffect DEF JobRaised, J!Exceptions, J!ExitCode
  <2>3. J!Rejected(JobRaised')
    BY <1>1, <2>1, <2>2 DEF J!Rejected, J!taskVars, J!transcriptVars, J!outputVars
  <2>. QED BY <2>2, <2>3
<1>. QED BY BootingPlaces, <1>2, <1>3, <1>4

\* What a step of the set-up is to Job, by where it ends.
LEMMA SetupIsJob ==
  ASSUME TypeOK, FlushInv,
         pc \in P!PluginPlaces \cup {"sdk", "dirs", "stage"},
         UNCHANGED <<exit, server>>,
         \/ pc' \in P!PluginPlaces \cup {"sdk", "dirs", "stage"} /\ UNCHANGED <<raised, flushed>>
         \/ pc' = "stop" /\ raised' \in {"user", "crash"} /\ UNCHANGED flushed
         \/ pc' = "load" /\ UNCHANGED raised /\ flushed' = "no"
  PROVE  JobUnchanged \/ J!Setup \/ \E how \in J!Exceptions : J!SetupFails(how)
<1>1. /\ JobPc = "setup" /\ exit = 3 /\ exit' = 3 /\ JobRaised = raised /\ JobRaised' = raised'
      /\ JobBatch = <<>> /\ flushed = "unbuilt"
  BY DEF JobPc, JobRaised, JobBatch, TypeOK, FlushInv, Unloaded, Places, B!BootPlaces, P!PluginPlaces
<1>2. CASE pc' \in P!PluginPlaces \cup {"sdk", "dirs", "stage"}
  <2>1. JobPc' = "setup" /\ JobBatch' = <<>>
    BY <1>2 DEF JobPc, JobBatch, B!BootPlaces, P!PluginPlaces
  <2>. QED BY <1>1, <1>2, <2>1 DEF JobUnchanged, P!PluginPlaces
<1>3. CASE pc' = "stop"
  <2>1. JobPc' = "stop" /\ JobBatch' = <<>>
    BY <1>3 DEF JobPc, JobBatch, B!BootPlaces, P!PluginPlaces, T!LoadPlaces
  <2>2. raised' \in {"user", "crash"} /\ UNCHANGED flushed
    BY <1>3 DEF P!PluginPlaces
  <2>3. J!SetupFails(raised')
    BY <1>1, <2>1, <2>2 DEF J!SetupFails, J!Unwind, J!taskVars, J!transcriptVars, J!outputVars
  <2>. QED BY <2>2, <2>3 DEF J!Exceptions
<1>4. CASE pc' = "load"
  <2>1. JobPc' = "load" /\ JobBatch' = <<>>
    BY <1>4 DEF JobPc, JobBatch, B!BootPlaces, P!PluginPlaces, T!LoadPlaces
  <2>2. UNCHANGED raised /\ flushed' = "no"
    BY <1>4 DEF P!PluginPlaces
  <2>. QED BY <1>1, <2>1, <2>2 DEF J!Setup, J!progressVars, J!taskVars, J!transcriptVars, J!outputVars
<1>. QED BY <1>2, <1>3, <1>4

LEMMA StartingIsJob ==
  ASSUME TypeOK, FlushInv, StartServer \/ StartFails
  PROVE  J!StartServer \/ J!StartFails
<1>1. /\ pc = "server" /\ JobPc = "server" /\ exit = 3 /\ exit' = 3 /\ JobRaised = raised
      /\ JobRaised' = raised' /\ JobBatch = <<>> /\ flushed = "unbuilt" /\ UNCHANGED flushed
  BY DEF StartServer, StartFails, JobPc, JobRaised, JobBatch, TypeOK, FlushInv, Unloaded, Places,
         B!BootPlaces, P!PluginPlaces, T!LoadPlaces
<1>2. CASE StartServer
  <2>1. JobPc' = "setup" /\ JobBatch' = <<>>
    BY <1>2 DEF StartServer, JobPc, JobBatch, B!BootPlaces, P!PluginPlaces
  <2>2. J!StartServer
    BY <1>1, <1>2, <2>1 DEF StartServer, J!StartServer, J!taskVars, J!transcriptVars, J!outputVars
  <2>. QED BY <2>2
<1>3. CASE StartFails
  <2>1. JobPc' = "stop" /\ JobBatch' = <<>>
    BY <1>3 DEF StartFails, JobPc, JobBatch, B!BootPlaces, P!PluginPlaces, T!LoadPlaces
  <2>2. J!StartFails
    BY <1>1, <1>3, <2>1 DEF StartFails, J!StartFails, J!Unwind, J!taskVars, J!transcriptVars, J!outputVars
  <2>. QED BY <2>2
<1>. QED BY <1>2, <1>3

\* A phase that raises says what.
LEMMA PhasesRaise ==
  ASSUME ChoosingSdk \/ InstallingPlugins \/ Loading
  PROVE  IF pc' \in {"stop", "files"} THEN raised' \in {"user", "crash"} ELSE UNCHANGED raised
<1>1. CASE ChoosingSdk
  BY <1>1 DEF ChoosingSdk, S!Next, S!Pinned, S!ReturnBaked, S!Install, S!InstallFails, S!InstallRaises,
              S!Raises, S!PipMissing, S!Import
<1>2. CASE InstallingPlugins
  BY <1>2 DEF InstallingPlugins, P!Next, P!NextEntry, P!UnknownSource, P!PluginsDone, P!Add, P!CommandFails,
              P!Discover, P!DiscoverOnly, P!DiscoverByName, P!DiscoverRaises, P!Update, P!ResolveNames,
              P!NothingToInstall, P!InstallPlugin, P!EntryDone, P!Discovered, P!Goes, P!Raises
<1>3. CASE Loading
  BY <1>3 DEF Loading, T!Next, T!Select, T!SelectRaises, T!Unreadable, T!UsePrompt, T!NoPrompt, T!ReadRow,
              T!RowRaises, T!RowsRead, T!EmptyTable, T!FilterOne, T!Filtered, T!NothingKept, T!Goes, T!Raises
<1>. QED BY <1>1, <1>2, <1>3

LEMMA LoadingIsJob ==
  ASSUME TypeOK, FlushInv, Loading, BatchInv'
  PROVE  JobUnchanged \/ J!Load \/ \E how \in J!Exceptions : J!LoadFails(how)
<1>1. /\ JobPc = "load" /\ exit = 3 /\ exit' = 3 /\ JobRaised = raised /\ JobRaised' = raised'
      /\ JobBatch = <<>> /\ flushed = "no" /\ UNCHANGED <<exit, server, flushed>>
      /\ pc' \in T!LoadPlaces \cup {"next", "files"}
  BY LoadingCases
     DEF JobPc, JobRaised, JobBatch, TypeOK, FlushInv, B!BootPlaces, P!PluginPlaces, T!LoadPlaces, brokerVars
<1>2. CASE pc' \in T!LoadPlaces
  <2>1. JobPc' = "load" /\ JobBatch' = <<>> /\ raised' = raised
    BY <1>2, PhasesRaise DEF JobPc, JobBatch, B!BootPlaces, P!PluginPlaces, T!LoadPlaces
  <2>. QED BY <1>1, <2>1 DEF JobUnchanged
<1>3. CASE pc' = "files"
  <2>1. JobPc' = "files" /\ JobBatch' = <<>> /\ raised' \in {"user", "crash"}
    BY <1>3, PhasesRaise DEF JobPc, JobBatch, B!BootPlaces, P!PluginPlaces, T!LoadPlaces
  <2>2. J!LoadFails(raised')
    BY <1>1, <2>1 DEF J!LoadFails, J!Unwind, J!taskVars, J!transcriptVars, J!outputVars
  <2>. QED BY <2>1, <2>2 DEF J!Exceptions
<1>4. CASE pc' = "next"
  <2>1. JobPc' = "next" /\ raised' = raised
    BY <1>4, PhasesRaise DEF JobPc, B!BootPlaces, P!PluginPlaces, T!LoadPlaces
  <2>2. JobBatch' \in Loadable
    BY <1>4 DEF BatchInv, JobBatch, Loadable
  <2>. QED BY <1>1, <2>1, <2>2 DEF J!Load, J!progressVars, J!transcriptVars, J!outputVars
<1>. QED BY <1>1, <1>2, <1>3, <1>4

LEMMA NextIsJob ==
  ASSUME TypeOK, FlushInv, BatchInv', [Next]_vars
  PROVE  [J!Next]_J!vars
<1>. USE DEF J!Next, J!Work, J!Begin
<1>1. CASE Booting
  BY <1>1, BootingIsJob, JobStutter
<1>2. CASE StartServer \/ StartFails
  BY <1>2, StartingIsJob
<1>3. ASSUME JobUnchanged \/ J!Setup \/ \E how \in J!Exceptions : J!SetupFails(how)
      PROVE  [J!Next]_J!vars
  BY <1>3, JobStutter
<1>4. CASE MakeDirs \/ FilesFail \/ Stage
  <2>1. /\ pc \in {"dirs", "stage"} /\ UNCHANGED <<exit, server>>
        /\ \/ pc' = "plugins" /\ UNCHANGED <<raised, flushed>>
           \/ pc' = "stop" /\ raised' = "crash" /\ UNCHANGED flushed
           \/ pc' = "load" /\ UNCHANGED raised /\ flushed' = "no"
    BY <1>4 DEF MakeDirs, FilesFail, Stage, brokerVars
  <2>. QED BY <1>3, <2>1, SetupIsJob DEF P!PluginPlaces
<1>5. CASE ChoosingSdk
  <2>1. pc \in {"sdk", "add"} /\ pc' \in {"dirs", "add", "stop"} /\ UNCHANGED <<exit, server, flushed>>
    BY <1>5, ChoosingCases DEF brokerVars
  <2>2. IF pc' \in {"stop", "files"} THEN raised' \in {"user", "crash"} ELSE UNCHANGED raised
    BY <1>5, PhasesRaise
  <2>. QED BY <1>3, <2>1, <2>2, SetupIsJob DEF P!PluginPlaces
<1>6. CASE InstallingPlugins
  <2>1. /\ pc \in P!PluginPlaces /\ pc' \in P!PluginPlaces \cup {"stage", "stop"}
        /\ UNCHANGED <<exit, server, flushed>>
    BY <1>6, InstallingCases DEF brokerVars
  <2>2. IF pc' \in {"stop", "files"} THEN raised' \in {"user", "crash"} ELSE UNCHANGED raised
    BY <1>6, PhasesRaise
  <2>. QED BY <1>3, <2>1, <2>2, SetupIsJob DEF P!PluginPlaces
<1>7. CASE Loading
  BY <1>7, LoadingIsJob, JobStutter
<1>8. CASE UNCHANGED vars
  BY <1>8, JobStutter DEF vars, sourceVars, brokerVars, JobUnchanged, JobPc, JobBatch, JobRaised
<1>. QED BY <1>1, <1>2, <1>4, <1>5, <1>6, <1>7, <1>8 DEF Next

\* What the start-up components do, whichever of them raises, is what the
\* abstract job does up to its first task: the same exit code, the same server
\* to tear down, the same transcript to flush, a batch of distinct ids.
THEOREM StartupImplementsJob == Spec => ImplementsJob
<1>1. Init => FlushInv
  BY DEF Init, B!Init, FlushInv, T!LoadPlaces
<1>2. TypeOK /\ FlushInv /\ BatchInv' /\ [Next]_vars => [J!Next]_J!vars
  BY NextIsJob
<1>. QED
  BY <1>1, <1>2, JobInit, BatchLoadable, FlushInvStep, SourceInvInit, SourceInvStep, StartupTypeCorrect, PTL
     DEF Spec, ImplementsJob, J!Spec

-----------------------------------------------------------------------------
(* The plugins *)

\* The plugins an entry is owed.
Asked(e) == IF e.names # <<>> THEN e.names ELSE Plugins[e.repo]

Served(i) ==
  /\ registered[paths[i][2]] = config.plugins[i].repo /\ registered[paths[i][2]] # None
  /\ \A n \in P!Range(Asked(config.plugins[i])) : <<paths[i][2], n, config.plugins[i].repo>> \in installed

Working == P!PluginPlaces \ {"plugins"}

\* The places before the first entry is begun.
Unplugged == B!BootPlaces \cup {"server", "sdk", "dirs"}

Recorded == \A r \in resolved : \E p \in installed : p[1] = r[1] /\ p[2] = r[2]

\* A marketplace was registered for an entry that was begun, under the name its
\* repository declares.
Origin ==
  \A m \in P!Markets : registered[m] # None =>
    Declared[registered[m]] = m /\ \E j \in 1..entry : config.plugins[j].repo = registered[m]

\* One path for each entry that is done.
Counted ==
  /\ pc \in Unplugged => entry = 0 /\ paths = <<>>
  /\ pc \in {"plugins", "stage"} => Len(paths) = entry
  /\ pc \in Working => Len(paths) = entry - 1
  /\ pc = "stage" => entry = Len(config.plugins)

\* What is known of the entry that is worked on.
Current ==
  /\ pc \in Working \ {"add"} => registered[Declared[P!Entry.repo]] = P!Entry.repo
  /\ pc \in {"update", "names", "install"} /\ located => registered[market] = P!Entry.repo
  /\ pc = "install" /\ located =>
       \A n \in P!Range(Asked(P!Entry)) : n \in P!Range(todo) \/ <<market, n, P!Entry.repo>> \in installed

AllServed == \A i \in 1..Len(paths) : P!Located(i) => Served(i)

PluginInv ==
  /\ Recorded
  /\ pc \in Unplugged => \A m \in P!Markets : registered[m] = None
  /\ Origin /\ Counted
  /\ P!OneNameEach /\ pc \in P!PluginPlaces \cup {"stage"} => Current /\ AllServed

LEMMA PluginInvInit == Init => PluginInv
  BY DEF Init, B!Init, P!Init, PluginInv, Recorded, Origin, Counted, Unplugged, Working, B!BootPlaces,
         P!PluginPlaces

LEMMA PathsType ==
  ASSUME TypeOK
  PROVE  /\ Len(paths) \in Nat /\ entry \in Nat /\ DOMAIN paths = 1..Len(paths)
         /\ \A i \in 1..Len(paths) : paths[i][2] \in P!Markets
<1>1. paths \in Seq({"market", "cache"} \X P!Markets)
  BY DEF TypeOK, P!PluginTypeOK
<1>2. Len(config.plugins) \in Nat
  BY ConfigsAssumption, LenProperties DEF TypeOK
<1>3. entry \in Nat
  BY <1>2 DEF TypeOK, P!PluginTypeOK
<1>4. \A i \in 1..Len(paths) : paths[i] \in {"market", "cache"} \X P!Markets
  BY <1>1, ElementOfSeq
<1>. QED BY <1>1, <1>3, <1>4, LenProperties

\* Two entries of one marketplace name are of one repository.
LEMMA OneRepository ==
  ASSUME TypeOK, P!OneNameEach, NEW i \in 1..entry, NEW j \in 1..entry,
         Declared[config.plugins[i].repo] = Declared[config.plugins[j].repo]
  PROVE  config.plugins[i].repo = config.plugins[j].repo
<1>1. config.plugins \in Seq([repo : Repos \cup {None}, version : {"latest", "pinned"}, names : Seq(STRING)])
  BY ConfigsAssumption DEF TypeOK
<1>2. DOMAIN config.plugins = 1..Len(config.plugins) /\ Len(config.plugins) \in Nat
  BY <1>1, LenProperties
<1>3. i \in DOMAIN config.plugins /\ j \in DOMAIN config.plugins
  BY <1>2 DEF TypeOK, P!PluginTypeOK
<1>. QED BY <1>3 DEF P!OneNameEach

LEMMA AddKeepsPluginInv ==
  ASSUME TypeOK, PluginInv, P!Add, UNCHANGED config
  PROVE  PluginInv'
<1>. DEFINE repo == P!Entry.repo
             name == Declared[repo]
<1>1. /\ entry \in 1..Len(config.plugins) /\ repo = config.plugins[entry].repo /\ repo \in Repos
      /\ name \in P!Markets /\ pc = "add" /\ pc' = "list" /\ entry \in Nat /\ entry \in 1..entry
      /\ UNCHANGED <<entry, market, located, todo, resolved, paths, installed>>
  BY EntryType, PathsType DEF P!Add, P!Goes, P!PluginPlaces, P!Entry
<1>2. /\ registered'[name] # None
      /\ \A m \in P!Markets : registered'[m] = registered[m] \/ (m = name /\ registered'[m] = repo)
  BY <1>1, AddType DEF P!Add
<1>3. Recorded' /\ Counted'
  BY <1>1 DEF PluginInv, Recorded, Counted, Unplugged, Working, P!PluginPlaces, B!BootPlaces
<1>4. Origin'
  BY <1>1, <1>2 DEF PluginInv, Origin
<1>5. ASSUME P!OneNameEach PROVE Current' /\ AllServed'
  <2>1. registered'[name] = repo
    <3>1. CASE registered'[name] = registered[name]
      <4>1. PICK j \in 1..entry : config.plugins[j].repo = registered[name] /\ Declared[registered[name]] = name
        BY <1>1, <1>2, <3>1 DEF PluginInv, Origin
      <4>. QED BY <1>1, <1>5, <3>1, <4>1, OneRepository
    <3>. QED BY <1>1, <1>2, <3>1
  <2>2. Current'
    BY <1>1, <2>1 DEF Current, P!Entry, Working
  <2>3. ASSUME NEW i \in 1..Len(paths), P!Located(i)
        PROVE  registered'[paths[i][2]] = registered[paths[i][2]] /\ Served(i)
    <3>1. Served(i) /\ paths[i][2] \in P!Markets /\ i \in 1..entry
      BY <1>1, <1>5, <2>3, PathsType DEF PluginInv, AllServed, Counted, Working, P!PluginPlaces
    <3>2. Declared[config.plugins[i].repo] = paths[i][2]
      BY <3>1 DEF Served, PluginInv, Origin
    <3>3. CASE paths[i][2] = name
      BY <1>1, <1>5, <2>1, <3>1, <3>2, <3>3, OneRepository DEF Served
    <3>. QED BY <1>2, <3>1, <3>3
  <2>. QED BY <1>1, <2>2, <2>3 DEF AllServed, Served, P!Located, Asked
<1>6. P!OneNameEach' => P!OneNameEach
  BY DEF P!OneNameEach
<1>. QED BY <1>1, <1>3, <1>4, <1>5, <1>6 DEF PluginInv, Unplugged, B!BootPlaces

LEMMA NextEntryKeepsPluginInv ==
  ASSUME TypeOK, PluginInv, P!NextEntry
  PROVE  PluginInv'
<1>1. /\ pc = "plugins" /\ pc' = "add" /\ entry' = entry + 1 /\ entry \in Nat
      /\ UNCHANGED <<config, market, located, todo, resolved, paths, registered, installed>>
  BY PathsType DEF P!NextEntry, P!Goes
<1>2. Recorded' /\ Origin' /\ Counted' /\ pc' \notin Unplugged
  BY <1>1 DEF PluginInv, Recorded, Origin, Counted, Unplugged, Working, P!PluginPlaces, B!BootPlaces
<1>3. P!OneNameEach' => Current' /\ AllServed'
  BY <1>1 DEF PluginInv, Current, AllServed, Served, Working, P!Located, P!OneNameEach, P!PluginPlaces, Asked
<1>. QED BY <1>2, <1>3 DEF PluginInv

LEMMA DiscoveryKeepsPluginInv ==
  ASSUME TypeOK, PluginInv, NEW m \in P!Markets, NEW f \in BOOLEAN, pc = "list", P!Discovered(m, f),
         f /\ P!OneNameEach => registered[m] = P!Entry.repo
  PROVE  PluginInv'
<1>1. /\ pc' \in {"update", "names"} /\ market' = m /\ located' = f
      /\ UNCHANGED <<config, entry, todo, resolved, paths, registered, installed>>
  BY DEF P!Discovered, P!Goes
<1>2. Recorded' /\ Origin' /\ Counted' /\ pc' \notin Unplugged
  BY <1>1 DEF PluginInv, Recorded, Origin, Counted, Unplugged, Working, P!PluginPlaces, B!BootPlaces
<1>3. P!OneNameEach' => Current' /\ AllServed'
  BY <1>1 DEF PluginInv, Current, AllServed, Served, Working, P!Located, P!OneNameEach, P!PluginPlaces,
              P!Entry, Asked
<1>. QED BY <1>2, <1>3 DEF PluginInv

\* The marketplace that is found is the one the repository of the entry was
\* registered under.
LEMMA FindingKeepsPluginInv ==
  ASSUME TypeOK, PluginInv, P!Discover \/ P!DiscoverOnly \/ P!DiscoverByName
  PROVE  PluginInv'
<1>1. CASE P!Discover
  BY <1>1, DiscoveryKeepsPluginInv DEF P!Discover, P!Listed, P!Matching
<1>2. CASE P!DiscoverOnly
  <2>1. PICK m \in P!Listed, f \in BOOLEAN : P!Listed = {m} /\ P!Discovered(m, f)
    BY <1>2 DEF P!DiscoverOnly
  <2>2. pc = "list" /\ m \in P!Markets /\ Declared[P!Entry.repo] \in P!Markets /\ P!Entry.repo # None
    BY <1>2, <2>1, EntryType, ConstantsAssumption
       DEF P!DiscoverOnly, P!Listed, P!PluginPlaces, P!PluginConstants
  <2>3. ASSUME P!OneNameEach PROVE registered[m] = P!Entry.repo
    <3>1. registered[Declared[P!Entry.repo]] = P!Entry.repo
      BY <2>2, <2>3 DEF PluginInv, Current, Working, P!PluginPlaces
    <3>2. Declared[P!Entry.repo] \in P!Listed
      BY <2>2, <3>1 DEF P!Listed
    <3>. QED BY <2>1, <3>1, <3>2
  <2>. QED BY <2>1, <2>2, <2>3, DiscoveryKeepsPluginInv
<1>3. CASE P!DiscoverByName
  BY <1>3, DiscoveryKeepsPluginInv, EntryType DEF P!DiscoverByName, P!PluginPlaces
<1>. QED BY <1>1, <1>2, <1>3

LEMMA NamesKeepPluginInv ==
  ASSUME TypeOK, PluginInv, P!ResolveNames
  PROVE  PluginInv'
<1>1. /\ pc = "names" /\ pc' = "install" /\ todo' = P!NamesFor(P!Entry)
      /\ UNCHANGED <<config, entry, market, located, resolved, paths, registered, installed>>
  BY DEF P!ResolveNames, P!Goes
<1>2. Recorded' /\ Origin' /\ Counted' /\ pc' \notin Unplugged
  BY <1>1 DEF PluginInv, Recorded, Origin, Counted, Unplugged, Working, P!PluginPlaces, B!BootPlaces
<1>3. ASSUME P!OneNameEach PROVE Current' /\ AllServed'
  <2>1. located => registered[market] = P!Entry.repo /\ todo' = Asked(P!Entry)
    BY <1>1, <1>3 DEF PluginInv, Current, Working, P!PluginPlaces, P!NamesFor, P!DeclaredPlugins, Asked
  <2>2. Current'
    BY <1>1, <1>3, <2>1 DEF PluginInv, Current, Working, P!PluginPlaces, P!Entry, Asked
  <2>3. AllServed'
    BY <1>1, <1>3 DEF PluginInv, AllServed, Served, P!Located, P!PluginPlaces, Asked
  <2>. QED BY <2>2, <2>3
<1>4. P!OneNameEach' => P!OneNameEach
  BY <1>1 DEF P!OneNameEach
<1>. QED BY <1>2, <1>3, <1>4 DEF PluginInv

LEMMA InstallKeepsPluginInv ==
  ASSUME TypeOK, PluginInv, P!InstallPlugin
  PROVE  PluginInv'
<1>1. /\ pc = "install" /\ pc' = "install" /\ todo # <<>> /\ todo' = Tail(todo)
      /\ installed' = installed \cup {<<market, Head(todo), registered[market]>>}
      /\ resolved' = {r \in resolved : r[1] # market \/ r[2] # Head(todo)}
                       \cup {<<market, Head(todo), P!Entry.version>>}
      /\ UNCHANGED <<config, entry, market, located, paths, registered>>
  BY DEF P!InstallPlugin
<1>2. Recorded'
  <2>1. ASSUME NEW r \in resolved PROVE \E p \in installed' : p[1] = r[1] /\ p[2] = r[2]
    BY <1>1 DEF PluginInv, Recorded
  <2>2. \E p \in installed' : p[1] = market /\ p[2] = Head(todo)
    <3>. DEFINE new == <<market, Head(todo), registered[market]>>
    <3>1. new \in installed'
      BY <1>1
    <3>2. new[1] = market /\ new[2] = Head(todo)
      OBVIOUS
    <3>. QED BY <3>1, <3>2
  <2>3. ASSUME NEW r \in resolved' PROVE \E p \in installed' : p[1] = r[1] /\ p[2] = r[2]
    <3>1. CASE r \in resolved
      BY <2>1, <3>1
    <3>2. CASE r = <<market, Head(todo), P!Entry.version>>
      BY <2>2, <3>2
    <3>. QED BY <1>1, <3>1, <3>2
  <2>. QED BY <2>3 DEF Recorded
<1>3. Origin' /\ Counted' /\ pc' \notin Unplugged
  BY <1>1 DEF PluginInv, Origin, Counted, Unplugged, Working, P!PluginPlaces, B!BootPlaces
<1>4. ASSUME NEW n \in P!Range(todo) PROVE n = Head(todo) \/ n \in P!Range(Tail(todo))
  <2>1. todo \in Seq(STRING)
    BY DEF TypeOK, P!PluginTypeOK
  <2>2. PICK i \in 1..Len(todo) : n = todo[i]
    BY <2>1, LenProperties DEF P!Range
  <2>3. Len(todo) \in Nat /\ Tail(todo) \in Seq(STRING) /\ Len(Tail(todo)) = Len(todo) - 1
        /\ \A k \in 1..Len(Tail(todo)) : Tail(todo)[k] = todo[k + 1]
    BY <1>1, <2>1, HeadTailProperties, LenProperties
  <2>4. CASE i = 1
    BY <2>1, <2>2, <2>4
  <2>5. CASE i # 1
    <3>1. i - 1 \in 1..Len(Tail(todo)) /\ Tail(todo)[i - 1] = n
      BY <2>2, <2>3, <2>5
    <3>. QED BY <2>3, <3>1, LenProperties DEF P!Range
  <2>. QED BY <2>4, <2>5
<1>5. ASSUME P!OneNameEach PROVE Current' /\ AllServed'
  <2>1. Current
    BY <1>1, <1>5 DEF PluginInv, P!PluginPlaces
  <2>2. ASSUME located, NEW n \in P!Range(Asked(P!Entry))
        PROVE  n \in P!Range(Tail(todo)) \/ <<market, n, P!Entry.repo>> \in installed'
    <3>1. registered[market] = P!Entry.repo
      BY <1>1, <2>1, <2>2 DEF Current
    <3>. QED BY <1>1, <1>4, <2>1, <2>2, <3>1 DEF Current
  <2>3. Current'
    BY <1>1, <2>1, <2>2 DEF Current, P!Entry, Asked
  <2>4. AllServed'
    BY <1>1, <1>5 DEF PluginInv, AllServed, Served, P!Located, P!PluginPlaces, Asked
  <2>. QED BY <2>3, <2>4
<1>6. P!OneNameEach' => P!OneNameEach
  BY <1>1 DEF P!OneNameEach
<1>. QED BY <1>2, <1>3, <1>5, <1>6 DEF PluginInv

LEMMA EntryDoneKeepsPluginInv ==
  ASSUME TypeOK, PluginInv, P!EntryDone
  PROVE  PluginInv'
<1>. DEFINE path == <<IF located THEN "market" ELSE "cache", market>>
<1>1. /\ pc = "install" /\ pc' = "plugins" /\ todo = <<>> /\ paths' = Append(paths, path)
      /\ UNCHANGED <<config, entry, market, located, todo, resolved, registered, installed>>
  BY DEF P!EntryDone, P!Goes
<1>2. /\ Len(paths) = entry - 1 /\ Len(paths) \in Nat /\ entry \in Nat
      /\ Len(paths') = entry /\ paths'[entry] = path
      /\ \A i \in 1..Len(paths) : paths'[i] = paths[i]
  <2>1. Len(paths) = entry - 1 /\ Len(paths) \in Nat /\ entry \in Nat
    BY <1>1, PathsType DEF PluginInv, Counted, Working, P!PluginPlaces
  <2>2. path \in {"market", "cache"} \X P!Markets /\ paths \in Seq({"market", "cache"} \X P!Markets)
    BY <1>1 DEF TypeOK, P!PluginTypeOK
  <2>3. Len(paths') = Len(paths) + 1 /\ paths'[Len(paths) + 1] = path
        /\ \A i \in 1..Len(paths) : paths'[i] = paths[i]
    BY <1>1, <2>2, AppendProperties
  <2>. QED BY <2>1, <2>3
<1>3. Recorded' /\ Origin' /\ Counted' /\ pc' \notin Unplugged
  BY <1>1, <1>2 DEF PluginInv, Recorded, Origin, Counted, Unplugged, Working, P!PluginPlaces, B!BootPlaces
<1>4. ASSUME P!OneNameEach PROVE Current' /\ AllServed'
  <2>1. Current /\ AllServed
    BY <1>1, <1>4 DEF PluginInv, P!PluginPlaces
  <2>2. Current'
    BY <1>1 DEF Current, Working
  <2>3. ASSUME NEW i \in 1..Len(paths'), P!Located(i)' PROVE Served(i)'
    <3>1. CASE i = entry
      <4>1. located /\ paths'[i][2] = market
        BY <1>2, <2>3, <3>1 DEF P!Located
      <4>2. registered[market] = P!Entry.repo /\ registered[market] # None
        BY <1>1, <2>1, <4>1 DEF Current, TypeOK, P!PluginTypeOK
      <4>3. \A n \in P!Range(Asked(P!Entry)) : <<market, n, P!Entry.repo>> \in installed
        BY <1>1, <2>1, <4>1 DEF Current, P!Range
      <4>. QED BY <1>1, <3>1, <4>1, <4>2, <4>3 DEF Served, Asked, P!Entry
    <3>2. CASE i \in 1..Len(paths)
      <4>1. Served(i) /\ paths'[i] = paths[i]
        BY <1>2, <2>1, <2>3, <3>2 DEF AllServed, P!Located
      <4>. QED BY <1>1, <4>1 DEF Served, Asked
    <3>. QED BY <1>2, <3>1, <3>2
  <2>. QED BY <2>2, <2>3 DEF AllServed
<1>5. P!OneNameEach' => P!OneNameEach
  BY <1>1 DEF P!OneNameEach
<1>. QED BY <1>3, <1>4, <1>5 DEF PluginInv

LEMMA PluginInvStep == TypeOK /\ PluginInv /\ [Next]_vars => PluginInv'
<1>. SUFFICES ASSUME TypeOK, PluginInv, [Next]_vars PROVE PluginInv'
  OBVIOUS
\* Where the state of the plugins is left as it is.
<1>1. ASSUME UNCHANGED <<config, pluginVars>>,
             \/ pc' \notin P!PluginPlaces \cup Unplugged \cup {"stage"}
             \/ pc' \in Unplugged /\ pc \in Unplugged
             \/ pc' = pc \/ (pc' = "plugins" /\ pc = "dirs") \/ (pc' = "names" /\ pc = "update")
             \/ (pc' = "stage" /\ pc = "plugins" /\ entry = Len(config.plugins))
      PROVE  PluginInv'
  <2>1. UNCHANGED <<config, entry, market, located, todo, resolved, paths, registered, installed>>
    BY <1>1 DEF pluginVars
  <2>2. Recorded' /\ Origin'
    BY <2>1 DEF PluginInv, Recorded, Origin
  <2>3. Counted' /\ (pc' \in Unplugged => pc \in Unplugged)
    <3>1. Len(<<>>) = 0
      OBVIOUS
    <3>. QED BY <1>1, <2>1, <3>1, PathsType DEF PluginInv, Counted, Unplugged, Working, P!PluginPlaces, B!BootPlaces
  <2>4. ASSUME P!OneNameEach, pc' \in P!PluginPlaces \cup {"stage"} PROVE Current' /\ AllServed'
    <3>1. CASE pc = "dirs"
      <4>1. paths = <<>> /\ pc' = "plugins"
        BY <1>1, <2>4, <3>1 DEF PluginInv, Counted, Unplugged, P!PluginPlaces, B!BootPlaces
      <4>. QED BY <2>1, <4>1 DEF Current, AllServed, Working, P!PluginPlaces
    <3>2. CASE pc # "dirs"
      <4>1. Current /\ AllServed
        BY <1>1, <2>4, <3>2 DEF PluginInv, Unplugged, P!PluginPlaces, B!BootPlaces
      <4>2. Current'
        BY <1>1, <2>1, <2>4, <3>2, <4>1 DEF Current, Working, P!PluginPlaces, Unplugged, B!BootPlaces, P!Entry, Asked
      <4>. QED BY <2>1, <4>1, <4>2 DEF AllServed, Served, P!Located, Asked
    <3>. QED BY <3>1, <3>2
  <2>5. P!OneNameEach' => P!OneNameEach
    BY <2>1 DEF P!OneNameEach
  <2>. QED BY <2>1, <2>2, <2>3, <2>4, <2>5 DEF PluginInv
<1>2. CASE Booting
  BY <1>1, <1>2, BootingCases, BootingPlaces DEF Unplugged, P!PluginPlaces, B!BootPlaces
<1>3. CASE Own
  BY <1>1, <1>3, OwnCases DEF Unplugged, P!PluginPlaces, B!BootPlaces
<1>4. CASE ChoosingSdk
  BY <1>1, <1>4, ChoosingCases DEF Unplugged, P!PluginPlaces, B!BootPlaces
<1>5. CASE Loading
  BY <1>1, <1>5, LoadingCases DEF Unplugged, P!PluginPlaces, T!LoadPlaces, B!BootPlaces
<1>6. CASE InstallingPlugins
  <2>1. UNCHANGED config
    BY <1>6, InstallingCases
  <2>2. CASE P!UnknownSource \/ P!PluginsDone \/ P!CommandFails \/ P!DiscoverRaises \/ P!Update
               \/ P!NothingToInstall
    BY <1>1, <2>1, <2>2
       DEF P!UnknownSource, P!PluginsDone, P!CommandFails, P!DiscoverRaises, P!Update, P!NothingToInstall,
           P!Goes, P!Raises, P!pluginVars, pluginVars, P!PluginPlaces, Unplugged, B!BootPlaces
  <2>3. CASE P!NextEntry \/ P!Add
    BY <2>1, <2>3, NextEntryKeepsPluginInv, AddKeepsPluginInv
  <2>4. CASE P!Discover \/ P!DiscoverOnly \/ P!DiscoverByName
    BY <2>4, FindingKeepsPluginInv
  <2>5. CASE P!ResolveNames \/ P!InstallPlugin \/ P!EntryDone
    BY <2>5, NamesKeepPluginInv, InstallKeepsPluginInv, EntryDoneKeepsPluginInv
  <2>. QED BY <1>6, <2>2, <2>3, <2>4, <2>5 DEF InstallingPlugins, P!Next
<1>7. CASE UNCHANGED vars
  BY <1>1, <1>7 DEF vars
<1>. QED BY <1>2, <1>3, <1>4, <1>5, <1>6, <1>7, NextCases

\* Every entry of the configuration is served from its own repository, although
\* others are registered with the CLI under names of their own, unless the
\* marketplace had to be guessed or two repositories declare one name
\* (PluginManager.prepare).
THEOREM StartupPluginsServed == Spec => []PluginsServed
<1>1. TypeOK /\ PluginInv => PluginsServed
  <2>. SUFFICES ASSUME TypeOK, PluginInv, pc = "stage"
                PROVE  /\ Recorded
                       /\ P!OneNameEach => \A i \in DOMAIN config.plugins : P!Located(i) => Served(i)
    BY DEF PluginsServed, P!PluginsServed, Recorded, Served, Asked
  <2>1. Len(paths) = Len(config.plugins)
    BY DEF PluginInv, Counted
  <2>2. DOMAIN config.plugins = 1..Len(config.plugins)
    BY ConfigsAssumption, LenProperties DEF TypeOK
  <2>. QED BY <2>1, <2>2 DEF PluginInv, AllServed
<1>. QED BY <1>1, PluginInvInit, PluginInvStep, StartupTypeCorrect, PTL DEF Spec
=============================================================================
