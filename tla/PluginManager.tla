--------------------------- MODULE PluginManager ---------------------------
(***************************************************************************)
(* PluginManager.prepare: the claude CLI is run command by command for     *)
(* each entry of the configuration.  A marketplace is registered under the *)
(* name its repository declares, so the manager asks for it.               *)
(*                                                                         *)
(* An entry is [repo, version, names]: repo is what its source stands for, *)
(* None for an unknown shorthand; names are the plugins given explicitly.  *)
(***************************************************************************)
EXTENDS Naturals, Sequences, Functions

CONSTANTS
  Repos,
  Declared,  \* the marketplace name each repository declares
  Guess,     \* the name of each repository: _fallback_marketplace_name
  Plugins,   \* the plugins each repository declares
  None

Markets == Range(Declared) \cup Range(Guess)

PluginConstants ==
  /\ None \notin Repos \cup Markets
  /\ Declared \in [Repos -> STRING] /\ Guess \in [Repos -> STRING]
  /\ Plugins \in [Repos -> Seq(STRING)]

VARIABLES
  pc, raised, exit,
  config,
  entry,       \* how many entries were begun
  market,      \* the marketplace of this entry
  located,     \* its installLocation was found
  todo,        \* the plugins still to install of this entry
  resolved,    \* result.resolved: <<marketplace, plugin, version>>
  paths,       \* result.sdk_plugins: "market" or the guessed cache path, and the name
  registered,  \* the CLI's marketplaces: name -> repository
  installed    \* the CLI's plugins: <<marketplace, plugin, repository>>

pluginVars == <<entry, market, located, todo, resolved, paths, registered, installed>>
vars == <<pc, raised, exit, config, pluginVars>>

PluginPlaces == {"plugins", "add", "list", "update", "names", "install"}

PluginTypeOK ==
  /\ entry \in 0..Len(config.plugins)
  /\ market \in Markets \cup {None}
  /\ located \in BOOLEAN
  /\ todo \in Seq(STRING)
  /\ paths \in Seq({"market", "cache"} \X Markets)
  /\ registered \in [Markets -> Repos \cup {None}]
  /\ pc \in PluginPlaces \ {"plugins"} => entry > 0 /\ config.plugins[entry].repo # None
  /\ pc \in {"update", "names", "install"} => market # None
  /\ located => market # None /\ registered[market] # None

Init ==
  /\ entry = 0 /\ market = None /\ located = FALSE /\ todo = <<>>
  /\ resolved = {} /\ paths = <<>>
  /\ registered = [m \in Markets |-> None] /\ installed = {}

Entry == config.plugins[entry]
Goes(place) == pc' = place /\ UNCHANGED <<raised, exit, config>>
Raises(how) == pc' = "stop" /\ raised' = how /\ UNCHANGED <<exit, config, pluginVars>>

-----------------------------------------------------------------------------

NextEntry ==
  /\ pc = "plugins" /\ entry < Len(config.plugins)
  /\ config.plugins[entry + 1].repo # None
  /\ Goes("add")
  /\ entry' = entry + 1
  /\ UNCHANGED <<market, located, todo, resolved, paths, registered, installed>>

UnknownSource ==
  /\ pc = "plugins" /\ entry < Len(config.plugins)
  /\ config.plugins[entry + 1].repo = None
  /\ Raises("user")

PluginsDone ==
  /\ pc = "plugins" /\ entry = Len(config.plugins)
  /\ Goes("stage")
  /\ UNCHANGED pluginVars

\* What `marketplace add` leaves: whether the CLI takes another repository
\* under a name it has is its own affair.
AfterAdd(repo) ==
  {[registered EXCEPT ![Declared[repo]] = r] :
     r \in {repo, registered[Declared[repo]]} \ {None}}

Add ==
  /\ pc = "add"
  /\ Goes("list")
  /\ registered' \in AfterAdd(Entry.repo)
  /\ UNCHANGED <<entry, market, located, todo, resolved, paths, installed>>

\* The CLI cannot be found or started, is timed out, or says no.
CommandFails ==
  /\ pc \in {"add", "list", "update"} \/ (pc = "install" /\ todo # <<>>)
  /\ Raises("user")

-----------------------------------------------------------------------------
(* _discover_marketplace *)

Listed == {m \in Markets : registered[m] # None}

\* Mutant of Matching: the first marketplace listed is taken.
MatchingFirst(m) == TRUE

Matching(m) == registered[m] = Entry.repo

Discovered(m, found) ==
  /\ Goes(IF Entry.version = "latest" THEN "update" ELSE "names")
  /\ market' = m /\ located' = found
  /\ UNCHANGED <<entry, todo, resolved, paths, registered, installed>>

\* The CLI may list a marketplace without its installLocation or path.
Discover ==
  /\ pc = "list"
  /\ \E m \in Listed, found \in BOOLEAN : Matching(m) /\ Discovered(m, found)

\* The repository is listed in a form _source_repo does not reduce to the
\* source's: the only marketplace there is must be the one just added.
DiscoverOnly ==
  /\ pc = "list"
  /\ \E m \in Listed, found \in BOOLEAN : Listed = {m} /\ Discovered(m, found)

\* So is one of several, or the list is no use: the name is guessed.
DiscoverByName ==
  /\ pc = "list"
  /\ Discovered(Guess[Entry.repo], FALSE)

\* The list is JSON of a kind that was not expected.
DiscoverRaises == pc = "list" /\ Raises("crash")

Update ==
  /\ pc = "update"
  /\ Goes("names")
  /\ UNCHANGED pluginVars

-----------------------------------------------------------------------------
(* _resolve_plugin_names and the installs *)

\* _declared_plugin_names
DeclaredPlugins == IF located THEN Plugins[registered[market]] ELSE <<>>

NamesFor(e) == IF e.names # <<>> THEN e.names ELSE DeclaredPlugins

ResolveNames ==
  /\ pc = "names" /\ NamesFor(Entry) # <<>>
  /\ Goes("install")
  /\ todo' = NamesFor(Entry)
  /\ UNCHANGED <<entry, market, located, resolved, paths, registered, installed>>

\* No plugin is declared, or marketplace.json cannot be read.
NothingToInstall ==
  /\ pc = "names" /\ Entry.names = <<>>
  /\ Raises("user")

\* The CLI installs what the marketplace has.
InstallPlugin ==
  /\ pc = "install" /\ todo # <<>>
  /\ registered[market] # None /\ Head(todo) \in Range(Plugins[registered[market]])
  /\ installed' = installed \cup {<<market, Head(todo), registered[market]>>}
  /\ resolved' = {r \in resolved : r[1] # market \/ r[2] # Head(todo)}
                   \cup {<<market, Head(todo), Entry.version>>}
  /\ todo' = Tail(todo)
  /\ UNCHANGED <<pc, raised, exit, config, entry, market, located, paths, registered>>

\* _cache_paths
EntryDone ==
  /\ pc = "install" /\ todo = <<>>
  /\ Goes("plugins")
  /\ paths' = Append(paths, <<IF located THEN "market" ELSE "cache", market>>)
  /\ UNCHANGED <<entry, market, located, todo, resolved, registered, installed>>

Next ==
  \/ NextEntry \/ UnknownSource \/ PluginsDone
  \/ Add \/ CommandFails
  \/ Discover \/ DiscoverOnly \/ DiscoverByName \/ DiscoverRaises \/ Update
  \/ ResolveNames \/ NothingToInstall \/ InstallPlugin \/ EntryDone

-----------------------------------------------------------------------------

Located(i) == paths[i][1] = "market"
OneNameEach ==
  \A i, j \in DOMAIN config.plugins :
    Declared[config.plugins[i].repo] = Declared[config.plugins[j].repo]
      => config.plugins[i].repo = config.plugins[j].repo

\* When prepare has returned, every entry is served: a marketplace path handed
\* to the SDK is that of the entry's own repository, and each plugin it asked
\* for, or that repository declares, was installed from it, although the name
\* is not the source's and others are registered (_prepare_entry, Findings 4
\* and 8 of its comments).  Left out: a marketplace that had to be guessed or is
\* listed without its place, and repositories that declare one name.  Nothing is in the transcript's list
\* that was not installed.
PluginsServed ==
  pc = "stage" =>
    /\ \A r \in resolved : \E p \in installed : p[1] = r[1] /\ p[2] = r[2]
    /\ OneNameEach => \A i \in DOMAIN config.plugins :
         LET e == config.plugins[i] IN
         Located(i) =>
           /\ registered[paths[i][2]] = e.repo
           /\ \A n \in Range(IF e.names # <<>> THEN e.names ELSE Plugins[e.repo]) :
                <<paths[i][2], n, e.repo>> \in installed
=============================================================================
