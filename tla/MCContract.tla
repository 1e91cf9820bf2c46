----------------------------- MODULE MCContract -----------------------------
(* Configurations with and without GitHub, with a remote and a local MCP       *)
(* server and with several branch patterns; every request shape the code       *)
(* distinguishes, for the configured repository, one whose name extends it,    *)
(* and no repository.  A body names a branch, a ref, both or neither, its ref  *)
(* may end at refs/heads/, and one of the files has a path that reads like a   *)
(* ref.  Of the settings endpoints one is known to the classifier, two are not. *)
EXTENDS Contract, FiniteSets

MCText == STRING

Repo == <<"org", "repo">>
Sibling == <<"org", "repo-b">>
Servers == [remote |-> "http", local |-> "stdio"]
NoServers == [n \in {} |-> "stdio"]

MCConfigs ==
  [github : BOOLEAN, repo : {Repo, <<>>}, servers : {Servers, NoServers},
   branches : {<<>>, << <<"main">>, <<"agent", "*">> >>, << <<"*">> >>}]

Resources ==
  { <<>>, <<"pulls">>, <<"pulls", "1", "merge">>, <<"merges">>, <<"issues", "1", "comments">>,
    <<"branches", "main", "protection">>, <<"branches", "main", "protection", "enforce_admins">>,
    <<"rulesets">>, <<"contents", "f">>,
    <<"contents", "git", "refs", "heads", "main">>, <<"git", "refs">>,
    <<"git", "refs", "heads", "main">>, <<"git", "refs", "heads", "agent", "fix">> }

Paths ==
  LET plain == {<<"user">>, <<"repos", "org">>}
                 \cup {<<"repos">> \o r \o b : r \in {Repo, Sibling}, b \in Resources} IN
  plain \cup {p \o <<Empty>> : p \in plain}

Branches == {NoBranch, <<"main">>, <<"agent", "fix">>}

Refs == {<<FALSE, NoBranch>>} \cup {<<TRUE, b>> : b \in Branches}

Bodies(method) ==
  IF method = "GET" THEN {<< <<FALSE, NoBranch>>, NoBranch>>} ELSE Refs \X Branches

GitHubRequests ==
  UNION {{[broker |-> "github", method |-> m, path |-> p,
           heads |-> b[1][1], ref |-> b[1][2], branch |-> b[2]] : b \in Bodies(m)} :
         m \in {"GET", "POST", "PUT", "PATCH", "DELETE"}, p \in Paths}

MCRequests ==
  {[broker |-> "anthropic"]}
    \cup [broker : {"mcp"}, name : {"remote", "local", "unknown"}]
    \cup GitHubRequests

MCAltered(c) == {[c EXCEPT !.capabilities = @ \cup {"gh.merge"}], [c EXCEPT !.repos = {}]}
=============================================================================
