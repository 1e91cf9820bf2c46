----------------------------- MODULE MCStartup -----------------------------
(* Hosts with and without each guard, tokens of no, one and two reads, and    *)
(* configurations that take each path through the SDK, the plugins and the    *)
(* input tables.                                                              *)
EXTENDS Startup

Host(prctl, scope, override) == [prctl |-> prctl, scope |-> scope, override |-> override]
MCHosts ==
  {Host("works", 0, FALSE), Host("refused", 0, FALSE), Host("refused", 0, TRUE),
   Host("refused", 1, FALSE), Host("ignored", None, FALSE), Host("ignored", 0, FALSE)}

\* main and twin declare one name; the last part of other's source is the name
\* that main declares; bare declares no plugin.
MCRepos == {"main", "other", "twin", "bare"}
MCDeclared ==
  [r \in MCRepos |-> IF r = "twin" THEN "main-dev" ELSE IF r = "main" THEN "main-dev" ELSE r]
MCGuess == [r \in MCRepos |-> IF r = "other" THEN "main-dev" ELSE r]
MCPlugins ==
  [r \in MCRepos |-> IF r = "main" THEN <<"lint", "test">> ELSE IF r = "bare" THEN <<>> ELSE <<"lint">>]

Row(id, prompt, budget) == [id |-> id, prompt |-> prompt, budget |-> budget]
Table(name, rows) == [name |-> name, rows |-> rows]
Entry(repo, version, names) == [repo |-> repo, version |-> version, names |-> names]

One == Row("t1", TRUE, 3)
Two == Row("t2", TRUE, None)
Three == Row("t3", TRUE, NaN)
AllRows == <<One, Two, Three>>

Plain ==
  [sdk |-> "pinned", onFailure |-> "fail", plugins |-> <<>>, filter |-> <<>>,
   prompt |-> FALSE, budget |-> 2, inputs |-> <<Table("tasks", <<One, Two>>)>>]

SdkConfigs ==
  {[Plain EXCEPT !.sdk = s, !.onFailure = f] :
     s \in {"latest", "v2", "v9"}, f \in {"fail", "fallback_pinned"}}

PluginConfigs ==
  {[Plain EXCEPT !.sdk = "latest", !.onFailure = "fallback_pinned", !.plugins = p] :
     p \in {<<Entry("main", "latest", <<>>)>>,
            <<Entry("main", "pinned", <<"test">>), Entry("other", "latest", <<>>)>>,
            <<Entry("other", "pinned", <<"lint">>), Entry("main", "pinned", <<>>)>>,
            <<Entry("main", "pinned", <<"lint">>), Entry("twin", "pinned", <<>>)>>,
            <<Entry("main", "pinned", <<"lint">>), Entry("main", "latest", <<"lint">>)>>,
            <<Entry("bare", "pinned", <<>>)>>,
            <<Entry("main", "latest", <<"ghost">>), Entry(None, "latest", <<>>)>>}}

TaskConfigs ==
  {[Plain EXCEPT !.inputs = i] :
     i \in {<<>>, <<Table("a", AllRows)>>, <<Table("a", AllRows), Table("b", AllRows)>>,
            <<Table("a", <<>>), Table("tasks", AllRows)>>, <<Table("tasks", None)>>,
            <<Table("tasks", <<>>)>>, <<Table("tasks", <<One, One>>)>>,
            <<Table("tasks", <<One, Row(None, TRUE, 1)>>)>>,
            <<Table("tasks", <<One, Row("t2", FALSE, 1)>>)>>,
            <<Table("tasks", <<One, Row("t2", TRUE, Bad)>>)>>}}
    \cup {[Plain EXCEPT !.inputs = <<>>, !.prompt = TRUE, !.filter = <<"t1">>]}
    \cup {[Plain EXCEPT !.inputs = <<Table("tasks", <<Three, One, Two>>)>>, !.filter = f, !.budget = b] :
            f \in {<<None>>, <<"t1", None, "t3">>, <<"t2", "t9">>, <<"t9">>}, b \in {2, NaN}}

MCConfigs == SdkConfigs \cup PluginConfigs \cup TaskConfigs
=============================================================================
