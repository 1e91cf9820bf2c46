------------------------------ MODULE Contract ------------------------------
(***************************************************************************)
(* The Intent Contract: derive_contract and sign_contract when the server  *)
(* is built (advocate/contract.py), and what decides about every request   *)
(* after it, the endpoint's mapping of the request to a capability, a      *)
(* destination, a repository and a branch (advocate/server.py), the        *)
(* signature check, check_action (advocate/gate.py) and, for GitHub, the   *)
(* path allowlist of the broker (advocate/brokers/github_broker.py).       *)
(*                                                                         *)
(* A path is the sequence of its segments, once percent-decoded, with a    *)
(* last segment Empty when it ends in a slash; validate rejects every      *)
(* other empty one.  Letter case is left out.  A branch, and a branch      *)
(* pattern, are sequences of segments too.  The contract is signed by the  *)
(* value itself: HMAC is taken to be injective.                            *)
(***************************************************************************)
EXTENDS Naturals, Sequences, SequencesExt

CONSTANTS
  Text,         \* path segments and names
  Configs,      \* configurations the component may be given
  Requests,     \* validated requests
  Altered(_)    \* contracts a signed one may be changed into afterwards

Empty == "(empty)"   \* the segment after a last slash
ASSUME TextAssumption ==
  {Empty, "repos", "api.github.com", "anthropic(via-proxy)", "https", "mcp-stdio", "contents",
   "git", "refs", "heads", "branches"} \subseteq Text

Methods == {"GET", "POST", "PUT", "PATCH", "DELETE"}

\* operates_on is a sequence of segments, <<>> when it is not set; a branch
\* pattern is one too, and servers maps MCP server names to types.
ASSUME ConfigsAssumption ==
  \A c \in Configs :
    /\ c.github \in BOOLEAN
    /\ c.repo \in Seq(Text)
    /\ c.branches \in Seq(Seq(Text))
    /\ DOMAIN c.servers \subseteq Text

\* What the three validators let through: heads says that the body's ref field
\* starts with refs/heads/, ref is what follows it there, if anything, and branch
\* is the body's branch field, <<>> without one.
ASSUME RequestsAssumption ==
  \A q \in Requests :
    \/ q = [broker |-> "anthropic"]
    \/ q \in [broker : {"mcp"}, name : Text]
    \/ /\ q \in [broker : {"github"}, method : Methods, path : Seq(Text),
                 heads : BOOLEAN, ref : Seq(Text), branch : Seq(Text)]
       /\ \A i \in 1..Len(q.path) - 1 : q.path[i] # Empty

VARIABLES
  cfg,          \* the configuration this invocation runs under
  contract,     \* envelope["contract"]
  signed,       \* what envelope["signature"] was computed from
  request,      \* the last request, or NoRequest
  verdict       \* what became of it

vars == <<cfg, contract, signed, request, verdict>>

-----------------------------------------------------------------------------
(* derive_contract *)

Default == << <<"agent", "*">> >>

GitHubCaps == {"gh.read", "gh.write_branch", "gh.open_pr", "gh.comment"}
McpCap(name) == "mcp." \o name

\* What _github_capability answers is no MCP server's capability, nor the model
\* channel's: their prefixes differ.
Elevated == {"gh.merge", "gh.delete", "gh.admin"}
ASSUME CapabilitiesAssumption ==
  \A c \in Configs : \A n \in DOMAIN c.servers : McpCap(n) \notin GitHubCaps \cup Elevated

Anthropic == [kind |-> "opaque", path |-> <<"anthropic(via-proxy)">>]
Url(name) == [kind |-> "opaque", path |-> <<"https", name>>]
Local(name) == [kind |-> "path", path |-> <<"mcp-stdio", name>>]
GitHub(path) == [kind |-> "path", path |-> <<"api.github.com">> \o path]

\* cfg.servers maps the name of each configured MCP server to its type.
Names(c) == DOMAIN c.servers
Remote(c) == {n \in Names(c) : c.servers[n] # "stdio"}

\* Mutant of Derive: one more GitHub capability than the documents list.
DeriveWithMerge(c) ==
  [capabilities |-> {"anthropic"} \cup (IF c.github THEN GitHubCaps \cup {"gh.merge"} ELSE {})
                      \cup {McpCap(n) : n \in Names(c)},
   destinations |-> {Anthropic} \cup (IF c.github THEN {GitHub(<<"repos">> \o c.repo)} ELSE {})
                      \cup {Url(n) : n \in Remote(c)},
   repos |-> IF c.repo = <<>> THEN {} ELSE {c.repo},
   branches |-> IF c.branches = <<>> THEN Default ELSE c.branches]

\* Mutant of Derive: the branch patterns are left out of the contract.
DeriveNoBranches(c) ==
  LET github == c.github /\ c.repo # <<>> IN
  [capabilities |-> {"anthropic"} \cup (IF github THEN GitHubCaps ELSE {})
                      \cup {McpCap(n) : n \in Names(c)},
   destinations |-> {Anthropic} \cup (IF github THEN {GitHub(<<"repos">> \o c.repo)} ELSE {})
                      \cup {Url(n) : n \in Remote(c)},
   repos |-> IF c.repo = <<>> THEN {} ELSE {c.repo}]

\* GitHub is granted only with a repository, and for that repository alone; a
\* stdio server gets a capability and no destination.
Derive(c) ==
  LET github == c.github /\ c.repo # <<>> IN
  [capabilities |-> {"anthropic"} \cup (IF github THEN GitHubCaps ELSE {})
                      \cup {McpCap(n) : n \in Names(c)},
   destinations |-> {Anthropic} \cup (IF github THEN {GitHub(<<"repos">> \o c.repo)} ELSE {})
                      \cup {Url(n) : n \in Remote(c)},
   repos |-> IF c.repo = <<>> THEN {} ELSE {c.repo},
   branches |-> IF c.branches = <<>> THEN Default ELSE c.branches]

\* _github_enabled_needs_scoped_repo: what Configuration lets through.
ValidConfig(c) == c.github => Len(c.repo) = 2 /\ Empty \notin {c.repo[1], c.repo[2]}

\* An envelope is a dict with the fields derive_contract gave it, whatever
\* becomes of their values.
Fields == {"capabilities", "destinations", "repos", "branches"}
ASSUME AlteredAssumption ==
  \A c \in Configs : \A d \in Altered(Derive(c)) : DOMAIN d = DOMAIN Derive(c)

-----------------------------------------------------------------------------
(* What a GitHub request is: _github_capability, _github_repo_from_path,    *)
(* _github_write_branch                                                     *)

Trim(path) == IF path # <<>> /\ Last(path) = Empty THEN Front(path) ELSE path

EndsIn(path, segments) == path # <<>> /\ Last(path) \in segments

AdminWrite(method, path) ==
  \/ method = "PATCH" /\ Len(path) = 3 /\ path[1] = "repos"
  \/ /\ EndsIn(path, {"protection"})
     /\ \E i \in 1..Len(path) - 1 : path[i] = "branches"

\* Mutant of Capability: the classifier reads the path with its last slash.
CapabilityUntrimmed(method, rawPath) ==
  CASE method = "GET" -> "gh.read"
    [] method = "DELETE" -> "gh.delete"
    [] method \in {"PUT", "POST"} /\ EndsIn(rawPath, {"merge", "merges"}) -> "gh.merge"
    [] OTHER ->
         CASE AdminWrite(method, rawPath) -> "gh.admin"
           [] method = "POST" /\ EndsIn(rawPath, {"pulls"}) -> "gh.open_pr"
           [] method = "POST" /\ EndsIn(rawPath, {"comments"}) -> "gh.comment"
           [] OTHER -> "gh.write_branch"

\* _github_capability
Capability(method, rawPath) ==
  LET path == Trim(rawPath) IN
  CASE method = "GET" -> "gh.read"
    [] method = "DELETE" -> "gh.delete"
    [] method \in {"PUT", "POST"} /\ EndsIn(path, {"merge", "merges"}) -> "gh.merge"
    [] OTHER ->
         CASE AdminWrite(method, path) -> "gh.admin"
           [] method = "POST" /\ EndsIn(path, {"pulls"}) -> "gh.open_pr"
           [] method = "POST" /\ EndsIn(path, {"comments"}) -> "gh.comment"
           [] OTHER -> "gh.write_branch"

NoRepo == <<>>
RepoOf(rawPath) ==
  LET path == Trim(rawPath) IN
  IF Len(path) >= 3 /\ path[1] = "repos" THEN <<path[2], path[3]>> ELSE NoRepo

NoBranch == <<>>
DefaultBranch == <<"(default)">>
RefHeads == <<"git", "refs", "heads">>

\* Mutant of WriteBranch: a contents write without a branch has none.
WriteBranchOrNone(q) ==
  LET path == Trim(q.path)
      at == {i \in 1..Len(path) - 3 : SubSeq(path, i, i + 2) = RefHeads} IN
  IF q.method = "GET" THEN NoBranch
  ELSE IF at # {} THEN LET i == CHOOSE j \in at : \A k \in at : j <= k
                       IN SubSeq(path, i + 3, Len(path))
  ELSE IF q.heads THEN q.ref
  ELSE q.branch

\* The branch of a path .../git/refs/heads/<branch>, or else what follows
\* refs/heads/ in the body's ref field, which is no branch when nothing does, or
\* else the body's branch field, or else the default branch for a write to the
\* contents API.
WriteBranch(q) ==
  LET path == Trim(q.path)
      at == {i \in 1..Len(path) - 3 : SubSeq(path, i, i + 2) = RefHeads} IN
  IF q.method = "GET" THEN NoBranch
  ELSE IF at # {} THEN LET i == CHOOSE j \in at : \A k \in at : j <= k
                       IN SubSeq(path, i + 3, Len(path))
  ELSE IF q.heads THEN q.ref
  ELSE IF q.branch # NoBranch THEN q.branch
  ELSE IF \E i \in 1..Len(path) : path[i] = "contents" THEN DefaultBranch
  ELSE NoBranch

-----------------------------------------------------------------------------
(* check_action and the GitHub broker's allowlist *)

\* Mutant of DestMatches: destinations are compared as they are spelt.
DestEqual(requested, allowed) == requested = allowed

\* _dest_matches: equal up to a trailing slash, or below an allowed path.
DestMatches(requested, allowed) ==
  LET r == Trim(requested.path)
      a == Trim(allowed.path) IN
  \/ r = a
  \/ allowed.kind = "path" /\ IsStrictPrefix(a, r)

DestinationAllowed(requested, allowed) == \E a \in allowed : DestMatches(requested, a)

\* fnmatch: "*" stands for any text, slashes included.
Matches(branch, pattern) ==
  \/ branch = pattern
  \/ /\ EndsIn(pattern, {"*"})
     /\ IsStrictPrefix(Front(pattern), branch)

BranchAllowed(branch, patterns) ==
  \E i \in DOMAIN patterns : Matches(branch, patterns[i])

CheckAction(c, capability, destination, repo, branch) ==
  CASE capability \notin c.capabilities -> "capability"
    [] capability \in c.capabilities /\ ~DestinationAllowed(destination, c.destinations)
         -> "destination"
    [] OTHER ->
         IF repo # NoRepo /\ c.repos # {} /\ repo \notin c.repos THEN "scope"
         ELSE IF branch # NoBranch /\ ~BranchAllowed(branch, c.branches) THEN "branch"
         ELSE "allow"

\* Mutant of Gate: the signature is not verified.
GateUnverified(capability, destination, repo, branch) ==
  CheckAction(contract, capability, destination, repo, branch)

\* _check_gate: the signature is verified before anything is looked up.
Gate(capability, destination, repo, branch) ==
  IF contract # signed THEN "contract"
  ELSE CheckAction(contract, capability, destination, repo, branch)

\* Mutant of PathAllowed: only the repository itself, nothing below it.
PathEqual(path) == cfg.github /\ Trim(path) = <<"repos">> \o cfg.repo

\* _path_allowed, over the one path _run_with_broker gives the server.
PathAllowed(path) ==
  /\ cfg.github
  /\ IsPrefix(<<"repos">> \o cfg.repo, Trim(path))

Decide(q) ==
  CASE q.broker = "anthropic" -> Gate("anthropic", Anthropic, NoRepo, NoBranch)
    [] q.broker = "mcp" ->
         Gate(McpCap(q.name), IF q.name \in Remote(cfg) THEN Url(q.name) ELSE Local(q.name),
              NoRepo, NoBranch)
    [] q.broker = "github" ->
         LET gate == Gate(Capability(q.method, q.path), GitHub(q.path),
                          RepoOf(q.path), WriteBranch(q)) IN
         IF gate = "allow" /\ ~PathAllowed(q.path) THEN "allowlist" ELSE gate

-----------------------------------------------------------------------------

NoRequest == [broker |-> "none"]

\* _run_with_broker derives and signs, and builds the server with the envelope.
Init ==
  /\ cfg \in {c \in Configs : ValidConfig(c)}
  /\ contract = Derive(cfg)
  /\ signed = contract
  /\ request = NoRequest
  /\ verdict = "none"

\* One request at a time: the handler decides, then takes the next.
Serve(q) ==
  /\ request = NoRequest
  /\ request' = q
  /\ verdict' = Decide(q)
  /\ UNCHANGED <<cfg, contract, signed>>

Responded ==
  /\ request # NoRequest
  /\ request' = NoRequest /\ verdict' = "none"
  /\ UNCHANGED <<cfg, contract, signed>>

\* The envelope is a plain dict: a slip may change the contract in it.
Alter ==
  /\ request = NoRequest
  /\ contract = signed
  /\ contract' \in Altered(contract)
  /\ UNCHANGED <<cfg, signed, request, verdict>>

Next == (\E q \in Requests : Serve(q)) \/ Responded \/ Alter

Spec == Init /\ [][Next]_vars

-----------------------------------------------------------------------------
(* Properties *)

Checks == {"none", "allow", "contract", "capability", "destination", "scope", "branch", "allowlist"}

TypeOK ==
  /\ cfg \in Configs
  /\ \A part \in {contract, signed} : DOMAIN part = Fields
  /\ request \in Requests \cup {NoRequest}
  /\ verdict \in Checks

Admitted == verdict = "allow"

\* A request is admitted only under the contract that was derived from this
\* invocation's configuration (verify_contract before check_action).
OnlyTheDerivedContract == Admitted => contract = Derive(cfg)

\* What of a path lies below /repos/<owner>/<repo>.
Below(path) == SubSeq(path, 4, Len(path))

\* What is admitted to GitHub stays in the repository the configuration names,
\* does not DELETE, does not PUT or POST to .../merge or .../merges, does not
\* write to a .../branches/.../protection itself, and does not PATCH the
\* repository itself (derive_contract, _github_capability, check_action).  Other
\* writes are ordinary ones to the classifier, those below .../protection and to
\* other settings endpoints included.
AdmittedStaysInScope ==
  Admitted /\ request.broker = "github" =>
    LET path == Trim(request.path) IN
    /\ IsPrefix(<<"repos">> \o cfg.repo, path)
    /\ request.method # "DELETE"
    /\ request.method \in {"PUT", "POST"} => ~EndsIn(path, {"merge", "merges"})
    /\ request.method # "GET" =>
         ~(IsStrictPrefix(<<"branches">>, Below(path)) /\ EndsIn(path, {"protection"}))
    /\ request.method = "PATCH" => path # <<"repos">> \o cfg.repo

\* The three shapes of branch write _github_write_branch documents, and the
\* branch each goes to.
UpdatesRef(q, branch) ==
  /\ q.method = "PATCH"
  /\ IsStrictPrefix(RefHeads, Below(Trim(q.path)))
  /\ branch = SubSeq(Trim(q.path), 7, Len(Trim(q.path)))
CreatesRef(q, branch) ==
  /\ q.method = "POST"
  /\ Below(Trim(q.path)) = <<"git", "refs">>
  /\ q.heads /\ branch = q.ref
Commits(q, branch) ==
  /\ q.method = "PUT"
  /\ IsPrefix(<<"contents">>, Below(Trim(q.path)))
  /\ branch = IF q.branch = NoBranch THEN DefaultBranch ELSE q.branch

\* A commit names its branch in the branch field alone: not in a ref field that
\* starts with refs/heads/, and the file it writes has no path that reads like a
\* ref.  Of the others _github_write_branch reads the branch elsewhere than
\* GitHub does; CommitsStayOnBranches has them.
BranchFieldOnly(q) ==
  LET path == Trim(q.path) IN
  /\ ~q.heads
  /\ \A i \in 1..Len(path) - 3 : SubSeq(path, i, i + 2) # RefHeads

\* An admitted ref update, new ref, or commit of that kind goes to a branch the
\* configured patterns cover, and one that names no branch goes to the default
\* branch only if they cover every branch (_github_write_branch, check_action).
Moves(q, branch) ==
  \/ UpdatesRef(q, branch)
  \/ CreatesRef(q, branch)
  \/ Commits(q, branch) /\ BranchFieldOnly(q)
Named(q) == {q.ref, q.branch, DefaultBranch, SubSeq(Trim(q.path), 7, Len(Trim(q.path)))}
WritesStayOnBranches ==
  Admitted /\ request.broker = "github" =>
    \A b \in Named(request) \ {NoBranch} :
      Moves(request, b) => BranchAllowed(b, Derive(cfg).branches)

\* What the documents say of writes: no commit to a branch the patterns do not
\* cover, nor to the default branch unless they cover every branch, whatever
\* else the body and the path say.
CommitsStayOnBranches ==
  Admitted /\ request.broker = "github" =>
    \A b \in Named(request) \ {NoBranch} :
      Commits(request, b) => BranchAllowed(b, Derive(cfg).branches)

\* A trailing slash never changes the decision: the classifier, the gate and
\* the allowlist, which normalise paths separately, agree.
WithSlash(q) == [q EXCEPT !.path = Trim(@) \o <<Empty>>]
WithoutSlash(q) == [q EXCEPT !.path = Trim(@)]
SpellingIrrelevant ==
  request.broker = "github" => Decide(WithSlash(request)) = Decide(WithoutSlash(request))

\* The gate and the GitHub broker's own allowlist, two copies of the same
\* matching, never disagree on a request the gate admits.
GateAndAllowlistAgree == verdict # "allowlist"

\* A comment as GitHub takes it names no branch, neither in its body nor by a
\* path that reads like a contents or ref path.
NamesNoBranch(q) ==
  /\ ~q.heads /\ q.branch = NoBranch
  /\ \A i \in 1..Len(q.path) : q.path[i] \notin {"contents", "heads"}

\* What the configuration declares is usable: model calls, every remote MCP
\* server, and reads and comments anywhere in the repository.
Declared(q) ==
  \/ q.broker = "anthropic"
  \/ q.broker = "mcp" /\ q.name \in Remote(cfg)
  \/ /\ q.broker = "github"
     /\ cfg.github
     /\ IsPrefix(<<"repos">> \o cfg.repo, q.path)
     /\ \/ q.method = "GET"
        \/ q.method = "POST" /\ EndsIn(q.path, {"comments"}) /\ NamesNoBranch(q)
DeclaredIsUsable == contract = signed /\ Declared(request) => Admitted

\* What the documents say of MCP: the proxy serves the configured servers,
\* whatever their type.
ServersServed ==
  contract = signed /\ request.broker = "mcp" /\ request.name \in Names(cfg) => Admitted
=============================================================================
