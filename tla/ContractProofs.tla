--------------------------- MODULE ContractProofs ---------------------------
(***************************************************************************)
(* Theorems about Contract, for any configurations and requests.           *)
(***************************************************************************)
EXTENDS Contract, SequenceTheorems, TLAPS

-----------------------------------------------------------------------------
(* Paths with and without their last slash *)

\* Segments a request's path may have.
Clean(p) == p \in Seq(Text) /\ \A i \in 1..Len(p) - 1 : p[i] # Empty

\* Trim takes off a last empty segment and no other.
LEMMA TrimProperties ==
  ASSUME NEW p \in Seq(Text)
  PROVE  /\ Trim(p) \in Seq(Text)
         /\ Len(Trim(p)) = IF Len(p) > 0 /\ p[Len(p)] = Empty THEN Len(p) - 1 ELSE Len(p)
         /\ \A i \in 1..Len(Trim(p)) : Trim(p)[i] = p[i]
<1>1. CASE p # <<>> /\ p[Len(p)] = Empty
  <2>1. Len(p) \in Nat /\ Len(p) > 0
    BY <1>1
  <2>2. Trim(p) = SubSeq(p, 1, Len(p) - 1)
    BY <1>1 DEF Trim, Last, Front
  <2>. DEFINE n == Len(p) - 1
  <2>3. n \in Int /\ n \in Nat /\ 1 \in Int /\ \A i \in 1..n : p[i] \in Text
    BY <2>1, ElementOfSeq
  <2>. HIDE DEF n
  <2>4. /\ SubSeq(p, 1, n) \in Seq(Text)
        /\ Len(SubSeq(p, 1, n)) = IF 1 <= n THEN n - 1 + 1 ELSE 0
        /\ \A i \in 1..n - 1 + 1 : SubSeq(p, 1, n)[i] = p[1 + i - 1]
    BY <2>3, SubSeqProperties
  <2>5. /\ Len(SubSeq(p, 1, n)) = n
        /\ \A i \in 1..n : SubSeq(p, 1, n)[i] = p[i]
    BY <2>3, <2>4
  <2>. QED BY <1>1, <2>1, <2>2, <2>4, <2>5 DEF n
<1>2. CASE ~(p # <<>> /\ p[Len(p)] = Empty)
  <2>1. Trim(p) = p
    BY <1>2 DEF Trim, Last
  <2>. QED BY <1>2, <2>1
<1>. QED BY <1>1, <1>2

\* A sequence with one more element at its end, or at its start.
LEMMA OneMore ==
  ASSUME NEW p \in Seq(Text), NEW h \in Text
  PROVE  /\ p \o <<h>> \in Seq(Text) /\ <<h>> \o p \in Seq(Text)
         /\ Len(p) \in Nat /\ Len(p \o <<h>>) = Len(p) + 1 /\ Len(<<h>> \o p) = Len(p) + 1
         /\ (p \o <<h>>)[Len(p) + 1] = h /\ (<<h>> \o p)[1] = h
         /\ \A i \in 1..Len(p) : (p \o <<h>>)[i] = p[i] /\ (<<h>> \o p)[i + 1] = p[i]
  OBVIOUS

LEMMA EmptyType == Empty \in Text
  BY TextAssumption

\* Trimming a trimmed path changes nothing, nor does adding the slash again.
LEMMA TrimAgain ==
  ASSUME NEW p, Clean(p)
  PROVE  /\ Trim(p) \in Seq(Text)
         /\ Trim(Trim(p)) = Trim(p)
         /\ Trim(p) \o <<Empty>> \in Seq(Text)
         /\ Trim(Trim(p) \o <<Empty>>) = Trim(p)
<1>. DEFINE t == Trim(p)
            u == t \o <<Empty>>
<1>1. /\ p \in Seq(Text) /\ t \in Seq(Text) /\ Len(p) \in Nat /\ Len(t) \in Nat
      /\ Len(t) = IF Len(p) > 0 /\ p[Len(p)] = Empty THEN Len(p) - 1 ELSE Len(p)
      /\ \A i \in 1..Len(t) : t[i] = p[i]
  BY TrimProperties DEF Clean
<1>2. \A i \in 1..Len(t) : t[i] # Empty
  BY <1>1 DEF Clean
<1>3. Trim(t) = t
  BY <1>1, <1>2 DEF Trim, Last
<1>4. /\ u \in Seq(Text)
      /\ Len(u) = Len(t) + 1
      /\ u[Len(t) + 1] = Empty
      /\ \A i \in 1..Len(t) : u[i] = t[i]
  BY <1>1, EmptyType, OneMore
<1>. HIDE DEF t, u
<1>5. /\ Trim(u) \in Seq(Text)
      /\ Len(Trim(u)) = IF Len(u) > 0 /\ u[Len(u)] = Empty THEN Len(u) - 1 ELSE Len(u)
      /\ \A i \in 1..Len(Trim(u)) : Trim(u)[i] = u[i]
  BY <1>4, TrimProperties
<1>6. Len(t) \in Nat /\ Len(Trim(u)) = Len(t)
  BY <1>1, <1>4, <1>5 DEF t
<1>7. Trim(u) = t
  BY <1>1, <1>4, <1>5, <1>6, SeqEqual DEF t
<1>. QED BY <1>1, <1>3, <1>4, <1>7 DEF t, u

\* A host in front of a path is not part of what is trimmed.
LEMMA TrimBehind ==
  ASSUME NEW p \in Seq(Text), NEW h \in Text, h # Empty
  PROVE  Trim(<<h>> \o p) = <<h>> \o Trim(p)
<1>. DEFINE q == <<h>> \o p
            u == <<h>> \o Trim(p)
<1>1. /\ q \in Seq(Text) /\ Len(p) \in Nat /\ Len(q) = Len(p) + 1 /\ q[1] = h
      /\ \A i \in 1..Len(p) : q[i + 1] = p[i]
  BY OneMore
<1>2. /\ Trim(p) \in Seq(Text)
      /\ Len(Trim(p)) = IF Len(p) > 0 /\ p[Len(p)] = Empty THEN Len(p) - 1 ELSE Len(p)
      /\ \A i \in 1..Len(Trim(p)) : Trim(p)[i] = p[i]
  BY TrimProperties
<1>3. /\ u \in Seq(Text) /\ Len(Trim(p)) \in Nat /\ Len(u) = Len(Trim(p)) + 1 /\ u[1] = h
      /\ \A i \in 1..Len(Trim(p)) : u[i + 1] = Trim(p)[i]
  BY <1>2, OneMore
<1>. HIDE DEF q, u
<1>4. /\ Trim(q) \in Seq(Text)
      /\ Len(Trim(q)) = IF Len(q) > 0 /\ q[Len(q)] = Empty THEN Len(q) - 1 ELSE Len(q)
      /\ \A i \in 1..Len(Trim(q)) : Trim(q)[i] = q[i]
  BY <1>1, TrimProperties
<1>5. q[Len(q)] = IF Len(p) = 0 THEN h ELSE p[Len(p)]
  BY <1>1
<1>6. Len(Trim(q)) = Len(u)
  BY <1>1, <1>2, <1>3, <1>4, <1>5
<1>7. ASSUME NEW i \in 1..Len(u) PROVE Trim(q)[i] = u[i]
  <2>1. Trim(q)[i] = q[i]
    BY <1>4, <1>6
  <2>2. CASE i = 1
    BY <1>1, <1>3, <2>1, <2>2
  <2>3. CASE i # 1
    <3>1. i - 1 \in 1..Len(Trim(p)) /\ i - 1 \in 1..Len(p) /\ (i - 1) + 1 = i
      BY <1>1, <1>2, <1>3, <2>3
    <3>. QED BY <1>1, <1>2, <1>3, <2>1, <3>1
  <2>. QED BY <2>2, <2>3
<1>8. Trim(q) = u
  BY <1>3, <1>4, <1>6, <1>7, SeqEqual
<1>. QED BY <1>8 DEF q, u

\* IsPrefix element by element, and with the same host in front of both.
LEMMA PrefixElements ==
  ASSUME NEW s \in Seq(Text), NEW t \in Seq(Text)
  PROVE  IsPrefix(s, t) <=> Len(s) <= Len(t) /\ \A i \in 1..Len(s) : s[i] = t[i]
<1>1. Len(s) \in Nat /\ Len(t) \in Nat /\ SubSeq(s, 1, Len(s)) = s
  BY SubSeqFull
<1>2. ASSUME Len(s) <= Len(t)
      PROVE  SubSeq(t, 1, Len(s)) = s <=> \A i \in 1..Len(s) : s[i] = t[i]
  <2>1. \A i \in 1..Len(s) : t[i] \in Text
    BY <1>1, <1>2, ElementOfSeq
  <2>2. /\ SubSeq(t, 1, Len(s)) \in Seq(Text)
        /\ Len(SubSeq(t, 1, Len(s))) = Len(s)
        /\ \A i \in 1..Len(s) : SubSeq(t, 1, Len(s))[i] = t[i]
    BY <1>1, <2>1, SubSeqProperties
  <2>. QED BY <2>2, SeqEqual
<1>. QED BY <1>1, <1>2 DEF IsPrefix

LEMMA PrefixBehind ==
  ASSUME NEW s \in Seq(Text), NEW t \in Seq(Text), NEW h \in Text
  PROVE  IsPrefix(<<h>> \o s, <<h>> \o t) <=> IsPrefix(s, t)
<1>. DEFINE a == <<h>> \o s
            b == <<h>> \o t
<1>1. /\ a \in Seq(Text) /\ b \in Seq(Text) /\ a[1] = h /\ b[1] = h
      /\ Len(s) \in Nat /\ Len(t) \in Nat /\ Len(a) = Len(s) + 1 /\ Len(b) = Len(t) + 1
      /\ \A i \in 1..Len(s) : a[i + 1] = s[i]
      /\ \A i \in 1..Len(t) : b[i + 1] = t[i]
  BY OneMore
<1>. HIDE DEF a, b
<1>2. ASSUME Len(s) <= Len(t), \A i \in 1..Len(s) : s[i] = t[i], NEW i \in 1..Len(a)
      PROVE  a[i] = b[i]
  <2>1. CASE i = 1
    BY <1>1, <2>1
  <2>2. CASE i # 1
    <3>1. i - 1 \in 1..Len(s) /\ i - 1 \in 1..Len(t) /\ (i - 1) + 1 = i
      BY <1>1, <1>2, <2>2
    <3>. QED BY <1>1, <1>2, <3>1
  <2>. QED BY <2>1, <2>2
<1>3. ASSUME Len(a) <= Len(b), \A i \in 1..Len(a) : a[i] = b[i], NEW i \in 1..Len(s)
      PROVE  s[i] = t[i]
  <2>1. i + 1 \in 1..Len(a) /\ i \in 1..Len(t)
    BY <1>1, <1>3
  <2>. QED BY <1>1, <1>3, <2>1
<1>4. IsPrefix(a, b) <=> Len(a) <= Len(b) /\ \A i \in 1..Len(a) : a[i] = b[i]
  BY <1>1, PrefixElements
<1>5. IsPrefix(s, t) <=> Len(s) <= Len(t) /\ \A i \in 1..Len(s) : s[i] = t[i]
  BY PrefixElements
<1>6. IsPrefix(a, b) <=> IsPrefix(s, t)
  BY <1>1, <1>2, <1>3, <1>4, <1>5
<1>. QED BY <1>6 DEF a, b

\* What lies below the repository, element by element, and where the segments of
\* a ref stand.
LEMMA BelowElements ==
  ASSUME NEW p \in Seq(Text)
  PROVE  /\ Below(p) \in Seq(Text)
         /\ Len(Below(p)) = IF Len(p) > 3 THEN Len(p) - 3 ELSE 0
         /\ \A i \in 1..Len(Below(p)) : Below(p)[i] = p[i + 3]
<1>1. /\ Len(p) \in Int /\ Len(p) \in Nat /\ 4 \in Int
      /\ \A i \in 4..Len(p) : p[i] \in Text
  BY ElementOfSeq
<1>2. /\ Below(p) \in Seq(Text)
      /\ Len(Below(p)) = IF 4 <= Len(p) THEN Len(p) - 4 + 1 ELSE 0
      /\ \A i \in 1..Len(p) - 4 + 1 : Below(p)[i] = p[4 + i - 1]
  BY <1>1, SubSeqProperties DEF Below
<1>. QED BY <1>1, <1>2

LEMMA RefHeadsAt ==
  ASSUME NEW p \in Seq(Text), NEW i \in 1..Len(p) - 2
  PROVE  SubSeq(p, i, i + 2) = RefHeads <=>
           p[i] = "git" /\ p[i + 1] = "refs" /\ p[i + 2] = "heads"
<1>. DEFINE s == SubSeq(p, i, i + 2)
<1>1. /\ i \in Int /\ i + 2 \in Int /\ \A j \in i..i + 2 : p[j] \in Text
  BY ElementOfSeq
<1>2. /\ s \in Seq(Text)
      /\ Len(s) = IF i <= i + 2 THEN (i + 2) - i + 1 ELSE 0
      /\ \A j \in 1..(i + 2) - i + 1 : s[j] = p[i + j - 1]
  BY <1>1, SubSeqProperties
<1>. HIDE DEF s
<1>3. Len(s) = 3 /\ s[1] = p[i] /\ s[2] = p[i + 1] /\ s[3] = p[i + 2]
  BY <1>1, <1>2
<1>4. RefHeads \in Seq(Text) /\ Len(RefHeads) = 3
      /\ RefHeads[1] = "git" /\ RefHeads[2] = "refs" /\ RefHeads[3] = "heads"
  BY TextAssumption DEF RefHeads
<1>5. s = RefHeads <=> s[1] = "git" /\ s[2] = "refs" /\ s[3] = "heads"
  <2>1. CASE s[1] = "git" /\ s[2] = "refs" /\ s[3] = "heads"
    <3>1. \A j \in 1..3 : s[j] = RefHeads[j]
      BY <1>4, <2>1
    <3>. QED BY <1>2, <1>3, <1>4, <2>1, <3>1, SeqEqual
  <2>. QED BY <1>4, <2>1
<1>. QED BY <1>3, <1>5 DEF s

-----------------------------------------------------------------------------
(* Requests, grants and what the gate asks *)

\* The fields of a GitHub request.
LEMMA GitHubRequest ==
  ASSUME NEW q \in Requests, q.broker = "github"
  PROVE  /\ q \in [broker : {"github"}, method : Methods, path : Seq(Text),
                 heads : BOOLEAN, ref : Seq(Text), branch : Seq(Text)]
         /\ q.method \in Methods /\ Clean(q.path)
         /\ q.path \in Seq(Text) /\ q.ref \in Seq(Text) /\ q.branch \in Seq(Text)
<1>1. q # [broker |-> "anthropic"] /\ q \notin [broker : {"mcp"}, name : Text]
  OBVIOUS
<1>. QED BY <1>1, RequestsAssumption DEF Clean

LEMMA RequestKinds ==
  ASSUME NEW q \in Requests
  PROVE  q # NoRequest /\ q.broker \in {"anthropic", "mcp", "github"}
<1>1. CASE q = [broker |-> "anthropic"]
  BY <1>1 DEF NoRequest
<1>2. CASE q \in [broker : {"mcp"}, name : Text]
  BY <1>2 DEF NoRequest
<1>3. CASE q \in [broker : {"github"}, method : Methods, path : Seq(Text),
               heads : BOOLEAN, ref : Seq(Text), branch : Seq(Text)]
  BY <1>3 DEF NoRequest
<1>. QED BY <1>1, <1>2, <1>3, RequestsAssumption

\* A GitHub request needs a GitHub capability or one no contract grants.
LEMMA CapabilityType ==
  ASSUME NEW m, NEW p
  PROVE  Capability(m, p) \in GitHubCaps \cup Elevated
  BY DEF Capability, GitHubCaps, Elevated

\* What derive_contract grants of GitHub, and when.
LEMMA Granted ==
  ASSUME NEW c \in Configs, NEW cap \in GitHubCaps \cup Elevated
  PROVE  cap \in Derive(c).capabilities <=> c.github /\ c.repo # <<>> /\ cap \in GitHubCaps
<1>1. cap # "anthropic" /\ cap \notin {McpCap(n) : n \in Names(c)}
  BY CapabilitiesAssumption DEF GitHubCaps, Elevated, Names
<1>2. Derive(c).capabilities =
        {"anthropic"} \cup (IF c.github /\ c.repo # <<>> THEN GitHubCaps ELSE {})
          \cup {McpCap(n) : n \in Names(c)}
  BY DEF Derive
<1>. QED BY <1>1, <1>2

\* The gate admits what passes each of its checks, under the signed contract.
LEMMA GateAllows ==
  ASSUME NEW cap, NEW dest, NEW repo, NEW branch
  PROVE  Gate(cap, dest, repo, branch) = "allow" <=>
           /\ contract = signed
           /\ cap \in contract.capabilities
           /\ DestinationAllowed(dest, contract.destinations)
           /\ repo = NoRepo \/ contract.repos = {} \/ repo \in contract.repos
           /\ branch = NoBranch \/ BranchAllowed(branch, contract.branches)
  BY DEF Gate, CheckAction

\* The configured repository's path: three segments, none of them empty.
LEMMA RepoPath ==
  ASSUME NEW c \in Configs, ValidConfig(c), c.github
  PROVE  /\ <<"repos">> \o c.repo \in Seq(Text)
         /\ Len(<<"repos">> \o c.repo) = 3
         /\ (<<"repos">> \o c.repo)[1] = "repos"
         /\ (<<"repos">> \o c.repo)[2] = c.repo[1]
         /\ (<<"repos">> \o c.repo)[3] = c.repo[2]
         /\ Trim(<<"repos">> \o c.repo) = <<"repos">> \o c.repo
         /\ c.repo \in Seq(Text) /\ Len(c.repo) = 2 /\ c.repo # <<>>
<1>. DEFINE base == <<"repos">> \o c.repo
<1>1. c.repo \in Seq(Text) /\ Len(c.repo) = 2 /\ c.repo[2] # Empty /\ c.repo # <<>>
  BY ConfigsAssumption DEF ValidConfig
<1>2. /\ base \in Seq(Text) /\ Len(base) = 3 /\ base[1] = "repos"
      /\ \A i \in 1..2 : base[i + 1] = c.repo[i]
  <2>1. "repos" \in Text
    BY TextAssumption
  <2>2. /\ base \in Seq(Text)
        /\ Len(base) = Len(c.repo) + 1
        /\ base[1] = "repos"
        /\ \A i \in 1..Len(c.repo) : base[i + 1] = c.repo[i]
    <3>. DEFINE r == c.repo
    <3>1. r \in Seq(Text)
      BY <1>1
    <3>. HIDE DEF r
    <3>. QED BY <2>1, <3>1, OneMore DEF r
  <2>. HIDE DEF base
  <2>. QED BY <1>1, <2>2
<1>3. base[2] = c.repo[1] /\ base[3] = c.repo[2]
  BY <1>2
<1>. HIDE DEF base
<1>4. Trim(base) = base
  BY <1>1, <1>2, <1>3 DEF Trim, Last
<1>. QED BY <1>1, <1>2, <1>3, <1>4 DEF base

\* The destination check of a GitHub request is the broker's allowlist check: the
\* other destinations are opaque, so only the repository's can match.
LEMMA DestinationIsRepo ==
  ASSUME NEW c \in Configs, ValidConfig(c), c.github, NEW p \in Seq(Text)
  PROVE  DestinationAllowed(GitHub(p), Derive(c).destinations) <=>
           IsPrefix(<<"repos">> \o c.repo, Trim(p))
<1>. DEFINE base == <<"repos">> \o c.repo
            host == "api.github.com"
<1>1. /\ base \in Seq(Text) /\ Trim(base) = base /\ c.repo # <<>>
      /\ Trim(p) \in Seq(Text) /\ host \in Text /\ host # Empty
  BY RepoPath, TrimProperties, TextAssumption DEF Empty
<1>2. /\ Trim(GitHub(p).path) = <<host>> \o Trim(p)
      /\ Trim(GitHub(base).path) = <<host>> \o base
      /\ GitHub(base).kind = "path"
  BY <1>1, TrimBehind DEF GitHub
<1>3. DestMatches(GitHub(p), GitHub(base)) <=> IsPrefix(base, Trim(p))
  <2>1. IsPrefix(<<host>> \o base, <<host>> \o Trim(p)) <=> IsPrefix(base, Trim(p))
    BY <1>1, PrefixBehind
  <2>2. IsPrefix(<<host>> \o base, <<host>> \o base)
    BY <1>1, PrefixBehind DEF IsPrefix
  <2>. QED BY <1>2, <2>1, <2>2 DEF DestMatches, IsStrictPrefix
<1>4. (<<host>> \o Trim(p))[1] = host /\ Len(<<host>> \o Trim(p)) > 0
  BY <1>1, OneMore
<1>5. ASSUME NEW a, a.kind = "opaque", a.path \in Seq(Text), a.path # <<>>, a.path[1] # host,
             a.path[1] # Empty
      PROVE  ~DestMatches(GitHub(p), a)
  <2>1. Len(Trim(a.path)) = 0 \/ Trim(a.path)[1] = a.path[1]
    <3>. DEFINE t == a.path
    <3>1. t \in Seq(Text)
      BY <1>5
    <3>. HIDE DEF t
    <3>2. Len(Trim(t)) \in Nat /\ \A i \in 1..Len(Trim(t)) : Trim(t)[i] = t[i]
      BY <3>1, TrimProperties
    <3>3. Len(Trim(t)) = 0 \/ Trim(t)[1] = t[1]
      BY <3>2
    <3>. QED BY <3>3 DEF t
  <2>2. Trim(a.path) # <<host>> \o Trim(p)
    BY <1>4, <1>5, <2>1
  <2>. QED BY <1>2, <1>5, <2>2 DEF DestMatches
<1>6. ~DestMatches(GitHub(p), Anthropic)
  <2>1. /\ Anthropic.kind = "opaque" /\ Anthropic.path \in Seq(Text) /\ Anthropic.path # <<>>
        /\ Anthropic.path[1] # host /\ Anthropic.path[1] # Empty
    BY TextAssumption DEF Anthropic, Empty
  <2>. QED BY <1>5, <2>1
<1>7. ASSUME NEW n \in Names(c) PROVE ~DestMatches(GitHub(p), Url(n))
  <2>1. n \in Text
    BY ConfigsAssumption DEF Names
  <2>2. /\ Url(n).kind = "opaque" /\ Url(n).path \in Seq(Text) /\ Url(n).path # <<>>
        /\ Url(n).path[1] # host /\ Url(n).path[1] # Empty
    BY <2>1, TextAssumption DEF Url, Empty
  <2>. QED BY <1>5, <2>2
<1>8. Derive(c).destinations = {Anthropic} \cup {GitHub(base)} \cup {Url(n) : n \in Remote(c)}
  BY <1>1 DEF Derive
<1>9. Remote(c) \subseteq Names(c)
  BY DEF Remote
<1>. QED BY <1>3, <1>6, <1>7, <1>8, <1>9 DEF DestinationAllowed

-----------------------------------------------------------------------------
(* The inductive invariant *)

\* The signed contract is the derived one, and while a request is served its
\* verdict is the decision under the contract as it is: nothing changes the
\* contract between a decision and its answer.
Kept ==
  /\ cfg \in Configs /\ ValidConfig(cfg)
  /\ signed = Derive(cfg)
  /\ DOMAIN contract = Fields
  /\ request \in Requests \cup {NoRequest}
  /\ verdict = IF request = NoRequest THEN "none" ELSE Decide(request)

LEMMA DerivedFields ==
  ASSUME NEW c
  PROVE  DOMAIN Derive(c) = Fields
  BY DEF Derive, Fields

\* The invariant holds of every behaviour, for any configurations, requests and
\* changes to a signed contract (_run_with_broker, _check_gate).
THEOREM ContractKept == Spec => []Kept
<1>1. Init => Kept
  BY DerivedFields DEF Init, Kept
<1>2. ASSUME Kept, [Next]_vars PROVE Kept'
  <2>1. ASSUME NEW q \in Requests, Serve(q) PROVE Kept'
    <3>1. q # NoRequest /\ Decide(q)' = Decide(q)
      BY <2>1, RequestKinds
      DEF Serve, Decide, Gate, CheckAction, PathAllowed
    <3>. QED BY <1>2, <2>1, <3>1 DEF Kept, Serve
  <2>2. CASE Responded
    BY <1>2, <2>2 DEF Kept, Responded
  <2>3. CASE Alter
    <3>1. DOMAIN contract' = Fields
      BY <1>2, <2>3, AlteredAssumption, DerivedFields DEF Kept, Alter
    <3>. QED BY <1>2, <2>3, <3>1 DEF Kept, Alter
  <2>4. CASE UNCHANGED vars
    <3>1. Decide(request)' = Decide(request)
      BY <2>4 DEF vars, Decide, Gate, CheckAction, PathAllowed
    <3>. QED BY <1>2, <2>4, <3>1 DEF Kept, vars
  <2>. QED BY <1>2, <2>1, <2>2, <2>3, <2>4 DEF Next
<1>. QED BY <1>1, <1>2, PTL DEF Spec

-----------------------------------------------------------------------------
(* What the invariant gives of the properties *)

\* Every decision is one of the checks' names.
LEMMA DecisionType ==
  ASSUME NEW q \in Requests
  PROVE  Decide(q) \in Checks
<1>1. \A cap, dest, repo, branch : Gate(cap, dest, repo, branch) \in Checks
  BY DEF Gate, CheckAction, Checks
<1>2. "allowlist" \in Checks
  BY DEF Checks
<1>3. q.broker \in {"anthropic", "mcp", "github"}
  BY RequestKinds
<1>. QED BY <1>1, <1>2, <1>3 DEF Decide

\* Types: the configuration stays one of those given, both contracts keep the
\* fields derive_contract writes, and a verdict is the name of a check.
THEOREM TypeCorrect == Spec => []TypeOK
<1>1. ASSUME Kept PROVE TypeOK
  <2>1. verdict \in Checks
    BY <1>1, DecisionType DEF Kept, Checks
  <2>. QED BY <1>1, <2>1, DerivedFields DEF Kept, TypeOK
<1>. QED BY <1>1, ContractKept, PTL

\* A request is admitted only under the contract derived from the configuration,
\* whatever a signed contract was changed into (verify_contract).
THEOREM AdmitsUnderDerivedOnly == Spec => []OnlyTheDerivedContract
<1>1. ASSUME Kept, Admitted PROVE contract = Derive(cfg)
  <2>1. request \in Requests /\ Decide(request) = "allow"
    BY <1>1 DEF Kept, Admitted
  <2>2. request.broker \in {"anthropic", "mcp", "github"}
    BY <2>1, RequestKinds
  <2>3. \E cap, dest, repo, branch : Gate(cap, dest, repo, branch) = "allow"
    BY <2>1, <2>2 DEF Decide
  <2>4. contract = signed
    BY <2>3, GateAllows
  <2>. QED BY <1>1, <2>4 DEF Kept
<1>. QED BY <1>1, ContractKept, PTL DEF OnlyTheDerivedContract

\* What the gate alone admits of GitHub: a granted capability, a destination
\* within the repository, and a branch the patterns cover.
LEMMA GateAdmits ==
  ASSUME Kept, NEW q \in Requests, q.broker = "github",
         Gate(Capability(q.method, q.path), GitHub(q.path), RepoOf(q.path), WriteBranch(q))
           = "allow"
  PROVE  /\ cfg.github
         /\ Capability(q.method, q.path) \in GitHubCaps
         /\ IsPrefix(<<"repos">> \o cfg.repo, Trim(q.path))
         /\ WriteBranch(q) = NoBranch \/ BranchAllowed(WriteBranch(q), Derive(cfg).branches)
<1>1. contract = Derive(cfg) /\ cfg \in Configs /\ ValidConfig(cfg)
  BY GateAllows DEF Kept
<1>2. /\ Capability(q.method, q.path) \in Derive(cfg).capabilities
      /\ DestinationAllowed(GitHub(q.path), Derive(cfg).destinations)
      /\ WriteBranch(q) = NoBranch \/ BranchAllowed(WriteBranch(q), Derive(cfg).branches)
  BY <1>1, GateAllows
<1>3. cfg.github /\ Capability(q.method, q.path) \in GitHubCaps
  BY <1>1, <1>2, CapabilityType, Granted
<1>. QED BY <1>1, <1>2, <1>3, GitHubRequest, DestinationIsRepo

\* The broker's allowlist refuses nothing that the gate admits: the two copies of
\* the matching agree on every path (check_action, _path_allowed).
THEOREM AllowlistAgrees == Spec => []GateAndAllowlistAgree
<1>1. ASSUME Kept PROVE verdict # "allowlist"
  <2>1. CASE request = NoRequest
    BY <1>1, <2>1 DEF Kept
  <2>2. ASSUME request # NoRequest, Decide(request) = "allowlist" PROVE FALSE
    <3>1. request \in Requests /\ request.broker \in {"anthropic", "mcp", "github"}
      BY <1>1, <2>2, RequestKinds DEF Kept
    <3>2. \A cap, dest, repo, branch : Gate(cap, dest, repo, branch) # "allowlist"
      BY DEF Gate, CheckAction
    <3>3. /\ request.broker = "github"
          /\ Gate(Capability(request.method, request.path), GitHub(request.path),
                  RepoOf(request.path), WriteBranch(request)) = "allow"
          /\ ~PathAllowed(request.path)
      BY <2>2, <3>1, <3>2 DEF Decide
    <3>. QED BY <1>1, <3>1, <3>3, GateAdmits DEF PathAllowed
  <2>. QED BY <1>1, <2>1, <2>2 DEF Kept
<1>. QED BY <1>1, ContractKept, PTL DEF GateAndAllowlistAgree

\* What is known of an admitted GitHub request: its trimmed path starts with the
\* repository's three segments.
LEMMA AdmittedGitHub ==
  ASSUME Kept, Admitted, request.broker = "github"
  PROVE  /\ request \in Requests /\ request.method \in Methods
         /\ cfg.github /\ Capability(request.method, request.path) \in GitHubCaps
         /\ WriteBranch(request) = NoBranch
              \/ BranchAllowed(WriteBranch(request), Derive(cfg).branches)
         /\ IsPrefix(<<"repos">> \o cfg.repo, Trim(request.path))
         /\ Trim(request.path) \in Seq(Text)
         /\ Len(Trim(request.path)) \in Nat /\ Len(Trim(request.path)) >= 3
         /\ Trim(request.path)[1] = "repos"
<1>1. request \in Requests /\ Decide(request) = "allow"
  BY DEF Kept, Admitted
<1>2. Gate(Capability(request.method, request.path), GitHub(request.path),
           RepoOf(request.path), WriteBranch(request)) = "allow"
  BY <1>1 DEF Decide
<1>3. /\ cfg.github /\ Capability(request.method, request.path) \in GitHubCaps
      /\ IsPrefix(<<"repos">> \o cfg.repo, Trim(request.path))
      /\ WriteBranch(request) = NoBranch
           \/ BranchAllowed(WriteBranch(request), Derive(cfg).branches)
  BY <1>1, <1>2, GateAdmits
<1>4. request.path \in Seq(Text) /\ request.method \in Methods
  BY <1>1, GitHubRequest
<1>. DEFINE base == <<"repos">> \o cfg.repo
            path == Trim(request.path)
<1>5. base \in Seq(Text) /\ Len(base) = 3 /\ base[1] = "repos"
  BY <1>3, RepoPath DEF Kept
<1>6. path \in Seq(Text)
  BY <1>4, TrimProperties
<1>. HIDE DEF base, path
<1>7. Len(base) <= Len(path) /\ \A i \in 1..Len(base) : base[i] = path[i]
  BY <1>3, <1>5, <1>6, PrefixElements DEF base, path
<1>8. Len(path) \in Nat /\ Len(path) >= 3 /\ path[1] = "repos"
  BY <1>5, <1>6, <1>7
<1>. QED BY <1>1, <1>3, <1>4, <1>6, <1>8 DEF path

\* An admitted GitHub request is in the configured repository and is no DELETE,
\* no PUT or POST to .../merge or .../merges, no write to a
\* .../branches/.../protection itself and no PATCH of the repository itself; for
\* any path, whatever other endpoint it names.
THEOREM StaysInScope == Spec => []AdmittedStaysInScope
<1>1. ASSUME Kept, Admitted, request.broker = "github"
      PROVE  AdmittedStaysInScope
  <2>. DEFINE path == Trim(request.path)
              method == request.method
  <2>1. /\ method \in Methods /\ cfg.github
        /\ Capability(method, request.path) \in GitHubCaps
        /\ IsPrefix(<<"repos">> \o cfg.repo, path)
        /\ path \in Seq(Text) /\ Len(path) \in Nat /\ Len(path) >= 3 /\ path[1] = "repos"
    BY <1>1, AdmittedGitHub
  <2>2. method # "DELETE"
    BY <2>1 DEF Capability, GitHubCaps
  <2>3. method \in {"PUT", "POST"} => ~EndsIn(path, {"merge", "merges"})
    BY <2>1 DEF Capability, GitHubCaps
  <2>4. ASSUME method # "GET", AdminWrite(method, path) PROVE FALSE
    <3>1. Capability(method, request.path) \in {"gh.delete", "gh.merge", "gh.admin"}
      BY <2>4 DEF Capability, AdminWrite, EndsIn
    <3>. QED BY <2>1, <3>1 DEF GitHubCaps
  <2>5. Len(<<"repos">> \o cfg.repo) = 3
    BY <1>1, <2>1, RepoPath DEF Kept
  <2>. HIDE DEF path, method
  <2>6. ASSUME IsStrictPrefix(<<"branches">>, Below(path)), EndsIn(path, {"protection"})
        PROVE  AdminWrite(method, path)
    <3>1. path[Len(path)] = "protection"
      BY <2>1, <2>6 DEF EndsIn, Last
    <3>. DEFINE s == <<"branches">>
                b == Below(path)
    <3>2. /\ s \in Seq(Text) /\ Len(s) = 1 /\ s[1] = "branches"
          /\ b \in Seq(Text) /\ IsPrefix(s, b)
      BY <2>1, <2>6, BelowElements, TextAssumption DEF IsStrictPrefix
    <3>. HIDE DEF s, b
    <3>3. Len(s) <= Len(b) /\ \A i \in 1..Len(s) : s[i] = b[i]
      BY <3>2, PrefixElements
    <3>4. Len(Below(path)) >= 1 /\ Below(path)[1] = "branches"
      BY <3>2, <3>3 DEF b
    <3>5. Len(path) >= 4 /\ path[4] = "branches"
      BY <2>1, <3>4, BelowElements
    <3>6. 4 \in 1..Len(path) - 1
      BY <2>1, <3>1, <3>5
    <3>. QED BY <2>6, <3>5, <3>6 DEF AdminWrite
  <2>7. method = "PATCH" => path # <<"repos">> \o cfg.repo
    BY <2>1, <2>4, <2>5 DEF AdminWrite
  <2>. QED BY <2>1, <2>2, <2>3, <2>4, <2>6, <2>7 DEF AdmittedStaysInScope, path, method
<1>. QED BY <1>1, ContractKept, PTL DEF AdmittedStaysInScope

-----------------------------------------------------------------------------
(* The branch a write goes to *)

\* Where a path reads like a ref.
RefsAt(p) == {i \in 1..Len(p) - 3 : SubSeq(p, i, i + 2) = RefHeads}

\* _github_write_branch takes the branch from the first place that reads like a
\* ref.
LEMMA BranchOfPath ==
  ASSUME NEW q, q.method # "GET", NEW p \in Seq(Text), Trim(q.path) = p,
         NEW n \in RefsAt(p), \A k \in RefsAt(p) : n <= k
  PROVE  WriteBranch(q) = SubSeq(p, n + 3, Len(p))
<1>1. RefsAt(p) \subseteq Int
  BY DEF RefsAt
<1>2. (CHOOSE j \in RefsAt(p) : \A k \in RefsAt(p) : j <= k) = n
  <2>1. \A j \in RefsAt(p) : (\A k \in RefsAt(p) : j <= k) <=> j = n
    BY <1>1
  <2>. QED BY <2>1
<1>3. RefsAt(p) # {}
  OBVIOUS
<1>. QED BY <1>2, <1>3 DEF WriteBranch, RefsAt

\* Where none does, the body names it, or else it is the default branch for a
\* write to a file.
LEMMA BranchOfBody ==
  ASSUME NEW q, q.method # "GET", RefsAt(Trim(q.path)) = {}
  PROVE  /\ q.heads => WriteBranch(q) = q.ref
         /\ ~q.heads /\ q.branch # NoBranch => WriteBranch(q) = q.branch
         /\ /\ ~q.heads /\ q.branch = NoBranch
            /\ \E i \in 1..Len(Trim(q.path)) : Trim(q.path)[i] = "contents"
            => WriteBranch(q) = DefaultBranch
         /\ /\ ~q.heads /\ q.branch = NoBranch
            /\ ~\E i \in 1..Len(Trim(q.path)) : Trim(q.path)[i] = "contents"
            => WriteBranch(q) = NoBranch
  BY DEF WriteBranch, RefsAt

\* The branch of a ref update, of a new ref and of a commit is the one the gate
\* is asked about.
LEMMA MovesBranch ==
  ASSUME NEW q, NEW p \in Seq(Text), Trim(q.path) = p, Len(p) >= 3, p[1] = "repos",
         NEW b, b # NoBranch, Moves(q, b)
  PROVE  WriteBranch(q) = b
<1>1. Len(p) \in Nat
  OBVIOUS
<1>2. /\ Below(p) \in Seq(Text)
      /\ Len(Below(p)) = IF Len(p) > 3 THEN Len(p) - 3 ELSE 0
      /\ \A i \in 1..Len(Below(p)) : Below(p)[i] = p[i + 3]
  BY BelowElements
<1>3. ASSUME NEW i \in RefsAt(p)
      PROVE  i \in 1..Len(p) - 3 /\ p[i] = "git" /\ p[i + 1] = "refs" /\ p[i + 2] = "heads"
  <2>1. i \in 1..Len(p) - 3 /\ i \in 1..Len(p) - 2 /\ SubSeq(p, i, i + 2) = RefHeads
    BY <1>1 DEF RefsAt
  <2>. QED BY <2>1, RefHeadsAt
<1>4. CASE UpdatesRef(q, b)
  <2>. DEFINE s == Below(p)
  <2>1. /\ q.method # "GET" /\ b = SubSeq(p, 7, Len(p))
        /\ s \in Seq(Text) /\ IsPrefix(RefHeads, s) /\ s # RefHeads
    BY <1>2, <1>4 DEF UpdatesRef, IsStrictPrefix
  <2>2. RefHeads \in Seq(Text) /\ Len(RefHeads) = 3
        /\ RefHeads[1] = "git" /\ RefHeads[2] = "refs" /\ RefHeads[3] = "heads"
    BY TextAssumption DEF RefHeads
  <2>. HIDE DEF s
  <2>3. Len(RefHeads) <= Len(s) /\ \A i \in 1..Len(RefHeads) : RefHeads[i] = s[i]
    BY <2>1, <2>2, PrefixElements
  <2>4. Len(s) >= 4
    <3>1. ASSUME Len(s) = 3 PROVE s = RefHeads
      <4>1. Len(s) = Len(RefHeads) /\ \A i \in 1..Len(s) : s[i] = RefHeads[i]
        BY <2>2, <2>3, <3>1
      <4>. QED BY <2>1, <2>2, <4>1, SeqEqual
    <3>. QED BY <2>1, <2>2, <2>3, <3>1
  <2>5. Len(p) >= 7 /\ p[4] = "git" /\ p[5] = "refs" /\ p[6] = "heads"
    BY <1>1, <1>2, <2>2, <2>3, <2>4 DEF s
  <2>6. 4 \in RefsAt(p)
    BY <1>1, <2>5, RefHeadsAt DEF RefsAt
  <2>7. ASSUME NEW k \in RefsAt(p) PROVE 4 <= k
    <3>1. k \in Int /\ k >= 1 /\ k # 1 /\ k # 2 /\ k # 3
      BY <1>1, <1>3, <2>5
    <3>. QED BY <3>1
  <2>8. WriteBranch(q) = SubSeq(p, 4 + 3, Len(p))
    BY <2>1, <2>6, <2>7, BranchOfPath
  <2>. QED BY <2>1, <2>8
<1>5. CASE CreatesRef(q, b)
  <2>1. q.method # "GET" /\ q.heads /\ b = q.ref /\ Below(p) = <<"git", "refs">>
    BY <1>5 DEF CreatesRef
  <2>2. Len(p) = 5 /\ p[4] = "git"
    BY <1>1, <1>2, <2>1
  <2>3. RefsAt(p) = {}
    <3>1. ASSUME NEW i \in RefsAt(p) PROVE FALSE
      BY <1>3, <2>2
    <3>. QED BY <3>1
  <2>. QED BY <2>1, <2>3, BranchOfBody
<1>6. CASE Commits(q, b) /\ BranchFieldOnly(q)
  <2>1. /\ q.method # "GET" /\ ~q.heads /\ RefsAt(p) = {}
        /\ b = IF q.branch = NoBranch THEN DefaultBranch ELSE q.branch
    BY <1>6 DEF Commits, BranchFieldOnly, RefsAt
  <2>. DEFINE s == <<"contents">>
              t == Below(p)
  <2>2. /\ s \in Seq(Text) /\ Len(s) = 1 /\ s[1] = "contents"
        /\ t \in Seq(Text) /\ IsPrefix(s, t)
    BY <1>2, <1>6, TextAssumption DEF Commits
  <2>. HIDE DEF s, t
  <2>3. Len(s) <= Len(t) /\ \A i \in 1..Len(s) : s[i] = t[i]
    BY <2>2, PrefixElements
  <2>4. Len(Below(p)) >= 1 /\ Below(p)[1] = "contents"
    BY <2>2, <2>3 DEF t
  <2>5. 4 \in 1..Len(p) /\ p[4] = "contents"
    BY <1>1, <1>2, <2>4
  <2>. QED BY <2>1, <2>5, BranchOfBody
<1>. QED BY <1>4, <1>5, <1>6 DEF Moves

\* An admitted ref update, new ref, or commit that names its branch in the branch
\* field alone goes to a branch the patterns of the configuration cover, for any
\* patterns, bodies and paths; a body's ref that ends at refs/heads/ is no such
\* commit's (_github_write_branch).
THEOREM StayOnBranches == Spec => []WritesStayOnBranches
<1>1. ASSUME Kept, Admitted, request.broker = "github",
             NEW b \in Named(request) \ {NoBranch}, Moves(request, b)
      PROVE  BranchAllowed(b, Derive(cfg).branches)
  <2>1. /\ Trim(request.path) \in Seq(Text) /\ Len(Trim(request.path)) >= 3
        /\ Trim(request.path)[1] = "repos"
        /\ WriteBranch(request) = NoBranch
             \/ BranchAllowed(WriteBranch(request), Derive(cfg).branches)
    BY <1>1, AdmittedGitHub
  <2>2. WriteBranch(request) = b
    BY <1>1, <2>1, MovesBranch
  <2>. QED BY <1>1, <2>1, <2>2
<1>2. Kept => WritesStayOnBranches
  BY <1>1 DEF WritesStayOnBranches
<1>. QED BY <1>2, ContractKept, PTL

-----------------------------------------------------------------------------
(* Spelling, and what is usable *)

\* Decide reads a GitHub path only without its last slash: the classifier, the
\* gate's destination, the repository, the branch and the allowlist all trim it.
LEMMA DecideReadsTrimmed ==
  ASSUME NEW q, NEW r, q.broker = "github", r.broker = "github",
         q.method = r.method, q.heads = r.heads, q.ref = r.ref, q.branch = r.branch,
         q.path \in Seq(Text), r.path \in Seq(Text), Trim(q.path) = Trim(r.path)
  PROVE  Decide(q) = Decide(r)
<1>1. Capability(q.method, q.path) = Capability(r.method, r.path)
  BY DEF Capability
<1>2. RepoOf(q.path) = RepoOf(r.path)
  BY DEF RepoOf
<1>3. WriteBranch(q) = WriteBranch(r)
  BY DEF WriteBranch
<1>4. PathAllowed(q.path) = PathAllowed(r.path)
  BY DEF PathAllowed
<1>5. "api.github.com" \in Text /\ "api.github.com" # Empty
  BY TextAssumption DEF Empty
<1>6. /\ Trim(GitHub(q.path).path) = <<"api.github.com">> \o Trim(q.path)
      /\ Trim(GitHub(r.path).path) = <<"api.github.com">> \o Trim(r.path)
  BY <1>5, TrimBehind DEF GitHub
<1>7. \A allowed : DestMatches(GitHub(q.path), allowed) = DestMatches(GitHub(r.path), allowed)
  BY <1>6 DEF DestMatches
<1>8. \A allowed : DestinationAllowed(GitHub(q.path), allowed)
                     = DestinationAllowed(GitHub(r.path), allowed)
  BY <1>7 DEF DestinationAllowed
<1>9. \A cap, repo, branch : Gate(cap, GitHub(q.path), repo, branch)
                               = Gate(cap, GitHub(r.path), repo, branch)
  BY <1>8 DEF Gate, CheckAction
<1>. QED BY <1>1, <1>2, <1>3, <1>4, <1>9 DEF Decide

\* A last slash in the path of a request changes no decision, whatever the
\* contract is.
THEOREM SlashIrrelevant == Spec => []SpellingIrrelevant
<1>1. ASSUME Kept, request.broker = "github"
      PROVE  Decide(WithSlash(request)) = Decide(WithoutSlash(request))
  <2>. DEFINE q == WithSlash(request)
              r == WithoutSlash(request)
              t == Trim(request.path)
  <2>1. request \in Requests
    BY <1>1 DEF Kept, NoRequest
  <2>2. /\ request \in [broker : {"github"}, method : Methods, path : Seq(Text),
                        heads : BOOLEAN, ref : Seq(Text), branch : Seq(Text)]
        /\ Clean(request.path)
    BY <1>1, <2>1, GitHubRequest
  <2>3. /\ q.broker = "github" /\ r.broker = "github" /\ q.method = r.method
        /\ q.heads = r.heads /\ q.ref = r.ref /\ q.branch = r.branch
        /\ q.path = t \o <<Empty>> /\ r.path = t
    BY <2>2 DEF WithSlash, WithoutSlash
  <2>4. /\ t \in Seq(Text) /\ t \o <<Empty>> \in Seq(Text)
        /\ Trim(t \o <<Empty>>) = Trim(t)
    BY <2>2, TrimAgain
  <2>. HIDE DEF q, r, t
  <2>5. Decide(q) = Decide(r)
    BY <2>3, <2>4, DecideReadsTrimmed
  <2>. QED BY <2>5 DEF q, r
<1>2. Kept => SpellingIrrelevant
  BY <1>1 DEF SpellingIrrelevant
<1>. QED BY <1>2, ContractKept, PTL

\* A read or a comment below the repository, as the checks see it.
LEMMA DeclaredGitHub ==
  ASSUME Kept, NEW q \in Requests, q.broker = "github", cfg.github,
         IsPrefix(<<"repos">> \o cfg.repo, q.path),
         \/ q.method = "GET"
         \/ q.method = "POST" /\ EndsIn(q.path, {"comments"}) /\ NamesNoBranch(q)
  PROVE  /\ Capability(q.method, q.path) \in GitHubCaps
         /\ IsPrefix(<<"repos">> \o cfg.repo, Trim(q.path))
         /\ RepoOf(q.path) = cfg.repo
         /\ WriteBranch(q) = NoBranch
<1>. DEFINE base == <<"repos">> \o cfg.repo
            p == q.path
            t == Trim(q.path)
<1>1. /\ base \in Seq(Text) /\ Len(base) = 3 /\ base[1] = "repos"
      /\ base[2] = cfg.repo[1] /\ base[3] = cfg.repo[2]
      /\ cfg.repo \in Seq(Text) /\ Len(cfg.repo) = 2 /\ cfg.repo[2] # Empty
  BY RepoPath DEF Kept, ValidConfig
<1>2. p \in Seq(Text)
  BY GitHubRequest
<1>3. IsPrefix(base, p) /\ t = Trim(p)
  OBVIOUS
<1>. HIDE DEF base, p, t
<1>4. /\ t \in Seq(Text) /\ Len(p) \in Nat /\ Len(t) \in Nat
      /\ Len(t) = IF Len(p) > 0 /\ p[Len(p)] = Empty THEN Len(p) - 1 ELSE Len(p)
      /\ \A i \in 1..Len(t) : t[i] = p[i]
  <2>1. t \in Seq(Text) /\ Len(p) \in Nat
    BY <1>2, <1>3, TrimProperties
  <2>2. Len(t) \in Nat
    BY <2>1
  <2>. QED BY <1>2, <1>3, <2>1, <2>2, TrimProperties
<1>5. Len(base) <= Len(p) /\ \A i \in 1..Len(base) : base[i] = p[i]
  BY <1>1, <1>2, <1>3, PrefixElements
<1>6. Len(t) >= 3 /\ t[1] = "repos" /\ t[2] = cfg.repo[1] /\ t[3] = cfg.repo[2]
  BY <1>1, <1>4, <1>5
<1>7. IsPrefix(base, t)
  <2>1. Len(base) <= Len(t) /\ \A i \in 1..Len(base) : base[i] = t[i]
    BY <1>1, <1>4, <1>5, <1>6
  <2>. QED BY <1>1, <1>4, <2>1, PrefixElements
<1>8. RepoOf(q.path) = cfg.repo
  <2>1. RepoOf(q.path) = <<t[2], t[3]>>
    BY <1>6 DEF RepoOf, t
  <2>2. <<cfg.repo[1], cfg.repo[2]>> = cfg.repo
    BY <1>1
  <2>. QED BY <1>6, <2>1, <2>2
<1>9. CASE q.method = "GET"
  BY <1>7, <1>8, <1>9 DEF Capability, GitHubCaps, WriteBranch, base, t
<1>10. CASE q.method = "POST" /\ EndsIn(q.path, {"comments"}) /\ NamesNoBranch(q)
  <2>1. Len(p) > 0 /\ p[Len(p)] = "comments"
    BY <1>2, <1>4, <1>5, <1>10 DEF EndsIn, Last, p
  <2>2. t = p
    <3>1. Len(t) = Len(p)
      BY <1>4, <2>1 DEF Empty
    <3>. QED BY <1>2, <1>4, <3>1, SeqEqual
  <2>3. EndsIn(t, {"comments"}) /\ ~EndsIn(t, {"merge", "merges"})
        /\ ~EndsIn(t, {"protection"}) /\ ~EndsIn(t, {"pulls"})
    BY <2>1, <2>2 DEF EndsIn, Last
  <2>4. Capability(q.method, q.path) = "gh.comment"
    BY <1>10, <2>3 DEF Capability, AdminWrite, t
  <2>5. RefsAt(t) = {} /\ ~\E i \in 1..Len(t) : t[i] = "contents"
    <3>1. \A i \in 1..Len(t) : t[i] \notin {"contents", "heads"}
      BY <1>10, <2>2 DEF NamesNoBranch, p
    <3>2. ASSUME NEW i \in RefsAt(t) PROVE FALSE
      <4>1. i \in 1..Len(t) - 2 /\ i + 2 \in 1..Len(t) /\ SubSeq(t, i, i + 2) = RefHeads
        BY <1>4, <3>2 DEF RefsAt
      <4>. QED BY <1>4, <3>1, <4>1, RefHeadsAt
    <3>. QED BY <3>1, <3>2
  <2>6. WriteBranch(q) = NoBranch
    BY <1>10, <2>5, BranchOfBody DEF NamesNoBranch, t
  <2>. QED BY <1>7, <1>8, <2>4, <2>6 DEF GitHubCaps, base, t
<1>. QED BY <1>9, <1>10

\* What the configuration declares is admitted: model calls, remote MCP servers,
\* and reads and comments anywhere in the repository.
THEOREM DeclaredAdmitted == Spec => []DeclaredIsUsable
<1>1. ASSUME Kept, contract = signed, Declared(request) PROVE Admitted
  <2>1. /\ request \in Requests /\ verdict = Decide(request) /\ contract = Derive(cfg)
        /\ cfg \in Configs /\ ValidConfig(cfg)
    BY <1>1 DEF Kept, Declared, NoRequest
  <2>2. CASE request.broker = "anthropic"
    <3>1. "anthropic" \in contract.capabilities
      BY <2>1 DEF Derive
    <3>2. DestinationAllowed(Anthropic, contract.destinations)
      BY <2>1 DEF Derive, DestinationAllowed, DestMatches
    <3>3. Gate("anthropic", Anthropic, NoRepo, NoBranch) = "allow"
      BY <1>1, <3>1, <3>2, GateAllows
    <3>. QED BY <2>1, <2>2, <3>3 DEF Decide, Admitted
  <2>3. CASE request.broker = "mcp" /\ request.name \in Remote(cfg)
    <3>1. McpCap(request.name) \in contract.capabilities
      BY <2>1, <2>3 DEF Derive, Remote
    <3>2. DestinationAllowed(Url(request.name), contract.destinations)
      <4>1. Url(request.name) \in contract.destinations
        BY <2>1, <2>3 DEF Derive
      <4>. QED BY <4>1 DEF DestinationAllowed, DestMatches
    <3>3. Gate(McpCap(request.name), Url(request.name), NoRepo, NoBranch) = "allow"
      BY <1>1, <3>1, <3>2, GateAllows
    <3>. QED BY <2>1, <2>3, <3>3 DEF Decide, Admitted
  <2>4. CASE /\ request.broker = "github"
             /\ cfg.github
             /\ IsPrefix(<<"repos">> \o cfg.repo, request.path)
             /\ \/ request.method = "GET"
                \/ /\ request.method = "POST" /\ EndsIn(request.path, {"comments"})
                   /\ NamesNoBranch(request)
    <3>1. /\ Capability(request.method, request.path) \in GitHubCaps
          /\ IsPrefix(<<"repos">> \o cfg.repo, Trim(request.path))
          /\ RepoOf(request.path) = cfg.repo
          /\ WriteBranch(request) = NoBranch
      BY <1>1, <2>1, <2>4, DeclaredGitHub
    <3>2. cfg.repo # <<>> /\ request.path \in Seq(Text)
      BY <2>1, <2>4, RepoPath, GitHubRequest
    <3>3. Capability(request.method, request.path) \in contract.capabilities
      BY <2>1, <2>4, <3>1, <3>2, Granted
    <3>4. DestinationAllowed(GitHub(request.path), contract.destinations)
      BY <2>1, <2>4, <3>1, <3>2, DestinationIsRepo
    <3>5. contract.repos = {cfg.repo}
      BY <2>1, <3>2 DEF Derive
    <3>6. Gate(Capability(request.method, request.path), GitHub(request.path),
               RepoOf(request.path), WriteBranch(request)) = "allow"
      BY <1>1, <3>1, <3>3, <3>4, <3>5, GateAllows
    <3>7. PathAllowed(request.path)
      BY <2>4, <3>1 DEF PathAllowed
    <3>. QED BY <2>1, <2>4, <3>6, <3>7 DEF Decide, Admitted
  <2>. QED BY <1>1, <2>2, <2>3, <2>4 DEF Declared
<1>2. Kept => DeclaredIsUsable
  BY <1>1 DEF DeclaredIsUsable
<1>. QED BY <1>2, ContractKept, PTL
=============================================================================
