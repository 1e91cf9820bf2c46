------------------------------ MODULE McpStdio ------------------------------
(***************************************************************************)
(* The stdio half of advocate/brokers/mcp_broker.py: the Advocate's one    *)
(* handler thread talking JSON-RPC to MCP server subprocesses over their   *)
(* stdin and stdout pipes.  The broker's steps are the system calls of     *)
(* handle_request, _get_or_launch_proc, _call_stdio and _evict_proc in     *)
(* their order; between any two of them a subprocess may read, write, or   *)
(* exit.  HTTPServer has no ThreadingMixIn, so there is one call at a time *)
(* and _proc_locks is never contended.                                     *)
(*                                                                         *)
(* A request's content stands for (method, params); the JSON-RPC id is     *)
(* left out because the broker neither keeps nor compares it.  A line on   *)
(* stdout is one token, or a "head" and a "tail" when it is written or     *)
(* read in two pieces.  A process handle whose process has exited and that *)
(* nothing refers to may be used again by a later launch.                  *)
(***************************************************************************)
EXTENDS Naturals, Sequences, FiniteSets

CONSTANTS
  Names,      \* server names the agent may put in a request
  Servers,    \* names that have an McpStdioServer configured
  Contents,   \* (method, params) pairs
  Large,      \* contents whose line does not fit the stdin pipe
  Notices,    \* JSON lines a server may write that answer no request
  Chatter,    \* lines that are not JSON
  Handles,    \* Popen objects
  MaxLines,   \* bound: a server writes unasked lines only below this backlog
  None

ASSUME ServersAssumption == Servers \subseteq Names
ASSUME ContentsAssumption == Large \subseteq Contents /\ None \notin Contents
ASSUME LinesAssumption ==
  /\ Notices \cap Contents = {}
  /\ Chatter \cap (Contents \cup Notices) = {}
  /\ None \notin Notices
ASSUME HandlesAssumption == None \notin Handles
ASSUME MaxLinesAssumption == MaxLines \in Nat

VARIABLES
  phase,      \* where the handler thread is in handle_request
  req,        \* the request it handles, or None
  cur,        \* the process its _call_stdio uses (proc), or None
  buf,        \* what it has read of the response line so far
  cache,      \* advocate.idempotency._cache, its "mcp" half
  reply,      \* the last (status, body) returned by handle_request
  procs,      \* _procs: server name -> Popen, or None
  alive,      \* handle -> its process runs
  signalled,  \* handle -> terminate() was called
  inp,        \* handle -> requests on its stdin
  work,       \* handle -> the request the server is working on, or None
  out         \* handle -> unread tokens on its stdout

callVars == <<phase, req, cur, buf>>
resultVars == <<cache, reply>>
serverVars == <<alive, signalled, inp, work, out>>
vars == <<callVars, resultVars, procs, serverVars>>

Keys == Names \X Contents
Bodies == Contents \cup Notices
Tokens == [of : Bodies \cup Chatter, part : {"line", "head", "tail"}]
Token(of, part) == [of |-> of, part |-> part]
Calling == {"launch", "write", "blocked", "read"}
Replies == [key : Keys, status : {200, 404, 502}, body : Bodies \cup {None}]

TypeOK ==
  /\ phase \in {"idle", "down"} \cup Calling
  /\ req \in Keys \cup {None}
  /\ cur \in Handles \cup {None}
  /\ buf \in Seq(Tokens)
  /\ cache \in [Keys -> Bodies \cup {None}]
  /\ reply \in Replies \cup {None}
  /\ procs \in [Servers -> Handles \cup {None}]
  /\ alive \in [Handles -> BOOLEAN]
  /\ signalled \in [Handles -> BOOLEAN]
  /\ inp \in [Handles -> Seq(Contents)]
  /\ work \in [Handles -> Contents \cup {None}]
  /\ out \in [Handles -> Seq(Tokens)]

Init ==
  /\ phase = "idle" /\ req = None /\ cur = None /\ buf = <<>>
  /\ cache = [k \in Keys |-> None]
  /\ reply = None
  /\ procs = [s \in Servers |-> None]
  /\ alive = [h \in Handles |-> FALSE]
  /\ signalled = [h \in Handles |-> FALSE]
  /\ inp = [h \in Handles |-> <<>>]
  /\ work = [h \in Handles |-> None]
  /\ out = [h \in Handles |-> <<>>]

-----------------------------------------------------------------------------
(* handle_request and the idempotency cache *)

Replied(k, status, body) == [key |-> k, status |-> status, body |-> body]

\* idempotency.get: a remembered success is returned before anything else.
CacheHit(k) ==
  /\ phase = "idle"
  /\ cache[k] # None
  /\ reply' = Replied(k, 200, cache[k])
  /\ UNCHANGED <<callVars, cache, procs, serverVars>>

NotFound(k) ==
  /\ phase = "idle"
  /\ cache[k] = None
  /\ k[1] \notin Servers
  /\ reply' = Replied(k, 404, None)
  /\ UNCHANGED <<callVars, cache, procs, serverVars>>

\* Mutant of Call: the idempotency cache is not asked first.
CallWithoutLookup(k) ==
  /\ phase = "idle"
  /\ k[1] \in Servers
  /\ phase' = "launch"
  /\ req' = k
  /\ UNCHANGED <<cur, buf, resultVars, procs, serverVars>>

Call(k) ==
  /\ phase = "idle"
  /\ cache[k] = None
  /\ k[1] \in Servers
  /\ phase' = "launch"
  /\ req' = k
  /\ UNCHANGED <<cur, buf, resultVars, procs, serverVars>>

\* The call ends: handle_request returns and the handler thread is free.
EndCall == phase' = "idle" /\ req' = None /\ cur' = None /\ buf' = <<>>

Failed ==
  /\ EndCall
  /\ reply' = Replied(req, 502, None)
  /\ UNCHANGED cache

\* Mutant of Succeeded: the status is stored in place of the body.
SucceededStoringStatus(body) ==
  /\ EndCall
  /\ reply' = Replied(req, 200, body)
  /\ cache' = [cache EXCEPT ![req] = 200]

Succeeded(body) ==
  /\ EndCall
  /\ reply' = Replied(req, 200, body)
  /\ cache' = [cache EXCEPT ![req] = body]

-----------------------------------------------------------------------------
(* _get_or_launch_proc *)

\* poll() is None for the process _procs holds.
Kept(s) == procs[s] # None /\ alive[procs[s]]

Reuse ==
  /\ phase = "launch"
  /\ Kept(req[1])
  /\ phase' = "write"
  /\ cur' = procs[req[1]]
  /\ UNCHANGED <<req, buf, resultVars, procs, serverVars>>

Unreferenced(h) == ~alive[h] /\ \A s \in Servers : procs[s] # h

Launch(h) ==
  /\ phase = "launch"
  /\ ~Kept(req[1])
  /\ Unreferenced(h)
  /\ phase' = "write"
  /\ cur' = h
  /\ procs' = [procs EXCEPT ![req[1]] = h]
  /\ alive' = [alive EXCEPT ![h] = TRUE]
  /\ signalled' = [signalled EXCEPT ![h] = FALSE]
  /\ inp' = [inp EXCEPT ![h] = <<>>]
  /\ work' = [work EXCEPT ![h] = None]
  /\ out' = [out EXCEPT ![h] = <<>>]
  /\ UNCHANGED <<req, buf, resultVars>>

\* Popen raises: the exception reaches handle_request, _procs is as it was.
LaunchFails ==
  /\ phase = "launch"
  /\ ~Kept(req[1])
  /\ Failed
  /\ UNCHANGED <<procs, serverVars>>

-----------------------------------------------------------------------------
(* _call_stdio and _evict_proc *)

\* Mutant of Evict: the process is forgotten and not told to terminate.
ForgetWithoutTerminate ==
  /\ procs' = [procs EXCEPT ![req[1]] = None]
  /\ UNCHANGED serverVars

\* Mutant of Evict: the process is told to terminate and stays in _procs.
TerminateWithoutForget ==
  /\ signalled' = [signalled EXCEPT ![cur] = TRUE]
  /\ UNCHANGED <<procs, alive, inp, work, out>>

Evict ==
  /\ procs' = [procs EXCEPT ![req[1]] = None]
  /\ signalled' = [signalled EXCEPT ![cur] = TRUE]
  /\ UNCHANGED <<alive, inp, work, out>>

\* The write fails because nobody holds the other end of the pipe.
BrokenPipe ==
  /\ phase \in {"write", "blocked"}
  /\ ~alive[cur]
  /\ Failed
  /\ Evict

\* write() and flush(): they return once the line is in the pipe, which for a
\* line larger than the pipe is when the server has read it.
Write ==
  /\ phase = "write"
  /\ alive[cur]
  /\ inp' = [inp EXCEPT ![cur] = Append(@, req[2])]
  /\ phase' = IF req[2] \in Large THEN "blocked" ELSE "read"
  /\ UNCHANGED <<req, cur, buf, resultVars, procs, alive, signalled, work, out>>

WriteReturns ==
  /\ phase = "blocked"
  /\ alive[cur]
  /\ inp[cur] = <<>>
  /\ phase' = "read"
  /\ UNCHANGED <<req, cur, buf, resultVars, procs, serverVars>>

EndsLine(t) == t.part # "head"
HasLine(ts) == \E i \in 1..Len(ts) : EndsLine(ts[i])

\* json.loads succeeds on buf[: idx + 1], the first line of ts, when that is a
\* whole line of JSON, and not when it is the end of a line whose beginning
\* was dropped.
ParsesFirstLine(ts) ==
  /\ ts[1].of \notin Chatter
  /\ \/ ts[1].part = "line"
     \/ /\ ts[1].part = "head"
        /\ Len(ts) > 1
        /\ ts[2] = Token(ts[1].of, "tail")

\* os.read takes some prefix of what is in the pipe.
Chunk(n) == buf \o SubSeq(out[cur], 1, n)
TakeChunk(n) == out' = [out EXCEPT ![cur] = SubSeq(@, n + 1, Len(@))]

ReadMore ==
  /\ phase = "read"
  /\ \E n \in 1..Len(out[cur]) :
       /\ ~HasLine(Chunk(n))
       /\ buf' = Chunk(n)
       /\ TakeChunk(n)
  /\ UNCHANGED <<phase, req, cur, resultVars, procs, alive, signalled, inp, work>>

\* A whole line is there; what the chunk holds after it is dropped.
ReadAnswer ==
  /\ phase = "read"
  /\ \E n \in 1..Len(out[cur]) :
       /\ HasLine(Chunk(n))
       /\ ParsesFirstLine(Chunk(n))
       /\ TakeChunk(n)
       /\ Succeeded(Chunk(n)[1].of)
  /\ UNCHANGED <<procs, alive, signalled, inp, work>>

\* Not JSON: 502, and the process is kept.
ReadGarbage ==
  /\ phase = "read"
  /\ \E n \in 1..Len(out[cur]) :
       /\ HasLine(Chunk(n))
       /\ ~ParsesFirstLine(Chunk(n))
       /\ TakeChunk(n)
  /\ Failed
  /\ UNCHANGED <<procs, alive, signalled, inp, work>>

\* End of file before a newline.
ReadEof ==
  /\ phase = "read"
  /\ ~alive[cur]
  /\ out[cur] = <<>>
  /\ Failed
  /\ Evict

\* Mutant of GiveUp: a process that missed its deadline is kept.
GiveUpKeepingProcess ==
  /\ phase = "read"
  /\ Failed
  /\ UNCHANGED <<procs, serverVars>>

\* Mutant of GiveUp: there is no deadline, only a read error ends the loop.
GiveUpOnErrorOnly ==
  /\ phase = "read"
  /\ ~alive[cur]
  /\ Failed
  /\ Evict

\* The deadline passes, or select or os.read raises.  The deadline is checked
\* before each read, so it may pass with bytes in the pipe.
GiveUp ==
  /\ phase = "read"
  /\ Failed
  /\ Evict

\* AdvocateServer.stop calls shutdown_all once the handler thread is done.
ShutdownAll ==
  /\ phase = "idle"
  /\ phase' = "down"
  /\ signalled' = [h \in Handles |-> signalled[h] \/ \E s \in Servers : procs[s] = h]
  /\ procs' = [s \in Servers |-> None]
  /\ UNCHANGED <<req, cur, buf, resultVars, alive, inp, work, out>>

-----------------------------------------------------------------------------
(* The subprocesses: external programs that answer each request they read,
   once, in order, and may exit at any time. *)

\* What a server writes in answer to c: the line in one piece or in two.
AnswerLines(c) == {<<Token(c, "line")>>, <<Token(c, "head"), Token(c, "tail")>>}

ServerRead(h) ==
  /\ alive[h]
  /\ work[h] = None
  /\ inp[h] # <<>>
  /\ work' = [work EXCEPT ![h] = Head(inp[h])]
  /\ inp' = [inp EXCEPT ![h] = Tail(@)]
  /\ UNCHANGED <<callVars, resultVars, procs, alive, signalled, out>>

ServerAnswer(h) ==
  /\ alive[h]
  /\ work[h] # None
  /\ \E ts \in AnswerLines(work[h]) : out' = [out EXCEPT ![h] = @ \o ts]
  /\ work' = [work EXCEPT ![h] = None]
  /\ UNCHANGED <<callVars, resultVars, procs, alive, signalled, inp>>

\* A server may also log, or notify its client of something.  MaxLines bounds
\* how much of this is pending; what a process writes after it was signalled
\* has no reader.
ServerNotice(h, line) ==
  /\ alive[h]
  /\ ~signalled[h]
  /\ Len(inp[h]) + Len(out[h]) < MaxLines
  /\ out' = [out EXCEPT ![h] = Append(@, Token(line, "line"))]
  /\ UNCHANGED <<callVars, resultVars, procs, alive, signalled, inp, work>>

\* The process exits, because it was told to or by itself, perhaps in the
\* middle of a line.  What it wrote can still be read.
ServerExit(h) ==
  /\ alive[h]
  /\ alive' = [alive EXCEPT ![h] = FALSE]
  /\ inp' = [inp EXCEPT ![h] = <<>>]
  /\ work' = [work EXCEPT ![h] = None]
  /\ \/ UNCHANGED out
     \/ work[h] # None /\ out' = [out EXCEPT ![h] = Append(@, Token(work[h], "head"))]
  /\ UNCHANGED <<callVars, resultVars, procs, signalled>>

-----------------------------------------------------------------------------

Request == \E k \in Keys : CacheHit(k) \/ NotFound(k) \/ Call(k)

Handler ==
  \/ Reuse
  \/ \E h \in Handles : Launch(h)
  \/ LaunchFails
  \/ Write
  \/ WriteReturns
  \/ BrokenPipe
  \/ ReadMore
  \/ ReadAnswer
  \/ ReadGarbage
  \/ ReadEof
  \/ GiveUp

McpServer(h) ==
  \/ ServerRead(h)
  \/ ServerAnswer(h)
  \/ \E line \in Notices \cup Chatter : ServerNotice(h, line)
  \/ ServerExit(h)

Next ==
  \/ Request
  \/ Handler
  \/ ShutdownAll
  \/ \E h \in Handles : McpServer(h)

Spec == Init /\ [][Next]_vars

\* The handler thread keeps running, and time passes: a deadline in force is
\* a step it can take.
BrokerSpec == Spec /\ WF_vars(Handler)

\* Besides, a server reads what is on its stdin: once it has room for it, and
\* it makes room while the broker waits to write.
Reads(h) == ServerRead(h) \/ (phase = "blocked" /\ cur = h /\ ServerAnswer(h))
FairSpec == BrokerSpec /\ \A h \in Handles : WF_vars(Reads(h))

-----------------------------------------------------------------------------
(* Properties *)

InUse(h) == phase \in {"write", "blocked", "read"} /\ cur = h

\* A success returned to the agent is the MCP server's answer to the very
\* request the agent made, and so is every success the cache remembers: no
\* answer that comes after its deadline is handed to a later call
\* (_call_stdio, _evict_proc).
AnswersMatch ==
  /\ reply # None /\ reply.status = 200 => reply.body = reply.key[2]
  /\ \A k \in Keys : cache[k] \in {None, k[2]}

\* A process that stays in _procs between calls owes nothing: no request of
\* an earlier call is on its way to it and no answer on its way back.  It is
\* what makes reading "the first line" a sound way to find one's own answer.
KeptProcessOwesNothing ==
  \A s \in Servers :
    LET h == procs[s] IN
    h # None /\ ~InUse(h) => inp[h] = <<>> /\ work[h] = None /\ out[h] = <<>>

\* Every running subprocess that was not told to terminate is the one _procs
\* holds for some server, and no two servers share one: none is lost on a
\* timeout, a relaunch or a shutdown (_evict_proc, shutdown_all).
NoStrayProcess ==
  /\ \A h \in Handles :
       alive[h] /\ ~signalled[h] => \E s \in Servers : procs[s] = h
  /\ \A s, t \in Servers : procs[s] = procs[t] /\ procs[s] # None => s = t

\* Every call returns, whatever the server does (_STDIO_READ_TIMEOUT_S).
CallsTerminate == (phase \in Calling) ~> (phase = "idle")

\* The broker is the caching service RpcService describes, with the server's
\* answer to the request as the only answer it may give.
OwnAnswer(k) == {k[2]}
Rpc == INSTANCE RpcService WITH
         Answers <- OwnAnswer, memo <- cache,
         asked <- IF phase \in Calling THEN req ELSE None
ImplementsRpc == Rpc!Spec
=============================================================================
