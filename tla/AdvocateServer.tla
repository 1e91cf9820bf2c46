--------------------------- MODULE AdvocateServer ---------------------------
(***************************************************************************)
(* advocate/server.py with the brokers behind it: one handler thread that  *)
(* accepts connections in order and runs each request to its end (body,    *)
(* validation and contract gate, idempotency cache, upstream call, answer  *)
(* or SSE stream), the agent's connections, which may stall or go away at  *)
(* any time, the upstream services, whose answers may be lost, and the     *)
(* main thread, which starts the server and stops it.                      *)
(*                                                                         *)
(* A request is its content.  Cached requests go through a broker's        *)
(* handle_request (GitHub, MCP, structured Anthropic); Streams are         *)
(* answered by _handle_anthropic_stream; what is in neither is passed      *)
(* through without a cache.  A connection carries one request: the handler *)
(* speaks HTTP/1.0.                                                        *)
(***************************************************************************)
EXTENDS Naturals, Sequences, FiniteSets

CONSTANTS
  Clients,      \* connections the agent may open
  Requests,     \* request contents
  Cached,       \* requests with an idempotency key
  Streams,      \* requests answered as a stream
  Anthropic,    \* requests for /v1/messages
  Unrouted,     \* requests the path or the headers alone rule out
  Malformed,    \* requests whose body is no JSON object
  Unparsable,   \* requests on whose path or body the parser raises what nobody catches
  Invalid,      \* requests a field check rejects
  Unchecked,    \* requests on which a field check itself raises
  Allowed,      \* requests the signed contract admits
  MaxChunks,    \* bound: chunks in an upstream stream
  None

ASSUME RequestsAssumption ==
  /\ Cached \cup Streams \cup Anthropic \cup Allowed \subseteq Requests
  /\ Unrouted \cup Malformed \cup Unparsable \cup Invalid \subseteq Requests
  /\ Malformed \cap Unparsable = {}
  /\ Unchecked \subseteq Anthropic /\ Unchecked \cap Invalid = {}
  /\ Cached \cap Streams = {} /\ Streams \subseteq Anthropic
ASSUME NoneAssumption == None \notin Clients \cup Requests
ASSUME MaxChunksAssumption == MaxChunks \in Nat

VARIABLES
  main,       \* the main thread: where it is in start() ... stop()
  loop,       \* serve_forever: "polling", "handling" or "exited"
  stopping,   \* BaseServer.__shutdown_request
  backlog,    \* connections waiting to be accepted, in order
  cur,        \* the connection being handled, or None
  step,       \* where its handler is
  asks,       \* connection -> the request it is about, or None
  sent,       \* connection -> the request was sent in full
  gone,       \* connection -> the client closed it
  reads,      \* connection -> the client takes in what it is sent
  wire,       \* connection -> what the handler wrote to it
  chunks,     \* connection -> chunks the upstream streams for it
  cache,      \* requests whose success is remembered
  done,       \* the upstream carried out the request it was last sent
  effects,    \* request -> times the upstream carried it out
  failures,   \* request -> sends that ended without a success
  late        \* request -> failed sends the upstream may still carry out

connVars == <<asks, sent, gone, reads>>
upstreamVars == <<done, effects, failures, late>>
threadVars == <<main, loop, stopping, backlog, cur>>
vars == <<threadVars, step, connVars, wire, chunks, cache, upstreamVars>>

Statuses == {"200", "400", "403", "502"}
Frames == Statuses \cup {"head", "data", "error", "end"}
Steps == {"idle", "body", "check", "lookup", "call", "stream"}

TypeOK ==
  /\ main \in {"running", "stopping", "closed", "stopped"}
  /\ loop \in {"polling", "handling", "exited"}
  /\ stopping \in BOOLEAN
  /\ backlog \in Seq(Clients)
  /\ cur \in Clients \cup {None}
  /\ step \in Steps
  /\ asks \in [Clients -> Requests \cup {None}]
  /\ sent \in [Clients -> BOOLEAN]
  /\ gone \in [Clients -> BOOLEAN]
  /\ reads \in [Clients -> BOOLEAN]
  /\ wire \in [Clients -> Seq(Frames)]
  /\ chunks \in [Clients -> 0..MaxChunks]
  /\ cache \subseteq Cached
  /\ done \in BOOLEAN
  /\ effects \in [Requests -> Nat]
  /\ failures \in [Requests -> Nat]
  /\ late \in [Requests -> Nat]

\* AdvocateServer.start: the socket is bound, the thread is in serve_forever.
Init ==
  /\ main = "running" /\ loop = "polling" /\ stopping = FALSE
  /\ backlog = <<>> /\ cur = None /\ step = "idle"
  /\ asks = [c \in Clients |-> None]
  /\ sent = [c \in Clients |-> FALSE]
  /\ gone = [c \in Clients |-> FALSE]
  /\ reads = [c \in Clients |-> FALSE]
  /\ wire = [c \in Clients |-> <<>>]
  /\ chunks = [c \in Clients |-> 0]
  /\ cache = {}
  /\ done = FALSE
  /\ effects = [r \in Requests |-> 0]
  /\ failures = [r \in Requests |-> 0]
  /\ late = [r \in Requests |-> 0]

-----------------------------------------------------------------------------
(* The agent's side of the connections *)

\* The kernel completes connections until the listening socket is closed.
Connect(c, r) ==
  /\ asks[c] = None
  /\ main \in {"running", "stopping"}
  /\ asks' = [asks EXCEPT ![c] = r]
  /\ backlog' = Append(backlog, c)
  /\ UNCHANGED <<main, loop, stopping, cur, step, sent, gone, reads, wire, chunks, cache, upstreamVars>>

SendRequest(c) ==
  /\ asks[c] # None /\ ~sent[c] /\ ~gone[c]
  /\ sent' = [sent EXCEPT ![c] = TRUE]
  /\ UNCHANGED <<threadVars, step, asks, gone, reads, wire, chunks, cache, upstreamVars>>

Leave(c) ==
  /\ asks[c] # None /\ ~gone[c]
  /\ gone' = [gone EXCEPT ![c] = TRUE]
  /\ UNCHANGED <<threadVars, step, asks, sent, reads, wire, chunks, cache, upstreamVars>>

\* The client starts to take in what it is sent, if it ever does.
Reads(c) ==
  /\ asks[c] # None /\ ~reads[c] /\ ~gone[c]
  /\ reads' = [reads EXCEPT ![c] = TRUE]
  /\ UNCHANGED <<threadVars, step, asks, sent, gone, wire, chunks, cache, upstreamVars>>

-----------------------------------------------------------------------------
(* serve_forever *)

Accept ==
  /\ loop = "polling" /\ ~stopping
  /\ backlog # <<>>
  /\ loop' = "handling"
  /\ cur' = Head(backlog)
  /\ backlog' = Tail(backlog)
  /\ step' = "body"
  /\ UNCHANGED <<main, stopping, connVars, wire, chunks, cache, upstreamVars>>

LoopExits ==
  /\ loop = "polling" /\ stopping
  /\ loop' = "exited"
  /\ UNCHANGED <<main, stopping, backlog, cur, step, connVars, wire, chunks, cache, upstreamVars>>

\* The handler is done with the connection and the loop polls again.
Done ==
  /\ loop' = "polling" /\ cur' = None /\ step' = "idle" /\ done' = FALSE
  /\ UNCHANGED <<main, stopping, backlog, connVars>>

\* Frames reach the wire unless the client is gone; then the write raises and
\* nothing more is written.  To a client that does not read, a write may be
\* taken by the socket's buffer, or wait without a limit: see Held.
Written(fs) == [wire EXCEPT ![cur] = IF gone[cur] THEN @ ELSE @ \o fs]
Respond(status) == wire' = Written(<<status>>) /\ Done

-----------------------------------------------------------------------------
(* The handler: _read_json_body, the validators, _check_gate *)

r == asks[cur]

\* do_POST on an unknown path, or a wrong content type or length: answered
\* (404, 400, 413) without reading the body.
TurnedAway ==
  /\ step = "body" /\ r \in Unrouted \ Unparsable
  /\ Respond("400")
  /\ UNCHANGED <<chunks, cache, effects, failures, late>>

\* Mutant of BodyRead: the read waits for the end of the stream, as rfile.read
\* does when a negative length reaches it.
BodyReadToEof ==
  /\ step = "body" /\ r \notin Unrouted /\ sent[cur] /\ gone[cur]
  /\ step' = "check"
  /\ UNCHANGED <<threadVars, connVars, wire, chunks, cache, upstreamVars>>

\* rfile.read returns once the announced length has come.
BodyRead ==
  /\ step = "body" /\ r \notin Unrouted /\ sent[cur]
  /\ r \notin Malformed \cup Unparsable
  /\ step' = "check"
  /\ UNCHANGED <<threadVars, connVars, wire, chunks, cache, upstreamVars>>

\* What was read is no JSON object, for one because the client left before it
\* had sent everything.
BodyUnusable ==
  /\ step = "body" /\ r \notin Unrouted
  /\ IF sent[cur] THEN r \in Malformed ELSE gone[cur]
  /\ Respond("400")
  /\ UNCHANGED <<chunks, cache, effects, failures, late>>

\* urlparse raises, or json.loads does with something that is no
\* JSONDecodeError: UnicodeDecodeError, RecursionError, or the ValueError of an
\* integer with too many digits.  It leaves the handler, and socketserver closes
\* the connection without a response.
ParseRaises ==
  /\ step = "body" /\ (r \in Unrouted \/ sent[cur])
  /\ r \in Unparsable
  /\ Done
  /\ UNCHANGED <<wire, chunks, cache, effects, failures, late>>

\* /v1/messages asks the gate before it checks fields, the others after.
BadRequest ==
  /\ step = "check"
  /\ r \in Invalid
  /\ r \in Anthropic => r \in Allowed
  /\ Respond("400")
  /\ UNCHANGED <<chunks, cache, effects, failures, late>>

\* _validate, past the gate: looking up a role that cannot be hashed raises
\* TypeError, which leaves the handler like the parser's errors.
CheckRaises ==
  /\ step = "check"
  /\ r \in Unchecked \cap Allowed
  /\ Done
  /\ UNCHANGED <<wire, chunks, cache, effects, failures, late>>

Denied ==
  /\ step = "check"
  /\ r \notin Allowed
  /\ r \in Invalid => r \in Anthropic
  /\ Respond("403")
  /\ UNCHANGED <<chunks, cache, effects, failures, late>>

\* Mutant of Admitted: the call is made whatever the gate said.
AdmittedUngated ==
  /\ step = "check"
  /\ r \notin Invalid \cup Unchecked
  /\ step' = "lookup"
  /\ UNCHANGED <<threadVars, connVars, wire, chunks, cache, upstreamVars>>

Admitted ==
  /\ step = "check"
  /\ r \in Allowed \ (Invalid \cup Unchecked)
  /\ step' = "lookup"
  /\ UNCHANGED <<threadVars, connVars, wire, chunks, cache, upstreamVars>>

-----------------------------------------------------------------------------
(* The brokers' handle_request, and the upstream *)

CacheHit ==
  /\ step = "lookup"
  /\ r \in cache
  /\ Respond("200")
  /\ UNCHANGED <<chunks, cache, effects, failures, late>>

SendUpstream ==
  /\ step = "lookup"
  /\ r \notin cache
  /\ step' = "call"
  /\ UNCHANGED <<threadVars, connVars, wire, chunks, cache, upstreamVars>>

UpstreamActs ==
  /\ step = "call" /\ ~done
  /\ done' = TRUE
  /\ effects' = [effects EXCEPT ![r] = @ + 1]
  /\ UNCHANGED <<threadVars, step, connVars, wire, chunks, cache, failures, late>>

\* A request the broker no longer waits for is carried out all the same.
UpstreamActsLate(q) ==
  /\ late[q] > 0
  /\ late' = [late EXCEPT ![q] = @ - 1]
  /\ effects' = [effects EXCEPT ![q] = @ + 1]
  /\ UNCHANGED <<threadVars, step, connVars, wire, chunks, cache, done, failures>>

\* Mutant of Remember: a success is not stored.
RememberNothing == UNCHANGED cache

\* idempotency.store after a 2xx; pass-through requests have no key.
Remember == cache' = cache \cup ({r} \cap Cached)

UpstreamSucceeds ==
  /\ step = "call" /\ r \notin Streams
  /\ done
  /\ Remember
  /\ Respond("200")
  /\ UNCHANGED <<chunks, effects, failures, late>>

\* The send ends without a success: an error status, a timeout, a connection
\* that breaks.  What fails may be the request, its execution, which may still
\* come, or only the answer's way back.
SendFailed ==
  /\ failures' = [failures EXCEPT ![r] = @ + 1]
  /\ late' \in {late} \cup (IF done THEN {} ELSE {[late EXCEPT ![r] = @ + 1]})
  /\ UNCHANGED effects

\* Mutant of UpstreamFails: failures are stored like successes.
UpstreamFailsStored ==
  /\ step = "call"
  /\ SendFailed
  /\ Remember
  /\ Respond("502")
  /\ UNCHANGED chunks

\* Mutant of UpstreamFails: the exception leaves the handler.
UpstreamFailsUnanswered ==
  /\ step = "call"
  /\ SendFailed
  /\ Done
  /\ UNCHANGED <<wire, chunks, cache>>

\* handle_request and _handle_anthropic_stream turn every failure of the send
\* into an error answer and store nothing.
UpstreamFails ==
  /\ step = "call"
  /\ SendFailed
  /\ Respond("502")
  /\ UNCHANGED <<chunks, cache>>

-----------------------------------------------------------------------------
(* _handle_anthropic_stream *)

Undelivered == chunks[cur] - Cardinality({i \in 1..Len(wire[cur]) : wire[cur][i] = "data"})

\* next() returned a chunk, or None for an empty stream: the headers go out,
\* and with them the first chunk.
StreamStarts(n) ==
  /\ step = "call" /\ r \in Streams
  /\ done
  /\ chunks' = [chunks EXCEPT ![cur] = n]
  /\ wire' = Written(IF n = 0 THEN <<"head">> ELSE <<"head", "data">>)
  /\ step' = "stream"
  /\ UNCHANGED <<threadVars, connVars, cache, upstreamVars>>

StreamChunk ==
  /\ step = "stream" /\ ~gone[cur]
  /\ Undelivered > 0
  /\ wire' = Written(<<"data">>)
  /\ UNCHANGED <<threadVars, step, connVars, chunks, cache, upstreamVars>>

\* Mutant of StreamEnds: the stream is stored like an answer.
StreamEndsStored ==
  /\ step = "stream" /\ ~gone[cur]
  /\ Undelivered = 0
  /\ cache' = cache \cup {r}
  /\ Respond("end")
  /\ UNCHANGED <<chunks, effects, failures, late>>

StreamEnds ==
  /\ step = "stream" /\ ~gone[cur]
  /\ Undelivered = 0
  /\ Respond("end")
  /\ UNCHANGED <<chunks, cache, effects, failures, late>>

\* Mutant of StreamBreaks: the stream is terminated as if it were complete.
StreamBreaksSilently ==
  /\ step = "stream"
  /\ SendFailed
  /\ Respond("end")
  /\ UNCHANGED <<chunks, cache>>

\* Mutant of StreamBreaks: answered with a status, as a setup failure is.
StreamBreaksAsSetup ==
  /\ step = "stream"
  /\ SendFailed
  /\ Respond("502")
  /\ UNCHANGED <<chunks, cache>>

\* The upstream breaks in the middle: the client is told so.
StreamBreaks ==
  /\ step = "stream"
  /\ SendFailed
  /\ wire' = Written(<<"error", "end">>)
  /\ Done
  /\ UNCHANGED <<chunks, cache>>

\* The client left: the write raises, and so does the error event's.
StreamDropped ==
  /\ step = "stream" /\ gone[cur]
  /\ Done
  /\ UNCHANGED <<wire, chunks, cache, effects, failures, late>>

-----------------------------------------------------------------------------
(* AdvocateServer.stop, in the main thread *)

\* Mutant of Shutdown: waits for the loop without asking it to end.
ShutdownUnrequested ==
  /\ main = "running"
  /\ main' = "stopping"
  /\ UNCHANGED <<loop, stopping, backlog, cur, step, connVars, wire, chunks, cache, upstreamVars>>

Shutdown ==
  /\ main = "running"
  /\ main' = "stopping"
  /\ stopping' = TRUE
  /\ UNCHANGED <<loop, backlog, cur, step, connVars, wire, chunks, cache, upstreamVars>>

\* Mutant of ServerClose: the socket is closed under the running loop.
ServerCloseAtOnce ==
  /\ main = "stopping"
  /\ main' = "closed"
  /\ backlog' = <<>>
  /\ UNCHANGED <<loop, stopping, cur, step, connVars, wire, chunks, cache, upstreamVars>>

\* shutdown() returns when serve_forever has; then server_close().
ServerClose ==
  /\ main = "stopping" /\ loop = "exited"
  /\ main' = "closed"
  /\ backlog' = <<>>
  /\ UNCHANGED <<loop, stopping, cur, step, connVars, wire, chunks, cache, upstreamVars>>

\* join() and mcp_broker.shutdown_all().
StopReturns ==
  /\ main = "closed"
  /\ main' = "stopped"
  /\ UNCHANGED <<loop, stopping, backlog, cur, step, connVars, wire, chunks, cache, upstreamVars>>

-----------------------------------------------------------------------------

Client(c) ==
  \/ \E q \in Requests : Connect(c, q)
  \/ SendRequest(c)
  \/ Leave(c)
  \/ Reads(c)

Handler ==
  \/ BodyRead
  \/ TurnedAway
  \/ BodyUnusable
  \/ ParseRaises
  \/ BadRequest
  \/ CheckRaises
  \/ Denied
  \/ Admitted
  \/ CacheHit
  \/ SendUpstream
  \/ UpstreamSucceeds
  \/ UpstreamFails
  \/ \E n \in 0..MaxChunks : StreamStarts(n)
  \/ StreamChunk
  \/ StreamEnds
  \/ StreamBreaks
  \/ StreamDropped

ServerThread == Accept \/ LoopExits \/ Handler

Upstream == UpstreamActs \/ \E q \in Requests : UpstreamActsLate(q)

Next ==
  \/ \E c \in Clients : Client(c)
  \/ ServerThread
  \/ Upstream
  \/ Shutdown
  \/ ServerClose
  \/ StopReturns

Spec == Init /\ [][Next]_vars

\* Neither rfile.read nor wfile.write has a timeout: the handled connection
\* holds the thread while its client neither leaves nor sends what it announced,
\* or neither leaves nor takes in what it is sent.
Held ==
  /\ cur # None /\ ~gone[cur]
  /\ IF step = "body" THEN r \notin Unrouted /\ ~sent[cur] ELSE ~reads[cur]

\* The two threads run, except where a client holds the handler, and upstream
\* calls end at the latest by their timeouts.  Nothing is assumed of a client.
FairSpec ==
  /\ Spec
  /\ WF_vars(ServerThread /\ ~Held)
  /\ WF_vars(ServerClose) /\ WF_vars(StopReturns)

-----------------------------------------------------------------------------
(* Properties *)

\* The upstream carries a cached request out, or may still do so, at most once
\* for its remembered success and once for each send that failed: a success the
\* client never received is not repeated by its retry (handle_request).  What
\* the cache calls a success was carried out (idempotency.store).
InFlight(q) == step = "call" /\ cur # None /\ asks[cur] = q
EffectsAccounted ==
  \A q \in Cached :
    /\ effects[q] + late[q] <=
         failures[q] + Cardinality({q} \cap cache) + (IF InFlight(q) THEN 1 ELSE 0)
    /\ q \in cache => effects[q] > 0

\* What the documents promise of a retry: no double execution.
ExecutedOnce == \A q \in Cached : effects[q] <= 1

Complete(w) == Len(w) > 0 /\ w[Len(w)] \in Statuses \cup {"end"}
Stream(w) ==
  /\ w[1] = "head"
  /\ \A i \in 2..Len(w) :
       \/ w[i] = "data" /\ (i > 2 => w[i - 1] = "data")
       \/ w[i] = "error" /\ Len(w) = i + 1
       \/ w[i] = "end" /\ Len(w) = i

\* One response on each connection, a status or a well-framed stream, never a
\* status after the headers of a stream went out.
OneResponse ==
  \A c \in Clients :
    \/ Len(wire[c]) = 0
    \/ /\ Len(wire[c]) = 1
       /\ wire[c][1] \in Statuses
    \/ Stream(wire[c])

\* A stream that ends without an error event carried every upstream chunk.
HonestStream ==
  \A c \in Clients :
    LET w == wire[c] IN
    Len(w) > 0 /\ w[1] = "head" /\ w[Len(w)] = "end" =>
      \/ w[Len(w) - 1] = "error"
      \/ Len(w) = chunks[c] + 2

\* Requests whose handling ends in an exception that nobody catches: the parser's,
\* or, of those the gate admits, the field check's.
Unanswerable == Unparsable \cup (Unchecked \cap Allowed)

\* The handler leaves a connection answered in full, unless the client left it
\* or the request is one at which the handler raises (do_POST).
AnsweredInFull ==
  [][\A c \in Clients :
       cur = c /\ cur' # c =>
         gone[c] \/ asks[c] \in Unanswerable \/ Complete(wire'[c])]_vars

\* What a client has been told, from what is on its wire.
Told(w) ==
  CASE Len(w) = 0 -> "nothing"
    [] Len(w) > 0 /\ w[1] = "200" -> "granted"
    [] Len(w) > 0 /\ w[1] = "502" -> "failed"
    [] Len(w) > 0 /\ w[1] \in {"400", "403"} -> "refused"
    [] Len(w) > 0 /\ w[1] = "head" ->
         IF w[Len(w)] # "end" THEN "partial"
         ELSE IF w[Len(w) - 1] = "error" THEN "cut" ELSE "whole"

\* The server is the gateway that Gateway describes: whatever its threads, the
\* clients and the upstream do, it asks only for what the contract admits and
\* the cache does not have, tells of a success only what was carried out, and
\* answers nothing once stop() has closed it (do_POST, stop).
Promise == INSTANCE Gateway WITH
             got <- [c \in Clients |-> Told(wire[c])], memo <- cache,
             asked <- IF step \in {"call", "stream"} THEN cur ELSE None,
             executed <- effects, owed <- late,
             closed <- main \in {"closed", "stopped"}
ImplementsGateway == Promise!Spec

\* Once stop() is past shutdown() nothing is handled any more.
QuietWhenClosed ==
  main \in {"closed", "stopped"} => loop = "exited" /\ cur = None /\ step = "idle"

\* Every request sent in full is answered, or the server is stopped first, unless
\* a client holds the handler for good, which serve_forever's single thread lets
\* it; a request at which the handler raises holds nobody else up.
RequestsServed ==
  \A c \in Clients :
    \/ <>[]Held
    \/ (sent[c] /\ asks[c] \notin Unanswerable)
         ~> (wire[c] # <<>> \/ gone[c] \/ main = "stopped")

\* stop() returns, unless a client holds the handler for good: shutdown() waits
\* for the request in hand.
StopTerminates == <>[]Held \/ ((main = "stopping") ~> (main = "stopped"))
=============================================================================
