------------------------ MODULE AdvocateServerRefines ------------------------
(***************************************************************************)
(* Theorems about AdvocateServer and the promise it keeps: it implements   *)
(* Gateway, and what Gateway implies of the contract and of successes      *)
(* holds of it.                                                            *)
(***************************************************************************)
EXTENDS AdvocateServerProofs

-----------------------------------------------------------------------------
(* The gateway's state, as the server has it *)

got == [c \in Clients |-> Told(wire[c])]
asked == IF step \in {"call", "stream"} THEN cur ELSE None
closed == main \in {"closed", "stopped"}

\* What is past the gate was admitted by it.
Judged == step \in {"lookup", "call", "stream"} => r \in Allowed

LEMMA JudgedKept ==
  ASSUME Shape, Judged, [Next]_vars
  PROVE  Judged'
<1>1. CASE Ending
  <2>1. step' = "idle"
    BY <1>1, EndingStep DEF Done
  <2>. QED BY <2>1 DEF Judged
<1>2. CASE Advancing \/ (\E n \in 0..MaxChunks : StreamStarts(n)) \/ StreamChunk
  BY <1>2 DEF Judged, r, Advancing, BodyRead, Admitted, SendUpstream, StreamStarts,
     StreamChunk, threadVars, connVars
<1>3. ASSUME NEW c \in Clients, Client(c) PROVE Judged'
  <2>1. step' = step /\ cur' = cur /\ (asks'[cur] = asks[cur] \/ cur = None)
    BY <1>3 DEF Shape, TypeOK, Flow, Client, Connect, SendRequest, Leave, Reads, threadVars
  <2>. QED BY <2>1 DEF Shape, Flow, Judged, r
<1>4. CASE Accept \/ LoopExits \/ Upstream \/ Shutdown \/ ServerClose \/ StopReturns
           \/ UNCHANGED vars
  BY <1>4 DEF Judged, r, Accept, LoopExits, Upstream, UpstreamActs, UpstreamActsLate, Shutdown,
     ServerClose, StopReturns, vars, threadVars, connVars
<1>. QED BY <1>1, <1>2, <1>3, <1>4, HandlerCases DEF Next, ServerThread

-----------------------------------------------------------------------------
(* What a client has been told *)

\* A status tells the outcome, the headers of a stream that it is under way.
LEMMA ToldFirst ==
  /\ Told(<<>>) = "nothing"
  /\ Told(<<"200">>) = "granted" /\ Told(<<"502">>) = "failed"
  /\ Told(<<"400">>) = "refused" /\ Told(<<"403">>) = "refused"
  /\ Told(<<"head">>) = "partial" /\ Told(<<"head", "data">>) = "partial"
  BY DEF Told

\* What a stream under way is told next.
LEMMA ToldNext ==
  ASSUME NEW w \in Seq(Frames), Open(w)
  PROVE  /\ Told(w) = "partial" /\ Told(w \o <<"data">>) = "partial"
         /\ Told(w \o <<"end">>) = "whole" /\ Told(w \o <<"error", "end">>) = "cut"
<1>1. Len(w) \in Nat /\ Len(w) > 0 /\ w[1] = "head" /\ w[Len(w)] \in {"head", "data"}
  BY DEF Open
<1>2. ASSUME NEW v \in Seq(Frames), NEW n \in Nat, Len(v) = n + 1, v[1] = "head"
      PROVE  Told(v) = IF v[n + 1] # "end" THEN "partial"
                       ELSE IF v[n] = "error" THEN "cut" ELSE "whole"
  <2>1. Len(v) > 0 /\ Len(v) - 1 = n
    BY <1>2
  <2>. QED BY <1>2, <2>1 DEF Told
<1>3. ASSUME NEW f \in Frames
      PROVE  /\ w \o <<f>> \in Seq(Frames) /\ Len(w \o <<f>>) = Len(w) + 1
             /\ (w \o <<f>>)[1] = "head" /\ (w \o <<f>>)[Len(w) + 1] = f
             /\ (w \o <<f>>)[Len(w)] = w[Len(w)]
  BY <1>1
<1>4. /\ w \o <<"error", "end">> \in Seq(Frames)
      /\ Len(w \o <<"error", "end">>) = (Len(w) + 1) + 1
      /\ (w \o <<"error", "end">>)[1] = "head"
      /\ (w \o <<"error", "end">>)[Len(w) + 1] = "error"
      /\ (w \o <<"error", "end">>)[(Len(w) + 1) + 1] = "end"
  BY <1>1 DEF Frames
<1>5. Told(w) = "partial"
  <2>1. Len(w) - 1 \in Nat /\ Len(w) = (Len(w) - 1) + 1
    BY <1>1
  <2>. QED BY <1>1, <1>2, <2>1
<1>6. ASSUME NEW f \in Frames
      PROVE  Told(w \o <<f>>) = IF f # "end" THEN "partial" ELSE "whole"
  BY <1>1, <1>2, <1>3
<1>7. "data" \in Frames /\ "end" \in Frames
  BY DEF Frames
<1>8. Told(w \o <<"error", "end">>) = "cut"
  <2>1. Len(w) + 1 \in Nat
    BY <1>1
  <2>. QED BY <1>2, <1>4, <2>1
<1>. QED BY <1>5, <1>6, <1>7, <1>8

\* A write tells its connection, unless the client is gone, and nobody else.
LEMMA GotWritten ==
  ASSUME TypeOK, cur # None, NEW fs \in Seq(Frames), wire' = Written(fs)
  PROVE  got' = IF gone[cur] THEN got ELSE [got EXCEPT ![cur] = Told(wire[cur] \o fs)]
<1>1. /\ cur \in Clients
      /\ wire'[cur] = IF gone[cur] THEN wire[cur] ELSE wire[cur] \o fs
      /\ \A c \in Clients \ {cur} : wire'[c] = wire[c]
  BY WrittenType
<1>. QED BY <1>1 DEF got

\* Where the handler is, in the gateway's terms.
LEMMA Handling ==
  ASSUME Shape, step # "idle"
  PROVE  /\ cur \in Clients /\ cur # None /\ asks[cur] # None /\ asks[cur] \in Requests
         /\ ~closed /\ loop = "handling"
         /\ step \notin {"call", "stream"} => asked = None /\ ~done
         /\ step \in {"call", "stream"} => asked = cur
         /\ step # "stream" => wire[cur] = <<>> /\ got[cur] = "nothing"
<1>1. /\ cur \in Clients /\ cur # None /\ asks[cur] # None /\ asks[cur] \in Requests
      /\ loop = "handling"
  BY DEF Shape, TypeOK, Flow
<1>2. ~closed
  BY <1>1 DEF Shape, Flow, closed
<1>3. step # "stream" => wire[cur] = <<>>
  BY <1>1 DEF Shape, Unwritten
<1>4. step # "stream" => got[cur] = "nothing"
  BY <1>1, <1>3, ToldFirst DEF got
<1>. QED BY <1>1, <1>2, <1>3, <1>4 DEF Shape, Flow, asked

-----------------------------------------------------------------------------
(* Every step is one of the gateway's *)

\* What one connection is told changes that entry alone.
LEMMA FramesGiven ==
  /\ \A s \in Statuses \cup {"end"} : <<s>> \in Seq(Frames)
  /\ <<"head">> \in Seq(Frames) /\ <<"head", "data">> \in Seq(Frames)
  /\ <<"data">> \in Seq(Frames) /\ <<"error", "end">> \in Seq(Frames)
<1>1. Statuses \cup {"head", "data", "error", "end"} \subseteq Frames
  BY DEF Frames
<1>2. \A a, b \in Frames : <<a>> \in Seq(Frames) /\ <<a, b>> \in Seq(Frames)
  OBVIOUS
<1>. QED BY <1>1, <1>2

\* The answer to a connection on which nothing was written.
LEMMA FirstAnswer ==
  ASSUME Shape, step \notin {"idle", "stream"}, NEW s \in Statuses, Respond(s)
  PROVE  got' = IF gone[cur] THEN got ELSE [got EXCEPT ![cur] = Told(<<s>>)]
<1>1. /\ TypeOK /\ cur # None /\ wire[cur] = <<>> /\ <<s>> \in Seq(Frames)
      /\ wire' = Written(<<s>>)
  BY Handling, FramesGiven DEF Shape, Respond
<1>2. <<>> \o <<s>> = <<s>>
  OBVIOUS
<1>. QED BY <1>1, <1>2, GotWritten

\* Requests refused, and those answered from the cache.
LEMMA RefusedOrRepeated ==
  ASSUME Shape, TurnedAway \/ BodyUnusable \/ BadRequest \/ Denied \/ CacheHit
  PROVE  [Promise!Next]_(Promise!vars)
<1>1. step \in {"body", "check", "lookup"}
  BY DEF TurnedAway, BodyUnusable, BadRequest, Denied, CacheHit
<1>2. /\ cur \in Clients /\ asks[cur] # None /\ ~closed
      /\ asked = None /\ ~done /\ got[cur] = "nothing" /\ done \in BOOLEAN
  BY <1>1, Handling DEF Shape, TypeOK
<1>3. PICK s \in Statuses :
        /\ Respond(s) /\ (s \in {"400", "403"} \/ (s = "200" /\ asks[cur] \in cache))
        /\ UNCHANGED <<cache, effects, late>>
  BY DEF TurnedAway, BodyUnusable, BadRequest, Denied, CacheHit, r, Statuses
<1>4. UNCHANGED <<asks, cache, effects, late>> /\ closed' = closed
      /\ asked' = None /\ done' = FALSE
  BY <1>3 DEF Respond, Done, connVars, closed, asked
<1>5. got' = IF gone[cur] THEN got ELSE [got EXCEPT ![cur] = Told(<<s>>)]
  BY <1>1, <1>3, FirstAnswer
<1>6. CASE gone[cur]
  BY <1>2, <1>4, <1>5, <1>6 DEF Promise!vars, got, asked, closed
<1>7. CASE ~gone[cur] /\ s \in {"400", "403"}
  <2>1. Promise!Refuse(cur)
    BY <1>2, <1>4, <1>5, <1>7, ToldFirst DEF Promise!Refuse, Promise!Waiting, got, asked, closed
  <2>. QED BY <1>2, <2>1 DEF Promise!Next
<1>8. CASE ~gone[cur] /\ s = "200"
  <2>1. Promise!Repeat(cur)
    BY <1>2, <1>3, <1>4, <1>5, <1>8, ToldFirst
    DEF Promise!Repeat, Promise!Waiting, got, asked, closed
  <2>. QED BY <1>2, <2>1 DEF Promise!Next
<1>. QED BY <1>3, <1>6, <1>7, <1>8

\* Calls that end, with a success, a failure or a stream's last frames.
LEMMA CallEnds ==
  ASSUME Shape, Wires,
         UpstreamSucceeds \/ UpstreamFails \/ StreamEnds \/ StreamBreaks \/ StreamDropped
  PROVE  Promise!Next
<1>1. step \in {"call", "stream"}
  BY DEF UpstreamSucceeds, UpstreamFails, StreamEnds, StreamBreaks, StreamDropped
<1>2. /\ cur \in Clients /\ cur # None /\ asked = cur /\ done \in BOOLEAN
      /\ step = "call" => got[cur] = "nothing"
  BY <1>1, Handling DEF Shape, TypeOK
<1>3. /\ UNCHANGED asks /\ closed' = closed /\ asked' = None /\ done' = FALSE
      /\ effects' = effects
  BY DEF UpstreamSucceeds, UpstreamFails, StreamEnds, StreamBreaks, StreamDropped,
     SendFailed, Respond, Done, connVars, closed, asked
<1>4. ASSUME step = "stream", ~gone[cur]
      PROVE  wire[cur] \in Seq(Frames) /\ Open(wire[cur]) /\ got[cur] = "partial"
  <2>1. wire[cur] \in Seq(Frames) /\ Open(wire[cur])
    BY <1>2, <1>4 DEF Shape, TypeOK, Wires
  <2>. QED BY <1>2, <2>1, ToldNext DEF got
<1>5. CASE UpstreamSucceeds
  <2>1. /\ done /\ asks[cur] \notin Streams /\ got[cur] = "nothing" /\ late' = late
        /\ cache' = cache \cup ({asks[cur]} \cap Cached)
    BY <1>2, <1>5 DEF UpstreamSucceeds, Remember, r
  <2>2. got' = IF gone[cur] THEN got ELSE [got EXCEPT ![cur] = "granted"]
    <3>1. step = "call" /\ Respond("200") /\ "200" \in Statuses
      BY <1>5 DEF UpstreamSucceeds, Statuses
    <3>. QED BY <3>1, FirstAnswer, ToldFirst
  <2>3. Promise!Grant
    BY <1>2, <1>3, <2>1, <2>2 DEF Promise!Grant, Promise!Ends, got, asked, closed
  <2>. QED BY <2>3 DEF Promise!Next
<1>6. ASSUME SendFailed, cache' = cache,
             got' \in {got, [got EXCEPT ![cur] =
                              IF got[cur] = "partial" THEN "cut" ELSE "failed"]}
      PROVE  Promise!Next
  <2>1. late' \in {late} \cup
          (IF done THEN {} ELSE {[late EXCEPT ![asks[cur]] = late[asks[cur]] + 1]})
    BY <1>6 DEF SendFailed, r
  <2>2. Promise!Fail
    BY <1>2, <1>3, <1>6, <2>1 DEF Promise!Fail, Promise!Ends, got, asked, closed
  <2>. QED BY <2>2 DEF Promise!Next
<1>7. CASE UpstreamFails
  <2>1. step = "call" /\ Respond("502") /\ "502" \in Statuses /\ SendFailed /\ cache' = cache
    BY <1>7 DEF UpstreamFails, Statuses
  <2>2. got' = IF gone[cur] THEN got ELSE [got EXCEPT ![cur] = "failed"]
    BY <2>1, FirstAnswer, ToldFirst
  <2>3. got[cur] = "nothing"
    BY <1>2, <2>1
  <2>. QED BY <1>6, <2>1, <2>2, <2>3
<1>8. CASE StreamBreaks
  <2>1. /\ step = "stream" /\ wire' = Written(<<"error", "end">>) /\ SendFailed
        /\ cache' = cache /\ TypeOK
    BY <1>8 DEF StreamBreaks, Shape
  <2>2. got' = IF gone[cur] THEN got
               ELSE [got EXCEPT ![cur] = Told(wire[cur] \o <<"error", "end">>)]
    BY <1>2, <2>1, FramesGiven, GotWritten
  <2>3. CASE ~gone[cur]
    BY <1>4, <1>6, <2>1, <2>2, <2>3, ToldNext
  <2>. QED BY <1>6, <2>1, <2>2, <2>3
<1>9. CASE StreamEnds
  <2>1. /\ step = "stream" /\ ~gone[cur] /\ wire' = Written(<<"end">>) /\ TypeOK
        /\ late' = late /\ cache' = cache
    BY <1>9 DEF StreamEnds, Respond, Shape
  <2>2. got' = [got EXCEPT ![cur] = Told(wire[cur] \o <<"end">>)]
    BY <1>2, <2>1, FramesGiven, GotWritten
  <2>3. got[cur] = "partial" /\ got' = [got EXCEPT ![cur] = "whole"]
    BY <1>4, <2>1, <2>2, ToldNext
  <2>4. Promise!Finish
    BY <1>2, <1>3, <2>1, <2>3 DEF Promise!Finish, Promise!Ends, got, asked, closed
  <2>. QED BY <2>4 DEF Promise!Next
<1>10. CASE StreamDropped
  <2>1. /\ done /\ asks[cur] \in Streams /\ got' = got /\ late' = late /\ cache' = cache
    BY <1>10 DEF Shape, Flow, StreamDropped, got
  <2>2. Promise!GiveUp
    BY <1>2, <1>3, <2>1 DEF Promise!GiveUp, got, asked, closed
  <2>. QED BY <2>2 DEF Promise!Next
<1>. QED BY <1>5, <1>7, <1>8, <1>9, <1>10

\* The upstream is asked, acts, and a stream begins and goes on.
LEMMA CallGoesOn ==
  ASSUME Shape, Wires, Judged,
         \/ SendUpstream \/ UpstreamActs \/ (\E n \in 0..MaxChunks : StreamStarts(n))
         \/ StreamChunk
  PROVE  [Promise!Next]_(Promise!vars)
<1>1. step \in {"lookup", "call", "stream"}
  BY DEF SendUpstream, UpstreamActs, StreamStarts, StreamChunk
<1>2. /\ cur \in Clients /\ cur # None /\ asks[cur] # None /\ asks[cur] \in Requests /\ ~closed
      /\ step = "lookup" => asked = None
      /\ step \in {"call", "stream"} => asked = cur
      /\ step # "stream" => got[cur] = "nothing" /\ wire[cur] = <<>>
      /\ TypeOK /\ done \in BOOLEAN
  BY <1>1, Handling DEF Shape, TypeOK
<1>3. CASE SendUpstream
  <2>1. /\ step = "lookup" /\ asks[cur] \in Allowed \ cache /\ step' = "call"
        /\ UNCHANGED <<main, cur, asks, wire, cache, done, effects, late>>
    BY <1>3 DEF Judged, SendUpstream, r, threadVars, connVars, upstreamVars
  <2>2. asked' = cur /\ closed' = closed /\ got' = got
    BY <2>1 DEF asked, closed, got
  <2>3. Promise!Ask(cur)
    BY <1>2, <2>1, <2>2 DEF Promise!Ask, Promise!Waiting, got, asked, closed
  <2>. QED BY <1>2, <2>3 DEF Promise!Next
<1>4. CASE UpstreamActs
  <2>1. /\ step = "call" /\ ~done /\ done' = TRUE
        /\ effects' = [effects EXCEPT ![asks[cur]] = effects[asks[cur]] + 1]
        /\ UNCHANGED <<main, cur, step, asks, wire, cache, late>>
    BY <1>4 DEF UpstreamActs, r, threadVars, connVars
  <2>2. asked' = asked /\ closed' = closed /\ got' = got
    BY <2>1 DEF asked, closed, got
  <2>3. Promise!Execute(asks[cur])
    BY <1>2, <2>1, <2>2 DEF Promise!Execute, got, asked, closed
  <2>. QED BY <1>2, <2>3 DEF Promise!Next
<1>5. ASSUME NEW n \in 0..MaxChunks, StreamStarts(n) PROVE [Promise!Next]_(Promise!vars)
  <2>. DEFINE fs == IF n = 0 THEN <<"head">> ELSE <<"head", "data">>
  <2>1. /\ step = "call" /\ asks[cur] \in Streams /\ done /\ wire' = Written(fs)
        /\ step' = "stream" /\ UNCHANGED <<main, cur, asks, cache, done, effects, late>>
    BY <1>5 DEF StreamStarts, r, threadVars, connVars, upstreamVars
  <2>2. asked' = asked /\ closed' = closed
    BY <2>1 DEF asked, closed
  <2>3. fs \in Seq(Frames) /\ Told(fs) = "partial" /\ <<>> \o fs = fs
    BY FramesGiven, ToldFirst
  <2>. HIDE DEF fs
  <2>4. got' = IF gone[cur] THEN got ELSE [got EXCEPT ![cur] = "partial"]
    <3>1. wire[cur] \o fs = fs
      BY <1>2, <2>1, <2>3
    <3>. QED BY <1>2, <2>1, <2>3, <3>1, GotWritten
  <2>5. CASE gone[cur]
    BY <2>1, <2>2, <2>4, <2>5 DEF Promise!vars, got, asked, closed
  <2>6. CASE ~gone[cur]
    <3>1. Promise!Begin
      BY <1>2, <2>1, <2>2, <2>4, <2>6 DEF Promise!Begin, got, asked, closed
    <3>. QED BY <3>1 DEF Promise!Next
  <2>. QED BY <2>5, <2>6
<1>6. CASE StreamChunk
  <2>1. /\ step = "stream" /\ ~gone[cur] /\ wire' = Written(<<"data">>)
        /\ UNCHANGED <<main, cur, step, asks, cache, done, effects, late>>
    BY <1>6 DEF StreamChunk, threadVars, connVars, upstreamVars
  <2>2. Open(wire[cur]) /\ wire[cur] \in Seq(Frames)
    BY <1>2, <2>1 DEF TypeOK, Wires
  <2>3. got' = [got EXCEPT ![cur] = Told(wire[cur] \o <<"data">>)]
    BY <1>2, <2>1, FramesGiven, GotWritten
  <2>4. got' = got
    BY <1>2, <2>2, <2>3, ToldNext DEF got
  <2>. QED BY <2>1, <2>4 DEF Promise!vars, got, asked, closed
<1>. QED BY <1>3, <1>4, <1>5, <1>6

\* Any step: of the gateway, or one it does not see.
LEMMA StepPromised ==
  ASSUME Shape, Wires, Judged, [Next]_vars
  PROVE  [Promise!Next]_(Promise!vars)
<1>1. ASSUME NEW c \in Clients, NEW q \in Requests, Connect(c, q) PROVE Promise!Next
  <2>1. /\ asks[c] = None /\ asks' = [asks EXCEPT ![c] = q] /\ ~closed
        /\ closed' = closed /\ asked' = asked /\ got' = got
        /\ UNCHANGED <<cache, done, effects, late>>
    BY <1>1 DEF Connect, upstreamVars, closed, asked, got
  <2>2. Promise!Connect(c, q)
    BY <2>1 DEF Promise!Connect, got, asked, closed
  <2>. QED BY <2>2 DEF Promise!Next
<1>2. ASSUME NEW c \in Clients, SendRequest(c) \/ Leave(c) \/ Reads(c) PROVE UNCHANGED Promise!vars
  BY <1>2 DEF SendRequest, Leave, Reads, threadVars, upstreamVars, Promise!vars
<1>3. CASE Accept \/ LoopExits
  <2>1. cur = None
    BY <1>3 DEF Shape, Flow, Accept, LoopExits
  <2>2. asked = None /\ asked' = None
    BY <1>3, <2>1 DEF Shape, Flow, Accept, LoopExits, asked
  <2>3. UNCHANGED <<main, asks, wire, cache, done, effects, late>>
    BY <1>3 DEF Accept, LoopExits, connVars, upstreamVars
  <2>. QED BY <2>2, <2>3 DEF Promise!vars, asked
<1>4. CASE BodyRead \/ Admitted
  <2>1. /\ step \notin {"call", "stream"} /\ step' \notin {"call", "stream"}
        /\ UNCHANGED <<main, asks, wire, cache, done, effects, late>>
    BY <1>4 DEF BodyRead, Admitted, threadVars, connVars, upstreamVars
  <2>. QED BY <2>1 DEF Promise!vars
<1>5. CASE ParseRaises \/ CheckRaises
  <2>1. step \in {"body", "check"} /\ step' = "idle" /\ done' = FALSE
        /\ UNCHANGED <<main, asks, wire, cache, effects, late>>
    BY <1>5 DEF ParseRaises, CheckRaises, Done, connVars
  <2>2. ~done /\ done \in BOOLEAN
    BY <2>1 DEF Shape, TypeOK, Flow
  <2>. QED BY <2>1, <2>2 DEF Promise!vars
<1>6. CASE Ending /\ ~ParseRaises /\ ~CheckRaises
  BY <1>6, RefusedOrRepeated, CallEnds DEF Ending, Answering
<1>7. CASE \/ SendUpstream \/ UpstreamActs \/ (\E n \in 0..MaxChunks : StreamStarts(n))
           \/ StreamChunk
  BY <1>7, CallGoesOn
<1>8. ASSUME NEW q \in Requests, UpstreamActsLate(q) PROVE Promise!Next
  <2>1. /\ late[q] > 0 /\ late' = [late EXCEPT ![q] = late[q] - 1]
        /\ effects' = [effects EXCEPT ![q] = effects[q] + 1]
        /\ closed' = closed /\ asked' = asked /\ got' = got
        /\ UNCHANGED <<asks, cache, done>>
    BY <1>8 DEF UpstreamActsLate, threadVars, connVars, closed, asked, got
  <2>2. Promise!ExecuteLate(q)
    BY <2>1 DEF Promise!ExecuteLate, got, asked, closed
  <2>. QED BY <2>2 DEF Promise!Next
<1>9. CASE Shutdown \/ StopReturns
  <2>1. /\ closed' = closed /\ UNCHANGED <<cur, step, asks, wire, cache, done, effects, late>>
    BY <1>9 DEF Shutdown, StopReturns, connVars, upstreamVars, closed
  <2>. QED BY <2>1 DEF Promise!vars, closed
<1>10. CASE ServerClose
  <2>1. /\ asked = None /\ ~closed /\ closed' = TRUE /\ asked' = asked /\ got' = got
        /\ UNCHANGED <<asks, cache, done, effects, late>>
    BY <1>10 DEF Shape, Flow, ServerClose, connVars, upstreamVars, closed, asked, got
  <2>2. Promise!Close
    BY <2>1 DEF Promise!Close, got, asked, closed
  <2>. QED BY <2>2 DEF Promise!Next
<1>11. CASE UNCHANGED vars
  BY <1>11 DEF vars, threadVars, connVars, upstreamVars, Promise!vars
<1>. QED BY <1>1, <1>2, <1>3, <1>4, <1>5, <1>6, <1>7, <1>8, <1>9, <1>10, <1>11, HandlerCases
     DEF Next, Client, ServerThread, Upstream, Advancing

\* The server, its threads, backlog, bodies and framing hidden, is the gateway:
\* for any connections, requests and contract.
THEOREM ServerImplementsGateway == Spec => ImplementsGateway
<1>1. Init => Promise!Init /\ Judged
  <2>1. ASSUME Init PROVE got = [c \in Clients |-> "nothing"]
    BY <2>1, ToldFirst DEF Init, got
  <2>2. ASSUME Init PROVE asked = None /\ closed = FALSE /\ Judged
    BY <2>2 DEF Init, asked, closed, Judged
  <2>3. ASSUME Init PROVE Promise!Init
    BY <2>1, <2>2, <2>3 DEF Init, Promise!Init, got, asked, closed
  <2>. QED BY <2>2, <2>3
<1>2. Shape /\ Judged /\ [Next]_vars => Judged'
  BY JudgedKept
<1>3. Shape /\ Wires /\ Judged /\ [Next]_vars => [Promise!Next]_(Promise!vars)
  BY StepPromised
<1>4. TypeOK /\ Flow /\ Queue /\ Unwritten => Shape
  BY DEF Shape
<1>. QED BY <1>1, <1>2, <1>3, <1>4, TypeCorrect, WellFormed, PTL
     DEF Spec, ImplementsGateway, Promise!Spec

-----------------------------------------------------------------------------
(* What the promise implies, of the server *)

Facts == INSTANCE GatewayProofs WITH memo <- cache, executed <- effects, owed <- late

\* The gateway that the facts are about is the one the server implements.
LEMMA SameGateway ==
  /\ Promise!Init => Facts!Init
  /\ [Promise!Next]_(Promise!vars) => [Facts!Next]_(Facts!vars)
  /\ Facts!Mediated => Promise!Mediated
  /\ Facts!SuccessHonest => Promise!SuccessHonest
  BY DEF got, asked, closed, Promise!Connect, Facts!Connect, Promise!Refuse,
         Facts!Refuse, Promise!Repeat, Facts!Repeat, Promise!Ask, Facts!Ask,
         Promise!Execute, Facts!Execute, Promise!ExecuteLate, Facts!ExecuteLate,
         Promise!Ends, Facts!Ends, Promise!Grant, Facts!Grant, Promise!Begin,
         Facts!Begin, Promise!Finish, Facts!Finish, Promise!Fail, Facts!Fail,
         Promise!GiveUp, Facts!GiveUp, Promise!Close, Facts!Close, Promise!Waiting,
         Facts!Waiting, Promise!Init, Facts!Init, Promise!Next, Facts!Next,
         Promise!vars, Facts!vars, Promise!Mediated, Facts!Mediated,
         Promise!SuccessHonest, Facts!SuccessHonest

\* The server has nothing carried out that the contract does not admit, nor may a
\* call it gave up have: neither a retry nor the upstream being late gets past the
\* gate.
THEOREM ServerMediates == Spec => []Promise!Mediated
<1>1. Facts!Spec => []Facts!Mediated
  BY Facts!NothingUnmediated
<1>2. Spec => Promise!Spec
  BY ServerImplementsGateway DEF ImplementsGateway
<1>. QED BY <1>1, <1>2, SameGateway, PTL DEF Promise!Spec, Facts!Spec

\* Whoever the server tells of a success, or of the start of a stream, asked for
\* something the upstream carried out, and so was what the cache remembers.
THEOREM ServerTellsTheTruth == Spec => []Promise!SuccessHonest
<1>1. Facts!Spec => []Facts!SuccessHonest
  BY Facts!SuccessesHonest
<1>2. Spec => Promise!Spec
  BY ServerImplementsGateway DEF ImplementsGateway
<1>. QED BY <1>1, <1>2, SameGateway, PTL DEF Promise!Spec, Facts!Spec
==============================================================================
