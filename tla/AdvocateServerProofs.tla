------------------------ MODULE AdvocateServerProofs ------------------------
(***************************************************************************)
(* Theorems about AdvocateServer, for any connections and requests.        *)
(***************************************************************************)
EXTENDS AdvocateServer, SequenceTheorems, FiniteSetTheorems, TLAPS

-----------------------------------------------------------------------------
(* The inductive invariant *)

\* The loop handles a connection exactly while the handler has a step for it,
\* only the upstream call and the stream know an executed request, and what
\* stop() does comes after the loop's end.
Flow ==
  /\ loop = "handling" <=> cur # None
  /\ step = "idle" <=> cur = None
  /\ cur # None => asks[cur] # None
  /\ done => step \in {"call", "stream"}
  /\ step = "stream" => done /\ asks[cur] \in Streams
  /\ main \in {"closed", "stopped"} => loop = "exited"

\* A connection waits once, was made, is not the one being handled, and
\* nothing was written to it.
Queue ==
  \A i \in 1..Len(backlog) :
    /\ asks[backlog[i]] # None
    /\ backlog[i] # cur
    /\ wire[backlog[i]] = <<>>
    /\ \A j \in 1..Len(backlog) : backlog[j] = backlog[i] => i = j

\* Nothing is written before a connection is made or before its answer.
Unwritten ==
  /\ \A c \in Clients : asks[c] = None => wire[c] = <<>>
  /\ cur # None /\ step # "stream" => wire[cur] = <<>>

\* What a connection may carry: the headers and chunks of a stream that is
\* still open, one that ended after all n chunks, one that ended on an error.
Open(w) ==
  /\ Len(w) > 0 /\ w[1] = "head"
  /\ \A i \in 2..Len(w) : w[i] = "data"
Ended(w, n) ==
  /\ Len(w) = n + 2 /\ w[1] = "head" /\ w[Len(w)] = "end"
  /\ \A i \in 2..Len(w) - 1 : w[i] = "data"
Broken(w) ==
  /\ Len(w) > 2 /\ w[1] = "head"
  /\ w[Len(w)] = "end" /\ w[Len(w) - 1] = "error"
  /\ \A i \in 2..Len(w) - 2 : w[i] = "data"
Single(w) == Len(w) = 1 /\ w[1] \in Statuses

Wires ==
  /\ \A c \in Clients :
       \/ wire[c] = <<>>
       \/ Single(wire[c])
       \/ Open(wire[c])
       \/ Ended(wire[c], chunks[c])
       \/ Broken(wire[c])
  /\ step = "stream" => gone[cur] \/ Open(wire[cur])

\* EffectsAccounted with the one execution the call in flight allows for
\* counted only once it happened, and with what the cache means for a call.
Accounted(q) ==
  /\ effects[q] + late[q] <=
       failures[q] + (IF q \in cache THEN 1 ELSE 0) + (IF InFlight(q) /\ done THEN 1 ELSE 0)
  /\ q \in cache => effects[q] > 0 /\ ~InFlight(q)
  /\ InFlight(q) /\ done => effects[q] > 0
Effects == \A q \in Cached : Accounted(q)

\* The part on which the two others rest.
Shape == TypeOK /\ Flow /\ Queue /\ Unwritten

-----------------------------------------------------------------------------
(* What the handler's steps do *)

\* The steps that end with the handler done with its connection.
Answering ==
  \/ TurnedAway \/ BodyUnusable \/ BadRequest \/ Denied
  \/ CacheHit \/ UpstreamSucceeds \/ UpstreamFails
  \/ StreamEnds \/ StreamBreaks
Ending == Answering \/ ParseRaises \/ CheckRaises \/ StreamDropped

\* The steps that only take the handler further.
Advancing == BodyRead \/ Admitted \/ SendUpstream

Finals == {<<s>> : s \in Statuses \cup {"end"}} \cup {<<"error", "end">>}

\* Every step of the handler is of one of these kinds.
LEMMA HandlerCases ==
  Handler <=> Advancing \/ Ending \/ (\E n \in 0..MaxChunks : StreamStarts(n)) \/ StreamChunk
  BY DEF Handler, Advancing, Ending, Answering

\* What the handler writes is a sequence of frames.
LEMMA FramesType ==
  /\ Finals \subseteq Seq(Frames)
  /\ <<"head">> \in Seq(Frames) /\ <<"head", "data">> \in Seq(Frames) /\ <<"data">> \in Seq(Frames)
<1>1. \A a, b \in Frames : <<a>> \in Seq(Frames) /\ <<a, b>> \in Seq(Frames)
  OBVIOUS
<1>2. {"head", "data", "error", "end"} \subseteq Frames /\ Statuses \subseteq Frames
  BY DEF Frames
<1>3. \A f \in Finals : f \in Seq(Frames)
  <2>1. \A f \in Finals : (\E s \in Statuses \cup {"end"} : f = <<s>>) \/ f = <<"error", "end">>
    BY Zenon DEF Finals
  <2>. QED BY <1>1, <1>2, <2>1
<1>. QED BY <1>1, <1>2, <1>3

\* What is written extends the handled connection, unless its client is gone.
LEMMA WrittenType ==
  ASSUME TypeOK, cur # None, NEW fs \in Seq(Frames)
  PROVE  /\ cur \in Clients
         /\ Written(fs) \in [Clients -> Seq(Frames)]
         /\ Written(fs)[cur] = IF gone[cur] THEN wire[cur] ELSE wire[cur] \o fs
         /\ \A c \in Clients \ {cur} : Written(fs)[c] = wire[c]
<1>1. cur \in Clients /\ wire \in [Clients -> Seq(Frames)]
  BY DEF TypeOK
<1>2. wire[cur] \o fs \in Seq(Frames)
  BY <1>1, ConcatProperties
<1>. QED BY <1>1, <1>2 DEF Written

\* A failed send touches the counters of the request it was for alone.
LEMMA SendFailedType ==
  ASSUME TypeOK, cur # None, asks[cur] # None, SendFailed
  PROVE  /\ effects' = effects
         /\ failures' \in [Requests -> Nat] /\ late' \in [Requests -> Nat]
         /\ failures'[r] = failures[r] + 1
         /\ late'[r] <= late[r] + (IF done THEN 0 ELSE 1)
         /\ \A q \in Requests \ {r} : failures'[q] = failures[q] /\ late'[q] = late[q]
<1>1. r \in Requests /\ failures \in [Requests -> Nat] /\ late \in [Requests -> Nat]
  BY DEF TypeOK, r
<1>2. late' = late \/ (~done /\ late' = [late EXCEPT ![r] = late[r] + 1])
  <2>1. CASE done
    BY <2>1 DEF SendFailed
  <2>2. CASE ~done
    BY <2>2 DEF SendFailed
  <2>. QED BY <2>1, <2>2
<1>3. /\ effects' = effects
      /\ failures' = [failures EXCEPT ![r] = failures[r] + 1]
  BY DEF SendFailed
<1>4. /\ failures' \in [Requests -> Nat]
      /\ failures'[r] = failures[r] + 1
      /\ \A q \in Requests \ {r} : failures'[q] = failures[q]
  BY <1>1, <1>3
<1>5. /\ late' \in [Requests -> Nat]
      /\ late'[r] <= late[r] + (IF done THEN 0 ELSE 1)
      /\ \A q \in Requests \ {r} : late'[q] = late[q]
  <2>1. CASE late' = late
    BY <1>1, <2>1
  <2>2. CASE ~done /\ late' = [late EXCEPT ![r] = late[r] + 1]
    BY <1>1, <2>2
  <2>. QED BY <1>2, <2>1, <2>2
<1>. QED BY <1>3, <1>4, <1>5

\* The ending steps: the loop polls again, and what was written is final.
LEMMA EndingStep ==
  ASSUME Shape, Ending
  PROVE  /\ cur \in Clients /\ loop = "handling" /\ Done /\ chunks' = chunks
         /\ wire' = wire \/ \E fs \in Finals : wire' = Written(fs)
         /\ cache' \subseteq Cached
         /\ effects' = effects
         /\ failures' \in [Requests -> Nat] /\ late' \in [Requests -> Nat]
<1>1. cur \in Clients /\ cur # None /\ asks[cur] # None /\ loop = "handling"
  <2>1. step # "idle"
    BY DEF Ending, Answering, TurnedAway, BodyUnusable, ParseRaises, CheckRaises, BadRequest,
       Denied, CacheHit, UpstreamSucceeds, UpstreamFails, StreamEnds, StreamBreaks, StreamDropped
  <2>. QED BY <2>1 DEF Shape, TypeOK, Flow
<1>2. <<"200">> \in Finals /\ <<"400">> \in Finals /\ <<"403">> \in Finals
      /\ <<"502">> \in Finals /\ <<"end">> \in Finals /\ <<"error", "end">> \in Finals
  BY DEF Finals, Statuses
<1>3. /\ Done /\ chunks' = chunks
      /\ wire' = wire \/ \E fs \in Finals : wire' = Written(fs)
  BY <1>2 DEF Ending, Answering, Respond, TurnedAway, BodyUnusable, ParseRaises, CheckRaises, BadRequest,
     Denied, CacheHit, UpstreamSucceeds, UpstreamFails, StreamEnds, StreamBreaks, StreamDropped
<1>4. cache' = cache \/ cache' = cache \cup ({r} \cap Cached)
  BY DEF Ending, Answering, Remember, TurnedAway, BodyUnusable, ParseRaises, CheckRaises, BadRequest,
     Denied, CacheHit, UpstreamSucceeds, UpstreamFails, StreamEnds, StreamBreaks, StreamDropped
<1>5. CASE SendFailed
  <2>1. /\ effects' = effects
        /\ failures' \in [Requests -> Nat] /\ late' \in [Requests -> Nat]
    BY <1>1, <1>5, SendFailedType DEF Shape, TypeOK
  <2>2. cache' \subseteq Cached
    BY <1>4 DEF Shape, TypeOK
  <2>. QED BY <1>1, <1>3, <2>1, <2>2
<1>6. CASE UNCHANGED <<effects, failures, late>>
  BY <1>1, <1>3, <1>4, <1>6 DEF Shape, TypeOK
<1>7. SendFailed \/ UNCHANGED <<effects, failures, late>>
  BY DEF Ending, Answering, TurnedAway, BodyUnusable, ParseRaises, CheckRaises, BadRequest,
     Denied, CacheHit, UpstreamSucceeds, UpstreamFails, StreamEnds, StreamBreaks, StreamDropped
<1>. QED BY <1>5, <1>6, <1>7

-----------------------------------------------------------------------------
(* Types, the flow of the handler and the queue *)

\* An ending step leaves a well-typed, idle handler.
LEMMA EndingKeepsShape ==
  ASSUME Shape, Ending
  PROVE  Shape'
<1>1. /\ cur \in Clients /\ loop = "handling" /\ Done /\ chunks' = chunks
      /\ wire' = wire \/ \E fs \in Finals : wire' = Written(fs)
      /\ cache' \subseteq Cached
      /\ effects' = effects
      /\ failures' \in [Requests -> Nat] /\ late' \in [Requests -> Nat]
  BY EndingStep
<1>2. cur # None
  BY <1>1, NoneAssumption
<1>3. /\ wire' \in [Clients -> Seq(Frames)]
      /\ \A c \in Clients \ {cur} : wire'[c] = wire[c]
  <2>1. CASE wire' = wire
    BY <2>1 DEF Shape, TypeOK
  <2>2. ASSUME NEW fs \in Finals, wire' = Written(fs)
        PROVE  /\ wire' \in [Clients -> Seq(Frames)]
               /\ \A c \in Clients \ {cur} : wire'[c] = wire[c]
    BY <1>2, <2>2, FramesType, WrittenType DEF Shape
  <2>. QED BY <1>1, <2>1, <2>2
<1>4. TypeOK'
  BY <1>1, <1>3 DEF Shape, TypeOK, Done, connVars, Steps
<1>5. Flow'
  BY <1>1 DEF Shape, TypeOK, Flow, Done, connVars
<1>6. Queue'
  <2>. SUFFICES ASSUME NEW i \in 1..Len(backlog)
                PROVE  /\ asks[backlog[i]] # None
                       /\ backlog[i] # None
                       /\ wire'[backlog[i]] = <<>>
                       /\ \A j \in 1..Len(backlog) : backlog[j] = backlog[i] => i = j
    BY <1>1 DEF Queue, Done, connVars
  <2>1. backlog[i] \in Clients
    BY DEF Shape, TypeOK
  <2>. QED BY <1>3, <2>1, NoneAssumption DEF Shape, Queue
<1>7. Unwritten'
  BY <1>1, <1>2, <1>3 DEF Shape, Flow, Unwritten, Done, connVars
<1>. QED BY <1>4, <1>5, <1>6, <1>7 DEF Shape

\* The invariant's first part holds when the server starts.
LEMMA ShapeInitial == Init => Shape
<1>. SUFFICES ASSUME Init PROVE Shape
  OBVIOUS
<1>1. TypeOK
  <2>1. <<>> \in Seq(Clients) /\ <<>> \in Seq(Frames) /\ 0 \in 0..MaxChunks
    BY EmptySeq, MaxChunksAssumption
  <2>2. /\ backlog \in Seq(Clients)
        /\ wire \in [Clients -> Seq(Frames)]
        /\ chunks \in [Clients -> 0..MaxChunks]
    BY <2>1 DEF Init
  <2>3. /\ asks \in [Clients -> Requests \cup {None}]
        /\ sent \in [Clients -> BOOLEAN] /\ gone \in [Clients -> BOOLEAN]
        /\ reads \in [Clients -> BOOLEAN]
        /\ effects \in [Requests -> Nat] /\ failures \in [Requests -> Nat]
        /\ late \in [Requests -> Nat]
    BY DEF Init
  <2>. QED BY <2>2, <2>3 DEF Init, TypeOK, Steps
<1>2. Flow /\ Queue /\ Unwritten
  BY DEF Init, Flow, Queue, Unwritten
<1>. QED BY <1>1, <1>2 DEF Shape

\* No step breaks it: one case for each action, those of one kind together.
LEMMA ShapeKept ==
  ASSUME Shape, [Next]_vars
  PROVE  Shape'
<1>. USE DEF Shape
<1>1. ASSUME NEW c \in Clients, NEW q \in Requests, Connect(c, q) PROVE Shape'
  <2>1. c # cur /\ q # None /\ \A i \in 1..Len(backlog) : backlog[i] \in Clients \ {c}
    BY <1>1, NoneAssumption DEF TypeOK, Flow, Queue, Connect
  <2>2. /\ backlog' \in Seq(Clients) /\ Len(backlog') = Len(backlog) + 1
        /\ \A i \in 1..Len(backlog) : backlog'[i] = backlog[i]
        /\ backlog'[Len(backlog) + 1] = c
    BY <1>1, AppendProperties DEF TypeOK, Connect
  <2>3. TypeOK'
    BY <1>1, <2>2 DEF TypeOK, Connect, upstreamVars
  <2>4. Flow'
    BY <1>1, <2>1 DEF TypeOK, Flow, Connect, upstreamVars
  <2>5. Queue'
    <3>. SUFFICES ASSUME NEW i \in 1..Len(backlog')
                  PROVE  /\ asks'[backlog'[i]] # None
                         /\ backlog'[i] # cur
                         /\ wire[backlog'[i]] = <<>>
                         /\ \A j \in 1..Len(backlog') : backlog'[j] = backlog'[i] => i = j
      BY <1>1 DEF Queue, Connect
    <3>1. Len(backlog) \in Nat
      BY DEF TypeOK
    <3>2. /\ asks' = [asks EXCEPT ![c] = q] /\ asks[c] = None
          /\ asks \in [Clients -> Requests \cup {None}]
      BY <1>1 DEF TypeOK, Connect
    <3>3. CASE i = Len(backlog) + 1
      <4>1. asks'[c] # None /\ c # cur /\ wire[c] = <<>>
        BY <2>1, <3>2 DEF Unwritten
      <4>2. \A j \in 1..Len(backlog') : backlog'[j] = c => j = i
        BY <2>1, <2>2, <3>1, <3>3
      <4>. QED BY <2>2, <3>3, <4>1, <4>2
    <3>4. CASE i \in 1..Len(backlog)
      <4>1. backlog'[i] = backlog[i] /\ backlog[i] # c /\ backlog[i] \in Clients
        BY <2>1, <2>2, <3>4
      <4>2. asks'[backlog[i]] # None /\ backlog[i] # cur /\ wire[backlog[i]] = <<>>
        BY <3>2, <3>4, <4>1 DEF Queue
      <4>3. \A j \in 1..Len(backlog') : backlog'[j] = backlog[i] => i = j
        BY <2>1, <2>2, <3>1, <3>4, <4>1 DEF Queue
      <4>. QED BY <4>1, <4>2, <4>3
    <3>. QED BY <2>2, <3>1, <3>3, <3>4
  <2>6. Unwritten'
    BY <1>1, <2>1 DEF TypeOK, Unwritten, Connect
  <2>. QED BY <2>3, <2>4, <2>5, <2>6
<1>2. ASSUME NEW c \in Clients, SendRequest(c) \/ Leave(c) \/ Reads(c) PROVE Shape'
  <2>1. TypeOK'
    BY <1>2 DEF TypeOK, SendRequest, Leave, Reads, threadVars, upstreamVars
  <2>2. Flow' /\ Queue' /\ Unwritten'
    BY <1>2 DEF Flow, Queue, Unwritten, SendRequest, Leave, Reads, threadVars, upstreamVars
  <2>. QED BY <2>1, <2>2
<1>3. CASE Accept
  <2>1. /\ Head(backlog) = backlog[1] /\ backlog' \in Seq(Clients)
        /\ Len(backlog) \in Nat /\ Len(backlog) > 0 /\ Len(backlog') = Len(backlog) - 1
        /\ \A i \in 1..Len(backlog') : backlog'[i] = backlog[i + 1]
    BY <1>3, HeadTailProperties DEF TypeOK, Accept
  <2>2. 1 \in 1..Len(backlog) /\ \A i \in 1..Len(backlog') : i + 1 \in 1..Len(backlog)
    BY <2>1
  <2>3. cur' = backlog[1] /\ cur' \in Clients /\ cur' # None
    BY <1>3, <2>1, <2>2, NoneAssumption DEF TypeOK, Accept
  <2>4. TypeOK'
    BY <1>3, <2>1, <2>3 DEF TypeOK, Accept, connVars, upstreamVars, Steps
  <2>5. Flow'
    BY <1>3, <2>2, <2>3 DEF TypeOK, Flow, Queue, Accept, connVars, upstreamVars
  <2>6. Queue'
    <3>. SUFFICES ASSUME NEW i \in 1..Len(backlog')
                  PROVE  /\ asks[backlog'[i]] # None
                         /\ backlog'[i] # backlog[1]
                         /\ wire[backlog'[i]] = <<>>
                         /\ \A j \in 1..Len(backlog') : backlog'[j] = backlog'[i] => i = j
      BY <1>3, <2>3 DEF Queue, Accept, connVars
    <3>. QED BY <2>1, <2>2 DEF Queue
  <2>7. Unwritten'
    BY <1>3, <2>2, <2>3 DEF Queue, Unwritten, Accept, connVars
  <2>. QED BY <2>4, <2>5, <2>6, <2>7
<1>4. CASE LoopExits
  BY <1>4 DEF TypeOK, Flow, Queue, Unwritten, LoopExits, connVars, upstreamVars
<1>5. CASE Advancing
  <2>1. TypeOK'
    BY <1>5 DEF TypeOK, Advancing, BodyRead, Admitted, SendUpstream, threadVars, connVars, upstreamVars, Steps
  <2>2. Flow'
    BY <1>5 DEF Flow, Advancing, BodyRead, Admitted, SendUpstream, threadVars, connVars, upstreamVars
  <2>3. Queue' /\ Unwritten'
    BY <1>5 DEF Queue, Unwritten, Advancing, BodyRead, Admitted, SendUpstream, threadVars, connVars
  <2>. QED BY <2>1, <2>2, <2>3
<1>6. CASE Ending
  BY <1>6, EndingKeepsShape
<1>7. ASSUME NEW n \in 0..MaxChunks, StreamStarts(n) PROVE Shape'
  <2>1. cur \in Clients /\ cur # None /\ asks[cur] # None
    BY <1>7 DEF TypeOK, Flow, StreamStarts
  <2>2. /\ wire' \in [Clients -> Seq(Frames)]
        /\ \A c \in Clients \ {cur} : wire'[c] = wire[c]
    BY <1>7, <2>1, FramesType, WrittenType DEF StreamStarts
  <2>3. TypeOK'
    BY <1>7, <2>2 DEF TypeOK, StreamStarts, threadVars, connVars, upstreamVars, Steps
  <2>4. Flow'
    BY <1>7 DEF Flow, StreamStarts, threadVars, connVars, upstreamVars, r
  <2>5. Queue'
    BY <1>7, <2>2 DEF TypeOK, Queue, StreamStarts, threadVars, connVars
  <2>6. Unwritten'
    BY <1>7, <2>1, <2>2 DEF Unwritten, StreamStarts, threadVars, connVars
  <2>. QED BY <2>3, <2>4, <2>5, <2>6
<1>8. CASE StreamChunk
  <2>1. cur \in Clients /\ cur # None /\ asks[cur] # None
    BY <1>8 DEF TypeOK, Flow, StreamChunk
  <2>2. /\ wire' \in [Clients -> Seq(Frames)]
        /\ \A c \in Clients \ {cur} : wire'[c] = wire[c]
    BY <1>8, <2>1, FramesType, WrittenType DEF StreamChunk
  <2>3. TypeOK'
    BY <1>8, <2>2 DEF TypeOK, StreamChunk, threadVars, connVars, upstreamVars
  <2>4. Flow'
    BY <1>8 DEF Flow, StreamChunk, threadVars, connVars, upstreamVars
  <2>5. Queue'
    BY <1>8, <2>2 DEF TypeOK, Queue, StreamChunk, threadVars, connVars
  <2>6. Unwritten'
    BY <1>8, <2>1, <2>2 DEF Unwritten, StreamChunk, threadVars, connVars
  <2>. QED BY <2>3, <2>4, <2>5, <2>6
<1>9. CASE UpstreamActs
  <2>1. r \in Requests
    BY <1>9 DEF TypeOK, Flow, UpstreamActs, r
  <2>2. TypeOK'
    BY <1>9, <2>1 DEF TypeOK, UpstreamActs, threadVars, connVars
  <2>3. Flow' /\ Queue' /\ Unwritten'
    BY <1>9 DEF Flow, Queue, Unwritten, UpstreamActs, threadVars, connVars
  <2>. QED BY <2>2, <2>3
<1>10. ASSUME NEW q \in Requests, UpstreamActsLate(q) PROVE Shape'
  <2>1. TypeOK'
    BY <1>10 DEF TypeOK, UpstreamActsLate, threadVars, connVars
  <2>2. Flow' /\ Queue' /\ Unwritten'
    BY <1>10 DEF Flow, Queue, Unwritten, UpstreamActsLate, threadVars, connVars
  <2>. QED BY <2>1, <2>2
<1>11. CASE Shutdown \/ ServerClose \/ StopReturns
  <2>1. TypeOK'
    <3>1. <<>> \in Seq(Clients)
      BY EmptySeq
    <3>. QED BY <1>11, <3>1 DEF TypeOK, Shutdown, ServerClose, StopReturns, connVars, upstreamVars
  <2>2. Flow' /\ Unwritten'
    BY <1>11 DEF Flow, Unwritten, Shutdown, ServerClose, StopReturns, connVars, upstreamVars
  <2>3. Queue'
    BY <1>11 DEF Queue, Shutdown, ServerClose, StopReturns, connVars
  <2>. QED BY <2>1, <2>2, <2>3
<1>12. CASE UNCHANGED vars
  BY <1>12 DEF TypeOK, Flow, Queue, Unwritten, vars, threadVars, connVars, upstreamVars
<1>. QED BY <1>1, <1>2, <1>3, <1>4, <1>5, <1>6, <1>7, <1>8, <1>9, <1>10, <1>11, <1>12, HandlerCases
     DEF Next, Client, ServerThread, Upstream

\* The state is well typed; the handler, the loop and the backlog agree on
\* which connection is where (serve_forever, Accept ... Done).
THEOREM TypeCorrect == Spec => [](TypeOK /\ Flow /\ Queue /\ Unwritten)
<1>1. Init => Shape
  BY ShapeInitial
<1>2. Shape /\ [Next]_vars => Shape'
  BY ShapeKept
<1>3. Shape => TypeOK /\ Flow /\ Queue /\ Unwritten
  BY DEF Shape
<1>. QED BY <1>1, <1>2, <1>3, PTL DEF Spec

\* Once stop() is past shutdown() nothing is handled any more (shutdown waits
\* for serve_forever to return before server_close).
THEOREM QuietOnceClosed == Spec => []QuietWhenClosed
<1>1. TypeOK /\ Flow => QuietWhenClosed
  BY DEF Flow, QuietWhenClosed
<1>. QED BY <1>1, TypeCorrect, PTL

-----------------------------------------------------------------------------
(* Every connection the handler leaves was answered *)

\* Whatever was on the wire, a final write completes it.
LEMMA AnswerCompletes ==
  ASSUME NEW w \in Seq(Frames), NEW fs \in Finals
  PROVE  Complete(w \o fs)
<1>1. fs \in Seq(Frames)
  BY FramesType
<1>2. Len(fs) > 0 /\ fs[Len(fs)] \in Statuses \cup {"end"}
  <2>1. (\E s \in Statuses \cup {"end"} : fs = <<s>>) \/ fs = <<"error", "end">>
    BY Zenon DEF Finals
  <2>2. ASSUME NEW s \in Statuses \cup {"end"}, fs = <<s>>
        PROVE  Len(fs) > 0 /\ fs[Len(fs)] \in Statuses \cup {"end"}
    <3>1. Len(<<s>>) = 1 /\ <<s>>[1] = s
      OBVIOUS
    <3>. QED BY <2>2, <3>1
  <2>3. CASE fs = <<"error", "end">>
    BY <2>3
  <2>. QED BY <2>1, <2>2, <2>3
<1>3. /\ Len(w \o fs) = Len(w) + Len(fs) /\ Len(w) \in Nat /\ Len(fs) \in Nat
      /\ (w \o fs)[Len(w) + Len(fs)] = fs[Len(fs)]
  BY <1>1, <1>2, ConcatProperties, LenProperties
<1>. QED BY <1>2, <1>3 DEF Complete

\* An answering step makes a final write.
LEMMA AnsweringWrites ==
  ASSUME Answering
  PROVE  \E fs \in Finals : wire' = Written(fs)
<1>1. <<"200">> \in Finals /\ <<"400">> \in Finals /\ <<"403">> \in Finals
      /\ <<"502">> \in Finals /\ <<"end">> \in Finals /\ <<"error", "end">> \in Finals
  BY DEF Finals, Statuses
<1>. QED
  BY <1>1 DEF Answering, Respond, TurnedAway, BodyUnusable, BadRequest, Denied, CacheHit,
     UpstreamSucceeds, UpstreamFails, StreamEnds, StreamBreaks

\* The steps that take the handled connection away from the handler end it.
LEMMA LeavingEnds ==
  ASSUME Shape, Next, cur \in Clients, cur' # cur
  PROVE  Ending
<1>1. loop = "handling"
  BY NoneAssumption DEF Shape, Flow
<1>2. ~Accept
  BY <1>1 DEF Accept
<1>. QED
  BY <1>2, HandlerCases DEF Next, Client, ServerThread, Upstream, Connect, SendRequest, Leave, Reads,
     LoopExits, Advancing, BodyRead, Admitted, SendUpstream, StreamStarts, StreamChunk,
     UpstreamActs, UpstreamActsLate, Shutdown, ServerClose, StopReturns, threadVars

\* The handler leaves a connection answered in full, unless the client left it
\* or the request is one at which the parser or the field check raises (do_POST,
\* _read_json_body, _validate, _handle_anthropic_stream).
THEOREM LeftAnswered == Spec => AnsweredInFull
<1>1. ASSUME Shape, Next, NEW c \in Clients, cur = c, cur' # c
      PROVE  gone[c] \/ asks[c] \in Unanswerable \/ Complete(wire'[c])
  <2>1. Ending
    BY <1>1, LeavingEnds
  <2>2. CASE ParseRaises \/ CheckRaises
    BY <1>1, <2>2 DEF ParseRaises, CheckRaises, Unanswerable, r
  <2>3. CASE StreamDropped
    BY <1>1, <2>3 DEF StreamDropped
  <2>4. CASE Answering
    <3>1. PICK fs \in Finals : wire' = Written(fs)
      BY <2>4, AnsweringWrites
    <3>2. CASE ~gone[c]
      <4>1. wire'[c] = wire[c] \o fs
        <5>1. fs \in Seq(Frames) /\ cur # None /\ TypeOK
          BY <1>1, NoneAssumption, FramesType DEF Shape
        <5>2. Written(fs)[cur] = IF gone[cur] THEN wire[cur] ELSE wire[cur] \o fs
          BY <5>1, WrittenType
        <5>. QED BY <1>1, <3>1, <3>2, <5>2
      <4>2. wire[c] \in Seq(Frames)
        BY <1>1 DEF Shape, TypeOK
      <4>. QED BY <4>1, <4>2, AnswerCompletes
    <3>. QED BY <3>2
  <2>. QED BY <2>1, <2>2, <2>3, <2>4 DEF Ending
<1>2. Shape /\ [Next]_vars => [\A c \in Clients :
        cur = c /\ cur' # c =>
          gone[c] \/ asks[c] \in Unanswerable \/ Complete(wire'[c])]_vars
  BY <1>1
<1>3. Spec => []Shape
  BY ShapeInitial, ShapeKept, PTL DEF Spec
<1>. QED BY <1>2, <1>3, PTL DEF Spec, AnsweredInFull

-----------------------------------------------------------------------------
(* What the upstream carried out *)

\* A cached request is no stream, and its counters are numbers.
LEMMA CountersType ==
  ASSUME Shape, NEW q \in Cached
  PROVE  /\ q \in Requests /\ q # None /\ q \notin Streams
         /\ effects[q] \in Nat /\ failures[q] \in Nat /\ late[q] \in Nat
  BY RequestsAssumption, NoneAssumption DEF Shape, TypeOK

\* With q's counters and the cache as they were, and no call for q in flight
\* that was not in flight before, what is accounted for stays so.
LEMMA SameAccount ==
  ASSUME NEW q \in Cached, Accounted(q),
         effects'[q] = effects[q], failures'[q] = failures[q], late'[q] = late[q],
         cache' = cache,
         \/ ~InFlight(q) /\ ~InFlight(q)'
         \/ (InFlight(q) <=> InFlight(q)') /\ (done <=> done')
  PROVE  Accounted(q)'
  BY DEF Accounted

\* A call that ends moves its execution from the call in flight to the cache, or
\* to the failed sends.
LEMMA EndingAccounted ==
  ASSUME Shape, Ending, NEW q \in Cached, Accounted(q)
  PROVE  Accounted(q)'
<1>1. /\ cur \in Clients /\ cur # None /\ cur' = None /\ effects' = effects
      /\ asks[cur] # None
  BY EndingStep, NoneAssumption DEF Done, Shape, Flow
<1>2. /\ q \in Requests /\ q \notin Streams
      /\ effects[q] \in Nat /\ failures[q] \in Nat /\ late[q] \in Nat
  BY CountersType
<1>3. ~InFlight(q)'
  BY <1>1 DEF InFlight
<1>4. CASE UpstreamSucceeds
  <2>1. /\ step = "call" /\ done /\ failures' = failures /\ late' = late
        /\ cache' = cache \cup ({asks[cur]} \cap Cached)
    BY <1>4 DEF UpstreamSucceeds, Remember, r
  <2>2. CASE asks[cur] = q
    BY <1>1, <1>2, <1>3, <2>1, <2>2 DEF Accounted, InFlight
  <2>3. CASE asks[cur] # q
    BY <1>1, <1>2, <1>3, <2>1, <2>3 DEF Accounted, InFlight
  <2>. QED BY <2>2, <2>3
<1>5. CASE SendFailed /\ cache' = cache
  <2>1. /\ failures'[r] = failures[r] + 1
        /\ late'[r] <= late[r] + (IF done THEN 0 ELSE 1)
        /\ late' \in [Requests -> Nat]
        /\ \A p \in Requests \ {r} : failures'[p] = failures[p] /\ late'[p] = late[p]
    BY <1>1, <1>5, SendFailedType DEF Shape
  <2>2. late'[q] \in Nat
    BY <1>2, <2>1
  <2>3. CASE r = q
    BY <1>1, <1>2, <1>3, <1>5, <2>1, <2>2, <2>3 DEF Accounted, InFlight, r
  <2>4. CASE r # q
    BY <1>1, <1>2, <1>3, <1>5, <2>1, <2>4 DEF Accounted, InFlight, r
  <2>. QED BY <2>3, <2>4
<1>6. CASE step # "call" /\ UNCHANGED <<cache, failures, late>>
  BY <1>1, <1>3, <1>6, SameAccount DEF InFlight
<1>7. \/ UpstreamSucceeds \/ (SendFailed /\ cache' = cache)
      \/ step # "call" /\ UNCHANGED <<cache, failures, late>>
  BY DEF Ending, Answering, TurnedAway, BodyUnusable, ParseRaises, CheckRaises, BadRequest, Denied,
     CacheHit, UpstreamFails, StreamEnds, StreamBreaks, StreamDropped
<1>. QED BY <1>4, <1>5, <1>6, <1>7

\* No step carries a cached request out without an account of it.
LEMMA EffectsKept ==
  ASSUME Shape, Effects, [Next]_vars
  PROVE  Effects'
<1>. SUFFICES ASSUME NEW q \in Cached PROVE Accounted(q)'
  BY DEF Effects
<1>. USE DEF Effects
<1>0. /\ q \in Requests /\ q # None /\ q \notin Streams
      /\ effects[q] \in Nat /\ failures[q] \in Nat /\ late[q] \in Nat
  BY CountersType
<1>1. ASSUME NEW c \in Clients, Client(c) PROVE Accounted(q)'
  <2>1. asks'[cur] = asks[cur] \/ cur = None
    BY <1>1 DEF Shape, TypeOK, Flow, Client, Connect, SendRequest, Leave, Reads
  <2>. QED BY <1>1, <2>1, SameAccount
       DEF Client, Connect, SendRequest, Leave, Reads, InFlight, threadVars, upstreamVars
<1>2. CASE Accept \/ LoopExits
  <2>1. cur = None
    BY <1>2 DEF Shape, Flow, Accept, LoopExits
  <2>. QED BY <1>2, <2>1, SameAccount DEF Accept, LoopExits, InFlight, connVars, upstreamVars
<1>3. CASE BodyRead \/ Admitted
  BY <1>3, SameAccount
  DEF BodyRead, Admitted, InFlight, threadVars, connVars, upstreamVars
<1>4. CASE SendUpstream
  BY <1>0, <1>4
  DEF Shape, Flow, Accounted, SendUpstream, InFlight, r, threadVars, connVars, upstreamVars
<1>5. CASE Ending
  BY <1>5, EndingAccounted
<1>6. ASSUME NEW n \in 0..MaxChunks, StreamStarts(n) PROVE Accounted(q)'
  BY <1>0, <1>6, SameAccount DEF StreamStarts, InFlight, r, threadVars, connVars, upstreamVars
<1>7. CASE StreamChunk
  BY <1>7, SameAccount DEF StreamChunk, InFlight, threadVars, connVars, upstreamVars
<1>8. CASE UpstreamActs
  <2>1. /\ step = "call" /\ ~done /\ done' /\ cur # None
        /\ asks[cur] \in Requests
        /\ effects \in [Requests -> Nat]
        /\ effects' = [effects EXCEPT ![asks[cur]] = effects[asks[cur]] + 1]
        /\ UNCHANGED <<step, cur, asks, cache, failures, late>>
    BY <1>8 DEF Shape, TypeOK, Flow, UpstreamActs, r, threadVars, connVars
  <2>2. CASE asks[cur] = q
    BY <1>0, <2>1, <2>2 DEF Accounted, InFlight
  <2>3. CASE asks[cur] # q
    BY <1>0, <2>1, <2>3 DEF Accounted, InFlight
  <2>. QED BY <2>2, <2>3
<1>9. ASSUME NEW p \in Requests, UpstreamActsLate(p) PROVE Accounted(q)'
  <2>1. /\ late[p] \in Nat /\ late[p] > 0
        /\ effects \in [Requests -> Nat] /\ late \in [Requests -> Nat]
        /\ effects' = [effects EXCEPT ![p] = effects[p] + 1]
        /\ late' = [late EXCEPT ![p] = late[p] - 1]
        /\ UNCHANGED <<step, cur, asks, cache, failures, done>>
    BY <1>9 DEF Shape, TypeOK, UpstreamActsLate, threadVars, connVars
  <2>2. CASE p = q
    BY <1>0, <2>1, <2>2 DEF Accounted, InFlight
  <2>3. CASE p # q
    BY <1>0, <2>1, <2>3 DEF Accounted, InFlight
  <2>. QED BY <2>2, <2>3
<1>10. CASE Shutdown \/ ServerClose \/ StopReturns
  BY <1>10, SameAccount DEF Shutdown, ServerClose, StopReturns, InFlight, connVars, upstreamVars
<1>11. CASE UNCHANGED vars
  BY <1>11, SameAccount DEF InFlight, vars, threadVars, connVars, upstreamVars
<1>. QED BY <1>1, <1>2, <1>3, <1>4, <1>5, <1>6, <1>7, <1>8, <1>9, <1>10, <1>11, HandlerCases
     DEF Next, ServerThread, Upstream, Advancing

\* The upstream carries a cached request out at most once for its remembered
\* success and once for each send that failed, and what the cache remembers was
\* carried out (handle_request, idempotency.store).
THEOREM EffectsBounded == Spec => []EffectsAccounted
<1>1. Init => Shape /\ Effects
  <2>1. ASSUME Init, NEW q \in Cached PROVE Accounted(q)
    BY <2>1, RequestsAssumption DEF Init, Accounted, InFlight
  <2>. QED BY <2>1, ShapeInitial DEF Effects
<1>2. Shape /\ Effects /\ [Next]_vars => (Shape /\ Effects)'
  BY ShapeKept, EffectsKept
<1>3. Shape /\ Effects => EffectsAccounted
  <2>. SUFFICES ASSUME Shape, Effects, NEW q \in Cached
                PROVE  /\ effects[q] + late[q] <=
                             failures[q] + Cardinality({q} \cap cache)
                               + (IF InFlight(q) THEN 1 ELSE 0)
                       /\ q \in cache => effects[q] > 0
    BY DEF EffectsAccounted
  <2>1. Cardinality({q} \cap cache) = IF q \in cache THEN 1 ELSE 0
    <3>1. CASE q \in cache
      BY <3>1, {q} \cap cache = {q}, FS_Singleton
    <3>2. CASE q \notin cache
      BY <3>2, {q} \cap cache = {}, FS_EmptySet
    <3>. QED BY <3>1, <3>2
  <2>. QED BY <2>1, CountersType DEF Effects, Accounted
<1>. QED BY <1>1, <1>2, <1>3, PTL DEF Spec

-----------------------------------------------------------------------------
(* What is on the wire *)

\* An open stream carries a chunk in every frame but its first.
LEMMA OpenChunks ==
  ASSUME NEW w \in Seq(Frames), Open(w)
  PROVE  Cardinality({i \in 1..Len(w) : w[i] = "data"}) = Len(w) - 1
<1>1. {i \in 1..Len(w) : w[i] = "data"} = 2..Len(w)
  BY DEF Open
<1>2. Len(w) \in Nat /\ Len(w) > 0
  BY DEF Open
<1>3. Cardinality(2..Len(w)) = Len(w) - 1
  BY <1>2, FS_Interval
<1>. QED BY <1>1, <1>3

\* What a stream becomes with a chunk, its terminator, or an error event.
LEMMA OpenExtended ==
  ASSUME NEW w \in Seq(Frames), Open(w)
  PROVE  /\ Open(w \o <<"data">>)
         /\ Ended(w \o <<"end">>, Len(w) - 1)
         /\ Broken(w \o <<"error", "end">>)
<1>1. /\ Len(w) \in Nat /\ Len(w) > 0 /\ w[1] = "head"
      /\ \A i \in 2..Len(w) : w[i] = "data"
  BY DEF Open
<1>2. ASSUME NEW f \in Frames
      PROVE  /\ Len(w \o <<f>>) = Len(w) + 1
             /\ \A i \in 1..Len(w) : (w \o <<f>>)[i] = w[i]
             /\ (w \o <<f>>)[Len(w) + 1] = f
  BY <1>1
<1>3. /\ Len(w \o <<"error", "end">>) = Len(w) + 2
      /\ \A i \in 1..Len(w) : (w \o <<"error", "end">>)[i] = w[i]
      /\ (w \o <<"error", "end">>)[Len(w) + 1] = "error"
      /\ (w \o <<"error", "end">>)[Len(w) + 2] = "end"
  BY <1>1
<1>4. "data" \in Frames /\ "end" \in Frames
  BY DEF Frames
<1>5. Open(w \o <<"data">>)
  BY <1>1, <1>2, <1>4 DEF Open
<1>6. Ended(w \o <<"end">>, Len(w) - 1)
  BY <1>1, <1>2, <1>4 DEF Ended
<1>7. Broken(w \o <<"error", "end">>)
  BY <1>1, <1>3 DEF Broken
<1>. QED BY <1>5, <1>6, <1>7

\* Outside a stream an answer is one status, on a connection without one.
LEMMA StatusAnswers ==
  ASSUME Shape, Answering, step # "stream"
  PROVE  \E s \in Statuses : wire' = Written(<<s>>)
  BY DEF Statuses, Answering, Respond, TurnedAway, BodyUnusable, BadRequest, Denied, CacheHit,
     UpstreamSucceeds, UpstreamFails, StreamEnds, StreamBreaks

\* The first part of Wires, for one connection.
Fine(w, n) == w = <<>> \/ Single(w) \/ Open(w) \/ Ended(w, n) \/ Broken(w)

\* What an ending step leaves on its connection is well formed.
LEMMA EndingFine ==
  ASSUME Shape, Wires, Ending
  PROVE  Fine(wire'[cur], chunks'[cur])
<1>1. /\ cur \in Clients /\ cur # None /\ chunks' = chunks
      /\ wire[cur] \in Seq(Frames) /\ chunks[cur] \in Nat
  BY EndingStep, NoneAssumption DEF Shape, TypeOK
<1>2. Fine(wire[cur], chunks[cur])
  BY <1>1 DEF Wires, Fine
<1>3. \A fs \in Seq(Frames) :
        Written(fs)[cur] = IF gone[cur] THEN wire[cur] ELSE wire[cur] \o fs
  BY <1>1, WrittenType DEF Shape
<1>4. CASE wire' = wire \/ gone[cur]
  <2>1. wire'[cur] = wire[cur]
    BY <1>3, <1>4, EndingStep, FramesType
  <2>. QED BY <1>1, <1>2, <2>1
<1>5. CASE Answering /\ step # "stream" /\ ~gone[cur]
  <2>1. PICK s \in Statuses : wire' = Written(<<s>>)
    BY <1>5, StatusAnswers
  <2>2. wire[cur] = <<>> /\ <<s>> \in Seq(Frames)
    BY <1>1, <1>5, FramesType DEF Shape, Unwritten, Finals
  <2>3. <<>> \o <<s>> = <<s>>
    BY <2>2, ConcatEmptySeq
  <2>4. wire'[cur] = <<s>>
    BY <1>3, <1>5, <2>1, <2>2, <2>3
  <2>. QED BY <2>4 DEF Fine, Single
<1>6. CASE StreamEnds /\ ~gone[cur]
  <2>1. wire'[cur] = wire[cur] \o <<"end">> /\ Open(wire[cur])
    BY <1>3, <1>6, FramesType DEF Wires, StreamEnds, Respond, Finals
  <2>2. chunks[cur] = Len(wire[cur]) - 1
    BY <1>1, <1>6, <2>1, OpenChunks DEF StreamEnds, Undelivered
  <2>. QED BY <1>1, <2>1, <2>2, OpenExtended DEF Fine
<1>7. CASE StreamBreaks /\ ~gone[cur]
  <2>1. wire'[cur] = wire[cur] \o <<"error", "end">> /\ Open(wire[cur])
    BY <1>3, <1>7, FramesType DEF Wires, StreamBreaks, Finals
  <2>. QED BY <1>1, <2>1, OpenExtended DEF Fine
<1>8. \/ wire' = wire \/ gone[cur]
      \/ Answering /\ step # "stream" /\ ~gone[cur]
      \/ StreamEnds /\ ~gone[cur]
      \/ StreamBreaks /\ ~gone[cur]
  BY DEF Ending, Answering, ParseRaises, CheckRaises, StreamDropped, TurnedAway, BodyUnusable, BadRequest, Denied,
     CacheHit, UpstreamSucceeds, UpstreamFails
<1>. QED BY <1>4, <1>5, <1>6, <1>7, <1>8

\* No step makes a wire ill-formed, and a stream that goes on is an open one.
LEMMA WiresKept ==
  ASSUME Shape, Wires, [Next]_vars
  PROVE  Wires'
<1>0. \A c \in Clients : Fine(wire[c], chunks[c])
  BY DEF Wires, Fine
<1>. SUFFICES /\ \A c \in Clients : Fine(wire'[c], chunks'[c])
              /\ (step = "stream" => gone[cur] \/ Open(wire[cur]))'
  BY DEF Wires, Fine
<1>1. CASE Ending
  <2>1. \A c \in Clients \ {cur} : wire'[c] = wire[c]
    BY <1>1, EndingStep, NoneAssumption, FramesType, WrittenType DEF Shape
  <2>2. \A c \in Clients : Fine(wire'[c], chunks'[c])
    BY <1>0, <1>1, <2>1, EndingStep, EndingFine
  <2>. QED BY <1>1, <2>2, EndingStep DEF Done
<1>2. ASSUME NEW n \in 0..MaxChunks, StreamStarts(n)
      PROVE  /\ \A c \in Clients : Fine(wire'[c], chunks'[c])
             /\ gone'[cur'] \/ Open(wire'[cur'])
  <2>1. /\ cur \in Clients /\ cur # None /\ wire[cur] = <<>>
        /\ cur' = cur /\ gone' = gone /\ chunks' = [chunks EXCEPT ![cur] = n]
        /\ chunks \in [Clients -> 0..MaxChunks]
    BY <1>2 DEF Shape, TypeOK, Flow, Unwritten, StreamStarts, threadVars, connVars
  <2>2. PICK fs \in {<<"head">>, <<"head", "data">>} : wire' = Written(fs)
    BY <1>2 DEF StreamStarts
  <2>3. /\ \A c \in Clients \ {cur} : wire'[c] = wire[c] /\ chunks'[c] = chunks[c]
        /\ wire'[cur] = IF gone[cur] THEN <<>> ELSE fs
    <3>1. fs \in Seq(Frames) /\ <<>> \o fs = fs
      BY <2>2, FramesType, ConcatEmptySeq
    <3>2. /\ Written(fs)[cur] = IF gone[cur] THEN wire[cur] ELSE wire[cur] \o fs
          /\ \A c \in Clients \ {cur} : Written(fs)[c] = wire[c]
      BY <2>1, <3>1, WrittenType DEF Shape
    <3>. QED BY <2>1, <2>2, <3>1, <3>2
  <2>4. Open(fs)
    BY <2>2 DEF Open
  <2>. QED BY <1>0, <2>1, <2>3, <2>4 DEF Fine
<1>3. CASE StreamChunk
  <2>1. /\ cur \in Clients /\ cur # None /\ wire[cur] \in Seq(Frames) /\ Open(wire[cur])
        /\ ~gone[cur] /\ cur' = cur /\ chunks' = chunks /\ wire' = Written(<<"data">>)
    BY <1>3 DEF Shape, TypeOK, Flow, Wires, StreamChunk, threadVars
  <2>2. /\ \A c \in Clients \ {cur} : wire'[c] = wire[c]
        /\ wire'[cur] = wire[cur] \o <<"data">>
    BY <2>1, FramesType, WrittenType DEF Shape
  <2>3. Open(wire'[cur])
    BY <2>1, <2>2, OpenExtended
  <2>. QED BY <1>0, <2>1, <2>2, <2>3 DEF Fine
<1>4. CASE /\ UNCHANGED <<wire, chunks>>
           /\ step' = "stream" => step = "stream" /\ cur' = cur /\ (gone[cur] => gone'[cur])
  BY <1>0, <1>4 DEF Wires
<1>5. ASSUME NEW c \in Clients, Client(c)
      PROVE  /\ UNCHANGED <<wire, chunks, step, cur>>
             /\ step = "stream" /\ gone[cur] => gone'[cur]
  <2>1. UNCHANGED <<wire, chunks, step, cur>>
    BY <1>5 DEF Client, Connect, SendRequest, Leave, Reads, threadVars
  <2>2. \A d \in Clients : gone[d] => gone'[d]
    BY <1>5 DEF Shape, TypeOK, Client, Connect, SendRequest, Leave, Reads
  <2>3. step = "stream" => cur \in Clients
    BY DEF Shape, TypeOK, Flow
  <2>. QED BY <2>1, <2>2, <2>3
<1>6. CASE Accept \/ LoopExits \/ Advancing
  <2>1. UNCHANGED <<wire, chunks>> /\ (step' # "stream" \/ UNCHANGED <<step, cur, gone>>)
    BY <1>6 DEF Accept, LoopExits, Advancing, BodyRead, Admitted, SendUpstream, connVars
  <2>. QED BY <1>4, <2>1
<1>7. CASE Upstream \/ Shutdown \/ ServerClose \/ StopReturns \/ UNCHANGED vars
  <2>1. UNCHANGED <<wire, chunks, step, cur, gone>>
    BY <1>7 DEF Upstream, UpstreamActs, UpstreamActsLate, Shutdown, ServerClose, StopReturns,
       vars, threadVars, connVars
  <2>. QED BY <1>4, <2>1
<1>. QED BY <1>1, <1>2, <1>3, <1>4, <1>5, <1>6, <1>7, HandlerCases DEF Next, ServerThread

\* What is on a wire is nothing, one status, or a stream that is open, ended
\* after all its chunks, or broken off with an error event.
THEOREM WellFormed == Spec => []Wires
<1>1. Init => Wires
  BY DEF Init, Wires
<1>. QED BY <1>1, ShapeInitial, ShapeKept, WiresKept, PTL DEF Spec

\* One response on each connection, a status or a well-framed stream, and never
\* a status after the headers of a stream went out (_handle_anthropic_stream).
THEOREM RespondedOnce == Spec => []OneResponse
<1>1. TypeOK /\ Wires => OneResponse
  <2>. SUFFICES ASSUME TypeOK, Wires, NEW c \in Clients
                PROVE  Len(wire[c]) = 0 \/ Single(wire[c]) \/ Stream(wire[c])
    BY DEF OneResponse, Single
  <2>1. wire[c] \in Seq(Frames)
    BY DEF TypeOK
  <2>2. Open(wire[c]) => Stream(wire[c])
    BY <2>1 DEF Open, Stream
  <2>3. Ended(wire[c], chunks[c]) => Stream(wire[c])
    BY <2>1 DEF Ended, Stream
  <2>4. Broken(wire[c]) => Stream(wire[c])
    BY <2>1 DEF Broken, Stream
  <2>. QED BY <2>2, <2>3, <2>4 DEF Wires
<1>. QED BY <1>1, TypeCorrect, WellFormed, PTL

\* A stream that ends without an error event carried every upstream chunk
\* (the terminator is written only once the upstream's stream is exhausted).
THEOREM StreamsHonest == Spec => []HonestStream
<1>1. TypeOK /\ Wires => HonestStream
  <2>. SUFFICES ASSUME TypeOK, Wires, NEW c \in Clients,
                       Len(wire[c]) > 0, wire[c][1] = "head", wire[c][Len(wire[c])] = "end"
                PROVE  wire[c][Len(wire[c]) - 1] = "error" \/ Len(wire[c]) = chunks[c] + 2
    BY DEF HonestStream
  <2>1. wire[c] \in Seq(Frames) /\ wire[c] # <<>>
    BY DEF TypeOK
  <2>2. ~Single(wire[c]) /\ ~Open(wire[c])
    BY <2>1 DEF Single, Open, Statuses
  <2>. QED BY <2>1, <2>2 DEF Wires, Ended, Broken
<1>. QED BY <1>1, TypeCorrect, WellFormed, PTL
=============================================================================
