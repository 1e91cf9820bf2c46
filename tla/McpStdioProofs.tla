--------------------------- MODULE McpStdioProofs ---------------------------
(***************************************************************************)
(* Theorems about McpStdio, for any servers, contents and handles.         *)
(***************************************************************************)
EXTENDS McpStdio, SequenceTheorems, TLAPS

-----------------------------------------------------------------------------
(* What os.read leaves in the buffer and in the pipe. *)

\* A token is what Token builds.
LEMMA TokenType ==
  ASSUME NEW of \in Bodies \cup Chatter, NEW part \in {"line", "head", "tail"}
  PROVE  Token(of, part) \in Tokens
  BY DEF Token, Tokens

\* Sequences of one and of two elements, for the lines of a server.
LEMMA ShortSeqs ==
  ASSUME NEW S, NEW a \in S, NEW b \in S
  PROVE  <<a>> \in Seq(S) /\ <<a, b>> \in Seq(S)
  OBVIOUS

\* A chunk of a non-empty pipe extends the buffer by a first token at least.
LEMMA ChunkType ==
  ASSUME TypeOK, cur \in Handles, NEW n \in 1..Len(out[cur])
  PROVE  /\ Chunk(n) \in Seq(Tokens)
         /\ Len(Chunk(n)) = Len(buf) + n
         /\ Chunk(n)[1] \in Tokens
         /\ SubSeq(out[cur], n + 1, Len(out[cur])) \in Seq(Tokens)
<1> DEFINE o == out[cur]
<1>1. o \in Seq(Tokens) /\ buf \in Seq(Tokens) /\ Len(o) \in Nat /\ Len(buf) \in Nat
  BY DEF TypeOK
<1>2. /\ SubSeq(o, 1, n) \in Seq(Tokens)
      /\ Len(SubSeq(o, 1, n)) = n
  BY <1>1, SubSeqProperties, ElementOfSeq
<1>3. /\ Chunk(n) \in Seq(Tokens)
      /\ Len(Chunk(n)) = Len(buf) + n
  BY <1>1, <1>2, ConcatProperties DEF Chunk
<1>4. Chunk(n)[1] \in Tokens
  BY <1>1, <1>3, ElementOfSeq
<1>5. SubSeq(o, n + 1, Len(o)) \in Seq(Tokens)
  BY <1>1, SubSeqProperties, ElementOfSeq
<1>. QED BY <1>3, <1>4, <1>5

\* While the handler is in _call_stdio it works for a configured server on a
\* process that _procs holds for it, and for nobody when it is idle.
CallShape ==
  /\ phase \in Calling => req \in Keys /\ req[1] \in Servers
  /\ phase \in {"write", "blocked", "read"} => cur \in Handles /\ procs[req[1]] = cur
  /\ phase \in {"idle", "down"} => req = None
  /\ phase \notin {"write", "blocked", "read"} => cur = None
  /\ phase # "read" => buf = <<>>

\* A call that fails leaves the handler idle and well-typed, and the cache alone.
LEMMA FailedType ==
  ASSUME TypeOK, CallShape, phase \in Calling, Failed
  PROVE  /\ phase' = "idle" /\ req' = None /\ cur' = None /\ buf' = <<>>
         /\ reply' \in Replies
         /\ cache' = cache
  BY DEF TypeOK, CallShape, Failed, EndCall, Replied, Replies, Calling

\* A failure that evicts the process keeps the types and the shape of a call.
LEMMA EvictType ==
  ASSUME TypeOK, CallShape, phase \in {"write", "blocked", "read"}, Failed, Evict
  PROVE  TypeOK' /\ CallShape'
<1>1. phase \in Calling /\ cur \in Handles
  BY DEF CallShape, Calling
<1>2. procs' \in [Servers -> Handles \cup {None}] /\ signalled' \in [Handles -> BOOLEAN]
  BY DEF Evict, TypeOK
<1>3. CallShape'
  BY <1>1, FailedType DEF CallShape, Calling
<1>4. /\ phase' = "idle" /\ req' = None /\ cur' = None /\ buf' = <<>>
      /\ reply' \in Replies /\ cache' = cache
  BY <1>1, FailedType
<1>5. UNCHANGED <<alive, inp, work, out>>
  BY DEF Evict
<1>6. TypeOK'
  BY <1>2, <1>4, <1>5 DEF TypeOK
<1>. QED BY <1>3, <1>6

\* Every reachable state is well-typed, and the fields of the current call fit
\* its phase.
THEOREM TypeCorrect == Spec => [](TypeOK /\ CallShape)
<1>1. Init => TypeOK /\ CallShape
  BY ServersAssumption, ContentsAssumption DEF Init, TypeOK, CallShape, Calling
<1>2. TypeOK /\ CallShape /\ [Next]_vars => TypeOK' /\ CallShape'
  <2> SUFFICES ASSUME TypeOK, CallShape, [Next]_vars
               PROVE  TypeOK' /\ CallShape'
    OBVIOUS
  <2> USE DEF callVars, resultVars, serverVars
  <2>1. ASSUME NEW k \in Keys, CacheHit(k) PROVE TypeOK' /\ CallShape'
    BY <2>1 DEF CacheHit, TypeOK, CallShape, Replied, Replies, Calling
  <2>2. ASSUME NEW k \in Keys, NotFound(k) PROVE TypeOK' /\ CallShape'
    BY <2>2 DEF NotFound, TypeOK, CallShape, Replied, Replies, Calling
  <2>3. ASSUME NEW k \in Keys, Call(k) PROVE TypeOK' /\ CallShape'
    BY <2>3 DEF Call, TypeOK, CallShape, Calling
  <2>4. CASE Reuse
    BY <2>4 DEF Reuse, Kept, TypeOK, CallShape, Calling
  <2>5. ASSUME NEW h \in Handles, Launch(h) PROVE TypeOK' /\ CallShape'
    BY <2>5 DEF Launch, TypeOK, CallShape, Calling
  <2>6. CASE LaunchFails
    BY <2>6, FailedType DEF LaunchFails, TypeOK, CallShape, Calling
  <2>7. CASE Write
    <3>1. req[2] \in Contents /\ inp[cur] \in Seq(Contents)
      BY <2>7 DEF Write, TypeOK, CallShape, Calling, Keys
    <3>2. Append(inp[cur], req[2]) \in Seq(Contents)
      BY <3>1
    <3>. QED BY <2>7, <3>2 DEF Write, TypeOK, CallShape, Calling
  <2>8. CASE WriteReturns
    BY <2>8 DEF WriteReturns, TypeOK, CallShape, Calling
  <2>9. CASE BrokenPipe
    BY <2>9, EvictType DEF BrokenPipe
  <2>10. CASE ReadMore
    <3>1. phase = "read" /\ cur \in Handles
      BY <2>10 DEF ReadMore, CallShape
    <3>2. PICK n \in 1..Len(out[cur]) : buf' = Chunk(n) /\ TakeChunk(n)
      BY <2>10 DEF ReadMore
    <3>. QED BY <2>10, <3>1, <3>2, ChunkType
             DEF ReadMore, TakeChunk, TypeOK, CallShape, Calling
  <2>11. CASE ReadAnswer
    <3>1. phase = "read" /\ cur \in Handles
      BY <2>11 DEF ReadAnswer, CallShape
    <3>2. PICK n \in 1..Len(out[cur]) : /\ ParsesFirstLine(Chunk(n))
                                        /\ TakeChunk(n)
                                        /\ Succeeded(Chunk(n)[1].of)
      BY <2>11 DEF ReadAnswer
    <3>3. Chunk(n)[1].of \in Bodies
      BY <3>1, <3>2, ChunkType DEF ParsesFirstLine, Tokens
    <3>4. TypeOK'
      BY <2>11, <3>1, <3>2, <3>3, ChunkType
      DEF ReadAnswer, TakeChunk, Succeeded, EndCall, Replied, Replies, TypeOK, CallShape, Calling
    <3>. QED BY <2>11, <3>2, <3>4
             DEF ReadAnswer, Succeeded, EndCall, CallShape, Calling
  <2>12. CASE ReadGarbage
    <3>1. phase = "read" /\ cur \in Handles
      BY <2>12 DEF ReadGarbage, CallShape
    <3>2. PICK n \in 1..Len(out[cur]) : TakeChunk(n)
      BY <2>12 DEF ReadGarbage
    <3>3. out' \in [Handles -> Seq(Tokens)]
      BY <3>1, <3>2, ChunkType DEF TakeChunk, TypeOK
    <3>4. /\ phase' = "idle" /\ req' = None /\ cur' = None /\ buf' = <<>>
          /\ reply' \in Replies /\ cache' = cache
      BY <2>12, <3>1, FailedType DEF ReadGarbage, Calling
    <3>5. UNCHANGED <<procs, alive, signalled, inp, work>>
      BY <2>12 DEF ReadGarbage
    <3>. QED BY <3>3, <3>4, <3>5 DEF TypeOK, CallShape, Calling
  <2>13. CASE ReadEof
    BY <2>13, EvictType DEF ReadEof
  <2>14. CASE GiveUp
    BY <2>14, EvictType DEF GiveUp
  <2>15. CASE ShutdownAll
    BY <2>15 DEF ShutdownAll, TypeOK, CallShape, Calling
  <2>16. ASSUME NEW h \in Handles, ServerRead(h) PROVE TypeOK' /\ CallShape'
    <3>1. Head(inp[h]) \in Contents /\ Tail(inp[h]) \in Seq(Contents)
      BY <2>16, HeadTailProperties DEF ServerRead, TypeOK
    <3>. QED BY <2>16, <3>1 DEF ServerRead, TypeOK, CallShape, Calling
  <2>17. ASSUME NEW h \in Handles, ServerAnswer(h) PROVE TypeOK' /\ CallShape'
    <3>1. PICK ts \in AnswerLines(work[h]) : out' = [out EXCEPT ![h] = @ \o ts]
      BY <2>17 DEF ServerAnswer
    <3>2. work[h] \in Contents
      BY <2>17 DEF ServerAnswer, TypeOK
    <3>3. ts \in Seq(Tokens)
      <4>1. \A part \in {"line", "head", "tail"} : Token(work[h], part) \in Tokens
        BY <3>2, TokenType DEF Bodies
      <4>. QED BY <3>1, <4>1, ShortSeqs DEF AnswerLines
    <3>4. out[h] \o ts \in Seq(Tokens)
      BY <3>3 DEF TypeOK
    <3>. QED BY <2>17, <3>1, <3>4 DEF ServerAnswer, TypeOK, CallShape, Calling
  <2>18. ASSUME NEW h \in Handles, NEW line \in Notices \cup Chatter, ServerNotice(h, line)
         PROVE  TypeOK' /\ CallShape'
    <3>1. Append(out[h], Token(line, "line")) \in Seq(Tokens)
      BY TokenType DEF TypeOK, Bodies
    <3>. QED BY <2>18, <3>1 DEF ServerNotice, TypeOK, CallShape, Calling
  <2>19. ASSUME NEW h \in Handles, ServerExit(h) PROVE TypeOK' /\ CallShape'
    <3>1. work[h] # None => Append(out[h], Token(work[h], "head")) \in Seq(Tokens)
      BY TokenType DEF TypeOK, Bodies
    <3>2. out' \in [Handles -> Seq(Tokens)]
      BY <2>19, <3>1 DEF ServerExit, TypeOK
    <3>3. UNCHANGED <<callVars, resultVars, procs, signalled>>
      BY <2>19 DEF ServerExit
    <3>4. /\ alive' \in [Handles -> BOOLEAN]
          /\ inp' \in [Handles -> Seq(Contents)]
          /\ work' \in [Handles -> Contents \cup {None}]
      BY <2>19 DEF ServerExit, TypeOK
    <3>. QED BY <3>2, <3>3, <3>4 DEF TypeOK, CallShape, Calling
  <2>20. CASE UNCHANGED vars
    BY <2>20 DEF vars, TypeOK, CallShape, Calling
  <2>. QED BY <2>1, <2>2, <2>3, <2>4, <2>5, <2>6, <2>7, <2>8, <2>9, <2>10, <2>11, <2>12,
              <2>13, <2>14, <2>15, <2>16, <2>17, <2>18, <2>19, <2>20
           DEF Next, Request, Handler, McpServer
<1>. QED BY <1>1, <1>2, PTL DEF Spec

-----------------------------------------------------------------------------
(* No subprocess is lost, whatever the servers write *)

\* An eviction loses no process: the one it forgets was told to terminate.
LEMMA EvictKeepsTrack ==
  ASSUME TypeOK, CallShape, NoStrayProcess, Evict,
         phase \in {"write", "blocked", "read"}
  PROVE  NoStrayProcess'
<1>1. cur \in Handles /\ procs[req[1]] = cur /\ req[1] \in Servers
  BY DEF CallShape, Calling
<1>2. \A s \in Servers : procs'[s] = IF s = req[1] THEN None ELSE procs[s]
  BY <1>1 DEF Evict, TypeOK
<1>3. \A h \in Handles : signalled'[h] = (signalled[h] \/ h = cur)
  BY <1>1 DEF Evict, TypeOK
<1>4. ASSUME NEW h \in Handles, alive'[h], ~signalled'[h]
      PROVE  \E s \in Servers : procs'[s] = h
  <2>1. PICK s \in Servers : procs[s] = h
    BY <1>3, <1>4 DEF NoStrayProcess, Evict
  <2>2. s # req[1]
    BY <1>1, <1>3, <1>4, <2>1
  <2>. QED BY <1>2, <2>1, <2>2
<1>5. \A s, t \in Servers : procs'[s] = procs'[t] /\ procs'[s] # None => s = t
  BY <1>2 DEF NoStrayProcess
<1>. QED BY <1>4, <1>5 DEF NoStrayProcess

\* A launch loses no process: the handle it replaces is dead and the new one is
\* no other server's.
LEMMA LaunchKeepsTrack ==
  ASSUME TypeOK, CallShape, NoStrayProcess, NEW h \in Handles, Launch(h)
  PROVE  NoStrayProcess'
<1>1. req[1] \in Servers
  BY DEF Launch, CallShape, Calling
<1>2. \A s \in Servers : procs'[s] = IF s = req[1] THEN h ELSE procs[s]
  BY <1>1 DEF Launch, TypeOK
<1>3. \A g \in Handles : g # h => alive'[g] = alive[g] /\ signalled'[g] = signalled[g]
  BY DEF Launch, TypeOK
<1>4. ASSUME NEW g \in Handles, alive'[g], ~signalled'[g]
      PROVE  \E s \in Servers : procs'[s] = g
  <2>1. CASE g = h
    BY <1>1, <1>2, <2>1
  <2>2. CASE g # h
    <3>1. alive[g]
      BY <1>3, <1>4, <2>2
    <3>2. PICK s \in Servers : procs[s] = g
      BY <1>3, <1>4, <2>2 DEF NoStrayProcess
    <3>3. s # req[1]
      BY <3>1, <3>2, HandlesAssumption DEF Launch, Kept
    <3>. QED BY <1>2, <3>2, <3>3
  <2>. QED BY <2>1, <2>2
<1>5. \A s, t \in Servers : procs'[s] = procs'[t] /\ procs'[s] # None => s = t
  BY <1>1, <1>2 DEF NoStrayProcess, Launch, Unreferenced
<1>. QED BY <1>4, <1>5 DEF NoStrayProcess

\* Every running subprocess that was not told to terminate is held by _procs
\* for exactly one server (_get_or_launch_proc, _evict_proc, shutdown_all).
THEOREM NothingStray == Spec => []NoStrayProcess
<1>1. Init => NoStrayProcess
  BY DEF Init, NoStrayProcess
<1>2. TypeOK /\ CallShape /\ NoStrayProcess /\ [Next]_vars => NoStrayProcess'
  <2> SUFFICES ASSUME TypeOK, CallShape, NoStrayProcess, [Next]_vars
               PROVE  NoStrayProcess'
    OBVIOUS
  <2>1. CASE UNCHANGED <<procs, alive, signalled>>
    BY <2>1 DEF NoStrayProcess
  <2>2. CASE \E h \in Handles : Launch(h)
    BY <2>2, LaunchKeepsTrack
  <2>3. CASE BrokenPipe \/ ReadEof \/ GiveUp
    BY <2>3, EvictKeepsTrack DEF BrokenPipe, ReadEof, GiveUp
  <2>4. CASE ShutdownAll
    <3>1. \A s \in Servers : procs'[s] = None
      BY <2>4 DEF ShutdownAll
    <3>2. ASSUME NEW h \in Handles, alive'[h] PROVE signalled'[h]
      BY <2>4, <3>2 DEF ShutdownAll, NoStrayProcess, TypeOK
    <3>. QED BY <3>1, <3>2 DEF NoStrayProcess
  <2>5. ASSUME NEW h \in Handles, ServerExit(h) PROVE NoStrayProcess'
    <3>1. \A g \in Handles : alive'[g] => alive[g]
      BY <2>5 DEF ServerExit, TypeOK
    <3>. QED BY <2>5, <3>1 DEF ServerExit, NoStrayProcess
  <2>6. CASE Request
    BY <2>1, <2>6 DEF Request, CacheHit, NotFound, Call, serverVars
  <2>7. CASE Reuse \/ LaunchFails \/ Write \/ WriteReturns
    BY <2>1, <2>7 DEF Reuse, LaunchFails, Write, WriteReturns, serverVars
  <2>8. CASE ReadMore \/ ReadAnswer \/ ReadGarbage
    BY <2>1, <2>8 DEF ReadMore, ReadAnswer, ReadGarbage
  <2>9. ASSUME NEW h \in Handles,
               \/ ServerRead(h)
               \/ ServerAnswer(h)
               \/ \E line \in Notices \cup Chatter : ServerNotice(h, line)
        PROVE  NoStrayProcess'
    BY <2>1, <2>9 DEF ServerRead, ServerAnswer, ServerNotice
  <2>10. CASE UNCHANGED vars
    BY <2>1, <2>10 DEF vars, serverVars
  <2>. QED BY <2>2, <2>3, <2>4, <2>5, <2>6, <2>7, <2>8, <2>9, <2>10
           DEF Next, Handler, McpServer
<1>. QED BY <1>1, <1>2, TypeCorrect, PTL DEF Spec

-----------------------------------------------------------------------------
(* Answers match requests when servers write nothing but answers *)

\* Nothing is on its way to or from the process.
Quiet(h) == inp[h] = <<>> /\ work[h] = None /\ out[h] = <<>>

\* The process was given request c since it was last quiet: c is waiting, or
\* being worked on, or what is left of its answer is all there is to read.
Due(h, c) ==
  \/ inp[h] = <<c>> /\ work[h] = None /\ buf = <<>> /\ out[h] = <<>>
  \/ inp[h] = <<>> /\ work[h] = c /\ buf = <<>> /\ out[h] = <<>>
  \/ /\ inp[h] = <<>> /\ work[h] = None
     /\ \/ buf = <<>> /\ out[h] \in AnswerLines(c) \cup {<<Token(c, "head")>>, <<>>}
        \/ buf = <<Token(c, "head")>> /\ out[h] \in {<<>>, <<Token(c, "tail")>>}

\* AnswersMatch is not inductive: it needs that the first line found in the
\* pipe is the current call's, that is, that the pipe held nothing before.
IInv ==
  /\ AnswersMatch
  /\ \A s \in Servers : procs[s] # None /\ ~InUse(procs[s]) => Quiet(procs[s])
  /\ phase = "write" => Quiet(cur)
  /\ phase \in {"blocked", "read"} => Due(cur, req[2])

\* The inductive invariant is as strong as the two properties.
LEMMA IInvImplies == IInv => AnswersMatch /\ KeptProcessOwesNothing
  BY DEF IInv, KeptProcessOwesNothing, Quiet

\* The prefixes and the rests of the sequences a pipe holds, computed.
LEMMA ShortSubSeqs ==
  ASSUME NEW a, NEW b
  PROVE  /\ <<>> \o SubSeq(<<a>>, 1, 1) = <<a>>
         /\ SubSeq(<<a>>, 2, 1) = <<>>
         /\ <<>> \o SubSeq(<<a, b>>, 1, 1) = <<a>>
         /\ SubSeq(<<a, b>>, 2, 2) = <<b>>
         /\ <<>> \o SubSeq(<<a, b>>, 1, 2) = <<a, b>>
         /\ SubSeq(<<a, b>>, 3, 2) = <<>>
         /\ <<b>> \o SubSeq(<<a>>, 1, 1) = <<b, a>>
<1> DEFINE S == {a, b}
<1>1. /\ <<a>> \in Seq(S) /\ Len(<<a>>) = 1
      /\ <<b>> \in Seq(S) /\ Len(<<b>>) = 1
      /\ <<a, b>> \in Seq(S) /\ Len(<<a, b>>) = 2
      /\ <<b, a>> \in Seq(S) /\ Len(<<b, a>>) = 2
  OBVIOUS
<1>2. SubSeq(<<a>>, 1, 1) = <<a>> /\ SubSeq(<<a, b>>, 1, 2) = <<a, b>>
  BY <1>1, SubSeqFull
<1>3. SubSeq(<<a>>, 2, 1) = <<>> /\ SubSeq(<<a, b>>, 3, 2) = <<>>
  BY SubSeqEmpty
<1>4. SubSeq(<<a, b>>, 1, 1) = <<a>> /\ SubSeq(<<a, b>>, 2, 2) = <<b>>
  <2>1. \A m \in 1..2 : /\ SubSeq(<<a, b>>, m, m) \in Seq(S)
                       /\ Len(SubSeq(<<a, b>>, m, m)) = 1
                       /\ SubSeq(<<a, b>>, m, m)[1] = <<a, b>>[m]
    <3> SUFFICES ASSUME NEW m \in 1..2
                 PROVE  /\ SubSeq(<<a, b>>, m, m) \in Seq(S)
                        /\ Len(SubSeq(<<a, b>>, m, m)) = 1
                        /\ SubSeq(<<a, b>>, m, m)[1] = <<a, b>>[m]
      OBVIOUS
    <3>1. \A i \in m..m : <<a, b>>[i] \in S
      BY <1>1, ElementOfSeq
    <3>. DEFINE t == SubSeq(<<a, b>>, m, m)
    <3>2. /\ t \in Seq(S)
          /\ Len(t) = IF m <= m THEN m - m + 1 ELSE 0
          /\ \A i \in 1..(m - m + 1) : t[i] = <<a, b>>[m + i - 1]
      BY <3>1, SubSeqProperties
    <3>3. m - m + 1 = 1 /\ m + 1 - 1 = m
      OBVIOUS
    <3>4. t[1] = <<a, b>>[m]
      BY <3>2, <3>3
    <3>. QED BY <3>2, <3>3, <3>4
  <2>2. /\ SubSeq(<<a, b>>, 1, 1) \in Seq(S) /\ Len(SubSeq(<<a, b>>, 1, 1)) = 1
        /\ SubSeq(<<a, b>>, 1, 1)[1] = a
    BY <2>1
  <2>3. /\ SubSeq(<<a, b>>, 2, 2) \in Seq(S) /\ Len(SubSeq(<<a, b>>, 2, 2)) = 1
        /\ SubSeq(<<a, b>>, 2, 2)[1] = b
    BY <2>1
  <2>4. \A s \in Seq(S) : \A x \in S : Len(s) = 1 /\ s[1] = x => s = <<x>>
    <3> SUFFICES ASSUME NEW s \in Seq(S), NEW x \in S, Len(s) = 1, s[1] = x
                 PROVE  s = <<x>>
      OBVIOUS
    <3>1. <<x>> \in Seq(S) /\ Len(<<x>>) = 1 /\ <<x>>[1] = x
      OBVIOUS
    <3>2. \A i \in 1..Len(s) : s[i] = <<x>>[i]
      BY <3>1
    <3>3. Len(s) = Len(<<x>>)
      BY <3>1
    <3>. QED BY <3>1, <3>2, <3>3, SeqEqual
  <2>. QED BY <2>2, <2>3, <2>4
<1>5. \A s \in Seq(S) : <<>> \o s = s
  BY ConcatEmptySeq
<1>6. <<b>> \o <<a>> = <<b, a>>
  <2> DEFINE t == <<b>> \o <<a>>
  <2>1. /\ t \in Seq(S) /\ Len(t) = 1 + 1
        /\ \A i \in 1..2 : t[i] = IF i <= 1 THEN <<b>>[i] ELSE <<a>>[i - 1]
    BY <1>1, ConcatProperties
  <2>2. t[1] = b /\ t[2] = a
    BY <2>1
  <2>3. \A i \in 1..Len(t) : t[i] = <<b, a>>[i]
    BY <2>1, <2>2
  <2>4. Len(t) = Len(<<b, a>>)
    BY <1>1, <2>1
  <2>. QED BY <1>1, <2>1, <2>3, <2>4, SeqEqual
<1>. QED BY <1>1, <1>2, <1>3, <1>4, <1>5, <1>6

\* The fields of a token, for the lemmas on what was read.
LEMMA TokenFields ==
  ASSUME NEW c, NEW part
  PROVE  Token(c, part).of = c /\ Token(c, part).part = part
  BY DEF Token

\* What one os.read can find: the beginning of the answer's line, or the line.
LEMMA ReadCases ==
  ASSUME TypeOK, CallShape, phase = "read", Due(cur, req[2]), Chatter = {},
         NEW n \in 1..Len(out[cur])
  PROVE  LET c == req[2]
             rest == SubSeq(out[cur], n + 1, Len(out[cur]))
         IN  /\ inp[cur] = <<>> /\ work[cur] = None
             /\ \/ /\ Chunk(n) = <<Token(c, "head")>>
                   /\ ~HasLine(Chunk(n))
                   /\ rest \in {<<>>, <<Token(c, "tail")>>}
                \/ /\ HasLine(Chunk(n))
                   /\ ParsesFirstLine(Chunk(n))
                   /\ Chunk(n)[1].of = c
                   /\ rest = <<>>
<1> DEFINE c == req[2]
           o == out[cur]
           line == Token(c, "line")
           head == Token(c, "head")
           tail == Token(c, "tail")
<1>1. o # <<>>
  BY EmptySeq
<1>2. /\ inp[cur] = <<>> /\ work[cur] = None
      /\ \/ buf = <<>> /\ o \in {<<line>>, <<head, tail>>, <<head>>}
         \/ buf = <<head>> /\ o = <<tail>>
  BY <1>1 DEF Due, AnswerLines
<1>3. \A x : /\ <<>> \o SubSeq(<<x>>, 1, 1) = <<x>>
             /\ SubSeq(<<x>>, 2, 1) = <<>>
  BY ShortSubSeqs
<1>4. /\ <<>> \o SubSeq(<<head, tail>>, 1, 1) = <<head>>
      /\ SubSeq(<<head, tail>>, 2, 2) = <<tail>>
      /\ <<>> \o SubSeq(<<head, tail>>, 1, 2) = <<head, tail>>
      /\ SubSeq(<<head, tail>>, 3, 2) = <<>>
  BY ShortSubSeqs
<1>5. <<head>> \o SubSeq(<<tail>>, 1, 1) = <<head, tail>>
  BY ShortSubSeqs
<1>6. \/ Chunk(n) = <<head>> /\ SubSeq(o, n + 1, Len(o)) \in {<<>>, <<tail>>}
      \/ Chunk(n) \in {<<line>>, <<head, tail>>} /\ SubSeq(o, n + 1, Len(o)) = <<>>
  <2>1. CASE buf = <<>> /\ o = <<line>>
    BY <1>3, <2>1 DEF Chunk
  <2>2. CASE buf = <<>> /\ o = <<head>>
    BY <1>3, <2>2 DEF Chunk
  <2>3. CASE buf = <<>> /\ o = <<head, tail>>
    <3>1. n = 1 \/ n = 2
      BY <2>3
    <3>. QED BY <1>4, <2>3, <3>1 DEF Chunk
  <2>4. CASE buf = <<head>> /\ o = <<tail>>
    BY <1>3, <1>5, <2>4 DEF Chunk
  <2>. QED BY <1>2, <2>1, <2>2, <2>3, <2>4
<1>7. ~HasLine(<<head>>)
  BY TokenFields DEF HasLine, EndsLine
<1>8. /\ HasLine(<<line>>) /\ ParsesFirstLine(<<line>>) /\ <<line>>[1].of = c
  BY TokenFields DEF HasLine, EndsLine, ParsesFirstLine
<1>9. /\ HasLine(<<head, tail>>) /\ ParsesFirstLine(<<head, tail>>)
      /\ <<head, tail>>[1].of = c
  <2>1. EndsLine(<<head, tail>>[2])
    BY TokenFields DEF EndsLine
  <2>. QED BY <2>1, TokenFields DEF HasLine, ParsesFirstLine
<1>. QED BY <1>2, <1>6, <1>7, <1>8, <1>9

\* The process of the call is no other server's.
LEMMA OnlyOwner ==
  ASSUME TypeOK, CallShape, NoStrayProcess, phase \in {"write", "blocked", "read"},
         NEW s \in Servers, s # req[1], procs[s] # None
  PROVE  procs[s] # cur
  BY HandlesAssumption DEF CallShape, Calling, NoStrayProcess

\* A failed call returns no success and remembers nothing.
LEMMA FailedMatches ==
  ASSUME AnswersMatch, Failed
  PROVE  AnswersMatch'
  BY DEF AnswersMatch, Failed, Replied

\* After a failure with an eviction every process still held is quiet.
LEMMA EvictKeepsIInv ==
  ASSUME TypeOK, CallShape, NoStrayProcess, IInv,
         phase \in {"write", "blocked", "read"}, Failed, Evict
  PROVE  IInv'
<1>1. AnswersMatch'
  BY FailedMatches DEF IInv
<1>2. phase' = "idle"
  BY DEF Failed, EndCall
<1>3. ASSUME NEW s \in Servers, procs'[s] # None
      PROVE  Quiet(procs[s]) /\ procs'[s] = procs[s]
  <2>1. s # req[1] /\ procs'[s] = procs[s]
    BY <1>3 DEF Evict, TypeOK
  <2>2. ~InUse(procs[s])
    BY <1>3, <2>1, OnlyOwner DEF InUse
  <2>. QED BY <1>3, <2>1, <2>2 DEF IInv
<1>4. \A s \in Servers : procs'[s] # None => Quiet(procs[s])'
  BY <1>3 DEF Quiet, Evict
<1>. QED BY <1>1, <1>2, <1>4 DEF IInv

\* A call that ends without an eviction leaves its process quiet.
LEMMA EndKeepsQuiet ==
  ASSUME TypeOK, CallShape, NoStrayProcess, IInv,
         phase = "read", phase' = "idle",
         UNCHANGED <<procs, inp, work>>, inp[cur] = <<>>, work[cur] = None,
         out' = [out EXCEPT ![cur] = <<>>], AnswersMatch'
  PROVE  IInv'
<1>1. cur \in Handles /\ procs[req[1]] = cur /\ req[1] \in Servers
  BY DEF CallShape, Calling
<1>2. \A h \in Handles : out'[h] = IF h = cur THEN <<>> ELSE out[h]
  BY <1>1 DEF TypeOK
<1>3. ASSUME NEW s \in Servers, procs'[s] # None
      PROVE  Quiet(procs[s])'
  <2>1. CASE procs[s] = cur
    BY <1>1, <1>2, <2>1 DEF Quiet
  <2>2. CASE procs[s] # cur
    <3>1. Quiet(procs[s])
      BY <1>3, <2>2 DEF IInv, InUse
    <3>2. procs[s] \in Handles
      BY <1>3 DEF TypeOK
    <3>. QED BY <1>2, <2>2, <3>1, <3>2 DEF Quiet
  <2>. QED BY <2>1, <2>2
<1>. QED BY <1>3 DEF IInv

\* A step of a server changes nothing for the quiet ones, and carries the
\* current request a stage further.
LEMMA ServerKeepsIInv ==
  ASSUME TypeOK, CallShape, NoStrayProcess, IInv, Notices = {}, Chatter = {},
         NEW h \in Handles, McpServer(h)
  PROVE  IInv'
<1>1. /\ UNCHANGED <<callVars, resultVars, procs>>
      /\ \A g \in Handles : g # h =>
           inp'[g] = inp[g] /\ work'[g] = work[g] /\ out'[g] = out[g]
  <2>1. CASE ServerRead(h)
    BY <2>1 DEF ServerRead, TypeOK
  <2>2. CASE ServerAnswer(h)
    BY <2>2 DEF ServerAnswer, TypeOK
  <2>3. CASE ServerExit(h)
    BY <2>3 DEF ServerExit, TypeOK
  <2>. QED BY <2>1, <2>2, <2>3 DEF McpServer
<1>2. Quiet(h) => Quiet(h)'
  <2>1. CASE ServerRead(h)
    BY <2>1 DEF ServerRead, Quiet
  <2>2. CASE ServerAnswer(h)
    BY <2>2 DEF ServerAnswer, Quiet
  <2>3. CASE ServerExit(h)
    BY <2>3 DEF ServerExit, Quiet, TypeOK
  <2>. QED BY <2>1, <2>2, <2>3 DEF McpServer
<1>3. \A g \in Handles : Quiet(g) => Quiet(g)'
  BY <1>1, <1>2 DEF Quiet
<1>4. ASSUME NEW s \in Servers, procs'[s] # None, ~InUse(procs[s])'
      PROVE  Quiet(procs[s])'
  <2>1. procs[s] \in Handles /\ procs'[s] = procs[s] /\ ~InUse(procs[s])
    BY <1>1, <1>4 DEF TypeOK, InUse, callVars
  <2>. QED BY <1>1, <1>3, <1>4, <2>1 DEF IInv, Quiet
<1>5. phase' = "write" => Quiet(cur)'
  BY <1>1, <1>3 DEF IInv, CallShape, callVars, Quiet
<1>6. ASSUME phase \in {"blocked", "read"}, cur = h
      PROVE  Due(h, req[2])'
  <2> DEFINE c == req[2]
  <2>1. Due(h, c)
    BY <1>6 DEF IInv
  <2>2. c \in Contents /\ c # None /\ c' = c /\ buf' = buf
    BY <1>1, <1>6, ContentsAssumption DEF CallShape, Calling, Keys, callVars
  <2>3. CASE ServerRead(h)
    <3>1. inp[h] = <<c>> /\ work[h] = None /\ buf = <<>> /\ out[h] = <<>>
      BY <2>1, <2>2, <2>3 DEF ServerRead, Due
    <3>2. Head(<<c>>) = c /\ Tail(<<c>>) = <<>>
      OBVIOUS
    <3>3. inp'[h] = <<>> /\ work'[h] = c /\ out'[h] = <<>>
      BY <2>3, <3>1, <3>2 DEF ServerRead, TypeOK
    <3>. QED BY <2>2, <3>1, <3>3 DEF Due
  <2>4. CASE ServerAnswer(h)
    <3>1. inp[h] = <<>> /\ work[h] = c /\ buf = <<>> /\ out[h] = <<>>
      BY <2>1, <2>2, <2>4 DEF ServerAnswer, Due
    <3>2. PICK ts \in AnswerLines(c) : out' = [out EXCEPT ![h] = @ \o ts]
      BY <2>4, <3>1 DEF ServerAnswer
    <3>3. ts \in Seq({Token(c, "line"), Token(c, "head"), Token(c, "tail")})
      BY <3>2, ShortSeqs DEF AnswerLines
    <3>4. out'[h] = ts
      BY <3>1, <3>2, <3>3, ConcatEmptySeq DEF TypeOK
    <3>5. inp'[h] = <<>> /\ work'[h] = None
      BY <2>4, <3>1 DEF ServerAnswer, TypeOK
    <3>. QED BY <2>2, <3>1, <3>2, <3>4, <3>5 DEF Due
  <2>5. CASE ServerExit(h)
    <3>1. inp'[h] = <<>> /\ work'[h] = None
      BY <2>5 DEF ServerExit, TypeOK
    <3>2. CASE UNCHANGED out
      BY <2>1, <2>2, <3>1, <3>2 DEF Due
    <3>3. CASE out # out'
      <4>1. work[h] = c /\ buf = <<>> /\ out[h] = <<>>
        BY <2>1, <2>5, <3>3 DEF ServerExit, Due
      <4>2. out'[h] = Append(<<>>, Token(c, "head"))
        BY <2>5, <3>3, <4>1 DEF ServerExit, TypeOK
      <4>3. out'[h] = <<Token(c, "head")>>
        BY <4>2
      <4>. QED BY <2>2, <3>1, <4>1, <4>3 DEF Due
    <3>. QED BY <3>2, <3>3
  <2>. QED BY <2>3, <2>4, <2>5 DEF McpServer
<1>7. phase' \in {"blocked", "read"} => Due(cur, req[2])'
  <2> SUFFICES ASSUME phase' \in {"blocked", "read"}
               PROVE  Due(cur, req[2])'
    OBVIOUS
  <2>1. /\ phase \in {"blocked", "read"} /\ cur \in Handles
        /\ cur' = cur /\ req' = req /\ buf' = buf
    BY <1>1 DEF callVars, CallShape
  <2>2. CASE cur = h
    BY <1>6, <2>1, <2>2
  <2>3. CASE cur # h
    BY <1>1, <2>1, <2>3 DEF IInv, Due
  <2>. QED BY <2>2, <2>3
<1>8. AnswersMatch'
  BY <1>1 DEF IInv, AnswersMatch, resultVars
<1>. QED BY <1>4, <1>5, <1>7, <1>8 DEF IInv

\* The steps before the request is written, or without one: lookup, launch,
\* shutdown.
LEMMA StartKeepsIInv ==
  ASSUME TypeOK, CallShape, NoStrayProcess, IInv,
         Request \/ Reuse \/ (\E h \in Handles : Launch(h)) \/ LaunchFails
  PROVE  IInv'
<1>1. CASE Request
  <2>1. PICK k \in Keys : CacheHit(k) \/ NotFound(k) \/ Call(k)
    BY <1>1 DEF Request
  <2>2. phase = "idle" /\ phase' \in {"idle", "launch"} /\ UNCHANGED <<cache, procs, serverVars>>
    BY <2>1 DEF CacheHit, NotFound, Call, callVars, resultVars
  <2>3. AnswersMatch'
    BY <2>1, <2>2 DEF IInv, AnswersMatch, CacheHit, NotFound, Call, Replied, resultVars
  <2>. QED BY <2>2, <2>3 DEF IInv, Quiet, InUse, serverVars
<1>2. CASE Reuse
  <2>1. /\ phase = "launch" /\ phase' = "write" /\ cur' = procs[req[1]] /\ req[1] \in Servers
        /\ procs[req[1]] # None
        /\ UNCHANGED <<buf, resultVars, procs, serverVars>>
    BY <1>2 DEF Reuse, Kept, CallShape, Calling
  <2>2. \A s \in Servers : procs[s] # None => Quiet(procs[s])
    BY <2>1 DEF IInv, InUse
  <2>3. AnswersMatch'
    BY <2>1 DEF IInv, AnswersMatch, resultVars
  <2>. QED BY <2>1, <2>2, <2>3 DEF IInv, Quiet, serverVars
<1>3. ASSUME NEW h \in Handles, Launch(h) PROVE IInv'
  <2>1. /\ phase = "launch" /\ phase' = "write" /\ cur' = h /\ req[1] \in Servers
        /\ UNCHANGED resultVars
    BY <1>3 DEF Launch, CallShape, Calling
  <2>2. Quiet(h)'
    BY <1>3 DEF Launch, Quiet, TypeOK
  <2>3. \A g \in Handles : g # h => (Quiet(g) => Quiet(g)')
    BY <1>3 DEF Launch, Quiet, TypeOK
  <2>4. ASSUME NEW s \in Servers, procs'[s] # None, ~InUse(procs[s])'
        PROVE  Quiet(procs[s])'
    <3>1. s # req[1] /\ procs'[s] = procs[s] /\ procs[s] # h
      BY <1>3, <2>1, <2>4 DEF Launch, Unreferenced, InUse, TypeOK
    <3>2. procs[s] \in Handles /\ Quiet(procs[s])
      BY <2>1, <2>4, <3>1 DEF IInv, InUse, TypeOK
    <3>3. \A g \in Handles : g = procs[s] => inp'[g] = <<>> /\ work'[g] = None /\ out'[g] = <<>>
      BY <2>3, <3>1, <3>2 DEF Quiet
    <3>. QED BY <3>1, <3>2, <3>3 DEF Quiet
  <2>5. AnswersMatch'
    BY <2>1 DEF IInv, AnswersMatch, resultVars
  <2>. QED BY <2>1, <2>2, <2>4, <2>5 DEF IInv, Quiet
<1>4. CASE LaunchFails
  <2>1. phase = "launch" /\ phase' = "idle" /\ UNCHANGED <<procs, serverVars>> /\ Failed
    BY <1>4 DEF LaunchFails, Failed, EndCall
  <2>. QED BY <2>1, FailedMatches DEF IInv, Quiet, InUse, serverVars
<1>. QED BY <1>1, <1>2, <1>3, <1>4

\* Writing the request makes its answer due from the process of the call, and
\* from no other.
LEMMA WriteKeepsIInv ==
  ASSUME TypeOK, CallShape, NoStrayProcess, IInv, Write \/ WriteReturns
  PROVE  IInv'
<1>1. CASE Write
  <2>1. /\ phase = "write" /\ phase' \in {"blocked", "read"} /\ cur' = cur /\ req' = req
        /\ cur \in Handles /\ buf = <<>> /\ Quiet(cur) /\ req[2] \in Contents
        /\ UNCHANGED <<buf, resultVars, procs, work, out>>
    BY <1>1 DEF Write, IInv, CallShape, Calling, Keys
  <2>2. inp'[cur] = Append(<<>>, req[2])
    BY <1>1, <2>1 DEF Write, Quiet, TypeOK
  <2>3. inp'[cur] = <<req[2]>>
    BY <2>2
  <2>4. Due(cur, req[2])'
    BY <2>1, <2>3 DEF Due, Quiet
  <2>5. ASSUME NEW s \in Servers, procs[s] # None, procs[s] # cur
        PROVE  Quiet(procs[s])'
    <3>1. procs[s] \in Handles /\ Quiet(procs[s])
      BY <2>5 DEF IInv, InUse, TypeOK
    <3>2. inp'[procs[s]] = inp[procs[s]]
      BY <1>1, <2>5, <3>1 DEF Write, TypeOK
    <3>. QED BY <2>1, <3>1, <3>2 DEF Quiet
  <2>6. AnswersMatch'
    BY <2>1 DEF IInv, AnswersMatch, resultVars
  <2>. QED BY <2>1, <2>4, <2>5, <2>6 DEF IInv, InUse
<1>2. CASE WriteReturns
  <2>1. /\ phase = "blocked" /\ phase' = "read"
        /\ UNCHANGED <<req, cur, buf, resultVars, procs, serverVars>>
    BY <1>2 DEF WriteReturns
  <2>2. AnswersMatch'
    BY <2>1 DEF IInv, AnswersMatch, resultVars
  <2>3. Due(cur, req[2])'
    BY <2>1 DEF IInv, Due, serverVars
  <2>. QED BY <2>1, <2>2, <2>3 DEF IInv, InUse, Quiet, serverVars
<1>. QED BY <1>1, <1>2

\* Reading takes the answer that is due, or a beginning of it, or gives up and
\* evicts.
LEMMA ReadKeepsIInv ==
  ASSUME TypeOK, CallShape, NoStrayProcess, IInv, Chatter = {},
         ReadMore \/ ReadAnswer \/ ReadGarbage
  PROVE  IInv'
<1> DEFINE c == req[2]
           rest(n) == SubSeq(out[cur], n + 1, Len(out[cur]))
<1>1. phase = "read" /\ cur \in Handles /\ Due(cur, c) /\ procs[req[1]] = cur
  BY DEF ReadMore, ReadAnswer, ReadGarbage, IInv, CallShape
<1>2. CASE ReadMore
  <2>1. PICK n \in 1..Len(out[cur]) : ~HasLine(Chunk(n)) /\ buf' = Chunk(n) /\ TakeChunk(n)
    BY <1>2 DEF ReadMore
  <2>2. /\ inp[cur] = <<>> /\ work[cur] = None
        /\ Chunk(n) = <<Token(c, "head")>> /\ rest(n) \in {<<>>, <<Token(c, "tail")>>}
    BY <1>1, <2>1, ReadCases
  <2>3. out'[cur] = rest(n) /\ \A g \in Handles : g # cur => out'[g] = out[g]
    BY <1>1, <2>1 DEF TakeChunk, TypeOK
  <2>4. UNCHANGED <<phase, req, cur, resultVars, procs, inp, work>>
    BY <1>2 DEF ReadMore
  <2>5. Due(cur, c)'
    BY <2>1, <2>2, <2>3, <2>4 DEF Due
  <2>6. ASSUME NEW s \in Servers, procs[s] # None, procs[s] # cur
        PROVE  Quiet(procs[s])'
    BY <2>3, <2>4, <2>6 DEF IInv, InUse, Quiet, TypeOK
  <2>7. AnswersMatch'
    BY <2>4 DEF IInv, AnswersMatch, resultVars
  <2>. QED BY <1>1, <2>4, <2>5, <2>6, <2>7 DEF IInv, InUse
<1>3. CASE ReadAnswer
  <2>1. PICK n \in 1..Len(out[cur]) : HasLine(Chunk(n)) /\ TakeChunk(n) /\ Succeeded(Chunk(n)[1].of)
    BY <1>3 DEF ReadAnswer
  <2>2. inp[cur] = <<>> /\ work[cur] = None /\ Chunk(n)[1].of = c /\ rest(n) = <<>>
    BY <1>1, <2>1, ReadCases
  <2>3. phase' = "idle" /\ UNCHANGED <<procs, inp, work>>
    BY <1>3, <2>1 DEF ReadAnswer, Succeeded, EndCall
  <2>4. out' = [out EXCEPT ![cur] = <<>>]
    BY <2>1, <2>2 DEF TakeChunk
  <2>5. AnswersMatch'
    <3>1. req \in Keys /\ reply' = Replied(req, 200, c) /\ cache' = [cache EXCEPT ![req] = c]
      BY <1>1, <2>1, <2>2 DEF Succeeded, CallShape, Calling
    <3>. QED BY <3>1 DEF IInv, AnswersMatch, Replied, TypeOK
  <2>. QED BY <1>1, <2>2, <2>3, <2>4, <2>5, EndKeepsQuiet
<1>4. CASE ReadGarbage
  <2>1. PICK n \in 1..Len(out[cur]) : HasLine(Chunk(n)) /\ ~ParsesFirstLine(Chunk(n))
    BY <1>4 DEF ReadGarbage
  <2>. QED BY <1>1, <2>1, ReadCases
<1>. QED BY <1>2, <1>3, <1>4

\* The inductive invariant holds in every reachable state, if servers write one
\* line per request and nothing else.
LEMMA InvariantHolds ==
  ASSUME Notices = {}, Chatter = {}
  PROVE  Spec => []IInv
<1>1. Init => IInv
  BY DEF Init, IInv, AnswersMatch
<1>2. TypeOK /\ CallShape /\ NoStrayProcess /\ IInv /\ [Next]_vars => IInv'
  <2> SUFFICES ASSUME TypeOK, CallShape, NoStrayProcess, IInv, [Next]_vars
               PROVE  IInv'
    OBVIOUS
  <2>1. CASE Request \/ Reuse \/ (\E h \in Handles : Launch(h)) \/ LaunchFails
    BY <2>1, StartKeepsIInv
  <2>2. CASE Write \/ WriteReturns
    BY <2>2, WriteKeepsIInv
  <2>3. CASE ReadMore \/ ReadAnswer \/ ReadGarbage
    BY <2>3, ReadKeepsIInv
  <2>4. CASE BrokenPipe \/ ReadEof \/ GiveUp
    BY <2>4, EvictKeepsIInv DEF BrokenPipe, ReadEof, GiveUp
  <2>5. CASE ShutdownAll
    BY <2>5 DEF ShutdownAll, IInv, AnswersMatch, resultVars
  <2>6. CASE \E h \in Handles : McpServer(h)
    BY <2>6, ServerKeepsIInv
  <2>7. CASE UNCHANGED vars
    BY <2>7 DEF vars, callVars, resultVars, serverVars, IInv, AnswersMatch, InUse, Quiet, Due
  <2>. QED BY <2>1, <2>2, <2>3, <2>4, <2>5, <2>6, <2>7 DEF Next, Handler
<1>. QED BY <1>1, <1>2, TypeCorrect, NothingStray, PTL DEF Spec

\* With servers that write one line per request and nothing else, every success
\* the broker returns or remembers answers its own request, whatever times out,
\* exits or is relaunched in between, because a kept process owes nothing.
THEOREM AnswersMatched ==
  ASSUME Notices = {}, Chatter = {}
  PROVE  Spec => []AnswersMatch
  BY InvariantHolds, IInvImplies, PTL

\* A process that is kept for the next call has nothing of an earlier one: no
\* request on its stdin, none in work and no answer, whole or in part, on its
\* stdout (_get_or_launch_proc, _call_stdio).
THEOREM KeptOwesNothing ==
  ASSUME Notices = {}, Chatter = {}
  PROVE  Spec => []KeptProcessOwesNothing
  BY InvariantHolds, IInvImplies, PTL

-----------------------------------------------------------------------------
(* The broker implements RpcService *)

asked == IF phase \in Calling THEN req ELSE None

\* A failed call is a Fail step of the service.
LEMMA FailedIsFail ==
  ASSUME TypeOK, CallShape, phase \in Calling, Failed
  PROVE  Rpc!Next
<1>1. req \in Keys /\ asked = req /\ asked' = None
  BY DEF CallShape, Failed, EndCall, asked, Calling
<1>2. Rpc!Fail(req)
  BY <1>1 DEF Failed, Rpc!Fail, Rpc!Replied, Replied, asked
<1>. QED BY <1>1, <1>2 DEF Rpc!Next

\* Every step of the broker is a step of the service or a stutter.
LEMMA StepRefines ==
  ASSUME TypeOK, CallShape, IInv, Chatter = {}, [Next]_vars
  PROVE  [Rpc!Next]_(Rpc!vars)
<1> USE DEF Rpc!vars
<1>1. ASSUME NEW k \in Keys, CacheHit(k) PROVE Rpc!Next
  BY <1>1 DEF CacheHit, Rpc!Next, Rpc!Repeat, Rpc!Replied, Replied, callVars, Calling
<1>2. ASSUME NEW k \in Keys, NotFound(k) PROVE Rpc!Next
  BY <1>2 DEF NotFound, Rpc!Next, Rpc!Refuse, Rpc!Replied, Replied, callVars, Calling
<1>3. ASSUME NEW k \in Keys, Call(k) PROVE Rpc!Next
  BY <1>3 DEF Call, Rpc!Next, Rpc!Ask, resultVars, Calling
<1>4. CASE LaunchFails \/ BrokenPipe \/ ReadGarbage \/ ReadEof \/ GiveUp
  <2>1. Failed /\ phase \in Calling
    BY <1>4 DEF LaunchFails, BrokenPipe, ReadGarbage, ReadEof, GiveUp, Calling
  <2>. QED BY <2>1, FailedIsFail
<1>5. CASE ReadAnswer
  <2>1. PICK n \in 1..Len(out[cur]) : HasLine(Chunk(n)) /\ Succeeded(Chunk(n)[1].of)
    BY <1>5 DEF ReadAnswer
  <2>2. phase = "read" /\ req \in Keys /\ Due(cur, req[2])
    BY <1>5 DEF ReadAnswer, CallShape, IInv, Calling
  <2>3. Chunk(n)[1].of = req[2]
    BY <2>1, <2>2, ReadCases
  <2>4. Rpc!Answer(req, req[2])
    BY <2>1, <2>2, <2>3
    DEF Succeeded, EndCall, Rpc!Answer, Rpc!Replied, Replied, Calling
  <2>5. req[2] \in OwnAnswer(req)
    BY DEF OwnAnswer
  <2>. QED BY <2>2, <2>4, <2>5 DEF Rpc!Next
<1>6. CASE Reuse \/ (\E h \in Handles : Launch(h)) \/ Write \/ WriteReturns \/ ReadMore
  BY <1>6 DEF Reuse, Launch, Write, WriteReturns, ReadMore, resultVars, Calling
<1>7. CASE ShutdownAll
  BY <1>7 DEF ShutdownAll, resultVars, Calling
<1>8. CASE \E h \in Handles : McpServer(h)
  BY <1>8 DEF McpServer, ServerRead, ServerAnswer, ServerNotice, ServerExit,
              callVars, resultVars, Calling
<1>9. CASE UNCHANGED vars
  BY <1>9 DEF vars, callVars, resultVars
<1>. QED BY <1>1, <1>2, <1>3, <1>4, <1>5, <1>6, <1>7, <1>8, <1>9 DEF Next, Request, Handler

\* With such servers the stdio broker, its processes, pipes, timeouts and
\* evictions hidden, behaves as the caching service of RpcService: at most one
\* success per request is ever produced, and it is that request's answer.
THEOREM StdioImplementsRpc ==
  ASSUME Notices = {}, Chatter = {}
  PROVE  Spec => ImplementsRpc
<1>1. Init => Rpc!Init
  BY DEF Init, Rpc!Init, Calling
<1>2. TypeOK /\ CallShape /\ IInv /\ [Next]_vars => [Rpc!Next]_(Rpc!vars)
  BY StepRefines
<1>. QED BY <1>1, <1>2, TypeCorrect, InvariantHolds, PTL DEF Spec, ImplementsRpc, Rpc!Spec
=============================================================================
