----------------------------- MODULE JobProofs -----------------------------
(***************************************************************************)
(* Theorems about Job, for any batches, output files and bounds.           *)
(***************************************************************************)
EXTENDS Job, SequenceTheorems, TLAPS

-----------------------------------------------------------------------------
(* Type correctness *)

\* Nothing is done before the batch is loaded, and a query runs for a task of it.
TaskShape ==
  /\ pc \in {"start", "server", "setup", "load"} => results = <<>>
  /\ pc \in {"query", "end"} => Remaining

\* The task a step works on is one of the batch loaded.
LEMMA TaskType ==
  ASSUME TypeOK, Remaining
  PROVE  /\ batch \in Batches /\ Len(batch) \in Nat /\ Len(results) \in Nat
         /\ batch \in Seq(Range(batch)) /\ DOMAIN batch = 1..Len(batch)
         /\ Len(results) + 1 \in 1..Len(batch)
         /\ Task \in AllTasks
<1>1. Len(results) \in Nat
  BY DEF TypeOK
<1>2. batch # <<>>
  BY <1>1 DEF Remaining
<1>3. batch \in Batches /\ batch \in Seq(Range(batch))
  BY <1>2, BatchesAssumption DEF TypeOK
<1>4. Len(batch) \in Nat /\ DOMAIN batch = 1..Len(batch)
  BY <1>3, LenProperties
<1>5. Len(results) + 1 \in 1..Len(batch)
  BY <1>1, <1>4 DEF Remaining
<1>6. Task \in Range(batch)
  BY <1>3, <1>5, ElementOfSeq DEF Task
<1>. QED BY <1>1, <1>3, <1>4, <1>5, <1>6 DEF AllTasks

\* Setting the session of a row of claude_sessions, field by field.
LEMMA SetSession ==
  ASSUME NEW r \in SessionRows, NEW x \in 0..MaxRuns
  PROVE  /\ WithSession(r, x) \in SessionRows
         /\ WithSession(r, x).task = r.task
         /\ WithSession(r, x).session = x
         /\ WithSession(r, x).seq = r.seq
         /\ WithSession(r, x).run = r.run
         /\ WithSession(r, x).masked = r.masked
  BY DEF SessionRows, WithSession

\* The row of a message, field by field.
LEMMA NewRowType ==
  ASSUME TypeOK, Task \in AllTasks, NEW x \in 0..MaxRuns
  PROVE  /\ seq < MaxMessages => NewRow(x) \in SessionRows
         /\ NewRow(x).task = Task /\ NewRow(x).session = x
         /\ NewRow(x).seq = seq /\ NewRow(x).run = run
         /\ NewRow(x).masked => <<Task, run>> \in Masked
  BY BoundsAssumption DEF NewRow, SessionRows, TypeOK

\* A row of claude_sessions stays one when its session becomes known.
LEMMA NamedType ==
  ASSUME TypeOK, NEW named \in BOOLEAN
  PROVE  /\ Known(named) \in 0..MaxRuns
         /\ Named(named) \subseteq SessionRows
<1>1. run \in 0..MaxRuns /\ sid \in 0..MaxRuns
  BY BoundsAssumption DEF TypeOK
<1>2. Known(named) \in 0..MaxRuns
  BY <1>1 DEF Known
<1>3. ASSUME NEW r \in sessions
      PROVE  WithSession(r, Backfilled[r]) \in SessionRows
  <2>1. r \in SessionRows
    BY DEF TypeOK
  <2>2. Backfilled[r] \in 0..MaxRuns
    BY <1>1, <2>1 DEF Backfilled, Found, SessionRows
  <2>. QED BY <2>1, <2>2, SetSession
<1>4. Named(named) \subseteq SessionRows
  BY <1>3 DEF Named, TypeOK
<1>. QED BY <1>2, <1>4

\* Every reachable state is well-typed.
THEOREM JobTypeCorrect == Spec => [](TypeOK /\ TaskShape)
<1>1. Init => TypeOK /\ TaskShape
  <2> SUFFICES ASSUME Init PROVE TypeOK /\ TaskShape
    OBVIOUS
  <2>1. DOMAIN left \subseteq Range(Order) /\ Range(left) \subseteq Kinds
    BY DEF Init, NoFiles, Range
  <2>2. run \in 1..MaxRuns /\ sid \in 0..MaxRuns /\ seq \in 0..MaxMessages
    BY BoundsAssumption DEF Init, NoSession
  <2>3. /\ results \in Seq(BOOLEAN) /\ Len(results) <= Len(batch)
        /\ batch \in Batches \cup {<<>>}
    BY DEF Init
  <2>4. /\ stored \subseteq SessionRows
        /\ sessions \subseteq SessionRows /\ runs \subseteq RunRows
    BY DEF Init
  <2>5. /\ heard \in [AllTasks -> Nat]
        /\ out \in [Tables -> {"none", "agent", "transcript"}]
    BY DEF Init, NoTables
  <2>6. /\ exit \in {Running, 0, 1, 2} /\ (exit = Running <=> pc \notin {"exited", "done"})
        /\ pc \in Places
    BY DEF Init, Running, Places
  <2>7. /\ server \in {"none", "bound", "up", "stopped"}
        /\ raised \in {"none", "user", "crash"}
        /\ flushed \in {"unbuilt", "no", "yes", "failed"}
        /\ pending \subseteq Range(Order) /\ ok \in BOOLEAN
        /\ TaskShape
    BY DEF Init, TaskShape
  <2>. QED BY <2>1, <2>2, <2>3, <2>4, <2>5, <2>6, <2>7 DEF TypeOK
<1>2. TypeOK /\ TaskShape /\ [Next]_vars => TypeOK' /\ TaskShape'
  <2> SUFFICES ASSUME TypeOK, TaskShape, [Next]_vars
               PROVE  TypeOK' /\ TaskShape'
    OBVIOUS
  <2> USE DEF progressVars, taskVars, transcriptVars, outputVars
  <2>1. CASE Begin
    <3>1. ASSUME NEW how \in Exceptions, Rejected(how) PROVE TypeOK' /\ TaskShape'
      BY <3>1 DEF Rejected, ExitCode, Exceptions, Running, TypeOK, TaskShape, Places
    <3>2. CASE Accepted
      BY <3>2 DEF Accepted, TypeOK, TaskShape, Places
    <3>3. CASE StartServer
      BY <3>3 DEF StartServer, TypeOK, TaskShape, Places
    <3>4. CASE StartFails
      BY <3>4 DEF StartFails, Unwind, TypeOK, TaskShape, Places
    <3>5. CASE Setup
      BY <3>5 DEF Setup, TypeOK, TaskShape, Places
    <3>6. ASSUME NEW how \in Exceptions, SetupFails(how) PROVE TypeOK' /\ TaskShape'
      BY <3>6 DEF SetupFails, Unwind, Exceptions, TypeOK, TaskShape, Places
    <3>7. CASE Load
      <4>1. batch' \in Batches /\ results' = <<>>
        BY <3>7 DEF Load, TaskShape
      <4>2. Len(batch') \in Nat /\ Len(results') = 0 /\ results' \in Seq(BOOLEAN)
        BY <4>1, BatchesAssumption, LenProperties
      <4>. QED BY <3>7, <4>1, <4>2 DEF Load, TypeOK, TaskShape, Places
    <3>8. ASSUME NEW how \in Exceptions, LoadFails(how) PROVE TypeOK' /\ TaskShape'
      BY <3>8 DEF LoadFails, Unwind, Exceptions, TypeOK, TaskShape, Places
    <3>. QED BY <2>1, <3>1, <3>2, <3>3, <3>4, <3>5, <3>6, <3>7, <3>8 DEF Begin
  <2>2. CASE RunTask
    <3>1. CASE BeginTask
      BY <3>1, BoundsAssumption DEF BeginTask, TypeOK, TaskShape, Places, Remaining, NoSession
    <3>2. CASE BeginFails
      BY <3>2, BoundsAssumption DEF BeginFails, Unwind, TypeOK, TaskShape, Places, NoSession
    <3>3. ASSUME NEW named \in BOOLEAN, Message(named) PROVE TypeOK' /\ TaskShape'
      <4>1. Task \in AllTasks
        BY <3>3, TaskType DEF Message, TaskShape
      <4>2. Known(named) \in 0..MaxRuns /\ Named(named) \subseteq SessionRows
        BY NamedType
      <4>3. sessions' \subseteq SessionRows
        BY <3>3, <4>1, <4>2, NewRowType DEF Message
      <4>4. heard' \in [AllTasks -> Nat]
        BY <3>3, <4>1 DEF Message, TypeOK
      <4>5. seq' \in 0..MaxMessages /\ sid' \in 0..MaxRuns
        BY <3>3, <4>2, BoundsAssumption DEF Message, TypeOK
      <4>. QED BY <3>3, <4>3, <4>4, <4>5 DEF Message, TypeOK, TaskShape, Places, Remaining
    <3>4. ASSUME NEW named \in BOOLEAN, MessageLost(named) PROVE TypeOK' /\ TaskShape'
      <4>1. Task \in AllTasks
        BY <3>4, TaskType DEF MessageLost, TaskShape
      <4>2. Known(named) \in 0..MaxRuns /\ Named(named) \subseteq SessionRows
        BY NamedType
      <4>3. heard' \in [AllTasks -> Nat]
        BY <3>4, <4>1 DEF MessageLost, TypeOK
      <4>. QED BY <3>4, <4>2, <4>3 DEF MessageLost, TypeOK, TaskShape, Places, Remaining
    <3>5. CASE QueryEnds
      BY <3>5 DEF QueryEnds, TypeOK, TaskShape, Places, Remaining
    <3>6. CASE QueryRaises
      BY <3>6 DEF QueryRaises, TypeOK, TaskShape, Places, Remaining
    <3>7. CASE QueryEscapes
      BY <3>7 DEF QueryEscapes, Unwind, TypeOK, TaskShape, Places
    <3>8. CASE EndTask
      <4>1. Task \in AllTasks /\ Len(results) + 1 \in 1..Len(batch) /\ Len(batch) \in Nat
        BY <3>8, TaskType DEF EndTask, TaskShape
      <4>2. runs' \subseteq RunRows
        BY <3>8, <4>1 DEF EndTask, RunRows, TypeOK
      <4>3. results' \in Seq(BOOLEAN) /\ Len(results') = Len(results) + 1
        BY <3>8 DEF EndTask, TypeOK
      <4>4. Len(results') <= Len(batch)
        BY <4>1, <4>3
      <4>. QED BY <3>8, <4>2, <4>3, <4>4 DEF EndTask, TypeOK, TaskShape, Places
    <3>9. CASE EndFails
      BY <3>9 DEF EndFails, Unwind, TypeOK, TaskShape, Places
    <3>. QED BY <2>2, <3>1, <3>2, <3>3, <3>4, <3>5, <3>6, <3>7, <3>8, <3>9 DEF RunTask
  <2>3. CASE Finish
    <3>1. CASE StartPromote
      <4>1. DOMAIN left' \subseteq Range(Order) /\ Range(left') \subseteq Kinds
        BY <3>1, LeavingsAssumption DEF StartPromote
      <4>. QED BY <3>1, <4>1 DEF StartPromote, TypeOK, TaskShape, Places
    <3>2. ASSUME NEW f \in Range(Order), PromoteOne(f) PROVE TypeOK' /\ TaskShape'
      BY <3>2 DEF PromoteOne, TypeOK, TaskShape
    <3>3. ASSUME NEW f \in Range(Order), PromoteFails(f) PROVE TypeOK' /\ TaskShape'
      BY <3>3 DEF PromoteFails, Unwind, TypeOK, TaskShape, Places
    <3>4. CASE Promoted
      BY <3>4 DEF Promoted, Unwind, TypeOK, TaskShape, Places
    <3>5. CASE FlushFiles
      BY <3>5 DEF FlushFiles, TypeOK, TaskShape, Places
    <3>6. CASE FlushSessions
      BY <3>6 DEF FlushSessions, TypeOK, TaskShape, Places
    <3>7. CASE FlushRuns
      BY <3>7 DEF FlushRuns, TypeOK, TaskShape, Places
    <3>8. CASE FlushFails
      BY <3>8 DEF FlushFails, ExitCode, TypeOK, TaskShape, Places, Running
    <3>9. CASE Stop
      BY <3>9 DEF Stop, Leave, ExitCode, TypeOK, TaskShape, Places, Running
    <3>10. CASE Report
      BY <3>10 DEF Report, TypeOK, TaskShape, Places, Running
    <3>. QED BY <2>3, <3>1, <3>2, <3>3, <3>4, <3>5, <3>6, <3>7, <3>8, <3>9, <3>10 DEF Finish
  <2>4. CASE Collect
    <3>1. stored' \subseteq SessionRows
      BY <2>4 DEF Collect, Merged, OnePerKey, TypeOK
    <3>. QED BY <2>4, <3>1 DEF Collect, TypeOK, TaskShape, Places
  <2>5. CASE NewRun
    <3>1. DOMAIN left' \subseteq Range(Order) /\ Range(left') \subseteq Kinds
      BY <2>5 DEF NewRun, NoFiles, Range
    <3>2. run' \in 1..MaxRuns /\ sid' \in 0..MaxRuns /\ seq' \in 0..MaxMessages
      BY <2>5, BoundsAssumption DEF NewRun, NoSession, TypeOK
    <3>3. results' \in Seq(BOOLEAN) /\ Len(results') <= Len(batch')
      BY <2>5 DEF NewRun
    <3>4. exit' \in {Running, 0, 1, 2} /\ (exit' = Running <=> pc' \notin {"exited", "done"})
      BY <2>5 DEF NewRun, Running
    <3>5. heard' \in [AllTasks -> Nat] /\ out' \in [Tables -> {"none", "agent", "transcript"}]
      BY <2>5 DEF NewRun, NoTables
    <3>. QED BY <2>5, <3>1, <3>2, <3>3, <3>4, <3>5 DEF NewRun, TypeOK, TaskShape, Places
  <2>6. CASE UNCHANGED vars
    BY <2>6 DEF vars, TypeOK, TaskShape, Remaining
  <2>. QED BY <2>1, <2>2, <2>3, <2>4, <2>5, <2>6 DEF Next, Work
<1>. QED BY <1>1, <1>2, PTL DEF Spec

-----------------------------------------------------------------------------
(* Control: what the finally clause reaches, and what is in out/tables then *)

After == {"stop", "report", "exited", "done"}
Ended == {"report", "exited", "done"}

\* The server is up only between start and stop, unless flush failed.
ServerFlow ==
  /\ pc = "start" => server = "none"
  /\ pc \in Ended /\ flushed # "failed" => server # "up"

\* The transcript writer is built in setup and flushed before the server stops.
FlushFlow ==
  /\ pc \in {"start", "server", "setup"} => flushed = "unbuilt"
  /\ pc \in {"load", "next", "query", "end", "promote", "files", "sessions", "runs"}
       => flushed = "no"
  /\ pc \in After => flushed # "no"
  /\ flushed = "failed" => raised = "crash" /\ pc \in {"exited", "done"}
  /\ flushed = "yes" => pc \in After /\ out["claude_runs"] = "transcript"
  /\ flushed = "yes" \/ pc = "runs" => out["claude_sessions"] = "transcript"

\* Only a crash leaves tasks undone.
Cut == batch # <<>> /\ Remaining
BatchFlow ==
  /\ pc \in {"start", "server", "setup", "load"} => batch = <<>>
  /\ pc = "promote" => ~Remaining
  /\ Cut /\ pc \in {"files", "sessions", "runs", "stop", "report"} => raised = "crash"
  /\ Cut /\ pc \in {"exited", "done"} => exit = 2
  /\ pc = "report" => raised = "none"

Flow == ServerFlow /\ FlushFlow /\ BatchFlow

\* The flow of control of every job is as described.
LEMMA FlowHolds == Spec => []Flow
<1>1. Init => Flow
  BY DEF Init, Flow, ServerFlow, FlushFlow, BatchFlow, Cut, Remaining, After, Ended
<1>2. TypeOK /\ TaskShape /\ Flow /\ [Next]_vars => Flow'
  <2> SUFFICES ASSUME TypeOK, TaskShape, Flow, [Next]_vars
               PROVE  Flow'
    OBVIOUS
  <2> USE DEF progressVars, taskVars, transcriptVars, outputVars, After, Ended
  <2>1. CASE Begin
    <3>1. ASSUME NEW how \in Exceptions, Rejected(how) PROVE Flow'
      BY <3>1 DEF Rejected, Exceptions, Flow, ServerFlow, FlushFlow, BatchFlow, Cut, Remaining, TypeOK
    <3>2. CASE Accepted
      BY <3>2 DEF Accepted, Flow, ServerFlow, FlushFlow, BatchFlow, Cut, Remaining, TypeOK
    <3>3. CASE StartServer
      BY <3>3 DEF StartServer, Flow, ServerFlow, FlushFlow, BatchFlow, Cut, Remaining, TypeOK
    <3>4. CASE StartFails
      BY <3>4 DEF StartFails, Unwind, Flow, ServerFlow, FlushFlow, BatchFlow, Cut, Remaining, TypeOK
    <3>5. CASE Setup
      BY <3>5 DEF Setup, Flow, ServerFlow, FlushFlow, BatchFlow, Cut, Remaining, TypeOK
    <3>6. ASSUME NEW how \in Exceptions, SetupFails(how) PROVE Flow'
      BY <3>6 DEF SetupFails, Unwind, Exceptions, Flow, ServerFlow, FlushFlow, BatchFlow, Cut, Remaining, TypeOK
    <3>7. CASE Load
      BY <3>7 DEF Load, Flow, ServerFlow, FlushFlow, BatchFlow, Cut, Remaining, TypeOK
    <3>8. ASSUME NEW how \in Exceptions, LoadFails(how) PROVE Flow'
      BY <3>8 DEF LoadFails, Unwind, Exceptions, Flow, ServerFlow, FlushFlow, BatchFlow, Cut, Remaining, TypeOK
    <3>. QED BY <2>1, <3>1, <3>2, <3>3, <3>4, <3>5, <3>6, <3>7, <3>8 DEF Begin
  <2>2. CASE RunTask
    <3>1. CASE BeginTask
      BY <3>1 DEF BeginTask, Flow, ServerFlow, FlushFlow, BatchFlow, Cut, Remaining, TypeOK
    <3>2. CASE BeginFails
      BY <3>2 DEF BeginFails, Unwind, Flow, ServerFlow, FlushFlow, BatchFlow, Cut, Remaining, TypeOK
    <3>3. ASSUME NEW named \in BOOLEAN, Message(named) PROVE Flow'
      BY <3>3 DEF Message, Flow, ServerFlow, FlushFlow, BatchFlow, Cut, Remaining, TypeOK
    <3>4. ASSUME NEW named \in BOOLEAN, MessageLost(named) PROVE Flow'
      BY <3>4 DEF MessageLost, Flow, ServerFlow, FlushFlow, BatchFlow, Cut, Remaining, TypeOK
    <3>5. CASE QueryEnds
      BY <3>5 DEF QueryEnds, Flow, ServerFlow, FlushFlow, BatchFlow, Cut, Remaining, TypeOK
    <3>6. CASE QueryRaises
      BY <3>6 DEF QueryRaises, Flow, ServerFlow, FlushFlow, BatchFlow, Cut, Remaining, TypeOK
    <3>7. CASE QueryEscapes
      BY <3>7 DEF QueryEscapes, Unwind, Flow, ServerFlow, FlushFlow, BatchFlow, Cut, Remaining, TypeOK
    <3>8. CASE EndTask
      BY <3>8 DEF EndTask, Flow, ServerFlow, FlushFlow, BatchFlow, Cut, Remaining, TypeOK
    <3>9. CASE EndFails
      BY <3>9 DEF EndFails, Unwind, Flow, ServerFlow, FlushFlow, BatchFlow, Cut, Remaining, TypeOK
    <3>. QED BY <2>2, <3>1, <3>2, <3>3, <3>4, <3>5, <3>6, <3>7, <3>8, <3>9 DEF RunTask
  <2>3. CASE Finish
    <3>1. CASE StartPromote
      BY <3>1 DEF StartPromote, Flow, ServerFlow, FlushFlow, BatchFlow, Cut, Remaining, TypeOK
    <3>2. ASSUME NEW f \in Range(Order), PromoteOne(f) PROVE Flow'
      BY <3>2 DEF PromoteOne, Flow, ServerFlow, FlushFlow, BatchFlow, Cut, Remaining, TypeOK
    <3>3. ASSUME NEW f \in Range(Order), PromoteFails(f) PROVE Flow'
      BY <3>3 DEF PromoteFails, Unwind, Flow, ServerFlow, FlushFlow, BatchFlow, Cut, Remaining, TypeOK
    <3>4. CASE Promoted
      BY <3>4 DEF Promoted, Unwind, Flow, ServerFlow, FlushFlow, BatchFlow, Cut, Remaining, TypeOK
    <3>5. CASE FlushFiles
      BY <3>5 DEF FlushFiles, Flow, ServerFlow, FlushFlow, BatchFlow, Cut, Remaining, TypeOK
    <3>6. CASE FlushSessions
      BY <3>6 DEF FlushSessions, Tables, TranscriptTables, Flow, ServerFlow, FlushFlow, BatchFlow, Cut, Remaining, TypeOK
    <3>7. CASE FlushRuns
      BY <3>7 DEF FlushRuns, Tables, TranscriptTables, Flow, ServerFlow, FlushFlow, BatchFlow, Cut, Remaining, TypeOK
    <3>8. CASE FlushFails
      BY <3>8 DEF FlushFails, ExitCode, Flow, ServerFlow, FlushFlow, BatchFlow, Cut, Remaining, TypeOK
    <3>9. CASE Stop
      BY <3>9 DEF Stop, Leave, ExitCode, Flow, ServerFlow, FlushFlow, BatchFlow, Cut, Remaining, TypeOK
    <3>10. CASE Report
      BY <3>10 DEF Report, Flow, ServerFlow, FlushFlow, BatchFlow, Cut, Remaining, TypeOK
    <3>. QED BY <2>3, <3>1, <3>2, <3>3, <3>4, <3>5, <3>6, <3>7, <3>8, <3>9, <3>10 DEF Finish
  <2>4. CASE Collect
    BY <2>4 DEF Collect, Flow, ServerFlow, FlushFlow, BatchFlow, Cut, Remaining
  <2>5. CASE NewRun
    BY <2>5 DEF NewRun, Flow, ServerFlow, FlushFlow, BatchFlow, Cut, Remaining
  <2>6. CASE UNCHANGED vars
    BY <2>6 DEF vars, Flow, ServerFlow, FlushFlow, BatchFlow, Cut, Remaining
  <2>. QED BY <2>1, <2>2, <2>3, <2>4, <2>5, <2>6 DEF Next, Work
<1>. QED BY <1>1, <1>2, JobTypeCorrect, PTL DEF Spec

\* No server outlives its job unless flush raised, which is Finding 5 (the
\* finally clause of _run_with_broker).
THEOREM ServerIsTornDown == Spec => []TornDown
<1>1. Flow => TornDown
  BY DEF Flow, ServerFlow, Ended, TornDown, Exited
<1>. QED BY <1>1, FlowHolds, PTL

\* Once the transcript writer exists, the transcript's tables are delivered on
\* every path unless writing them is what failed (flush in the finally clause).
THEOREM TranscriptIsDelivered == Spec => []TranscriptDelivered
<1>1. TypeOK /\ Flow => TranscriptDelivered
  BY DEF TypeOK, Flow, FlushFlow, After, TranscriptDelivered, Exited, TranscriptTables
<1>. QED BY <1>1, FlowHolds, JobTypeCorrect, PTL

\* A job that left tasks of its batch undone crashed and says so with exit 2:
\* failed tasks never stop the batch (_run_one_task).
THEOREM OnlyACrashCutsShort == Spec => []CutShortIsCrash
<1>1. Flow => CutShortIsCrash
  BY DEF Flow, BatchFlow, Ended, Cut, Remaining, CutShortIsCrash, Exited
<1>. QED BY <1>1, FlowHolds, PTL

-----------------------------------------------------------------------------
(* Outcome: what exit 0 and a promotion without an exception stand for *)

\* While promote runs, every usable file is a table or still to be visited;
\* after it every usable file is a table, if it raised nothing.
OutputFlow ==
  /\ pc \in {"next", "query", "end", "promote"} => batch \in Batches
  /\ pc = "promote" => Answered /\ \A f \in Usable : f \in pending \/ out[f] = "agent"
  /\ raised = "none" /\ pc \in {"files", "sessions", "runs"} \cup After =>
       Answered /\ \A f \in Usable \ TranscriptTables : out[f] = "agent"
  /\ raised = "none" /\ pc \in After => flushed = "yes"
  /\ exit = 0 => raised = "none" /\ FALSE \notin Range(results)

\* Every result has its row in claude_runs.
ResultRows == \A i \in 1..Len(results) : \E r \in runs : r.task = batch[i] /\ r.ok = results[i]

\* The process has an exit code once it left _boot, and not before.
LEMMA ExitType ==
  ASSUME TypeOK
  PROVE  /\ exit \in {Running, 0, 1, 2} /\ raised \in {"none", "user", "crash"}
         /\ exit = Running <=> pc \notin {"exited", "done"}
  BY DEF TypeOK

\* The listing is visited to its end and every result is recorded.
LEMMA OutputHolds == Spec => [](OutputFlow /\ ResultRows)
<1>1. Init => OutputFlow /\ ResultRows
  BY DEF Init, OutputFlow, ResultRows, Running, After
<1>2. TypeOK /\ TaskShape /\ Flow /\ OutputFlow /\ ResultRows /\ [Next]_vars
        => OutputFlow' /\ ResultRows'
  <2> SUFFICES ASSUME TypeOK, TaskShape, Flow, OutputFlow, ResultRows, [Next]_vars
               PROVE  OutputFlow' /\ ResultRows'
    OBVIOUS
  <2> USE DEF progressVars, taskVars, transcriptVars, outputVars, After
  <2>0. \A f \in Usable : f \in Range(Order) /\ f \in Tables /\ left[f] = "good"
    BY DEF Usable, TypeOK, Tables
  <2>1. CASE Begin
    <3>1. ASSUME NEW how \in Exceptions, Rejected(how) PROVE OutputFlow' /\ ResultRows'
      BY <3>1, ExitType DEF Rejected, ExitCode, Exceptions, OutputFlow, ResultRows, Answered, Usable, TypeOK, Running
    <3>2. CASE Accepted
      BY <3>2 DEF Accepted, OutputFlow, ResultRows, Answered, Usable, TypeOK, Running
    <3>3. CASE StartServer
      BY <3>3 DEF StartServer, OutputFlow, ResultRows, Answered, Usable, TypeOK, Running
    <3>4. CASE StartFails
      BY <3>4 DEF StartFails, Unwind, OutputFlow, ResultRows, Answered, Usable, TypeOK, Running
    <3>5. CASE Setup
      BY <3>5 DEF Setup, OutputFlow, ResultRows, Answered, Usable, TypeOK, Running
    <3>6. ASSUME NEW how \in Exceptions, SetupFails(how) PROVE OutputFlow' /\ ResultRows'
      BY <3>6 DEF SetupFails, Unwind, Exceptions, OutputFlow, ResultRows, Answered, Usable, TypeOK, Running
    <3>7. CASE Load
      <4>1. batch' \in Batches /\ results' = <<>>
        BY <3>7 DEF Load, TaskShape
      <4>. QED BY <3>7, <4>1 DEF Load, OutputFlow, ResultRows, Answered, Usable, TypeOK, Running
    <3>8. ASSUME NEW how \in Exceptions, LoadFails(how) PROVE OutputFlow' /\ ResultRows'
      BY <3>8 DEF LoadFails, Unwind, Exceptions, OutputFlow, ResultRows, Answered, Usable, TypeOK, Running
    <3>. QED BY <2>1, <3>1, <3>2, <3>3, <3>4, <3>5, <3>6, <3>7, <3>8 DEF Begin
  <2>2. CASE RunTask
    <3>1. CASE BeginTask
      BY <3>1 DEF BeginTask, OutputFlow, ResultRows, Answered, Usable, TypeOK, Running
    <3>2. CASE BeginFails
      BY <3>2 DEF BeginFails, Unwind, OutputFlow, ResultRows, Answered, Usable, TypeOK, Running
    <3>3. ASSUME NEW named \in BOOLEAN, Message(named) PROVE OutputFlow' /\ ResultRows'
      BY <3>3 DEF Message, OutputFlow, ResultRows, Answered, Usable, TypeOK, Running
    <3>4. ASSUME NEW named \in BOOLEAN, MessageLost(named) PROVE OutputFlow' /\ ResultRows'
      BY <3>4 DEF MessageLost, OutputFlow, ResultRows, Answered, Usable, TypeOK, Running
    <3>5. CASE QueryEnds
      BY <3>5 DEF QueryEnds, OutputFlow, ResultRows, Answered, Usable, TypeOK, Running
    <3>6. CASE QueryRaises
      BY <3>6 DEF QueryRaises, OutputFlow, ResultRows, Answered, Usable, TypeOK, Running
    <3>7. CASE QueryEscapes
      BY <3>7 DEF QueryEscapes, Unwind, OutputFlow, ResultRows, Answered, Usable, TypeOK, Running
    <3>8. CASE EndTask
      <4>1. OutputFlow'
        BY <3>8 DEF EndTask, OutputFlow, TypeOK, Running
      <4>2. Len(results) \in Nat /\ results' = Append(results, ok) /\ batch' = batch
        BY <3>8 DEF EndTask, TypeOK
      <4>3. ASSUME NEW i \in 1..Len(results')
            PROVE  \E r \in runs' : r.task = batch'[i] /\ r.ok = results'[i]
        <5>1. CASE i \in 1..Len(results)
          <6>1. results'[i] = results[i] /\ runs \subseteq runs'
            BY <3>8, <4>2, <5>1 DEF EndTask, TypeOK
          <6>. QED BY <4>2, <5>1, <6>1 DEF ResultRows
        <5>2. CASE i = Len(results) + 1
          <6> DEFINE row == [task |-> Task, session |-> sid, ok |-> ok, run |-> run]
          <6>1. results'[i] = ok /\ batch'[i] = Task
            BY <4>2, <5>2 DEF TypeOK, Task
          <6>2. row \in runs' /\ row.task = Task /\ row.ok = ok
            BY <3>8 DEF EndTask
          <6>. QED BY <6>1, <6>2
        <5>. QED BY <4>2, <4>3, <5>1, <5>2 DEF TypeOK
      <4>. QED BY <4>1, <4>3 DEF ResultRows
    <3>9. CASE EndFails
      BY <3>9 DEF EndFails, Unwind, OutputFlow, ResultRows, Answered, Usable, TypeOK, Running
    <3>. QED BY <2>2, <3>1, <3>2, <3>3, <3>4, <3>5, <3>6, <3>7, <3>8, <3>9 DEF RunTask
  <2>3. CASE Finish
    <3>1. CASE StartPromote
      <4>1. Len(batch) \in Nat /\ Len(results) \in Nat /\ batch # <<>>
        BY <3>1, BatchesAssumption, LenProperties DEF StartPromote, OutputFlow, TypeOK
      <4>2. Answered'
        BY <3>1, <4>1 DEF StartPromote, Remaining, Answered, TypeOK
      <4>. QED BY <3>1, <4>2 DEF StartPromote, OutputFlow, ResultRows, Usable, TypeOK, Running
    <3>2. ASSUME NEW f \in Range(Order), PromoteOne(f) PROVE OutputFlow' /\ ResultRows'
      <4>1. Usable' = Usable /\ (Answered <=> Answered')
        BY <3>2 DEF PromoteOne, Usable, Answered
      <4>2. ASSUME NEW g \in Usable PROVE g \in pending' \/ out'[g] = "agent"
        BY <2>0, <3>2 DEF PromoteOne, OutputFlow, TypeOK
      <4>. QED BY <3>2, <4>1, <4>2 DEF PromoteOne, OutputFlow, ResultRows
    <3>3. ASSUME NEW f \in Range(Order), PromoteFails(f) PROVE OutputFlow' /\ ResultRows'
      BY <3>3 DEF PromoteFails, Unwind, OutputFlow, ResultRows, Answered, Usable, TypeOK, Running, Flow, FlushFlow, BatchFlow, Tables, TranscriptTables
    <3>4. CASE Promoted
      BY <3>4 DEF Promoted, Unwind, OutputFlow, ResultRows, Answered, Usable, TypeOK, Running, Flow, FlushFlow, BatchFlow, Tables, TranscriptTables
    <3>5. CASE FlushFiles
      BY <3>5 DEF FlushFiles, OutputFlow, ResultRows, Answered, Usable, TypeOK, Running, Flow, FlushFlow, BatchFlow, Tables, TranscriptTables
    <3>6. CASE FlushSessions
      BY <3>6 DEF FlushSessions, OutputFlow, ResultRows, Answered, Usable, TypeOK, Running, Flow, FlushFlow, BatchFlow, Tables, TranscriptTables
    <3>7. CASE FlushRuns
      BY <3>7 DEF FlushRuns, OutputFlow, ResultRows, Answered, Usable, TypeOK, Running, Flow, FlushFlow, BatchFlow, Tables, TranscriptTables
    <3>8. CASE FlushFails
      BY <3>8 DEF FlushFails, ExitCode, OutputFlow, ResultRows, Answered, Usable, TypeOK, Running, Flow, FlushFlow, BatchFlow, Tables, TranscriptTables
    <3>9. CASE Stop
      <4>1. /\ Usable' = Usable /\ out' = out /\ (Answered <=> Answered')
            /\ raised' = raised /\ flushed' = flushed /\ pc = "stop" /\ pc' \in {"report", "exited"}
        BY <3>9 DEF Stop, Leave, Usable, Answered
      <4>2. exit' # 0
        BY <3>9, ExitType DEF Stop, Leave, ExitCode, Running
      <4>3. ResultRows'
        BY <3>9 DEF Stop, ResultRows
      <4>. QED BY <4>1, <4>2, <4>3 DEF OutputFlow
    <3>10. CASE Report
      <4>1. /\ Usable' = Usable /\ out' = out /\ (Answered <=> Answered')
            /\ raised' = raised /\ flushed' = flushed /\ pc = "report" /\ pc' = "exited"
        BY <3>10 DEF Report, Usable, Answered
      <4>2. exit' = 0 => FALSE \notin Range(results')
        <5>1. results' = results /\ exit' = IF FALSE \in Range(results) THEN 1 ELSE 0
          BY <3>10 DEF Report
        <5>2. 1 # 0
          OBVIOUS
        <5>. QED BY <5>1, <5>2, Zenon
      <4>3. raised' = "none"
        BY <4>1 DEF Flow, BatchFlow
      <4>4. ResultRows'
        BY <3>10 DEF Report, ResultRows
      <4>. QED BY <4>1, <4>2, <4>3, <4>4 DEF OutputFlow
    <3>. QED BY <2>3, <3>1, <3>2, <3>3, <3>4, <3>5, <3>6, <3>7, <3>8, <3>9, <3>10 DEF Finish
  <2>4. CASE Collect
    BY <2>4 DEF Collect, OutputFlow, ResultRows, Answered, Usable
  <2>5. CASE NewRun
    BY <2>5 DEF NewRun, Running, OutputFlow, ResultRows, Answered, Usable
  <2>6. CASE UNCHANGED vars
    BY <2>6 DEF vars, OutputFlow, ResultRows, Answered, Usable
  <2>. QED BY <2>1, <2>2, <2>3, <2>4, <2>5, <2>6 DEF Next, Work
<1>. QED BY <1>1, <1>2, FlowHolds, JobTypeCorrect, PTL DEF Spec

\* Exit 0 is said only of a job in which every task succeeded and has its row,
\* and every usable file and both transcript tables are in out/tables
\* (_report_outcome).
THEOREM ExitIsHonest == Spec => []ExitHonest
<1>1. TypeOK /\ Flow /\ OutputFlow /\ ResultRows => ExitHonest
  <2> SUFFICES ASSUME TypeOK, Flow, OutputFlow, ResultRows, exit = 0
               PROVE  ExitHonest
    BY DEF ExitHonest
  <2>1. raised = "none" /\ FALSE \notin Range(results) /\ pc \in After
    <3>1. raised = "none" /\ FALSE \notin Range(results)
      BY Zenon DEF OutputFlow
    <3>2. pc \in {"exited", "done"}
      BY ExitType DEF Running
    <3>. QED BY <3>1, <3>2, Zenon DEF After
  <2>2. /\ Answered /\ flushed = "yes"
        /\ \A f \in Usable \ TranscriptTables : out[f] = "agent"
    BY <2>1 DEF OutputFlow
  <2>3. \A t \in TranscriptTables : out[t] = "transcript"
    BY <2>2 DEF Flow, FlushFlow, TranscriptTables
  <2>4. batch \in Seq(Range(batch)) /\ DOMAIN batch = 1..Len(results)
    BY <2>2, BatchesAssumption, LenProperties DEF Answered, TypeOK
  <2>5. \A i \in 1..Len(results) : results[i] = TRUE
    <3>1. results \in Seq(BOOLEAN) /\ DOMAIN results = 1..Len(results)
      BY LenProperties DEF TypeOK
    <3>2. \A i \in 1..Len(results) : results[i] \in BOOLEAN
      BY <3>1, ElementOfSeq
    <3>. QED BY <2>1, <3>1, <3>2 DEF Range
  <2>6. \A i \in DOMAIN batch : \E r \in runs : r.task = batch[i] /\ r.ok
    BY <2>4, <2>5 DEF ResultRows
  <2>. QED BY <2>1, <2>2, <2>3, <2>6 DEF ExitHonest
<1>. QED BY <1>1, FlowHolds, OutputHolds, JobTypeCorrect, PTL

\* If nothing was raised, each usable file is a table although tasks may have
\* failed (promote).
THEOREM OutputsArePromoted == Spec => []OutputsPromoted
<1>1. OutputFlow => OutputsPromoted
  BY DEF OutputFlow, After, OutputsPromoted, Exited
<1>. QED BY <1>1, OutputHolds, PTL

-----------------------------------------------------------------------------
(* Records: the rows of a task, while its query runs and after *)

Early == {"start", "server", "setup", "load"}
InBatch == {"next", "query", "end"}

\* The positions of the batch that were begun.
Begun == IF pc \in {"query", "end"} THEN 1..Len(results) + 1 ELSE 1..Len(results)

\* Tasks that were not begun have left no trace, and only finished ones a row
\* in claude_runs.
Traces ==
  /\ pc \in Early => sessions = {} /\ runs = {} /\ \A t \in AllTasks : heard[t] = 0
  /\ pc \in InBatch =>
       /\ \A r \in sessions : \E i \in Begun : r.task = batch[i]
       /\ \A t \in AllTasks : heard[t] # 0 => \E i \in Begun : t = batch[i]
       /\ \A u \in runs : \E i \in 1..Len(results) : u.task = batch[i]

\* The rows of the current task have the session known now, if its id is clear,
\* and are complete up to the current sequence number unless a message was lost.
CurrentRows ==
  /\ pc \in {"query", "end"} =>
       \A r \in sessions : r.task = Task => r.seq < seq /\ (Clear(Task) => r.session = sid)
  /\ pc = "query" \/ (pc = "end" /\ ok) =>
       Numbers(Task) = 0..seq - 1 /\ heard[Task] = seq

\* The rows of one task differ in their number and, if its id is clear, record
\* one session, whatever form it is shown in.
Keyed ==
  \A r, s \in sessions :
    /\ r.masked => <<r.task, r.run>> \in Masked
    /\ r.task = s.task =>
         /\ r # s => r.seq # s.seq
         /\ Clear(r.task) =>
              /\ r.session = s.session
              /\ \A u \in runs : u.task = r.task => u.session = r.session

Records == Keyed /\ RecordedInFull /\ Traces /\ CurrentRows

\* No task before the current one is the same: the ids of a batch differ.
LEMMA Fresh ==
  ASSUME TypeOK, Remaining
  PROVE  \A i \in 1..Len(results) : batch[i] # Task
<1>1. batch \in Batches /\ DOMAIN batch = 1..Len(batch) /\ Len(results) \in Nat
  BY TaskType
<1>2. Len(results) + 1 \in 1..Len(batch) /\ Len(batch) \in Nat
  BY TaskType
<1>3. \A i \in 1..Len(results) : i \in DOMAIN batch /\ i # Len(results) + 1
  BY <1>1, <1>2
<1>. QED BY <1>1, <1>2, <1>3, BatchesAssumption DEF Task, IsInjective

\* The current task has no row in claude_runs yet.
LEMMA NoRunRow ==
  ASSUME TypeOK, Remaining, Traces, pc \in InBatch
  PROVE  \A u \in runs : u.task # Task
  BY Fresh DEF Traces

\* A step that writes no row and does not go on with the batch.
LEMMA Idle ==
  ASSUME Records, UNCHANGED <<sessions, runs, heard>>,
         pc' \notin InBatch, pc' \in Early => pc \in Early
  PROVE  Records'
<1>1. Keyed' /\ RecordedInFull'
  BY DEF Records, Keyed, RecordedInFull, Numbers
<1>2. Traces' /\ CurrentRows'
  BY DEF Records, Traces, CurrentRows, InBatch, Early
<1>. QED BY <1>1, <1>2 DEF Records

\* Learning the session gives every row of a task with a clear id the same one
\* and changes nothing else, neither rows nor numbers.
LEMMA NamedRows ==
  ASSUME TypeOK, Records, pc = "query", NEW named \in BOOLEAN
  PROVE  /\ \A r \in Named(named) : \E s \in sessions :
              /\ r.task = s.task /\ r.seq = s.seq /\ r.run = s.run /\ r.masked = s.masked
              /\ r.session = IF s.task = Task /\ Clear(Task) THEN Known(named) ELSE s.session
         /\ \A s \in sessions : \E r \in Named(named) : r.task = s.task /\ r.seq = s.seq
         /\ \A r1, r2 \in Named(named) :
              r1.task = r2.task /\ r1.seq = r2.seq => r1 = r2
<1>1. \A r \in sessions : r.task = Task /\ Clear(Task) => r.session = sid
  BY DEF Records, CurrentRows
<1>2. \A r1, r2 \in sessions : r1.task = r2.task /\ r1.seq = r2.seq => r1 = r2
  BY DEF Records, Keyed
<1>3. CASE sid = NoSession /\ named
  <2>1. Named(named) = {WithSession(r, Backfilled[r]) : r \in sessions} /\ Known(named) = run
    BY <1>3 DEF Named, Known
  <2>2. ASSUME NEW r \in sessions
        PROVE  /\ WithSession(r, Backfilled[r]).task = r.task
               /\ WithSession(r, Backfilled[r]).seq = r.seq
               /\ WithSession(r, Backfilled[r]).run = r.run
               /\ WithSession(r, Backfilled[r]).masked = r.masked
               /\ WithSession(r, Backfilled[r]).session
                    = IF r.task = Task /\ Clear(Task) THEN Known(named) ELSE r.session
    <3>1. r \in SessionRows /\ run \in 0..MaxRuns
      BY BoundsAssumption DEF TypeOK
    <3>2. Backfilled[r] = IF Found(r) THEN run ELSE r.session
      BY DEF Backfilled
    <3>3. Backfilled[r] \in 0..MaxRuns
      BY <3>1, <3>2 DEF SessionRows
    <3>. QED BY <1>1, <1>3, <2>1, <3>1, <3>2, <3>3, SetSession DEF Found
  <2>. QED BY <1>2, <2>1, <2>2
<1>4. CASE ~(sid = NoSession /\ named)
  <2>1. Named(named) = sessions /\ Known(named) = sid
    BY <1>4 DEF Named, Known
  <2>. QED BY <1>1, <1>2, <2>1
<1>. QED BY <1>3, <1>4

\* The numbers of the rows are those of before the session was learnt.
LEMMA NamedNumbers ==
  ASSUME TypeOK, Records, pc = "query", NEW named \in BOOLEAN, NEW t
  PROVE  {r.seq : r \in {s \in Named(named) : s.task = t}} = Numbers(t)
  BY NamedRows DEF Numbers

\* Rows learnt to be of one session stay keyed, and finished tasks complete.
LEMMA NamedKeyed ==
  ASSUME TypeOK, Records, pc = "query", Remaining, NEW named \in BOOLEAN
  PROVE  \A r, s \in Named(named) :
           /\ r.masked => <<r.task, r.run>> \in Masked
           /\ r.task = s.task =>
                /\ r # s => r.seq # s.seq
                /\ Clear(r.task) =>
                     /\ r.session = s.session
                     /\ \A u \in runs : u.task = r.task => u.session = r.session
<1>1. \A u \in runs : u.task # Task
  BY NoRunRow DEF Records, InBatch
<1>2. TAKE r, s \in Named(named)
<1>3. PICK a \in sessions :
        /\ r.task = a.task /\ r.seq = a.seq /\ r.run = a.run /\ r.masked = a.masked
        /\ r.session = IF a.task = Task /\ Clear(Task) THEN Known(named) ELSE a.session
  BY NamedRows
<1>4. PICK b \in sessions :
        /\ s.task = b.task /\ s.seq = b.seq
        /\ s.session = IF b.task = Task /\ Clear(Task) THEN Known(named) ELSE b.session
  BY NamedRows
<1>5. r.masked => <<r.task, r.run>> \in Masked
  BY <1>3 DEF Records, Keyed
<1>6. r.task = s.task /\ r # s => r.seq # s.seq
  BY NamedRows
<1>7. ASSUME r.task = s.task, Clear(r.task)
      PROVE  r.session = s.session /\ \A u \in runs : u.task = r.task => u.session = r.session
  <2>1. /\ a.session = b.session
        /\ \A u \in runs : u.task = a.task => u.session = a.session
    BY <1>3, <1>4, <1>7 DEF Records, Keyed
  <2>. QED BY <1>1, <1>3, <1>4, <1>7, <2>1
<1>. QED BY <1>5, <1>6, <1>7

\* A message adds the next row of its task.
LEMMA MessageKeepsRecords ==
  ASSUME TypeOK, TaskShape, Records, NEW named \in BOOLEAN, Message(named)
  PROVE  Records'
<1> DEFINE new == NewRow(Known(named))
           old == Named(named)
<1>1. /\ pc = "query" /\ pc' = "query" /\ Remaining /\ pc \in InBatch
      /\ sessions' = old \cup {new} /\ seq' = seq + 1 /\ sid' = Known(named)
      /\ heard' = [heard EXCEPT ![Task] = @ + 1]
      /\ UNCHANGED <<batch, results, runs>>
  BY DEF Message, TaskShape, taskVars, InBatch
<1>2. Task \in AllTasks /\ Task' = Task /\ seq \in Nat /\ Begun' = Begun
  BY <1>1, TaskType DEF TypeOK, Task, Begun
<1>3. \A u \in runs : u.task # Task
  BY <1>1, NoRunRow DEF Records
<1>4. \A r \in old : r.task = Task => r.seq < seq /\ (Clear(Task) => r.session = Known(named))
  <2>1. \A s \in sessions : s.task = Task => s.seq < seq
    BY <1>1 DEF Records, CurrentRows
  <2>. QED BY <1>1, <2>1, NamedRows
<1>5. /\ new.task = Task /\ new.session = Known(named) /\ new.seq = seq /\ new.run = run
      /\ new.masked => <<new.task, new.run>> \in Masked
  BY <1>2, NamedType, NewRowType
<1> HIDE DEF new
<1>6. Keyed'
  <2> SUFFICES ASSUME NEW r \in old \cup {new}, NEW s \in old \cup {new}
               PROVE  /\ r.masked => <<r.task, r.run>> \in Masked
                      /\ r.task = s.task =>
                           /\ r # s => r.seq # s.seq
                           /\ Clear(r.task) =>
                                /\ r.session = s.session
                                /\ \A u \in runs : u.task = r.task => u.session = r.session
    BY <1>1 DEF Keyed
  <2>1. \A n : n < seq => n # seq
    BY <1>2
  <2>2. CASE r \in old /\ s \in old
    BY <1>1, <2>2, NamedKeyed
  <2>3. CASE r = new \/ s = new
    <3>1. r.masked => <<r.task, r.run>> \in Masked
      BY <1>5, <1>1, NamedKeyed
    <3>. QED BY <1>5, <1>3, <1>4, <2>1, <2>3, <3>1
  <2>. QED BY <2>2, <2>3
<1>7. ASSUME NEW t
      PROVE  Numbers(t)' = IF t = Task THEN Numbers(t) \cup {seq} ELSE Numbers(t)
  <2>1. {r.seq : r \in {s \in old : s.task = t}} = Numbers(t)
    BY <1>1, NamedNumbers
  <2>. QED BY <1>5, <1>1, <2>1 DEF Numbers
<1>8. RecordedInFull'
  <2> SUFFICES ASSUME NEW u \in runs, u.ok
               PROVE  Numbers(u.task)' = 0..heard'[u.task] - 1
    BY <1>1 DEF RecordedInFull
  <2>1. u.task # Task /\ u.task \in AllTasks
    BY <1>3 DEF TypeOK, RunRows
  <2>2. heard'[u.task] = heard[u.task] /\ Numbers(u.task)' = Numbers(u.task)
    BY <1>1, <1>7, <2>1 DEF TypeOK
  <2>. QED BY <2>2 DEF Records, RecordedInFull
<1>9. Traces'
  <2>1. Len(results) + 1 \in Begun /\ Task = batch[Len(results) + 1]
    BY <1>1, TaskType DEF Begun, Task
  <2>2. \A r \in old \cup {new} : \E i \in Begun : r.task = batch[i]
    BY <1>5, <1>1, <2>1, NamedRows DEF Records, Traces
  <2>3. \A t \in AllTasks : heard'[t] # 0 => \E i \in Begun : t = batch[i]
    BY <1>1, <2>1 DEF Records, Traces, TypeOK
  <2>. QED BY <1>1, <1>2, <2>2, <2>3 DEF Records, Traces, Early, InBatch
<1>10. CurrentRows'
  <2>1. Numbers(Task) = 0..seq - 1 /\ heard[Task] = seq
    BY <1>1 DEF Records, CurrentRows
  <2>2. Numbers(Task)' = 0..seq /\ heard'[Task] = seq + 1
    <3>1. (0..seq - 1) \cup {seq} = 0..seq
      BY <1>2
    <3>2. Numbers(Task)' = Numbers(Task) \cup {seq}
      BY <1>2, <1>7
    <3>. QED BY <1>1, <1>2, <2>1, <3>1, <3>2 DEF TypeOK
  <2>3. \A r \in old \cup {new} :
          r.task = Task => r.seq < seq' /\ (Clear(Task) => r.session = sid')
    <3>1. \A r \in old : r.seq \in Nat
      BY NamedType DEF SessionRows
    <3>. QED BY <1>5, <1>1, <1>2, <1>4, <3>1
  <2>4. seq' - 1 = seq
    BY <1>1, <1>2
  <2>. QED BY <1>1, <1>2, <2>2, <2>3, <2>4 DEF CurrentRows
<1>. QED BY <1>6, <1>8, <1>9, <1>10 DEF Records

\* A message that cannot be written adds no row, and its task fails.
LEMMA LossKeepsRecords ==
  ASSUME TypeOK, TaskShape, Records, NEW named \in BOOLEAN, MessageLost(named)
  PROVE  Records'
<1>1. /\ pc = "query" /\ pc' = "end" /\ Remaining /\ pc \in InBatch /\ ~ok'
      /\ sessions' = Named(named) /\ seq' = seq /\ sid' = Known(named)
      /\ heard' = [heard EXCEPT ![Task] = @ + 1]
      /\ UNCHANGED <<batch, results, runs>>
  BY DEF MessageLost, TaskShape, taskVars, InBatch
<1>2. Task \in AllTasks /\ Task' = Task /\ Begun' = Begun
  BY <1>1, TaskType DEF Task, Begun
<1>3. \A u \in runs : u.task # Task
  BY <1>1, NoRunRow DEF Records
<1>4. Keyed'
  BY <1>1, NamedKeyed DEF Keyed, Clear
<1>5. ASSUME NEW u \in runs, u.ok
      PROVE  Numbers(u.task)' = 0..heard'[u.task] - 1
  <2>1. u.task # Task /\ u.task \in AllTasks
    BY <1>3 DEF TypeOK, RunRows
  <2>2. Numbers(u.task)' = Numbers(u.task)
    BY <1>1, NamedNumbers DEF Numbers
  <2>3. heard'[u.task] = heard[u.task]
    BY <1>1, <2>1 DEF TypeOK
  <2>. QED BY <1>5, <2>2, <2>3 DEF Records, RecordedInFull
<1>6. Traces'
  <2>1. Len(results) + 1 \in Begun /\ Task = batch[Len(results) + 1]
    BY <1>1, TaskType DEF Begun, Task
  <2>2. \A r \in Named(named) : \E i \in Begun : r.task = batch[i]
    BY <1>1, NamedRows DEF Records, Traces
  <2>3. \A t \in AllTasks : heard'[t] # 0 => \E i \in Begun : t = batch[i]
    BY <1>1, <2>1 DEF Records, Traces, TypeOK
  <2>. QED BY <1>1, <1>2, <2>2, <2>3 DEF Records, Traces, Early, InBatch
<1>7. CurrentRows'
  <2>1. \A s \in sessions : s.task = Task => s.seq < seq
    BY <1>1 DEF Records, CurrentRows
  <2>2. \A r \in Named(named) :
          r.task = Task => r.seq < seq /\ (Clear(Task) => r.session = Known(named))
    BY <1>1, <2>1, NamedRows
  <2>. QED BY <1>1, <1>2, <2>2 DEF CurrentRows
<1>8. RecordedInFull'
  BY <1>1, <1>5 DEF RecordedInFull
<1>. QED BY <1>4, <1>6, <1>7, <1>8 DEF Records

\* A task begins with no rows and a number of its own.
LEMMA BeginKeepsRecords ==
  ASSUME TypeOK, TaskShape, Records, BeginTask
  PROVE  Records'
<1>1. /\ pc = "next" /\ pc' = "query" /\ Remaining /\ pc \in InBatch
      /\ seq' = 0 /\ UNCHANGED <<batch, results, runs, sessions, heard>>
  BY DEF BeginTask, taskVars, InBatch
<1>2. Task' = Task /\ Task \in AllTasks /\ Len(results) \in Nat
  BY <1>1, TaskType DEF Task
<1>3. Begun = 1..Len(results) /\ Begun' = 1..Len(results) + 1 /\ Begun \subseteq Begun'
  BY <1>1, <1>2 DEF Begun
<1>4. (\A r \in sessions : r.task # Task) /\ heard[Task] = 0
  BY <1>1, <1>2, <1>3, Fresh DEF Records, Traces
<1>5. Numbers(Task) = 0..0 - 1
  BY <1>4 DEF Numbers
<1>6. Keyed' /\ RecordedInFull'
  BY <1>1 DEF Records, Keyed, RecordedInFull, Numbers
<1>7. Traces'
  BY <1>1, <1>3 DEF Records, Traces, Early, InBatch
<1>8. Numbers(Task)' = Numbers(Task)
  BY <1>1, <1>2 DEF Numbers
<1>9. CurrentRows'
  BY <1>1, <1>2, <1>4, <1>5, <1>8 DEF CurrentRows
<1>. QED BY <1>6, <1>7, <1>9 DEF Records

\* The row of a finished task agrees with its messages.
LEMMA EndKeepsRecords ==
  ASSUME TypeOK, TaskShape, Records, EndTask
  PROVE  Records'
<1> DEFINE new == [task |-> Task, session |-> sid, ok |-> ok, run |-> run]
<1>1. /\ pc = "end" /\ pc' = "next" /\ Remaining /\ pc \in InBatch
      /\ runs' = runs \cup {new} /\ results' = Append(results, ok)
      /\ UNCHANGED <<batch, sessions, heard>>
  BY DEF EndTask, TaskShape, taskVars, InBatch
<1>2. new.task = Task /\ new.session = sid /\ new.ok = ok
  OBVIOUS
<1>3. Len(results) \in Nat /\ Len(results') = Len(results) + 1
  BY <1>1 DEF TypeOK
<1>4. Begun' = Begun /\ Len(results) + 1 \in Begun /\ Begun = 1..Len(results')
  BY <1>1, <1>3 DEF Begun
<1>5. \A r \in sessions : r.task = Task /\ Clear(Task) => r.session = sid
  BY <1>1 DEF Records, CurrentRows
<1>6. Keyed'
  <2> SUFFICES ASSUME NEW r \in sessions, NEW s \in sessions
               PROVE  /\ r.masked => <<r.task, r.run>> \in Masked
                      /\ r.task = s.task =>
                           /\ r # s => r.seq # s.seq
                           /\ Clear(r.task) =>
                                /\ r.session = s.session
                                /\ \A u \in runs' : u.task = r.task => u.session = r.session
    BY <1>1 DEF Keyed, Clear
  <2>1. \A u \in runs' : u \in runs \/ (u.task = Task /\ u.session = sid)
    BY <1>1, <1>2
  <2>. QED BY <1>5, <2>1 DEF Records, Keyed
<1>7. \A t : Numbers(t)' = Numbers(t)
  BY <1>1 DEF Numbers
<1>8. ASSUME NEW u \in runs', u.ok
      PROVE  Numbers(u.task) = 0..heard[u.task] - 1
  BY <1>1, <1>2, <1>8 DEF Records, RecordedInFull, CurrentRows
<1>9. RecordedInFull'
  BY <1>1, <1>7, <1>8 DEF RecordedInFull
<1>10. Traces'
  <2>1. \A u \in runs' : \E i \in 1..Len(results') : u.task = batch[i]
    BY <1>1, <1>2, <1>3 DEF Records, Traces, Task
  <2>. QED BY <1>1, <1>4, <2>1 DEF Records, Traces, Early, InBatch
<1>11. CurrentRows'
  BY <1>1 DEF CurrentRows
<1>. QED BY <1>6, <1>9, <1>10, <1>11 DEF Records

\* The query ends without another message.
LEMMA QuietEndKeepsRecords ==
  ASSUME TypeOK, TaskShape, Records, QueryEnds \/ QueryRaises
  PROVE  Records'
<1>1. /\ pc = "query" /\ pc' = "end"
      /\ UNCHANGED <<batch, results, runs, sessions, heard, sid, seq>>
  BY DEF QueryEnds, QueryRaises, taskVars, transcriptVars
<1>2. Task' = Task /\ Begun' = Begun /\ Numbers(Task)' = Numbers(Task)
  BY <1>1 DEF Task, Begun, Numbers
<1>3. Keyed' /\ RecordedInFull'
  BY <1>1 DEF Records, Keyed, RecordedInFull, Numbers
<1>4. Traces' /\ CurrentRows'
  BY <1>1, <1>2 DEF Records, Traces, CurrentRows, Early, InBatch
<1>. QED BY <1>3, <1>4 DEF Records

\* Rows stay keyed, finished tasks complete, and the rest as described.
LEMMA RecordsHold == Spec => []Records
<1>1. Init => Records
  BY DEF Init, Records, Keyed, RecordedInFull, Traces, CurrentRows, InBatch
<1>2. TypeOK /\ TaskShape /\ Records /\ [Next]_vars => Records'
  <2> SUFFICES ASSUME TypeOK, TaskShape, Records, [Next]_vars
               PROVE  Records'
    OBVIOUS
  <2> USE DEF progressVars, taskVars, transcriptVars, outputVars, InBatch, Early
  <2>1. CASE Begin
    <3>1. ASSUME NEW how \in Exceptions, Rejected(how) PROVE Records'
      BY <3>1, Idle DEF Rejected, Exceptions
    <3>2. CASE Accepted
      BY <3>2, Idle DEF Accepted
    <3>3. CASE StartServer
      BY <3>3, Idle DEF StartServer
    <3>4. CASE StartFails
      BY <3>4, Idle DEF StartFails, Unwind
    <3>5. CASE Setup
      BY <3>5, Idle DEF Setup
    <3>6. ASSUME NEW how \in Exceptions, SetupFails(how) PROVE Records'
      BY <3>6, Idle DEF SetupFails, Unwind, Exceptions
    <3>7. CASE Load
      <4>1. /\ results = <<>> /\ results' = <<>> /\ pc = "load" /\ pc' = "next"
            /\ UNCHANGED <<sessions, runs, heard>>
        BY <3>7 DEF Load, TaskShape
      <4>2. Keyed' /\ RecordedInFull'
        BY <4>1 DEF Records, Keyed, RecordedInFull, Numbers
      <4>3. Traces' /\ CurrentRows'
        BY <4>1 DEF Records, Traces, CurrentRows
      <4>. QED BY <4>2, <4>3 DEF Records
    <3>8. ASSUME NEW how \in Exceptions, LoadFails(how) PROVE Records'
      BY <3>8, Idle DEF LoadFails, Unwind, Exceptions
    <3>. QED BY <2>1, <3>1, <3>2, <3>3, <3>4, <3>5, <3>6, <3>7, <3>8 DEF Begin
  <2>2. CASE RunTask
    <3>1. CASE BeginTask
      BY <3>1, BeginKeepsRecords
    <3>2. CASE BeginFails
      BY <3>2, Idle DEF BeginFails, Unwind
    <3>3. ASSUME NEW named \in BOOLEAN, Message(named) PROVE Records'
      BY <3>3, MessageKeepsRecords
    <3>4. ASSUME NEW named \in BOOLEAN, MessageLost(named) PROVE Records'
      BY <3>4, LossKeepsRecords
    <3>5. CASE QueryEnds
      BY <3>5, QuietEndKeepsRecords
    <3>6. CASE QueryRaises
      BY <3>6, QuietEndKeepsRecords
    <3>7. CASE QueryEscapes
      BY <3>7, Idle DEF QueryEscapes, Unwind
    <3>8. CASE EndTask
      BY <3>8, EndKeepsRecords
    <3>9. CASE EndFails
      BY <3>9, Idle DEF EndFails, Unwind
    <3>. QED BY <2>2, <3>1, <3>2, <3>3, <3>4, <3>5, <3>6, <3>7, <3>8, <3>9 DEF RunTask
  <2>3. CASE Finish
    <3>1. CASE StartPromote
      BY <3>1, Idle DEF StartPromote
    <3>2. ASSUME NEW f \in Range(Order), PromoteOne(f) PROVE Records'
      BY <3>2, Idle DEF PromoteOne
    <3>3. ASSUME NEW f \in Range(Order), PromoteFails(f) PROVE Records'
      BY <3>3, Idle DEF PromoteFails, Unwind
    <3>4. CASE Promoted
      BY <3>4, Idle DEF Promoted, Unwind
    <3>5. CASE FlushFiles
      BY <3>5, Idle DEF FlushFiles
    <3>6. CASE FlushSessions
      BY <3>6, Idle DEF FlushSessions
    <3>7. CASE FlushRuns
      BY <3>7, Idle DEF FlushRuns
    <3>8. CASE FlushFails
      BY <3>8, Idle DEF FlushFails
    <3>9. CASE Stop
      BY <3>9, Idle DEF Stop, Leave
    <3>10. CASE Report
      BY <3>10, Idle DEF Report
    <3>. QED BY <2>3, <3>1, <3>2, <3>3, <3>4, <3>5, <3>6, <3>7, <3>8, <3>9, <3>10 DEF Finish
  <2>4. CASE Collect
    BY <2>4, Idle DEF Collect
  <2>5. CASE NewRun
    BY <2>5 DEF NewRun, Records, Keyed, RecordedInFull, Traces, CurrentRows
  <2>6. CASE UNCHANGED vars
    <3>1. Keyed' /\ RecordedInFull'
      BY <2>6 DEF vars, Records, Keyed, RecordedInFull, Numbers
    <3>2. Traces' /\ CurrentRows'
      BY <2>6 DEF vars, Records, Traces, CurrentRows, Begun, Task, Numbers
    <3>. QED BY <3>1, <3>2 DEF Records
  <2>. QED BY <2>1, <2>2, <2>3, <2>4, <2>5, <2>6 DEF Next, Work
<1>. QED BY <1>1, <1>2, JobTypeCorrect, PTL DEF Spec

\* The rows of one task in one job have numbers of their own and, when there is
\* no secret value in its id or its session's, show one session, whenever that
\* became known (on_message, end_task).
THEOREM RowsAreKeyed == Spec => []RowsKeyed
<1>1. TypeOK /\ Records => RowsKeyed
  <2> SUFFICES ASSUME TypeOK, Records,
                      NEW r \in sessions, NEW s \in sessions, r.task = s.task
               PROVE  /\ r # s => r.seq # s.seq
                      /\ Legible(r) /\ Legible(s) =>
                           /\ SessionText(r) = SessionText(s)
                           /\ \A u \in runs : u.task = r.task => RunText(u) = SessionText(r)
    BY DEF RowsKeyed
  <2>1. r # s => r.seq # s.seq
    BY DEF Records, Keyed
  <2>2. ASSUME Legible(r), Legible(s)
        PROVE  /\ r.session = s.session /\ r.masked = FALSE /\ s.masked = FALSE
               /\ \A u \in runs : u.task = r.task => u.session = r.session
    <3>1. r.masked \in BOOLEAN /\ s.masked \in BOOLEAN
      BY DEF TypeOK, SessionRows
    <3>. QED BY <2>2, <3>1 DEF Records, Keyed, Legible
  <2>. QED BY <2>1, <2>2 DEF SessionText, RunText, IdText
<1>. QED BY <1>1, RecordsHold, JobTypeCorrect, PTL

\* A task reported as a success has every message its agent sent recorded,
\* numbered without a gap (on_message, run_task).
THEOREM SuccessIsRecordedInFull == Spec => []RecordedInFull
<1>1. Records => RecordedInFull
  BY DEF Records
<1>. QED BY <1>1, RecordsHold, PTL

-----------------------------------------------------------------------------
(* History: what Storage holds of earlier jobs *)

\* The rows of this job carry its number and, if any, its session.
OwnRows ==
  /\ sid \in {NoSession, run}
  /\ \A r \in sessions : r.run = run /\ r.session \in {NoSession, run}

\* Storage holds rows of earlier jobs, and of this one when it is done; the
\* rows of one task in one job have one session, if its id is clear.
StoredRows ==
  /\ \A r \in stored :
       /\ r.session \in {NoSession, r.run}
       /\ r.run < run \/ (pc = "done" /\ r.run = run)
  /\ \A r, s \in stored :
       r.run = s.run /\ r.task = s.task /\ Clear(r.task) => r.session = s.session

History == OwnRows /\ StoredRows

\* A step that touches neither the rows nor Storage.
LEMMA SameRows ==
  ASSUME History, UNCHANGED <<run, sessions, stored>>, sid' \in {sid, NoSession},
         pc' = pc \/ pc # "done"
  PROVE  History'
  BY DEF History, OwnRows, StoredRows

\* A message, written or not, comes with the session of the query.
LEMMA MessageKeepsHistory ==
  ASSUME TypeOK, Records, History, NEW named \in BOOLEAN,
         Message(named) \/ MessageLost(named)
  PROVE  History'
<1>1. /\ pc = "query" /\ pc' # "done" /\ sid' = Known(named)
      /\ sessions' \subseteq Named(named) \cup {NewRow(Known(named))}
      /\ UNCHANGED <<run, stored>>
  BY DEF Message, MessageLost
<1>2. Known(named) \in {NoSession, run}
  BY DEF Known, History, OwnRows
<1>3. \A r \in Named(named) : r.run = run /\ r.session \in {NoSession, run}
  <2>1. CASE sid = NoSession /\ named
    <3>1. Named(named) = {WithSession(r, Backfilled[r]) : r \in sessions}
      BY <2>1 DEF Named
    <3>2. ASSUME NEW r \in sessions
          PROVE  /\ WithSession(r, Backfilled[r]).run = run
                 /\ WithSession(r, Backfilled[r]).session \in {NoSession, run}
      <4>1. r \in SessionRows /\ run \in 0..MaxRuns
        BY BoundsAssumption DEF TypeOK
      <4>2. r.run = run /\ r.session \in {NoSession, run}
        BY DEF History, OwnRows
      <4>3. Backfilled[r] \in {r.session, run}
        BY DEF Backfilled
      <4>4. Backfilled[r] \in 0..MaxRuns
        BY <4>1, <4>3 DEF SessionRows
      <4>. QED BY <4>1, <4>2, <4>3, <4>4, SetSession
    <3>. QED BY <3>1, <3>2
  <2>2. CASE ~(sid = NoSession /\ named)
    BY <2>2 DEF Named, History, OwnRows
  <2>. QED BY <2>1, <2>2
<1>4. OwnRows'
  BY <1>1, <1>2, <1>3 DEF OwnRows, NewRow
<1>5. StoredRows'
  BY <1>1 DEF History, StoredRows
<1>. QED BY <1>4, <1>5 DEF History

\* What the platform imports is of this job, with one session per task.
LEMMA CollectKeepsHistory ==
  ASSUME TypeOK, Records, History, Collect
  PROVE  History'
<1>1. /\ stored' \subseteq stored \cup sessions
      /\ pc = "exited" /\ pc' = "done" /\ UNCHANGED <<run, sid, sessions>>
  BY DEF Collect, Merged, OnePerKey, transcriptVars
<1>2. run \in Nat /\ \A r \in stored : r.run \in Nat /\ r.run < run
  BY <1>1 DEF TypeOK, SessionRows, History, StoredRows
<1>3. \A r, s \in sessions : r.task = s.task /\ Clear(r.task) => r.session = s.session
  BY DEF Records, Keyed
<1>4. StoredRows'
  BY <1>1, <1>2, <1>3 DEF History, OwnRows, StoredRows
<1>. QED BY <1>1, <1>4 DEF History, OwnRows

\* Storage holds what earlier jobs left, with one session per job and task.
LEMMA HistoryHolds == Spec => []History
<1>1. Init => History
  BY DEF Init, History, OwnRows, StoredRows
<1>2. TypeOK /\ Records /\ History /\ [Next]_vars => History'
  <2> SUFFICES ASSUME TypeOK, Records, History, [Next]_vars
               PROVE  History'
    OBVIOUS
  <2> USE DEF progressVars, taskVars, transcriptVars, outputVars
  <2>1. CASE Begin
    <3>1. ASSUME NEW how \in Exceptions, Rejected(how) PROVE History'
      BY <3>1, SameRows DEF Rejected
    <3>2. CASE Accepted
      BY <3>2, SameRows DEF Accepted
    <3>3. CASE StartServer
      BY <3>3, SameRows DEF StartServer
    <3>4. CASE StartFails
      BY <3>4, SameRows DEF StartFails, Unwind
    <3>5. CASE Setup
      BY <3>5, SameRows DEF Setup
    <3>6. ASSUME NEW how \in Exceptions, SetupFails(how) PROVE History'
      BY <3>6, SameRows DEF SetupFails, Unwind
    <3>7. CASE Load
      BY <3>7, SameRows DEF Load
    <3>8. ASSUME NEW how \in Exceptions, LoadFails(how) PROVE History'
      BY <3>8, SameRows DEF LoadFails, Unwind
    <3>. QED BY <2>1, <3>1, <3>2, <3>3, <3>4, <3>5, <3>6, <3>7, <3>8 DEF Begin
  <2>2. CASE RunTask
    <3>1. CASE BeginTask
      BY <3>1, SameRows DEF BeginTask
    <3>2. CASE BeginFails
      BY <3>2, SameRows DEF BeginFails, Unwind
    <3>3. ASSUME NEW named \in BOOLEAN, Message(named) PROVE History'
      BY <3>3, MessageKeepsHistory
    <3>4. ASSUME NEW named \in BOOLEAN, MessageLost(named) PROVE History'
      BY <3>4, MessageKeepsHistory
    <3>5. CASE QueryEnds
      BY <3>5, SameRows DEF QueryEnds
    <3>6. CASE QueryRaises
      BY <3>6, SameRows DEF QueryRaises
    <3>7. CASE QueryEscapes
      BY <3>7, SameRows DEF QueryEscapes, Unwind
    <3>8. CASE EndTask
      BY <3>8, SameRows DEF EndTask
    <3>9. CASE EndFails
      BY <3>9, SameRows DEF EndFails, Unwind
    <3>. QED BY <2>2, <3>1, <3>2, <3>3, <3>4, <3>5, <3>6, <3>7, <3>8, <3>9 DEF RunTask
  <2>3. CASE Finish
    <3>1. CASE StartPromote
      BY <3>1, SameRows DEF StartPromote
    <3>2. ASSUME NEW f \in Range(Order), PromoteOne(f) PROVE History'
      BY <3>2, SameRows DEF PromoteOne
    <3>3. ASSUME NEW f \in Range(Order), PromoteFails(f) PROVE History'
      BY <3>3, SameRows DEF PromoteFails, Unwind
    <3>4. CASE Promoted
      BY <3>4, SameRows DEF Promoted, Unwind
    <3>5. CASE FlushFiles
      BY <3>5, SameRows DEF FlushFiles
    <3>6. CASE FlushSessions
      BY <3>6, SameRows DEF FlushSessions
    <3>7. CASE FlushRuns
      BY <3>7, SameRows DEF FlushRuns
    <3>8. CASE FlushFails
      BY <3>8, SameRows DEF FlushFails
    <3>9. CASE Stop
      BY <3>9, SameRows DEF Stop, Leave
    <3>10. CASE Report
      BY <3>10, SameRows DEF Report
    <3>. QED BY <2>3, <3>1, <3>2, <3>3, <3>4, <3>5, <3>6, <3>7, <3>8, <3>9, <3>10 DEF Finish
  <2>4. CASE Collect
    BY <2>4, CollectKeepsHistory
  <2>5. CASE NewRun
    <3>1. run \in Nat /\ \A r \in stored : r.run \in Nat
      BY DEF TypeOK, SessionRows
    <3>. QED BY <2>5, <3>1 DEF NewRun, History, OwnRows, StoredRows
  <2>6. CASE UNCHANGED vars
    BY <2>6, SameRows DEF vars
  <2>. QED BY <2>1, <2>2, <2>3, <2>4, <2>5, <2>6 DEF Next, Work
<1>. QED BY <1>1, <1>2, JobTypeCorrect, RecordsHold, PTL DEF Spec

\* Storage is written by the import alone.
LEMMA OnlyCollectStores ==
  ASSUME [Next]_vars
  PROVE  stored' = stored \/ Collect
<1> USE DEF progressVars, taskVars, transcriptVars, outputVars
<1>1. Begin => stored' = stored
  BY DEF Begin, Rejected, Accepted, StartServer, StartFails, Setup, SetupFails, Load, LoadFails
<1>2. RunTask => stored' = stored
  BY DEF RunTask, BeginTask, BeginFails, Message, MessageLost, QueryEnds, QueryRaises,
         QueryEscapes, EndTask, EndFails
<1>3. Finish => stored' = stored
  BY DEF Finish, StartPromote, PromoteOne, PromoteFails, Promoted, FlushFiles, FlushSessions,
         FlushRuns, FlushFails, Stop, Report
<1>4. NewRun \/ UNCHANGED vars => stored' = stored
  BY DEF NewRun, vars
<1>. QED BY <1>1, <1>2, <1>3, <1>4 DEF Next, Work

\* What Storage holds of a task that named its session, and whose id has no
\* secret value in it, is not replaced by a later job that runs the same task
\* (SESSIONS_SCHEMA and the back-fill).
THEOREM HistoryIsKept == Spec => HistoryKept
<1> DEFINE Kept == Messages(OfNamedTasks(stored)) \subseteq Messages(stored')
<1>1. TypeOK /\ History /\ [Next]_vars => Kept
  <2> SUFFICES ASSUME TypeOK, History, [Next]_vars,
                      NEW r \in OfNamedTasks(stored)
               PROVE  <<r.run, r.task, r.seq>> \in Messages(stored')
    BY DEF Messages
  <2>1. r \in stored /\ r.session # NoSession
    BY DEF OfNamedTasks, RowsOfNamed, History, StoredRows
  <2>2. r \in stored'
    <3>1. CASE stored' = stored
      BY <2>1, <3>1
    <3>2. CASE Collect
      <4>1. run \in Nat /\ r.run \in Nat /\ r.run < run /\ r.session = r.run
        BY <2>1, <3>2 DEF Collect, TypeOK, SessionRows, History, StoredRows
      <4>2. \A n \in sessions : SessionKey(n) # SessionKey(r)
        BY <2>1, <4>1 DEF SessionKey, SessionText, IdText, NoSession, History, OwnRows
      <4>. QED BY <2>1, <3>2, <4>2 DEF Collect, Merged, OnePerKey
    <3>. QED BY <3>1, <3>2, OnlyCollectStores
  <2>. QED BY <2>2 DEF Messages
<1>. QED BY <1>1, JobTypeCorrect, HistoryHolds, PTL DEF Spec, HistoryKept
=============================================================================
