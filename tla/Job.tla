-------------------------------- MODULE Job --------------------------------
(***************************************************************************)
(* One job of the component, and the jobs after it: run and                *)
(* _run_with_broker (component.py) from the start of the server to the     *)
(* exit code, with TaskSource, ClaudeRunner.run_task, TranscriptWriter and *)
(* OutputWriter.promote as they are called from there, and the platform,   *)
(* which imports what a job left in out/tables.                            *)
(*                                                                         *)
(* An exception is "user" (UserException, exit 1) or "crash" (any other,   *)
(* exit 2).  A message stands for one row of claude_sessions; what it says *)
(* is left out, except whether it names the SDK session.  The session of a *)
(* query is as fresh as the query, so it is written as the number of the   *)
(* job.  A row carries that number, and the task, besides as what it       *)
(* records: the ids it shows have lost what is a secret of the             *)
(* configuration, while claude_runs has them as they are.                  *)
(***************************************************************************)
EXTENDS Naturals, Sequences, Functions

CONSTANTS
  Batches,      \* the task lists a job may load
  Order,        \* the names of the files agents may leave, as they sort
  Leavings,     \* what may be found in the agent output directory
  Scrub,        \* what is left of each task id when secret values are taken out
  Masked,       \* the queries, as <<task, job>>, whose session id has a secret in it
  MaxMessages,  \* bound: messages a query yields
  MaxRuns       \* bound: jobs run on the configuration

Kinds == {"good", "empty", "unreadable", "unkeyed"}

ASSUME BatchesAssumption ==
  \A b \in Batches : b \in Seq(Range(b)) /\ b # <<>> /\ IsInjective(b)
ASSUME OrderAssumption == Order \in Seq(Range(Order))
ASSUME LeavingsAssumption ==
  \A l \in Leavings : DOMAIN l \subseteq Range(Order) /\ Range(l) \subseteq Kinds
ASSUME BoundsAssumption == MaxMessages \in Nat /\ MaxRuns \in Nat \ {0}

AllTasks == UNION {Range(b) : b \in Batches}
\* An id out of which a secret was taken is no other task's.
ASSUME ScrubAssumption ==
  /\ DOMAIN Scrub = AllTasks
  /\ \A t, u \in AllTasks : Scrub[t] = u => t = u

VARIABLES
  run,        \* the number of this job
  pc,         \* where _run_with_broker is
  server,     \* the AdvocateServer: not started, bound only, up, stopped
  raised,     \* the exception under way, or "none"
  exit,       \* the exit code of the process, or Running
  batch,      \* tasks
  results,    \* results: one success flag per task done
  sid,        \* TranscriptWriter._session_id, NoSession when it is ""
  seq,        \* TranscriptWriter._seq
  ok,         \* success of the result run_task returned
  sessions,   \* _sessions_rows
  runs,       \* _runs_rows
  heard,      \* how many messages the query of each task has yielded
  flushed,    \* whether transcript was built, and whether flush returned
  left,       \* the agent output directory: file name -> its kind
  pending,    \* the file names promote has still to visit
  out,        \* out/tables with manifests: table name -> whose it is
  stored      \* Storage: the rows of claude_sessions

progressVars == <<raised, exit, server>>
taskVars == <<batch, results>>
transcriptVars == <<sid, seq, sessions, runs, heard>>
outputVars == <<left, pending, out>>
vars == <<run, pc, progressVars, taskVars, ok, transcriptVars, flushed, outputVars, stored>>

NoSession == 0
Running == 3
TranscriptTables == {"claude_sessions", "claude_runs"}
Tables == TranscriptTables \cup Range(Order)

SessionRows ==
  [task : AllTasks, session : 0..MaxRuns, masked : BOOLEAN, seq : 0..MaxMessages, run : 1..MaxRuns]
RunRows == [task : AllTasks, session : 0..MaxRuns, ok : BOOLEAN, run : 1..MaxRuns]

Places == {"start", "server", "setup", "load", "next", "query", "end", "promote",
           "files", "sessions", "runs", "stop", "report", "exited", "done"}

TypeOK ==
  /\ run \in 1..MaxRuns
  /\ pc \in Places
  /\ server \in {"none", "bound", "up", "stopped"}
  /\ raised \in {"none", "user", "crash"}
  /\ exit \in {Running, 0, 1, 2} /\ (exit = Running <=> pc \notin {"exited", "done"})
  /\ batch \in Batches \cup {<<>>}
  /\ results \in Seq(BOOLEAN) /\ Len(results) <= Len(batch)
  /\ sid \in 0..MaxRuns /\ seq \in 0..MaxMessages /\ ok \in BOOLEAN
  /\ sessions \subseteq SessionRows
  /\ runs \subseteq RunRows
  /\ heard \in [AllTasks -> Nat]
  /\ flushed \in {"unbuilt", "no", "yes", "failed"}
  /\ DOMAIN left \subseteq Range(Order) /\ Range(left) \subseteq Kinds
  /\ pending \subseteq Range(Order)
  /\ out \in [Tables -> {"none", "agent", "transcript"}]
  /\ stored \subseteq SessionRows

NoTables == [t \in Tables |-> "none"]
NoFiles == [f \in {} |-> "good"]

Init ==
  /\ run = 1 /\ pc = "start" /\ server = "none" /\ raised = "none" /\ exit = Running
  /\ batch = <<>> /\ results = <<>> /\ ok = FALSE
  /\ sid = NoSession /\ seq = 0 /\ sessions = {} /\ runs = {}
  /\ heard = [t \in AllTasks |-> 0]
  /\ flushed = "unbuilt"
  /\ left = NoFiles /\ pending = {} /\ out = NoTables
  /\ stored = {}

Exceptions == {"user", "crash"}
\* _boot
ExitCode(how) == IF how = "user" THEN 1 ELSE 2

-----------------------------------------------------------------------------
(* Up to the task loop *)

\* Mutant of Unwind: stop comes first and flush is not reached.
UnwindToStop(how) ==
  /\ raised' = how
  /\ pc' = "stop"

\* An exception in the try block: the finally clause runs.
Unwind(how) ==
  /\ raised' = how
  /\ pc' = IF flushed = "unbuilt" THEN "stop" ELSE "files"

\* The memory check, Configuration or the scrub raises before there is a server.
Rejected(how) ==
  /\ pc = "start"
  /\ pc' = "exited" /\ raised' = how /\ exit' = ExitCode(how)
  /\ UNCHANGED <<run, server, taskVars, ok, transcriptVars, flushed, outputVars, stored>>

Accepted ==
  /\ pc = "start"
  /\ pc' = "server"
  /\ UNCHANGED <<run, progressVars, taskVars, ok, transcriptVars, flushed, outputVars, stored>>

StartServer ==
  /\ pc = "server"
  /\ pc' = "setup" /\ server' = "up"
  /\ UNCHANGED <<run, raised, exit, taskVars, ok, transcriptVars, flushed, outputVars, stored>>

\* The socket cannot be bound, or it is and its thread cannot be started.
StartFails ==
  /\ pc = "server"
  /\ server' \in {"none", "bound"}
  /\ Unwind("crash")
  /\ UNCHANGED <<run, exit, taskVars, ok, transcriptVars, flushed, outputVars, stored>>

\* _ensure_sdk_and_env and _build_transcript
Setup ==
  /\ pc = "setup"
  /\ pc' = "load" /\ flushed' = "no"
  /\ UNCHANGED <<run, progressVars, taskVars, ok, transcriptVars, outputVars, stored>>

SetupFails(how) ==
  /\ pc = "setup"
  /\ Unwind(how)
  /\ UNCHANGED <<run, server, exit, taskVars, ok, transcriptVars, flushed, outputVars, stored>>

Load ==
  /\ pc = "load"
  /\ pc' = "next" /\ batch' \in Batches
  /\ UNCHANGED <<run, progressVars, results, ok, transcriptVars, flushed, outputVars, stored>>

LoadFails(how) ==
  /\ pc = "load"
  /\ Unwind(how)
  /\ UNCHANGED <<run, server, exit, taskVars, ok, transcriptVars, flushed, outputVars, stored>>

-----------------------------------------------------------------------------
(* _run_one_task *)

Remaining == Len(results) < Len(batch)
Task == batch[Len(results) + 1]

BeginTask ==
  /\ pc = "next" /\ Remaining
  /\ pc' = "query" /\ sid' = NoSession /\ seq' = 0
  /\ UNCHANGED <<run, progressVars, taskVars, ok, sessions, runs, heard, flushed, outputVars, stored>>

\* build_options or begin_task cannot write its file, and nothing catches it.
BeginFails ==
  /\ pc = "next" /\ Remaining
  /\ Unwind("crash")
  /\ sid' = NoSession /\ seq' = 0
  /\ UNCHANGED <<run, server, exit, taskVars, ok, sessions, runs, heard, flushed, outputVars, stored>>

\* _message_to_row: the session a message belongs to as far as is known.
Known(named) == IF sid # NoSession \/ ~named THEN sid ELSE run
WithSession(r, session) == [r EXCEPT !.session = session]
\* A task id that a secret was taken out of is not seen to be the current one.
Clear(task) == Scrub[task] = task
Found(r) == r.task = Task /\ Clear(Task) /\ r.session = NoSession
Backfilled == [r \in sessions |-> IF Found(r) THEN run ELSE r.session]

\* Mutant of Named: the rows already buffered keep the session they have.
NamedLate(named) == sessions

\* The rows found that came before the session was known get it now, as it is.
Named(named) ==
  IF sid = NoSession /\ named
    THEN {WithSession(r, Backfilled[r]) : r \in sessions}
    ELSE sessions

\* The row of the message itself: its session, if any, with secrets taken out.
NewRow(session) ==
  [task |-> Task, session |-> session, seq |-> seq, run |-> run,
   masked |-> session # NoSession /\ <<Task, run>> \in Masked]

\* on_message
Message(named) ==
  /\ pc = "query" /\ seq < MaxMessages
  /\ sid' = Known(named)
  /\ sessions' = Named(named) \cup {NewRow(Known(named))}
  /\ seq' = seq + 1
  /\ heard' = [heard EXCEPT ![Task] = @ + 1]
  /\ UNCHANGED <<run, pc, progressVars, taskVars, ok, runs, flushed, outputVars, stored>>

\* Mutant of MessageLost: the failed write is passed over and the query goes on.
MessageSkipped(named) ==
  /\ pc = "query" /\ seq < MaxMessages /\ heard[Task] < MaxMessages
  /\ sid' = Known(named)
  /\ sessions' = Named(named)
  /\ heard' = [heard EXCEPT ![Task] = @ + 1]
  /\ UNCHANGED <<run, pc, seq, ok, progressVars, taskVars, runs, flushed, outputVars, stored>>

\* The JSONL file cannot be written: run_task makes a UserException of it, and
\* _run_one_task a failed result.
MessageLost(named) ==
  /\ pc = "query" /\ seq < MaxMessages
  /\ sid' = Known(named)
  /\ sessions' = Named(named)
  /\ heard' = [heard EXCEPT ![Task] = @ + 1]
  /\ pc' = "end" /\ ok' = FALSE
  /\ UNCHANGED <<run, seq, progressVars, taskVars, runs, flushed, outputVars, stored>>

\* The query ends; a result message, which names the session, may be a success.
QueryEnds ==
  /\ pc = "query"
  /\ pc' = "end"
  /\ ok' \in IF sid = NoSession THEN {FALSE} ELSE BOOLEAN
  /\ UNCHANGED <<run, progressVars, taskVars, transcriptVars, flushed, outputVars, stored>>

\* Mutant of QueryRaises: the UserException leaves _run_one_task.
QueryRaisesOut ==
  /\ pc = "query"
  /\ Unwind("user")
  /\ UNCHANGED <<run, server, exit, taskVars, ok, transcriptVars, flushed, outputVars, stored>>

\* A cap, an authentication or a process error, mapped and caught.
QueryRaises ==
  /\ pc = "query"
  /\ pc' = "end" /\ ok' = FALSE
  /\ UNCHANGED <<run, progressVars, taskVars, transcriptVars, flushed, outputVars, stored>>

\* The SDK cannot be imported or the event loop cannot be made.
QueryEscapes ==
  /\ pc = "query" /\ seq = 0
  /\ Unwind("crash")
  /\ UNCHANGED <<run, server, exit, taskVars, ok, transcriptVars, flushed, outputVars, stored>>

\* end_task and results.append
EndTask ==
  /\ pc = "end"
  /\ pc' = "next"
  /\ runs' = runs \cup {[task |-> Task, session |-> sid, ok |-> ok, run |-> run]}
  /\ results' = Append(results, ok)
  /\ UNCHANGED <<run, progressVars, batch, ok, sid, seq, sessions, heard, flushed, outputVars, stored>>

\* Closing the JSONL file writes what is buffered, and that fails, or the
\* transcript the SDK kept cannot be decoded.
EndFails ==
  /\ pc = "end"
  /\ Unwind("crash")
  /\ UNCHANGED <<run, server, exit, taskVars, ok, transcriptVars, flushed, outputVars, stored>>

-----------------------------------------------------------------------------
(* promote, the finally clause and _report_outcome *)

\* Mutant of StartPromote: nothing is promoted unless every task succeeded.
StartPromoteIfAllOk ==
  /\ pc = "next" /\ ~Remaining
  /\ left' \in Leavings
  /\ pending' = IF FALSE \in Range(results) THEN {} ELSE DOMAIN left'
  /\ pc' = "promote"
  /\ UNCHANGED <<run, progressVars, taskVars, ok, transcriptVars, flushed, out, stored>>

\* promote lists the directory.
StartPromote ==
  /\ pc = "next" /\ ~Remaining
  /\ left' \in Leavings
  /\ pending' = DOMAIN left'
  /\ pc' = "promote"
  /\ UNCHANGED <<run, progressVars, taskVars, ok, transcriptVars, flushed, out, stored>>

\* The listing is sorted: f is the file promote comes to next.
IsNext(f) ==
  /\ f \in pending
  /\ \E i \in DOMAIN Order : Order[i] = f /\ \A j \in 1..i - 1 : Order[j] \notin pending

\* _promote_one: a file without a header row, or one that cannot be opened, is
\* skipped with a warning.
PromoteOne(f) ==
  /\ pc = "promote" /\ IsNext(f)
  /\ left[f] # "unkeyed"
  /\ out' = IF left[f] = "good" THEN [out EXCEPT ![f] = "agent"] ELSE out
  /\ pending' = pending \ {f}
  /\ UNCHANGED <<run, pc, progressVars, taskVars, ok, transcriptVars, flushed, left, stored>>

\* Incremental without a primary key: UserException.  Else the header cannot be
\* decoded or the copy fails.
PromoteFails(f) ==
  /\ pc = "promote" /\ IsNext(f)
  /\ left[f] \in {"good", "unkeyed"}
  /\ Unwind(IF left[f] = "unkeyed" THEN "user" ELSE "crash")
  /\ UNCHANGED <<run, server, exit, taskVars, ok, transcriptVars, flushed, outputVars, stored>>

Promoted ==
  /\ pc = "promote" /\ pending = {}
  /\ Unwind("none")
  /\ UNCHANGED <<run, server, exit, taskVars, ok, transcriptVars, flushed, outputVars, stored>>

FlushFiles ==
  /\ pc = "files"
  /\ pc' = "sessions"
  /\ UNCHANGED <<run, progressVars, taskVars, ok, transcriptVars, flushed, outputVars, stored>>

FlushSessions ==
  /\ pc = "sessions"
  /\ pc' = "runs"
  /\ out' = [out EXCEPT !["claude_sessions"] = "transcript"]
  /\ UNCHANGED <<run, progressVars, taskVars, ok, transcriptVars, flushed, left, pending, stored>>

FlushRuns ==
  /\ pc = "runs"
  /\ pc' = "stop"
  /\ out' = [out EXCEPT !["claude_runs"] = "transcript"]
  /\ flushed' = "yes"
  /\ UNCHANGED <<run, progressVars, taskVars, ok, transcriptVars, left, pending, stored>>

\* flush raises: its exception replaces the one under way and leaves the
\* finally clause before server.stop.
FlushFails ==
  /\ pc \in {"files", "sessions", "runs"}
  /\ flushed' = "failed"
  /\ raised' = "crash" /\ pc' = "exited" /\ exit' = ExitCode("crash")
  /\ UNCHANGED <<run, server, taskVars, ok, transcriptVars, outputVars, stored>>

\* Mutant of Leave: the exception is logged and the process has no exit code.
LeaveUncoded ==
  IF raised = "none" THEN pc' = "report" /\ UNCHANGED exit
  ELSE pc' = "exited" /\ UNCHANGED exit

\* After the finally clause: on to _report_outcome, or out through _boot.
Leave ==
  IF raised = "none" THEN pc' = "report" /\ UNCHANGED exit
  ELSE pc' = "exited" /\ exit' = ExitCode(raised)

\* Mutant of Stop: a server that was not started has no thread to wait for and
\* is waited for.
StopWaiting ==
  /\ pc = "stop" /\ server = "up"
  /\ server' = "stopped"
  /\ Leave
  /\ UNCHANGED <<run, raised, taskVars, ok, transcriptVars, flushed, outputVars, stored>>

\* Mutant of Stop: the server is stopped only when nothing was raised.
StopOnSuccess ==
  /\ pc = "stop" /\ server # "bound"
  /\ server' = IF server = "up" /\ raised = "none" THEN "stopped" ELSE server
  /\ Leave
  /\ UNCHANGED <<run, raised, taskVars, ok, transcriptVars, flushed, outputVars, stored>>

\* server.stop: nothing to do for a server that was not started; on one that
\* is bound and does not serve, shutdown waits for ever.
Stop ==
  /\ pc = "stop" /\ server # "bound"
  /\ server' = IF server = "up" THEN "stopped" ELSE server
  /\ Leave
  /\ UNCHANGED <<run, raised, taskVars, ok, transcriptVars, flushed, outputVars, stored>>

\* Mutant of Report: one success is enough.
ReportAny ==
  /\ pc = "report"
  /\ pc' = "exited" /\ exit' = IF TRUE \in Range(results) THEN 0 ELSE 1
  /\ UNCHANGED <<run, raised, server, taskVars, ok, transcriptVars, flushed, outputVars, stored>>

\* _report_outcome: any failed task is a UserException.
Report ==
  /\ pc = "report"
  /\ pc' = "exited" /\ exit' = IF FALSE \in Range(results) THEN 1 ELSE 0
  /\ UNCHANGED <<run, raised, server, taskVars, ok, transcriptVars, flushed, outputVars, stored>>

-----------------------------------------------------------------------------
(* The platform: claude_sessions is write_always, so it is imported whatever *)
(* the exit code, and incremental, so a row replaces the one with its key,   *)
(* and of the rows of a job that have one key one is kept.                   *)

\* The session id as it is written: ids of two queries differ, with or without
\* what is taken out.
IdText(task, session, masked) ==
  IF session = NoSession THEN <<>> ELSE <<task, session, masked>>
SessionText(r) == IdText(r.task, r.session, r.masked)
RunText(u) == IdText(u.task, u.session, FALSE)

SessionKey(r) == <<Scrub[r.task], SessionText(r), r.seq>>
OnePerKey ==
  {kept \in SUBSET sessions :
     /\ \A r \in sessions : \E k \in kept : SessionKey(k) = SessionKey(r)
     /\ \A k, l \in kept : SessionKey(k) = SessionKey(l) => k = l}
Merged(kept) == {r \in stored : \A k \in kept : SessionKey(k) # SessionKey(r)} \cup kept

Collect ==
  /\ pc = "exited"
  /\ pc' = "done"
  /\ stored' \in IF out["claude_sessions"] = "transcript"
                    THEN {Merged(kept) : kept \in OnePerKey} ELSE {stored}
  /\ UNCHANGED <<run, progressVars, taskVars, ok, transcriptVars, flushed, outputVars>>

\* A new job: a new container, and Storage as it is.
NewRun ==
  /\ pc = "done" /\ run < MaxRuns
  /\ run' = run + 1
  /\ pc' = "start" /\ server' = "none" /\ raised' = "none" /\ exit' = Running
  /\ batch' = <<>> /\ results' = <<>> /\ ok' = FALSE
  /\ sid' = NoSession /\ seq' = 0 /\ sessions' = {} /\ runs' = {}
  /\ heard' = [t \in AllTasks |-> 0]
  /\ flushed' = "unbuilt"
  /\ left' = NoFiles /\ pending' = {} /\ out' = NoTables
  /\ UNCHANGED stored

-----------------------------------------------------------------------------

Begin ==
  \/ Accepted \/ StartServer \/ StartFails \/ Setup \/ Load
  \/ \E how \in Exceptions : Rejected(how) \/ SetupFails(how) \/ LoadFails(how)

RunTask ==
  \/ BeginTask \/ BeginFails
  \/ \E named \in BOOLEAN : Message(named) \/ MessageLost(named)
  \/ QueryEnds \/ QueryRaises \/ QueryEscapes
  \/ EndTask \/ EndFails

Finish ==
  \/ StartPromote \/ Promoted
  \/ \E f \in Range(Order) : PromoteOne(f) \/ PromoteFails(f)
  \/ FlushFiles \/ FlushSessions \/ FlushRuns \/ FlushFails
  \/ Stop \/ Report

Work == Begin \/ RunTask \/ Finish \/ Collect
Next == Work \/ NewRun

Spec == Init /\ [][Next]_vars

\* The process keeps running and every query ends: the SDK, the CLI's own caps
\* and the bound on messages stand for that.
FairSpec == Spec /\ WF_vars(Work)

-----------------------------------------------------------------------------
(* Properties *)

Exited == pc \in {"exited", "done"}
Answered == batch # <<>> /\ Len(results) = Len(batch)
Usable == {f \in DOMAIN left : left[f] = "good"}

\* Exit 0 is said only of a job that did everything: every task of the batch
\* succeeded and has its claude_runs row, and every table the job promises is
\* in out/tables (_report_outcome, _run_with_broker).
ExitHonest ==
  exit = 0 =>
    /\ Answered /\ FALSE \notin Range(results)
    /\ \A i \in DOMAIN batch : \E r \in runs : r.task = batch[i] /\ r.ok
    /\ \A f \in Usable \cup TranscriptTables : out[f] # "none"

\* From the moment the transcript writer exists, the two transcript tables are
\* the transcript's when the process ends, whatever was raised and whatever an
\* agent called its own files, unless writing them is what failed (run's
\* durability guarantee).
TranscriptDelivered ==
  Exited /\ flushed \notin {"unbuilt", "failed"} =>
    \A t \in TranscriptTables : out[t] = "transcript"

\* No server outlives a job whose transcript could be written: the finally
\* clause reaches stop whatever was raised before it (Finding 5).
TornDown == Exited /\ flushed # "failed" => server # "up"

\* The promise of the docstring, without that exception.
ServerTornDown == Exited => server # "up"

\* The rows of one task in one job have sequence numbers of their own, and when
\* neither its id nor the session's has a secret value in it, they all show one
\* session, from the first message to the claude_runs row, even when it became
\* known in the middle (Finding 6).  With a secret in the task id the back-fill
\* finds no row of the task, and with one in the session id it writes the id
\* that the rows after it have lost (on_message).
Legible(r) == Clear(r.task) /\ <<r.task, r.run>> \notin Masked
RowsKeyed ==
  \A r, s \in sessions :
    r.task = s.task =>
      /\ r # s => r.seq # s.seq
      /\ Legible(r) /\ Legible(s) =>
           /\ SessionText(r) = SessionText(s)
           /\ \A u \in runs : u.task = r.task => RunText(u) = SessionText(r)

Numbers(task) == {r.seq : r \in {s \in sessions : s.task = task}}

\* A task reported as a success has every message its agent sent in
\* claude_sessions, numbered without a gap, whatever id the rows show.
RecordedInFull == \A u \in runs : u.ok => Numbers(u.task) = 0..heard[u.task] - 1

\* A failed task never stops the batch: a job that ends with tasks it did not
\* get to is one that crashed (the docstring of _run_one_task).
CutShortIsCrash ==
  Exited /\ batch # <<>> /\ Len(results) < Len(batch) => exit = 2

\* When every task was run and promote raised nothing, each usable file of the
\* agents is a table, whether or not all tasks succeeded, unless it has the
\* name of a transcript table.
OutputsPromoted ==
  Exited /\ raised = "none" =>
    /\ Answered
    /\ \A f \in Usable \ TranscriptTables : out[f] = "agent"

\* What Storage holds of a task that named its session stays there in later
\* jobs that run the same task again: no row of it is replaced by theirs.  Left
\* out: a task id with a secret value in it, whose first rows stay without a
\* session (SESSIONS_SCHEMA, on_message).
RowsOfNamed(rows) == {r \in rows : r.session # NoSession}
Messages(rows) == {<<r.run, r.task, r.seq>> : r \in rows}
OfNamedTasks(rows) ==
  {r \in rows : Clear(r.task) /\ \E s \in RowsOfNamed(rows) : s.run = r.run /\ s.task = r.task}
HistoryKept ==
  [][Messages(OfNamedTasks(stored)) \subseteq Messages(stored')]_vars

\* Every job ends, except that the teardown of a server whose thread could not
\* be started waits for it (AdvocateServer.stop).
Stuck == pc = "stop" /\ server = "bound"
JobEnds == (pc # "done") ~> (pc = "done" \/ Stuck)
=============================================================================
