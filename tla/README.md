# Formal models of the Claude SDK component

TLA+ models of the component in `src/`, TLC configurations that check them on
small instances, and theorems about them proved with TLAPS. Source paths below
are relative to the component's `src/src/` directory.

The component runs a batch of Claude Agent SDK tasks. An *Advocate* HTTP server
on loopback stands between the agent and the outside: it holds the secrets,
judges every request against a signed *Intent Contract*, and makes the upstream
call. Around it, the job loads the tasks, runs one SDK query for each, records a
transcript, promotes the agents' output files to tables, and ends with an exit
code from which the platform decides what to import.

## Parts of the system

| Part | Source | State | Operations | What makes it correct |
|---|---|---|---|---|
| MCP stdio broker | `advocate/brokers/mcp_broker.py` | `_procs`, `_proc_locks`, pipes, processes | lookup, launch, write, bounded read, evict, `shutdown_all` | an answer belongs to its request; calls return; no process is lost |
| Advocate HTTP server | `advocate/server.py` | one handler thread, the listening socket, the contract envelope | start, `do_POST` with three handlers, streaming, stop | one well-formed answer per request; nobody waits for ever; stop ends and nothing runs after it |
| Idempotency cache | `advocate/idempotency.py` | `_cache` | `get`, `store` | a remembered success is not executed again; only successes are remembered |
| Anthropic proxy | `advocate/anthropic_proxy.py` | none of its own | structured, pass-through and streaming calls | failures are reported as failures, streams end honestly |
| GitHub broker | `advocate/brokers/github_broker.py` | none of its own | `validate`, `_path_allowed`, the call | its allowlist agrees with the gate |
| Intent Contract | `advocate/contract.py` | the signed envelope | derive, sign, verify | grants what the configuration declares, no more and no less |
| Gate | `advocate/gate.py` | none | `check_action` | admits only what the contract covers, however it is spelt |
| Job orchestration | `component.py` | tasks, results, the exception under way; environment, pipe and memory guard of the process | `_perform_env_scrub`, `_boot`, `run`, `_run_with_broker`, `_run_one_task`, `_report_outcome` | the exit code is honest; teardown and transcript on every path; token and secrets are where they may be |
| Transcript writer | `transcript_writer.py` | session id, sequence number, two row buffers | `begin_task`, `on_message`, `end_task`, `flush` | every message of a task is recorded under one key; history is kept across jobs |
| Claude runner | `claude_runner.py` | the running query | `run_task`, `build_options` | every outcome becomes a result or a `UserException` |
| Output writer | `output_writer.py` | the output directory | `promote` | every usable file becomes a table |
| Task source | `tasks.py` | the rows read, the ids seen | `load` | the batch is the selection, once each, in order |
| Configuration | `configuration.py` | none | validators, `effective_budget` | rejects what the rest cannot serve; no task exceeds the ceiling |
| Plugin manager | `plugin_manager.py` | the CLI's marketplaces and plugins, what was resolved | `prepare` | each entry is served from its own repository, or an error |
| SDK version manager | `sdk_version_manager.py` | the overlay directory, `sys.path` | `ensure` | the version recorded is the one that runs |
| Seccomp sandbox | `advocate/sandbox.py` | none | filter construction | not modelled |
| Sync actions | `sync_actions.py` | none | `testConnection` | not modelled |

### How they interact

The process first re-executes itself to take the Storage token out of its
environment, guards its memory, parses the configuration and scrubs it from
disk. The main thread then derives and signs the contract from the configuration, starts
the server's thread, chooses the SDK, installs the plugins with the SDK's CLI,
loads the batch and runs the tasks. For each task the SDK's asyncio loop
calls `TranscriptWriter.on_message` for every message; the agent, in a process
of its own, calls the loopback server for model calls, GitHub and MCP. The
server's one thread takes one connection at a time (`HTTPServer` has no
`ThreadingMixIn`): body, field checks, gate, cache, upstream call or MCP
subprocess, answer. In a `finally` clause the main thread then flushes the
transcript and stops the server, which waits for the handler and terminates the
MCP processes. Afterwards the platform imports the two transcript tables
whatever the exit code, and incrementally, so later jobs merge into them.

### What is hard here

* A pipe shared by successive calls: a late or partial answer, an unasked line,
  a process that dies between `poll` and `write`, a relaunch.
* One thread for everything: whatever blocks it blocks every request and `stop`.
* Lost answers and retries: the upstream may have acted when the caller is told
  that it failed, and may act later still.
* Streams: once the headers are out there is no other status to send.
* Cleanup under exceptions: which exception wins, which steps of `finally` are
  reached, which tables exist at which exit code.
* Keys that become known late: the session id arrives in the middle of a task.
* A process replaced half-way: what survives `execve` and what it resets.
* State of others that must be asked for: the version Python has imported, the
  name under which the CLI registered a marketplace.
* The same decision coded in several places: three path matchers, two sources of
  a destination's name.

`PROJECT.json` lists each hazard at its line with the properties that cover it,
or says why none does.

## Modules

| Module | Models | Composed with |
|---|---|---|
| `RpcService` | abstract: a caching request/answer service | implemented by `McpStdio` |
| `McpStdio` | the stdio broker and its subprocesses | `INSTANCE RpcService` as `Rpc` |
| `McpStdioProofs` | theorems about `McpStdio` | |
| `Gateway` | abstract: one admitted call at a time, successes told only when carried out | implemented by `AdvocateServer` |
| `GatewayProofs` | what follows from `Gateway` | |
| `AdvocateServer` | server thread, brokers' cached calls, clients, upstream, main thread | `INSTANCE Gateway` as `Promise` |
| `AdvocateServerProofs` | theorems about `AdvocateServer` | |
| `AdvocateServerRefines` | the proof that `AdvocateServer` implements `Gateway`, and what that gives | `INSTANCE GatewayProofs` as `Facts` |
| `Contract` | derivation, signature, classification, gate, allowlist | |
| `ContractProofs` | theorems about `Contract` | |
| `Job` | one job after the other, with the platform's import | implemented, up to the first task, by `Startup` |
| `JobProofs` | theorems about `Job` | |
| `Boot` | the re-exec, `_boot`, and `run` up to the scrubbed config.json | in `Startup` |
| `SdkVersion` | `SdkVersionManager.ensure` and the import system | in `Startup` |
| `PluginManager` | `PluginManager.prepare` and the claude CLI | in `Startup` |
| `TaskSource` | `TaskSource.load`, the id filter, the budget ceiling | in `Startup` |
| `Startup` | the four in the order of the code, with the server's start | `INSTANCE Boot`, `SdkVersion`, `PluginManager`, `TaskSource`; `INSTANCE Job` as `J` |
| `StartupProofs` | theorems about `Startup` | |
| `MCStdio`, `MCServer`, `MCContract`, `MCJob`, `MCStartup` | the instances TLC checks | |

Operators named `Mutant of ...` in a comment are deliberate faults: each is a
variant of the definition it names that some property below must reject. They
are not part of any specification.

### McpStdio and RpcService

State: `phase` is the program counter of `handle_request`/`_call_stdio`; `req`,
`cur` and `buf` are its locals; `procs` is `_procs`; `alive`, `signalled`, `inp`,
`work`, `out` are each subprocess with its two pipes. Every broker action is one
system call: `poll` (`Reuse` or `Launch`), `write`+`flush` (`Write`, and
`WriteReturns` when the line exceeds the pipe), `os.read` of any prefix of what
is in the pipe (`ReadMore`, `ReadAnswer`, `ReadGarbage`, `ReadEof`), the deadline
(`GiveUp`), `_evict_proc` (`Evict`). Between any two, a server may read, answer
in one or two pieces, log, or exit in the middle of a line.

`RpcService` is what `advocate/idempotency.py` and the three `handle_request`
state together: a request is answered by an answer to *it* or refused, a first
success is remembered, a remembered request is not asked again. The refinement
maps the cache to `memo` and the current request to `asked`.

Left out: the JSON-RPC id (the broker neither keeps nor compares it), the
wording of errors, `_proc_locks` (with one thread never contended).

### AdvocateServer and Gateway

State: `main`, `loop` and `stopping` are `start`/`stop` and `serve_forever`;
`backlog` and `cur` the connections; `step` the handler's place; `wire` what was
written to a connection; `cache` the remembered requests; `effects`, `failures`
and `late` count what the upstream carried out, what the handler was told
failed, and what may still be carried out after that. A request is one of the
classes the handler distinguishes (unrouted, malformed, unparsable, invalid,
unchecked, denied, plain, cached, streamed). A write to a client that has gone
raises and leaves nothing on the wire. `stop` is three steps: `shutdown` (a flag,
and wait), `server_close`, then `join` and `shutdown_all`.

Two classes are never answered, since what the handler raises on them is caught
by nobody and `socketserver` closes the connection. `Unparsable`: `json.loads`
raises something other than `JSONDecodeError` (bytes that are no UTF-8, nesting
too deep, an integer of too many digits; `server.py:265`), or `urlparse` raises on
the path (`ParseRaises`). `Unchecked`: a structured model call past the gate has a
role that is a list or an object, and `_validate` looks it up in a set
(`server.py:188`, `CheckRaises`). `AnsweredInFull` and `RequestsServed` except
exactly these (`Unanswerable`), although the docstrings of `_validate`
(`server.py:160`) and `_read_json_body` (`server.py:241-242`) speak of an error
result on failure.

A client may stall for good on either side of a request. `sent` says that it sent
what it announced, `reads` that it takes in what it is sent. Neither `rfile.read`
nor `wfile.write` has a timeout: in the state `Held` the connection in hand waits
for its client, and the handler with it. A write to a client that does not read
may also be taken by the socket's buffer, so it is a step that may be taken and
need not be.

`Gateway` is the same system without thread, backlog, bodies and framing: a
connection is refused, answered from memory, or asked for upstream if the
contract admits its request; the upstream carries the call out once, or, after a
failure, late; the client is then told, unless it has gone. A request leaves the
gate only as an `Ask`, and nothing is told after `Close`. The refinement maps
the wire of a connection to what its client can tell from it (`Told`), the cache
to `memo`, the connection in hand to `asked` while its call or stream is under
way, `effects` and `late` to `executed` and `owed`, and a `main` past
`server_close` to `closed`. `Gateway` refuses whom it likes: which requests are
refused, and with which status, is `Contract`'s and the server's own affair.

### Contract

`Derive`, `Capability`, `RepoOf`, `WriteBranch`, `DestMatches`, `CheckAction` and
`PathAllowed` are the functions of `contract.py`, `server.py`, `gate.py` and
`github_broker.py` over paths as sequences of segments; a trailing slash is a
last segment `Empty`. Segments are members of a constant `Text` that holds at
least the keywords the code looks for. The state machine serves requests one by
one against a contract that, after signing, may be altered. HMAC-SHA256 over
canonical JSON is taken to be injective. Letter case is left out, and so are the
character checks of `validate`: no path has a dotted segment, nor an empty one
other than the last.

`WritesStayOnBranches` is stated over the branch a write moves at GitHub, which
the three documented shapes of branch write determine (`UpdatesRef`,
`CreatesRef`, `Commits`), and not over what `_github_write_branch` returns: that
function looks at the path first, then at `ref`, then at `branch`, whatever the
endpoint. For a commit the two agree if the commit names its branch in the
`branch` field alone (`BranchFieldOnly`); TLC shows that the condition is needed.
One such case needs neither a second field nor an odd path: a `ref` that is
`refs/heads/` and nothing more (`heads` with an empty `ref` in a request) names no
branch and ends the search for one (`server.py:82-84`), so no branch is checked and
the commit goes where its `branch` field says, or to the default branch. That the
documents promise more is `CommitsStayOnBranches`, which `contract_branch` refutes.
For the same reason `DeclaredIsUsable` speaks of comments that name no branch: a
comment below a segment `contents` is judged like a commit.

`AdmittedStaysInScope` states the scope as the classifier draws it: branch
protection is a path that ends in `/protection` (`server.py:111`), a settings change
is a PATCH of the repository itself. What lies below `.../protection` (its required
status checks, for one) and settings endpoints such as `/transfer`,
`/collaborators` and `/rulesets` are `gh.write_branch` when written with another
method than DELETE, and are admitted. That is narrower than the comment on
`CAP_GH_ADMIN` (`contract.py:73-76`), which names the branch-protection endpoints
and says that a write_branch-capable agent cannot disable branch protection.

### Job

State: `pc`, `raised` and `exit` are the control flow through `try`/`finally`/
`_boot`; `server`, `batch`, `results` the job's; `sid`, `seq`, `sessions`, `runs`
the transcript writer's; `left`, `pending`, `out` the output directory and
`out/tables` (a table counts when it has its manifest); `stored` is the rows of
`claude_sessions` in Storage. An
exception is `"user"` (exit 1) or `"crash"` (exit 2), and may occur at every call
that can raise one. `heard` counts the messages a query yielded, for the
properties only. A job that ended is followed by another on the same Storage.
Each query has a fresh SDK session, so a session is written as the job's number.

Every column of a row is scrubbed of secret values, `task_id` and `session_id`
included (`transcript_writer.py:151`), and the values are all `env` and `headers`
values of the configured MCP servers, besides the key and the token
(`component.py:559-565`), so one may well be part of an id. The back-fill
(`transcript_writer.py:145-148`) looks for the task id as it is, so it finds no row of a
task whose id has a secret in it, and it writes the session id as it is, which the
rows after it have not. `claude_runs` has both ids as they are. The model says so:
`Scrub` gives what is left of each task id, `Masked` the queries whose session id
has a secret in it. A row carries the task and session it is of, and `Clear`,
`Found`, `NewRow`, `SessionText` and `SessionKey` are what the code compares and
writes. Two sessions stay different with or without what is taken out (they are
UUIDs), and a scrubbed task id is no other task's (`ScrubAssumption`). Rows of a job
with one key are imported as one, whichever it is (`OnePerKey`). `RowsKeyed` and
`HistoryKept` name these ids as their exception; the platform's import of
`claude_runs` is not modelled.
`stop` is one step here; its inside is `AdvocateServer`. That the two transcript
tables are imported at any exit code is what `transcript_writer.py` says of
`write_always`. What happens before the first task is one step per phase here,
which may raise; its inside is `Startup`.

### Boot, SdkVersion, PluginManager, TaskSource and Startup

One job from `__main__` to its first task. The four modules share `pc`, `raised`
and `exit` with each other and, through a mapping, with `Job`; `Startup` puts
them in the order of `run`, `_run_with_broker` and `_ensure_sdk_and_env`.

* `Boot`: `environ` is `KBC_TOKEN` in `os.environ`, `procenv` in the environment
  of the last `execve` (what /proc/self/environ shows), `pipe` what fd 3 holds,
  `captured` the base class's copy, `dumpable` the kernel's flag, `disk`
  config.json. A token is the number of 4096-byte reads it fills; none and empty
  are different. A host is what `prctl` does (works, is refused, is ignored),
  its ptrace_scope and the override. When config.json is scrubbed it may have gone
  (`NothingOnDisk`: no warning, the job goes on), be no JSON any more
  (`ScrubRaises`: nothing catches it) or fail with another `OSError` (`ScrubFails`). `EntryFails` is outside `_boot`, where the
  interpreter itself exits with 1. A token is taken to fit in the pipe.
* `SdkVersion`: `overlay` is what pip left in the directory, `onPath` whether it
  is first in `sys.path`, `imported` the version in `sys.modules`. A module is
  imported once, so an import before `Install` would fix the version. The first
  import is `_baked_version`'s or, if `ensure` did not import, that of
  `_resolve_claude_cli` (`Import`), unless `_overlay_version` could not read the
  metadata.
* `PluginManager`: one step per CLI command and entry. `registered` and
  `installed` are the CLI's. The CLI is external and free: on `marketplace add`
  of a name it has, it may keep the old repository or take the new one; its list
  may name a repository in a form that is not recognised, list a marketplace
  without the place it is installed at, or be of no use; every
  command may fail or be timed out, except that the list's exit code is ignored.
  `Declared` gives the name each repository declares, `Guess` the last segment
  of its source, and they may collide.
* `TaskSource`: the choice of the input table, the rows one by one, the id
  filter, the one task of the configuration. A budget is a number, none, NaN or
  unreadable. `EffectiveBudget` is `min` as Python has it, for which a
  comparison with NaN is false.

`Startup` maps to `Job`: all places of `Boot` are its `start`, those of
`SdkVersion` and `PluginManager` its `setup`, those of `TaskSource` its `load`;
the batch of `Job` is the ids that `load` returned. An exit code of 1 counts as
`Job`'s `"user"`, whether `_boot` or the interpreter gave it.

## What TLC checks

| Run | Instance | Shows |
|---|---|---|
| `stdio_strict` | 2 servers and an unknown name, 3 handles, 2 contents, one larger than the pipe | answers match, kept processes owe nothing; `RpcService` is implemented |
| `stdio_noisy` | 1 server that also notifies and logs, one unasked line pending at most | processes are accounted for, calls return |
| `stdio_notice` | the same with notifications | **violated**: a notification is returned as the answer (Finding 1) |
| `stdio_hung` | a server that stops reading | **violated**: the write has no deadline (Finding 2) |
| `server` | 2 connections, every class of request, a retry of any, a stream of up to 2 chunks | effects accounted for, one response, honest streams, quiet after stop; answered in full, everybody served, stop returns; `Gateway` is implemented |
| `server_retry` | 2 connections, one write | **violated**: a retry repeats a write whose answer was lost (Finding 3) |
| `contract` | 18 valid configurations, every request shape with every pair of `ref` and `branch`, two alterations | admitted is in scope, declared is usable, matchers agree |
| `contract_local` | the same | **violated**: no stdio server can be called (Finding 4) |
| `contract_branch` | the same | **violated**: a commit is admitted to a branch no pattern covers (Finding 5) |
| `job` | 2 jobs of 2 tasks, 2 messages each, a secret in the id of one task and in one session id, a failure possible everywhere | exit code, transcript, tables, teardown, history |
| `startup` | 6 hosts, tokens of 0 to 2 reads or none, 32 configurations with up to 2 plugin entries and 3 rows | token, secrets, SDK, plugins, batch and budget; `Job` is implemented |
| `job_flush` | 1 job | **violated**: a failing flush skips the teardown (Finding 6) |

### Bounds and why they are enough

* Stdio: three handles for two servers let one be relaunched while the evicted
  process still runs; two contents give a late answer to be taken for another's;
  one is larger than the pipe. A handle is reused only when its process has
  exited and nobody refers to it. `MaxLines` bounds unasked lines; one is enough
  to shift an answer. With the one server of `stdio_noisy`, that no process is shared
  between servers says nothing there; the theorem `NothingStray` has it for all.
* Server: two connections are the one being handled and one waiting, and the
  second may ask what the first asked, before or after its answer. Two chunks separate the
  first (sent with the headers), the others and the end. The counters grow only
  with connections, so they need no bound of their own.
* Contract: segments matter only through the comparisons in the code; the paths
  hold each keyword it looks for, at the place it looks and elsewhere (a file
  whose path reads like a ref, for one), for the configured repository, one whose
  name extends it, and none. Bodies name two branches, of which a pattern covers
  one, or none, in either field, and the `ref` field may end at `refs/heads/`.
* Job: two tasks to have one after a failure; two messages so that the session
  may become known with the first, the second or never; two jobs for a merge. One task's id has a secret in it and the
  other's has none, but a secret in its second session id: each exception is met
  beside a task that has to be in order.
* Startup: a token of two reads is the first that one read truncates. Two plugin
  entries let one be taken for the other: the four repositories have the same
  declared name, a last segment that is another's declared name, and no plugin.
  Three rows put the filter's choice at the front, in the middle and at the end;
  the configurations vary one phase at a time, since the phases share only
  control. Every phase meets every host and token.

Deadlock is not checked where the system may rightly stop: after `shutdown_all`,
after `stop`, and after the last job. `Contract` never stops and is checked.

### Fairness

* `McpStdio`: the handler thread keeps running (`WF` of `Handler`); a deadline is
  one of its steps, which is what `_STDIO_READ_TIMEOUT_S` provides. `FairSpec`
  assumes besides that every process reads its stdin (`WF` of `Reads`), which the
  code cannot enforce; it need not answer. `stdio_hung` shows what happens under
  `BrokerSpec`, without it.
* `AdvocateServer`: the two threads run, and an upstream call ends (each has a
  timeout). Nothing is assumed of a client: the server's thread is fair except in
  the state `Held`, and `RequestsServed` and `StopTerminates` name a handler held
  for good as their exception, since that is what the code allows.
* `Job`: the process keeps running and queries end.
* `Startup` states no fairness: pip and the CLI have timeouts, but nothing is
  claimed of when the first task begins.

## Findings

1. `mcp_broker.py:297` takes the first line on stdout for the response, so a
   notification becomes the answer, is remembered as such, and shifts the answers
   after it. The docstring of `_call_stdio` promises the response.
2. `mcp_broker.py:269`: the write to a server's stdin has no deadline, although
   the docstring and the comment on `_STDIO_READ_TIMEOUT_S` speak of a bounded
   call. It holds the one handler thread.
3. `github_broker.py:285`: a write whose answer is lost is not remembered, so a
   retry executes it again; the documents name just this case as the one
   idempotency covers. `EffectsAccounted` states what does hold.
4. `server.py:529`: a stdio server's destination is not in the contract, so all
   its calls are denied. `McpStdio` therefore describes the broker as its own
   tests drive it, behind a gate that admits.
5. `server.py:84`: a `ref` that ends at `refs/heads/` ends the search for the branch
   of a write without one, so a commit is not checked against the writable
   branches; and `ref`, or a path that reads like a ref, is taken before `branch`,
   which is what the contents API goes by. `configuration.py:253-254` says that the
   gate denies writes to any branch not matching. `WritesStayOnBranches` states
   what does hold.
6. `component.py:514`: when `flush` raises, `server.stop` is not reached.

Seen while modelling, and named as exceptions by the properties:

* A request at which the parser or the field check raises gets no response
  (`AnsweredInFull`, `RequestsServed`; above, with the docstrings that say
  otherwise).
* A client that stalls holds the one handler thread, and `stop` with it
  (`RequestsServed`, `StopTerminates`).
* When the server's thread cannot be started, `stop` waits for a loop that never
  ran (`JobEnds`).
* A secret value inside a task or session id leaves the rows of a task with two
  sessions or none (`RowsKeyed`, `HistoryKept`).
* Protection sub-endpoints and most settings endpoints are ordinary writes
  (`AdmittedStaysInScope`; above, with the comment that says otherwise).
* A row's budget may be `nan` (`float("nan")` is a number to `_parse_float`), and
  `min(nan, ceiling)` is `nan`. `BudgetCapped` names the case.
* `_row_to_task` accepts any `max_turns`, also one above the configuration's;
  only the budget has a ceiling.
* Two sections that carry the same field: `_flatten_sections` takes the one that
  the frozenset of section names gives first, which may differ between processes.
* `plugins_resolved` records the version that was asked for (`latest` or the
  ref), not what it resolved to.
* When discovery fails the marketplace's name is a guess. If another entry has
  registered that name, its plugins are installed instead; `PluginsServed`
  leaves out marketplaces that had to be guessed.

## What is proved

For every value of the constants that satisfies the named assumptions; TLC
evaluates those on every run.

### The stdio broker (`McpStdioProofs`)

| Theorem | Says | Assumes besides |
|---|---|---|
| `TypeCorrect` | `[]TypeOK`, and the fields of the current call fit its phase | |
| `NothingStray` | `[]NoStrayProcess`: whatever servers write, no process is lost or shared | |
| `AnswersMatched` | `[]AnswersMatch` | `Notices = {}`, `Chatter = {}` |
| `KeptOwesNothing` | `[]KeptProcessOwesNothing` | `Notices = {}`, `Chatter = {}` |
| `StdioImplementsRpc` | the broker implements `RpcService` | `Notices = {}`, `Chatter = {}` |

Assumptions on the constants: `ServersAssumption`, `ContentsAssumption`,
`LinesAssumption`, `HandlesAssumption`, `MaxLinesAssumption`. The condition on
`Notices` and `Chatter` says that a server writes one line per request and
nothing else; `stdio_notice` shows that it cannot be dropped.

`AnswersMatch` is not inductive: it says nothing of what is still in a pipe. The
inductive invariant gives each process one of two states. A process that
`_procs` holds and no call uses is *quiet*: nothing on its stdin, nothing in
work, nothing on its stdout. The process of the current call *owes* exactly the
current request: it is on stdin, or in work, or its answer is on stdout, whole or
as the rest of what `buf` has. Reading the answer makes the process quiet again;
every other end of a call evicts it, and what is evicted is never read. The
refinement then needs only that a success is the current request's content.

### The server (`AdvocateServerProofs`, `GatewayProofs`, `AdvocateServerRefines`)

| Theorem | Says |
|---|---|
| `TypeCorrect` | `[]TypeOK`, and loop, handler, backlog and wires agree on which connection is where |
| `QuietOnceClosed` | `[]QuietWhenClosed` |
| `LeftAnswered` | `AnsweredInFull`, an action property: but for `Unanswerable` requests |
| `EffectsBounded` | `[]EffectsAccounted` |
| `WellFormed` | what is on a wire is nothing, one status, or a stream that is open, ended or broken off |
| `RespondedOnce` | `[]OneResponse` |
| `StreamsHonest` | `[]HonestStream` |
| `ServerImplementsGateway` | `ImplementsGateway`: the server implements `Gateway` |
| `NothingUnmediated`, `SuccessesHonest` | of `Gateway`: nothing is carried out, now or late, that the contract does not admit; what is told or remembered as a success was carried out |
| `ServerMediates`, `ServerTellsTheTruth` | the same of the server |

Assumptions: `RequestsAssumption` (the classes are sets of requests, and one that
is malformed is not also unparsable, nor one that is invalid unchecked), `NoneAssumption`,
`MaxChunksAssumption`. The action property and the invariants rest on `Shape`
(`TypeOK`, `Flow`, `Queue`, `Unwritten`), `Effects` and `Wires`:

* `Queue` with `Unwritten`: a connection waits once, is not the one in hand, and
  nothing was written to it. Without it a second connection of the backlog could
  be the one already answered, and a status would follow an answer.
* `Effects`: `EffectsAccounted` counts one execution for the call in flight
  whether or not it happened. What is inductive counts it only once it happened
  (`done`), and adds that a remembered request is not in flight: that is the
  lookup before the call, and with one handler thread nothing can store the
  request in between.
* `Wires`: while the handler streams, the wire is open (`head`, then chunks) or
  the client is gone. The terminator is written by two steps only, one of which
  writes the error event with it.

The refinement rests on `Shape`, `Wires` and one more invariant: past the gate,
the request in hand is one the contract admits (`Judged`). Each step of the
server is then a step of `Gateway` or changes nothing of it, with `ToldFirst`
and `ToldNext` for what a frame adds to what a client was told; a broken stream
and a failed call are both its `Fail`. Mediation and the honesty of successes
are proved of the few actions of `Gateway`, from an invariant that says what is
asked was admitted and what was answered was asked, and hold of the server by
the refinement. Mediation is not said by any of the other theorems: between the
gate and the call lie the lookup, other connections and the main thread.

### The contract (`ContractProofs`)

| Theorem | Says |
|---|---|
| `ContractKept` | `[]Kept`: the signed contract is the derived one; a verdict is the decision under the contract as it is |
| `TypeCorrect` | `[]TypeOK` |
| `AdmitsUnderDerivedOnly` | `[]OnlyTheDerivedContract` |
| `AllowlistAgrees` | `[]GateAndAllowlistAgree` |
| `StaysInScope` | `[]AdmittedStaysInScope`: no other repository, no DELETE, merge, write to `.../protection` itself or PATCH of the repository |
| `StayOnBranches` | `[]WritesStayOnBranches`: ref updates, new refs, and commits that name their branch in the branch field alone |
| `SlashIrrelevant` | `[]SpellingIrrelevant` |
| `DeclaredAdmitted` | `[]DeclaredIsUsable` |

Assumptions: `Text` has the code's keywords (`TextAssumption`); configurations
and requests have the fields their validators let through (`ConfigsAssumption`,
`RequestsAssumption`), in particular no empty segment but the last; no MCP
capability is a GitHub one (`CapabilitiesAssumption`, their prefixes differ); a
change to a signed contract leaves its field names (`AlteredAssumption`). Nothing
is assumed of segments, patterns or bodies otherwise.

The state adds little here: `Kept` says that nothing comes between a decision and
its answer. The substance is in lemmas on the operators, each for all sequences:

* `TrimProperties`, `TrimAgain`, `TrimBehind`: trimming takes off one last empty
  segment, trimming twice changes nothing more, and it commutes with a host put
  in front. With `PrefixBehind` this is why the gate, which matches host and path,
  and the allowlist, which matches the path alone, agree (`DestinationIsRepo`;
  the other destinations of a contract are opaque and cannot match).
* `BelowElements`, `RefHeadsAt`, `MovesBranch`: below a repository the first place
  that reads like a ref is the fourth segment, if the request updates a ref, so
  the branch the gate is asked about is the one that moves.
* `Granted`, `GateAllows`, `DeclaredGitHub`: what is granted and when, and what a
  declared request looks like to each check.

### The job (`JobProofs`)

| Theorem | Says |
|---|---|
| `JobTypeCorrect` | `[]TypeOK` |
| `ServerIsTornDown` | `[]TornDown`: a server outlives its job only if flush raised |
| `TranscriptIsDelivered` | `[]TranscriptDelivered` |
| `OnlyACrashCutsShort` | `[]CutShortIsCrash` |
| `ExitIsHonest` | `[]ExitHonest` |
| `OutputsArePromoted` | `[]OutputsPromoted` |
| `RowsAreKeyed` | `[]RowsKeyed`: one session for all rows of a task, but for ids with a secret value in them |
| `SuccessIsRecordedInFull` | `[]RecordedInFull` |
| `HistoryIsKept` | `HistoryKept`, an action property, for task ids without a secret value in them |

Assumptions: the ids of a batch differ and it is not empty (`BatchesAssumption`,
which `TaskSource.load` ensures), the files agents leave are named in `Order`
(`OrderAssumption`, `LeavingsAssumption`), an id with a secret taken out is no other
task's (`ScrubAssumption`), and the bounds are numbers.

None of these is inductive by itself. They rest on four invariants, each proved
with one step per action:

* `Flow`: at each place of `_run_with_broker`, whether the server is up, whether
  the transcript was built and flushed, and which exception an unfinished batch
  implies. The properties speak of the end of the process only; `Flow` carries
  them from the place where the exception was raised through `finally`.
* `OutputFlow` with `ResultRows`: while `promote` runs, every usable file is
  already a table or still to be visited; every entry of `results` has its row.
* `Records`: tasks not begun have left no trace; the rows of the current task
  have the numbers `0..seq-1` and, if its id is seen as it is, the session known
  now. That the ids of a batch
  differ is used here: otherwise a task would find the rows of its namesake.
* `History`: rows carry the number of their job and its session or none, and in
  Storage the rows of one task in one job, its id seen as it is, have one session.
  A row of an earlier job whose task named its session therefore never has the key
  of a new row: the texts of two sessions differ, scrubbed or not.

### The start of a job (`StartupProofs`)

| Theorem | Says |
|---|---|
| `StartupTypeCorrect` | `[]TypeOK` |
| `StartupTokenInCustody` | `[]TokenInCustody` |
| `StartupSecretsGuarded` | `[]SecretsGuarded` |
| `StartupVersion` | `[]VersionIsTheOneImported` |
| `StartupPluginsServed` | `[]PluginsServed` |
| `StartupSelectionExact` | `[]SelectionExact` |
| `StartupBudgetCapped` | `[]BudgetCapped` |
| `StartupImplementsJob` | `ImplementsJob`: `Startup` implements `Job` up to the first task |

Assumptions: `ConstantsAssumption` (tokens and budgets are numbers, the special
values are distinct from them and from each other), `ConfigsAssumption` (the
types of a configuration's fields), `MaxRowsAssumption`.

Each property has its own invariant, since each phase leaves the state of the
others alone; only what a later phase reads is carried across.

* `BootInv` follows the token: until it is captured, what is read and what is
  left in the pipe together are what the platform gave, and `environ` is either
  that or gone. `GuardInv` says at which places memory and config.json are
  guarded or a warning was given.
* `SdkInv`: after `ensure`, importing gives the recorded version; an import
  before it cannot have happened.
* `PluginInv` carries, for every entry done, that its marketplace still belongs
  to its repository. A later `marketplace add` changes the owner of a name only
  to a repository that declares it; that no two entries declare one name is used
  here.
* `SourceInv`: what was read is a prefix of the table, in order and without
  duplicates; what was kept is the selection from a prefix of what was read.
* The refinement needs `FlushInv` (when the transcript exists) and `BatchInv`
  (the ids that `load` returns are distinct and at most `MaxRows`), which is
  what `Job` assumes of its batches.

## Only model-checked

Liveness (`CallsTerminate`, `RequestsServed`, `StopTerminates`, `JobEnds`): the
provers do not reason about fairness and `ENABLED`. Every other property of a
passing run is a theorem.

## Not modelled, and why

* The seccomp filter is a constant program for the kernel; `testConnection` is
  one HTTP call.
* `idempotency.clear` is for the tests; `gate.is_irreversible` has no caller.
* Message contents, headers, request fields, logging; the platform's import of
  tables other than `claude_sessions`.
* The validators of `Configuration` other than the GitHub rule and the id filter,
  and the lifting of sections: they change no state and only decide whether
  parsing fails, which is one step of `Boot`. `log_safe_summary` is logging.
* What the cleared environment of the agent and the environment of plugin
  commands hold, and the options `build_options` passes through other than the
  budget: maps that are built and handed over, with nothing to interleave.
* `validate` of the GitHub broker: checks on single characters of a path.
* The copy of the SDK's own transcript at the end of a task: it needs
  `CLAUDE_CONFIG_DIR` in the environment of this process, which nothing sets; in
  `Job` it is only a step that may fail.
* The probe script, which is run by hand on a host.
* MCP session state: a relaunched server has not been initialised, while the
  cache may remember that one was.

## Plan

Done, in the order in which it matters: `McpStdio` with `RpcService` and its
proofs, `AdvocateServer` with `Gateway` and `Contract` with theirs, `Job` with its proofs,
`Startup` with its four components and its proofs.

Open for the models:

1. MCP session state in `McpStdio`: `initialize`, its memory in the cache, and a
   relaunch.
2. `Job` composed with `AdvocateServer` at the level of start, stop and the
   handler's hold on the thread.
