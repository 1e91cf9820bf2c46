-------------------------------- MODULE Boot --------------------------------
(***************************************************************************)
(* The entry point of component.py up to the point where the server may    *)
(* start: the re-exec that takes KBC_TOKEN out of the environment, _boot,  *)
(* and the first half of Component.run, which guards the memory of the     *)
(* process, parses the configuration and scrubs config.json.               *)
(*                                                                         *)
(* A token is the number of reads of 4096 bytes it fills.                  *)
(***************************************************************************)
EXTENDS Naturals

CONSTANTS
  Tokens,  \* the values KBC_TOKEN may have when the platform sets it
  Hosts,   \* what kernel and platform may be like
  None

BootConstants ==
  /\ Tokens \subseteq Nat /\ None \notin Nat
  /\ Hosts \subseteq [prctl : {"works", "refused", "ignored"}, scope : {0, 1, None}, override : BOOLEAN]

VARIABLES
  pc, raised, exit,  \* as in Job
  host,
  given,      \* KBC_TOKEN as the platform gave it
  environ,    \* KBC_TOKEN in os.environ
  procenv,    \* KBC_TOKEN in the environment of the last execve
  marker,     \* _SCRUB_DONE_ENV is in os.environ
  pipe,       \* what is left to read on fd 3; None when it is closed
  recovered,  \* what _read_kbc_token_from_pipe has read
  captured,   \* what the base class keeps of the token
  dumpable,   \* the kernel's dumpable flag of the process
  disk,       \* config.json: "secret", "scrubbed" or "absent"
  warned      \* the warnings logged

bootVars == <<host, given, environ, procenv, marker, pipe, recovered, captured, dumpable, disk, warned>>
processVars == <<pc, raised, exit>>
vars == <<processVars, bootVars>>

Warnings == {"execve", "ptrace", "scrub"}
BootPlaces == {"entry", "exec", "boot", "build", "protect", "parse", "scrub"}

BootTypeOK ==
  /\ host \in Hosts
  /\ given \in Tokens \cup {None}
  /\ environ \in Nat \cup {None} /\ procenv \in Nat \cup {None}
  /\ marker \in BOOLEAN /\ dumpable \in BOOLEAN
  /\ pipe \in Nat \cup {None} /\ recovered \in Nat
  /\ pc \in {"entry", "exec"} => ~marker
  /\ pc = "exec" \/ (pc = "boot" /\ marker) => pipe # None
  /\ captured \in Nat \cup {None}
  /\ disk \in {"secret", "scrubbed", "absent"}
  /\ warned \subseteq Warnings

Init ==
  /\ pc = "entry" /\ raised = "none" /\ exit = 3
  /\ host \in Hosts
  /\ given \in Tokens \cup {None}
  /\ environ = given /\ procenv = given
  /\ marker = FALSE /\ pipe = None /\ recovered = 0 /\ captured = None
  /\ dumpable = TRUE /\ disk = "secret" /\ warned = {}

Exceptions == {"user", "crash"}
\* Mutant of Exits: the exception is logged and the process has no exit code.
ExitsUncoded(how, code) == pc' = "exited" /\ raised' = how /\ UNCHANGED exit

Exits(how, code) == pc' = "exited" /\ raised' = how /\ exit' = code
Goes(place) == pc' = place /\ UNCHANGED <<raised, exit>>

-----------------------------------------------------------------------------
(* _perform_env_scrub *)

NothingToScrub ==
  /\ pc = "entry" /\ environ = None
  /\ Goes("boot")
  /\ UNCHANGED bootVars

\* The whole token is written and the write end closed.
OpenPipe ==
  /\ pc = "entry" /\ environ # None
  /\ Goes("exec")
  /\ pipe' = environ
  /\ UNCHANGED <<host, given, environ, procenv, marker, recovered, captured, dumpable, disk, warned>>

\* os.pipe, dup2 or fcntl raises outside _boot: the interpreter exits with 1.
EntryFails ==
  /\ pc = "entry" /\ environ # None
  /\ Exits("crash", 1)
  /\ UNCHANGED bootVars

\* execve: a new image with the scrubbed environment, dumpable again.
Exec ==
  /\ pc = "exec"
  /\ Goes("boot")
  /\ environ' = None /\ procenv' = None /\ marker' = TRUE /\ dumpable' = TRUE
  /\ UNCHANGED <<host, given, pipe, recovered, captured, disk, warned>>

ExecFails ==
  /\ pc = "exec"
  /\ Goes("boot")
  /\ pipe' = None
  /\ warned' = warned \cup {"execve"}
  /\ UNCHANGED <<host, given, environ, procenv, marker, recovered, captured, dumpable, disk>>

-----------------------------------------------------------------------------
(* _read_kbc_token_from_pipe and _boot *)

Unmarked ==
  /\ pc = "boot" /\ ~marker
  /\ Goes("build")
  /\ UNCHANGED bootVars

ReadChunk ==
  /\ pc = "boot" /\ marker /\ pipe > 0
  /\ pipe' = pipe - 1 /\ recovered' = recovered + 1
  /\ UNCHANGED <<processVars, host, given, environ, procenv, marker, captured, dumpable, disk, warned>>

\* Mutant of ReadEof: the first read is taken for the whole token, Finding 7 of
\* the docstring.
ReadOnce ==
  /\ pc = "boot" /\ marker /\ (recovered = 1 \/ pipe = 0)
  /\ Goes("build")
  /\ pipe' = None
  /\ environ' = IF recovered > 0 THEN recovered ELSE environ
  /\ UNCHANGED <<host, given, procenv, marker, recovered, captured, dumpable, disk, warned>>

\* An empty token is not put back.
ReadEof ==
  /\ pc = "boot" /\ marker /\ pipe = 0
  /\ Goes("build")
  /\ pipe' = None
  /\ environ' = IF recovered > 0 THEN recovered ELSE environ
  /\ UNCHANGED <<host, given, procenv, marker, recovered, captured, dumpable, disk, warned>>

OrEmpty(token) == IF token = None THEN 0 ELSE token

\* The base class captures the token, then it is popped from os.environ.
Build ==
  /\ pc = "build"
  /\ Goes("protect")
  /\ captured' = OrEmpty(environ)
  /\ environ' = None
  /\ UNCHANGED <<host, given, procenv, marker, pipe, recovered, dumpable, disk, warned>>

BuildFails(how) ==
  /\ pc = "build"
  /\ Exits(how, IF how = "user" THEN 1 ELSE 2)
  /\ UNCHANGED bootVars

-----------------------------------------------------------------------------
(* _assert_advocate_memory_protected *)

\* Mutant of Protect: the return code of prctl is trusted.
ProtectTrusting ==
  /\ pc = "protect" /\ host.prctl # "refused"
  /\ Goes("parse")
  /\ dumpable' = (host.prctl # "works")
  /\ UNCHANGED <<host, given, environ, procenv, marker, pipe, recovered, captured, disk, warned>>

\* prctl took effect, which is read back.
Protect ==
  /\ pc = "protect" /\ host.prctl = "works"
  /\ Goes("parse")
  /\ dumpable' = FALSE
  /\ UNCHANGED <<host, given, environ, procenv, marker, pipe, recovered, captured, disk, warned>>

\* _assert_ptrace_protected: the host's own guard is there, cannot be seen, or
\* is waived; the last two with a warning.
FallBack ==
  /\ pc = "protect" /\ host.prctl # "works"
  /\ host.scope = 0 => host.override
  /\ Goes("parse")
  /\ warned' = IF host.scope = 1 THEN warned ELSE warned \cup {"ptrace"}
  /\ UNCHANGED <<host, given, environ, procenv, marker, pipe, recovered, captured, dumpable, disk>>

Refuse ==
  /\ pc = "protect" /\ host.prctl # "works" /\ host.scope = 0 /\ ~host.override
  /\ Exits("user", 1)
  /\ UNCHANGED bootVars

-----------------------------------------------------------------------------
(* Configuration and _scrub_config_json *)

Parse ==
  /\ pc = "parse"
  /\ Goes("scrub")
  /\ UNCHANGED bootVars

ParseFails(how) ==
  /\ pc = "parse"
  /\ Exits(how, IF how = "user" THEN 1 ELSE 2)
  /\ UNCHANGED bootVars

\* The scrubbed copy is written beside the file and renamed over it: the file
\* changes in one step.
Scrub ==
  /\ pc = "scrub"
  /\ Goes("server")
  /\ disk' = "scrubbed"
  /\ UNCHANGED <<host, given, environ, procenv, marker, pipe, recovered, captured, dumpable, warned>>

\* An OSError in reading, writing or renaming is logged, and the job goes on.
ScrubFails ==
  /\ pc = "scrub"
  /\ Goes("server")
  /\ warned' = warned \cup {"scrub"}
  /\ UNCHANGED <<host, given, environ, procenv, marker, pipe, recovered, captured, dumpable, disk>>

\* FileNotFoundError: the file has gone since it was parsed, and no warning says so.
NothingOnDisk ==
  /\ pc = "scrub"
  /\ Goes("server")
  /\ disk' = "absent"
  /\ UNCHANGED <<host, given, environ, procenv, marker, pipe, recovered, captured, dumpable, warned>>

\* The file is no JSON any more; no handler here catches a ValueError.
ScrubRaises ==
  /\ pc = "scrub"
  /\ Exits("crash", 2)
  /\ UNCHANGED bootVars

-----------------------------------------------------------------------------

EnvScrub == NothingToScrub \/ OpenPipe \/ EntryFails \/ Exec \/ ExecFails
Construct ==
  \/ Unmarked \/ ReadChunk \/ ReadEof \/ Build
  \/ \E how \in Exceptions : BuildFails(how)
Prepare ==
  \/ Protect \/ FallBack \/ Refuse \/ Parse
  \/ \E how \in Exceptions : ParseFails(how)
  \/ Scrub \/ ScrubFails \/ NothingOnDisk \/ ScrubRaises

Next == EnvScrub \/ Construct \/ Prepare

-----------------------------------------------------------------------------
(* Properties *)

\* From here on the process starts others: pip, the claude CLI, the agent.
Launching == pc \notin BootPlaces \cup {"exited"}

\* Whatever way the token came, by the pipe or by an environment that could
\* not be scrubbed, the base class has all of it, no child inherits it, and
\* the copy in /proc/self/environ is gone or was warned about (_boot,
\* _perform_env_scrub).
TokenInCustody ==
  /\ captured # None => captured = OrEmpty(given) /\ environ = None
  /\ Launching => captured # None /\ (procenv = None \/ "execve" \in warned)

\* The secrets are parsed into a memory that other processes cannot read, and
\* config.json has lost them, or is gone, before a child runs; where either could
\* not be done a warning says so
\* (_assert_advocate_memory_protected, _scrub_config_json_impl).
SecretsGuarded ==
  /\ pc = "scrub" \/ Launching =>
       ~dumpable \/ host.scope = 1 \/ "ptrace" \in warned
  /\ Launching => disk # "secret" \/ "scrub" \in warned
=============================================================================
