------------------------------ MODULE Gateway ------------------------------
(***************************************************************************)
(* What the Advocate promises the agent, the upstream services and the     *)
(* component together, without threads, bodies and framing: one request at *)
(* a time, nothing asked of the upstream that the contract does not admit  *)
(* or that is remembered, a success told only of what was carried out, and *)
(* nothing answered once it is closed.  A client may always be gone, and   *)
(* then hears nothing.  AdvocateServer implements it.                      *)
(***************************************************************************)
EXTENDS Naturals

CONSTANTS
  Clients,      \* connections
  Requests,     \* request contents
  Cached,       \* requests whose success is remembered
  Streams,      \* requests answered as a stream
  Allowed,      \* requests the signed contract admits
  None

VARIABLES
  asks,         \* connection -> the request it is about, or None
  got,          \* connection -> what it was told
  memo,         \* requests whose success is remembered
  asked,        \* the connection the upstream is asked for, or None
  done,         \* the upstream carried out what it is asked
  executed,     \* request -> times the upstream carried it out
  owed,         \* request -> failed calls the upstream may still carry out
  closed

vars == <<asks, got, memo, asked, done, executed, owed, closed>>

Init ==
  /\ asks = [c \in Clients |-> None]
  /\ got = [c \in Clients |-> "nothing"]
  /\ memo = {} /\ asked = None /\ done = FALSE
  /\ executed = [q \in Requests |-> 0]
  /\ owed = [q \in Requests |-> 0]
  /\ closed = FALSE

Connect(c, q) ==
  /\ asks[c] = None /\ ~closed
  /\ asks' = [asks EXCEPT ![c] = q]
  /\ UNCHANGED <<got, memo, asked, done, executed, owed, closed>>

\* A connection that waits for its answer while nothing else is under way.
Waiting(c) ==
  /\ ~closed /\ asked = None
  /\ asks[c] # None /\ got[c] = "nothing"

Refuse(c) ==
  /\ Waiting(c)
  /\ got' = [got EXCEPT ![c] = "refused"]
  /\ UNCHANGED <<asks, memo, asked, done, executed, owed, closed>>

Repeat(c) ==
  /\ Waiting(c)
  /\ asks[c] \in memo
  /\ got' = [got EXCEPT ![c] = "granted"]
  /\ UNCHANGED <<asks, memo, asked, done, executed, owed, closed>>

Ask(c) ==
  /\ Waiting(c)
  /\ asks[c] \in Allowed \ memo
  /\ asked' = c
  /\ UNCHANGED <<asks, got, memo, done, executed, owed, closed>>

Execute(q) ==
  /\ asked # None /\ asks[asked] = q /\ ~done
  /\ done' = TRUE
  /\ executed' = [executed EXCEPT ![q] = @ + 1]
  /\ UNCHANGED <<asks, got, memo, asked, owed, closed>>

\* A call that failed may be carried out all the same.
ExecuteLate(q) ==
  /\ owed[q] > 0
  /\ owed' = [owed EXCEPT ![q] = @ - 1]
  /\ executed' = [executed EXCEPT ![q] = @ + 1]
  /\ UNCHANGED <<asks, got, memo, asked, done, closed>>

\* The call ends and its connection is told, unless nobody is there.
Ends(what) ==
  /\ asked # None
  /\ got' \in {got, [got EXCEPT ![asked] = what]}
  /\ asked' = None /\ done' = FALSE

Grant ==
  /\ done /\ asks[asked] \notin Streams /\ got[asked] = "nothing"
  /\ Ends("granted")
  /\ memo' = memo \cup ({asks[asked]} \cap Cached)
  /\ UNCHANGED <<asks, executed, owed, closed>>

Begin ==
  /\ asked # None /\ done /\ asks[asked] \in Streams /\ got[asked] = "nothing"
  /\ got' = [got EXCEPT ![asked] = "partial"]
  /\ UNCHANGED <<asks, memo, asked, done, executed, owed, closed>>

Finish ==
  /\ asked # None /\ got[asked] = "partial"
  /\ Ends("whole")
  /\ UNCHANGED <<asks, memo, executed, owed, closed>>

\* A failure leaves nothing remembered, and says so, also in mid-stream.
Fail ==
  /\ Ends(IF got[asked] = "partial" THEN "cut" ELSE "failed")
  /\ owed' \in {owed} \cup
       (IF done THEN {} ELSE {[owed EXCEPT ![asks[asked]] = @ + 1]})
  /\ UNCHANGED <<asks, memo, executed, closed>>

\* The client of a stream is gone: the call is given up.
GiveUp ==
  /\ asked # None /\ done /\ asks[asked] \in Streams
  /\ asked' = None /\ done' = FALSE
  /\ UNCHANGED <<asks, got, memo, executed, owed, closed>>

Close ==
  /\ asked = None /\ ~closed
  /\ closed' = TRUE
  /\ UNCHANGED <<asks, got, memo, asked, done, executed, owed>>

Next ==
  \/ \E c \in Clients :
       \/ \E q \in Requests : Connect(c, q)
       \/ Refuse(c) \/ Repeat(c) \/ Ask(c)
  \/ \E q \in Requests : Execute(q) \/ ExecuteLate(q)
  \/ Grant \/ Begin \/ Finish \/ Fail \/ GiveUp
  \/ Close

Spec == Init /\ [][Next]_vars

-----------------------------------------------------------------------------
(* What the promise implies *)

\* Nothing is carried out that the contract does not admit, now or later.
Mediated == \A q \in Requests : executed[q] + owed[q] > 0 => q \in Allowed

\* A client told of a success, or of the start of one, asks for something that
\* was carried out; so was what is remembered.
SuccessHonest ==
  /\ \A q \in memo : executed[q] > 0
  /\ \A c \in Clients :
       got[c] \in {"granted", "partial", "whole", "cut"} => executed[asks[c]] > 0
=============================================================================
