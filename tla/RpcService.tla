----------------------------- MODULE RpcService -----------------------------
(***************************************************************************)
(* What a caching broker of the Advocate promises its one caller, whatever *)
(* the transport behind it: a request is answered by an answer to that     *)
(* request or refused, the first success of a request is remembered for    *)
(* the life of the process, and a remembered request never reaches the     *)
(* upstream again.  The promise is the one advocate/idempotency.py and the *)
(* handle_request of the three brokers state together; McpStdio implements *)
(* it.                                                                     *)
(***************************************************************************)
CONSTANTS
  Keys,         \* request contents, the domain of the idempotency keys
  Answers(_),   \* the answers the upstream may give to a request
  None          \* "no answer", "no request"

VARIABLES
  memo,     \* request -> its remembered success, or None
  asked,    \* the request the upstream is working on, or None
  reply     \* the last reply given to the caller

vars == <<memo, asked, reply>>

Replied(k, status, body) == [key |-> k, status |-> status, body |-> body]

Init ==
  /\ memo = [k \in Keys |-> None]
  /\ asked = None
  /\ reply = None

\* The request was answered before: the same answer again, nothing asked.
Repeat(k) ==
  /\ asked = None
  /\ memo[k] # None
  /\ reply' = Replied(k, 200, memo[k])
  /\ UNCHANGED <<memo, asked>>

Ask(k) ==
  /\ asked = None
  /\ memo[k] = None
  /\ asked' = k
  /\ UNCHANGED <<memo, reply>>

Answer(k, b) ==
  /\ asked = k
  /\ memo' = [memo EXCEPT ![k] = b]
  /\ reply' = Replied(k, 200, b)
  /\ asked' = None

\* An upstream failure is reported and nothing is remembered of it.
Fail(k) ==
  /\ asked = k
  /\ reply' = Replied(k, 502, None)
  /\ asked' = None
  /\ UNCHANGED memo

\* The request names nothing this broker serves, or nothing it may serve.
Refuse(k) ==
  /\ asked = None
  /\ memo[k] = None
  /\ \E status \in {403, 404} : reply' = Replied(k, status, None)
  /\ UNCHANGED <<memo, asked>>

Next ==
  \E k \in Keys :
    \/ Repeat(k)
    \/ Ask(k)
    \/ \E b \in Answers(k) : Answer(k, b)
    \/ Fail(k)
    \/ Refuse(k)

Spec == Init /\ [][Next]_vars
=============================================================================
