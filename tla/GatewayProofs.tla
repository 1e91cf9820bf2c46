---------------------------- MODULE GatewayProofs ----------------------------
(***************************************************************************)
(* What follows from the promise of Gateway, for any contract.             *)
(***************************************************************************)
EXTENDS Gateway, TLAPS

Outcomes == {"nothing", "refused", "granted", "failed", "partial", "whole", "cut"}

Types ==
  /\ asks \in [Clients -> Requests \cup {None}]
  /\ got \in [Clients -> Outcomes]
  /\ memo \subseteq Requests
  /\ done \in BOOLEAN
  /\ executed \in [Requests -> Nat]
  /\ owed \in [Requests -> Nat]

\* The upstream is asked only for what the contract admits, and done says that
\* what it is asked was carried out.
Asking ==
  /\ asked # None =>
       asked \in Clients /\ asks[asked] # None /\ asks[asked] \in Requests \cap Allowed
  /\ done => asked # None /\ executed[asks[asked]] > 0

\* Who was told something asked for something.
Heard == \A c \in Clients : got[c] # "nothing" => asks[c] # None

Inv == Types /\ Asking /\ Heard /\ Mediated /\ SuccessHonest

LEMMA InvInitial == Init => Inv
<1>1. SUFFICES ASSUME Init PROVE Inv
  OBVIOUS
<1>2. Types /\ Heard
  BY <1>1 DEF Init, Types, Outcomes, Heard
<1>3. Asking
  BY <1>1 DEF Init, Asking
<1>4. Mediated /\ SuccessHonest
  BY <1>1 DEF Init, Mediated, SuccessHonest
<1>. QED BY <1>2, <1>3, <1>4 DEF Inv

\* An execution is one more for its request and none the less for the others.
LEMMA OneMoreExecution ==
  ASSUME Types, NEW q \in Requests, executed' = [executed EXCEPT ![q] = @ + 1]
  PROVE  /\ executed' \in [Requests -> Nat] /\ executed'[q] = executed[q] + 1
         /\ \A p \in Requests : executed'[p] >= executed[p]
         /\ \A p \in Requests \ {q} : executed'[p] = executed[p]
  BY DEF Types

\* What the connections and the cache say stays true when executions are added.
LEMMA HonestWithMore ==
  ASSUME Types, Heard, SuccessHonest, UNCHANGED <<asks, got, memo>>,
         executed' \in [Requests -> Nat],
         \A p \in Requests : executed'[p] >= executed[p]
  PROVE  SuccessHonest'
<1>1. ASSUME NEW q \in memo PROVE executed'[q] > 0
  BY DEF Types, SuccessHonest
<1>2. ASSUME NEW c \in Clients, got[c] \in {"granted", "partial", "whole", "cut"}
      PROVE  executed'[asks[c]] > 0
  <2>1. asks[c] \in Requests
    BY <1>2 DEF Types, Heard
  <2>2. executed[asks[c]] > 0 /\ executed[asks[c]] \in Nat
    BY <1>2, <2>1 DEF Types, SuccessHonest
  <2>. QED BY <2>1, <2>2
<1>. QED BY <1>1, <1>2 DEF SuccessHonest

\* A call that ends with an outcome its execution bears out.
LEMMA EndsKeepsInv ==
  ASSUME Inv, NEW what \in Outcomes \ {"nothing"}, Ends(what), UNCHANGED <<asks, executed>>,
         what \in {"granted", "partial", "whole", "cut"} => executed[asks[asked]] > 0,
         memo' \subseteq memo \cup {asks[asked]},
         memo' = memo \/ done,
         owed' \in [Requests -> Nat],
         \A q \in Requests : owed'[q] <= owed[q] \/ q \in Allowed
  PROVE  Inv'
<1>1. asked \in Clients /\ asks[asked] # None /\ asks[asked] \in Requests
      /\ asked' = None /\ done' = FALSE
  BY DEF Inv, Asking, Ends
<1>2. Types'
  BY <1>1 DEF Inv, Types, Ends
<1>3. Heard'
  BY <1>1 DEF Inv, Types, Heard, Ends
<1>4. SuccessHonest'
  <2>1. ASSUME NEW q \in memo' PROVE executed[q] > 0
    BY <2>1 DEF Inv, Asking, SuccessHonest
  <2>2. ASSUME NEW c \in Clients, got'[c] \in {"granted", "partial", "whole", "cut"}
        PROVE  executed[asks[c]] > 0
    <3>1. CASE got'[c] = got[c]
      BY <2>2, <3>1 DEF Inv, SuccessHonest
    <3>2. CASE c = asked /\ got'[c] = what
      BY <2>2, <3>2
    <3>. QED BY <1>1, <3>1, <3>2 DEF Inv, Types, Ends
  <2>. QED BY <2>1, <2>2 DEF SuccessHonest
<1>5. Mediated'
  BY <1>2 DEF Inv, Types, Mediated
<1>. QED BY <1>1, <1>2, <1>3, <1>4, <1>5 DEF Inv, Asking

LEMMA InvKept ==
  ASSUME Inv, [Next]_vars
  PROVE  Inv'
<1>1. ASSUME NEW c \in Clients, NEW q \in Requests, Connect(c, q) PROVE Inv'
  <2>1. \A d \in Clients : asks[d] # None => asks'[d] = asks[d]
    BY <1>1 DEF Inv, Types, Connect
  <2>2. Types'
    BY <1>1 DEF Inv, Types, Connect
  <2>3. Heard'
    BY <1>1, <2>1 DEF Inv, Heard, Connect
  <2>4. Asking'
    BY <1>1, <2>1 DEF Inv, Asking, Connect
  <2>5. SuccessHonest'
    BY <1>1, <2>1 DEF Inv, Heard, SuccessHonest, Connect
  <2>6. Mediated'
    BY <1>1 DEF Inv, Mediated, Connect
  <2>. QED BY <2>2, <2>3, <2>4, <2>5, <2>6 DEF Inv
<1>2. ASSUME NEW c \in Clients, Refuse(c) \/ Repeat(c) \/ Ask(c) PROVE Inv'
  <2>1. CASE Refuse(c)
    BY <2>1 DEF Inv, Types, Outcomes, Asking, Heard, Mediated, SuccessHonest, Refuse, Waiting
  <2>2. CASE Repeat(c)
    BY <2>2 DEF Inv, Types, Outcomes, Asking, Heard, Mediated, SuccessHonest, Repeat, Waiting
  <2>3. CASE Ask(c)
    BY <2>3 DEF Inv, Types, Asking, Heard, Mediated, SuccessHonest, Ask, Waiting
  <2>. QED BY <1>2, <2>1, <2>2, <2>3
<1>3. ASSUME NEW q \in Requests, Execute(q) PROVE Inv'
  <2>1. /\ executed' \in [Requests -> Nat] /\ executed'[q] = executed[q] + 1
        /\ \A p \in Requests : executed'[p] >= executed[p]
        /\ \A p \in Requests \ {q} : executed'[p] = executed[p]
    BY <1>3, OneMoreExecution DEF Inv, Execute
  <2>2. asked # None /\ asks[asked] = q /\ done' /\ UNCHANGED <<asks, got, memo, asked, owed>>
    BY <1>3 DEF Execute
  <2>3. q \in Allowed /\ executed[q] \in Nat
    BY <2>2 DEF Inv, Asking, Types
  <2>4. SuccessHonest'
    BY <2>1, <2>2, HonestWithMore DEF Inv
  <2>5. Types' /\ Asking' /\ Heard'
    BY <1>3, <2>1, <2>2, <2>3 DEF Inv, Types, Asking, Heard, Execute
  <2>6. Mediated'
    BY <2>1, <2>2, <2>3 DEF Inv, Types, Mediated
  <2>. QED BY <2>4, <2>5, <2>6 DEF Inv
<1>4. ASSUME NEW q \in Requests, ExecuteLate(q) PROVE Inv'
  <2>1. /\ executed' \in [Requests -> Nat] /\ executed'[q] = executed[q] + 1
        /\ \A p \in Requests : executed'[p] >= executed[p]
        /\ \A p \in Requests \ {q} : executed'[p] = executed[p]
    BY <1>4, OneMoreExecution DEF Inv, ExecuteLate
  <2>2. /\ owed[q] \in Nat /\ executed[q] \in Nat /\ owed[q] > 0
        /\ owed' = [owed EXCEPT ![q] = owed[q] - 1]
        /\ UNCHANGED <<asks, got, memo, asked, done>>
    BY <1>4 DEF Inv, Types, ExecuteLate
  <2>3. q \in Allowed
    BY <2>2 DEF Inv, Mediated
  <2>4. SuccessHonest'
    BY <2>1, <2>2, HonestWithMore DEF Inv
  <2>5. Types'
    BY <2>1, <2>2 DEF Inv, Types
  <2>6. Asking'
    BY <2>1, <2>2 DEF Inv, Types, Asking
  <2>7. Mediated'
    BY <2>1, <2>2, <2>3 DEF Inv, Types, Mediated
  <2>. QED BY <2>2, <2>4, <2>5, <2>6, <2>7 DEF Inv, Heard
<1>5. CASE Grant
  <2>1. /\ Ends("granted") /\ done /\ UNCHANGED <<asks, executed, owed>>
        /\ memo' \subseteq memo \cup {asks[asked]}
    BY <1>5 DEF Grant
  <2>. QED BY <2>1, EndsKeepsInv DEF Inv, Types, Asking, Outcomes
<1>6. CASE Finish
  <2>1. /\ Ends("whole") /\ asked # None /\ got[asked] = "partial"
        /\ UNCHANGED <<asks, memo, executed, owed>>
    BY <1>6 DEF Finish
  <2>2. executed[asks[asked]] > 0
    BY <2>1 DEF Inv, Asking, SuccessHonest
  <2>. QED BY <2>1, <2>2, EndsKeepsInv DEF Inv, Types, Outcomes
<1>7. CASE Fail
  <2>. DEFINE what == IF got[asked] = "partial" THEN "cut" ELSE "failed"
  <2>1. Ends(what) /\ asked # None /\ UNCHANGED <<asks, memo, executed>>
    BY <1>7 DEF Fail, Ends
  <2>2. /\ asked \in Clients /\ asks[asked] \in Requests \cap Allowed
        /\ owed' = owed \/ owed' = [owed EXCEPT ![asks[asked]] = owed[asks[asked]] + 1]
    BY <1>7, <2>1 DEF Inv, Asking, Fail
  <2>3. owed' \in [Requests -> Nat] /\ \A q \in Requests : owed'[q] <= owed[q] \/ q \in Allowed
    BY <2>2 DEF Inv, Types
  <2>4. what \in {"granted", "partial", "whole", "cut"} => executed[asks[asked]] > 0
    BY <2>2 DEF Inv, SuccessHonest
  <2>5. what \in Outcomes \ {"nothing"}
    BY DEF Outcomes
  <2>. HIDE DEF what
  <2>. QED BY <2>1, <2>3, <2>4, <2>5, EndsKeepsInv
<1>8. CASE Begin \/ GiveUp \/ Close
  <2>1. CASE Begin
    BY <2>1 DEF Inv, Types, Outcomes, Asking, Heard, Mediated, SuccessHonest, Begin
  <2>2. CASE GiveUp
    BY <2>2 DEF Inv, Types, Asking, Heard, Mediated, SuccessHonest, GiveUp
  <2>3. CASE Close
    <3>1. UNCHANGED <<asks, got, memo, asked, done, executed, owed>>
      BY <2>3 DEF Close
    <3>2. Types' /\ Asking' /\ Heard'
      BY <3>1 DEF Inv, Types, Asking, Heard
    <3>3. Mediated' /\ SuccessHonest'
      BY <3>1 DEF Inv, Mediated, SuccessHonest
    <3>. QED BY <3>2, <3>3 DEF Inv
  <2>. QED BY <1>8, <2>1, <2>2, <2>3
<1>9. CASE UNCHANGED vars
  BY <1>9 DEF Inv, Types, Asking, Heard, Mediated, SuccessHonest, vars
<1>. QED BY <1>1, <1>2, <1>3, <1>4, <1>5, <1>6, <1>7, <1>8, <1>9 DEF Next

\* Nothing is carried out that the contract does not admit, however often it is
\* asked and however late the upstream acts.
THEOREM NothingUnmediated == Spec => []Mediated
<1>. QED BY InvInitial, InvKept, PTL DEF Spec, Inv

\* What is told or remembered as a success was carried out.
THEOREM SuccessesHonest == Spec => []SuccessHonest
<1>. QED BY InvInitial, InvKept, PTL DEF Spec, Inv
=============================================================================
