---------------------------- MODULE Distribution ----------------------------
(***************************************************************************)
(* What the request servers of                                             *)
(* CSC4508/ConceptionOS/Cours4_ComInterProcess/.../benchmark promise,      *)
(* whatever medium carries the requests: one distributor sends NbReq       *)
(* requests followed by one end message per handler thread (`traiteur'),   *)
(* the handlers take the messages in the order they were sent, each        *)
(* request is handled by the one thread that took it, a thread stops when  *)
(* it takes an end message, and the program ends once all have stopped.    *)
(*                                                                         *)
(* A message is named by its rank in the order of sending: 1..NbReq are    *)
(* the requests, NbReq+1..Total the end messages.                          *)
(***************************************************************************)
EXTENDS Naturals, FiniteSets

CONSTANTS
  Traiteurs,  \* the handler threads
  NbReq       \* the number of requests, argv[1]

VARIABLES
  sent,     \* how many messages the distributor has sent
  taken,    \* how many messages the handlers have taken
  current,  \* the message each handler took last and still holds, or 0
  treated,  \* the requests that were handled
  stopped,  \* the handlers that have stopped
  over      \* the main thread has joined every handler

vars == <<sent, taken, current, treated, stopped, over>>

N     == Cardinality(Traiteurs)
Total == NbReq + N

IsRequest(m) == m \in 1..NbReq

Init ==
  /\ sent = 0
  /\ taken = 0
  /\ current = [t \in Traiteurs |-> 0]
  /\ treated = {}
  /\ stopped = {}
  /\ over = FALSE

Send ==
  /\ sent < Total
  /\ sent' = sent + 1
  /\ UNCHANGED <<taken, current, treated, stopped, over>>

Take(t) ==
  /\ current[t] = 0
  /\ taken < sent
  /\ taken' = taken + 1
  /\ current' = [current EXCEPT ![t] = taken + 1]
  /\ UNCHANGED <<sent, treated, stopped, over>>

Treat(t) ==
  /\ IsRequest(current[t])
  /\ treated' = treated \union {current[t]}
  /\ current' = [current EXCEPT ![t] = 0]
  /\ UNCHANGED <<sent, taken, stopped, over>>

(* A stopped handler keeps the end message it took. *)
Stop(t) ==
  /\ current[t] > NbReq
  /\ t \notin stopped
  /\ stopped' = stopped \union {t}
  /\ UNCHANGED <<sent, taken, current, treated, over>>

Join ==
  /\ ~over
  /\ sent = Total
  /\ stopped = Traiteurs
  /\ over' = TRUE
  /\ UNCHANGED <<sent, taken, current, treated, stopped>>

Next ==
  \/ Send
  \/ Join
  \/ \E t \in Traiteurs : Take(t) \/ Treat(t) \/ Stop(t)

Spec == Init /\ [][Next]_vars

(* Fairness: as long as some thread can move, some thread does. *)
FairSpec == Spec /\ WF_vars(Next)

-----------------------------------------------------------------------------
TypeOK ==
  /\ sent \in 0..Total
  /\ taken \in 0..sent
  /\ current \in [Traiteurs -> 0..taken]
  /\ treated \subseteq 1..NbReq
  /\ stopped \subseteq Traiteurs
  /\ over \in BOOLEAN

(* No message is ever in the hands of two handlers. *)
HeldOnce ==
  \A t, u \in Traiteurs : current[t] # 0 /\ current[t] = current[u] => t = u

(* A request that was taken is handled or in the hands of a handler. *)
NothingLost ==
  \A m \in 1..taken :
    IsRequest(m) => m \in treated \/ \E t \in Traiteurs : current[t] = m

(* A request is handled only by the thread that holds it, hence once. *)
NotHandledTwice ==
  \A m \in treated : m <= taken /\ \A t \in Traiteurs : current[t] # m

(* A handler stops only because it took an end message. *)
StoppedByEnd == \A t \in stopped : current[t] > NbReq

(* When the program ends every request has been handled. *)
AllTreatedWhenOver == over => treated = 1..NbReq

=============================================================================
