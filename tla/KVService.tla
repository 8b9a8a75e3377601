----------------------------- MODULE KVService -----------------------------
(***************************************************************************)
(* What a client may rely on: a store that executes each request at most   *)
(* once, between the time it is asked for and the time it is answered, and *)
(* answers every attempt at it with the result of that execution.  Nothing *)
(* is said of logs, leaders, pending calls or cancellation.                *)
(***************************************************************************)
EXTENDS KVStore

VARIABLES
  kv,         \* the store
  outcome,    \* of each request, the result of its execution, Nil before it
  asked,      \* the requests that calls were made for, in their order
  answer      \* of each call, what its client was told, Nil before it

serviceVars == << kv, outcome, asked, answer >>

Init ==
  /\ kv = EmptyStore
  /\ outcome = [r \in Request |-> Nil]
  /\ asked = << >>
  /\ answer = << >>

\* A client makes a call for r.
Ask(r) ==
  /\ asked' = Append(asked, r)
  /\ answer' = Append(answer, Nil)
  /\ UNCHANGED << kv, outcome >>

Execute(r) ==
  /\ outcome[r] = Nil /\ outcome' = [outcome EXCEPT ![r] = Result(kv, r)]
  /\ \E n \in DOMAIN asked : asked[n] = r
  /\ kv' = Effect(kv, r)
  /\ UNCHANGED << asked, answer >>

\* The client is told the outcome, or to ask elsewhere, which says nothing of
\* the request.
Answer(n) ==
  /\ answer[n] = Nil
  /\ \/ outcome[asked[n]] # Nil /\ answer' = [answer EXCEPT ![n] = outcome[asked[n]]]
     \/ answer' = [answer EXCEPT ![n] = WrongLeader]
  /\ UNCHANGED << kv, outcome, asked >>

Next ==
  \/ \E r \in Request : Execute(r) \/ Ask(r)
  \/ \E n \in DOMAIN answer : Answer(n)

Spec == Init /\ [][Next]_serviceVars
=============================================================================
