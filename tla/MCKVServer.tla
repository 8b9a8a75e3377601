----------------------------- MODULE MCKVServer -----------------------------
(***************************************************************************)
(* Two clients write and delete one key.  Deletions tell repeated commands *)
(* apart, by their result; writes of different values, by what is stored.  *)
(***************************************************************************)
EXTENDS KVServerSafety

CONSTANTS c1, c2, x

\* A value of two words, which operator>> cuts.
FirstWord == [ v \in Value |-> IF v = "a b" THEN "a" ELSE v ]

SameKey == [ k \in Key |-> k ]

Put(v) == [operation |-> PUT, key |-> x, value |-> v]
Delete == [operation |-> DEL, key |-> x]

\* One client, two commands.
PutThenDelete == c1 :> << Put("a b"), Delete >>

\* One client, one command.
OneDelete == c1 :> << Delete >>

\* Different values for one key.
TwoPuts == c1 :> << Put("a") >> @@ c2 :> << Put("b") >>

----------------------------------------------------------------------------
\* A leader whose no-op is committed and applied.
LeaderInit ==
  /\ raft = [log |-> << Entry(1, NoOp) >>, commitIndex |-> 1, currentTerm |-> 1,
             leads |-> TRUE, made |-> {Made(1, Entry(1, NoOp))}, snapshots |-> 0]
  /\ applyQue = << >>
  /\ stateMachine = EmptyStateMachine
  /\ pendingRequests = [r \in Request |-> Nil]
  /\ calls = << >> /\ asked = << >> /\ answer = << >>
  /\ worker = Idle
  /\ executed = [r \in Request |-> Nil]

\* It serves its clients and may be deposed; its successor sends it requests
\* of its clients, in place of or after its own, or again.
Serves ==
  \/ WorkerStep
  \/ \E n \in Call : GiveUp(n) \/ StartPut(n) \/ RegisterPending(n) \/ OnCancel(n) \/ Cancel(n)
  \/ Commits \/ Deposed
  \/ \E r \in Request : Send(r) \/ (r \in Commands /\ Follow(r))

ServiceSpec == LeaderInit /\ [][Serves]_kvVars

\* Clients ask other servers; this one follows, and a snapshot reaches it before
\* anything else, so that it is restored into an empty store.
Catches ==
  \/ WorkerStep \/ Deposed \/ Commits
  \/ InstallsSnapshot /\ raft.commitIndex = 0
  \/ \E r \in Request : SendElsewhere(r) \/ (r \in Commands /\ Follow(r))

RestoreSpec == Init /\ [][Catches]_kvVars
=============================================================================
