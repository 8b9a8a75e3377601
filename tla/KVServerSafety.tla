--------------------------- MODULE KVServerSafety ---------------------------
(***************************************************************************)
(* What one KVServer promises to its clients, to gRPC and to the cluster.  *)
(***************************************************************************)
EXTENDS KVServer

\* A store, and of each client what it was told of its last command.
StateMachineType ==
  [kv : Stores,
   dedup : [Client -> [lastRequestId : Nat, lastReplyMsg : {Success, ExecuteError, Nil}]]]

\* The type of every member and of what is queued for the apply thread.  An entry
\* in pendingRequests has a position in the log.
KVTypeOK ==
  /\ raft.commitIndex \in Nat
  /\ raft.currentTerm \in 0 .. MaxTerm /\ raft.leads \in BOOLEAN
  /\ \A i \in 1 .. Len(raft.log) :
       raft.log[i] \in [term : 1 .. MaxTerm, op : Request \cup {NoOp}]
  /\ \A i \in 1 .. Len(applyQue) :
       IF applyQue[i].snapshotValid THEN applyQue[i].snapshot \in StateMachineType
       ELSE applyQue[i].op \in Request \cup {NoOp}
  /\ stateMachine \in StateMachineType
  /\ \A n \in Call : answer[n] \in {Success, ExecuteError, WrongLeader, Nil}
  /\ \A r \in Request : pendingRequests[r] # Nil =>
       pendingRequests[r] \in [logIndex : 1 .. MaxIndex, logTerm : 1 .. MaxTerm, call : Call]
  /\ worker.at \in {"idle", "completing", "finish", "Finish"}

\* PutAppend implements the service: through changes of leader, entries that
\* are lost, retries here and at other servers, calls that end while their
\* command is applied, every command is executed at most once (the comment
\* "deduplicate" in KVStateMachine::apply), and a client is told the outcome of
\* its own command, never before it is executed.
Service == INSTANCE KVService WITH kv <- stateMachine.kv, outcome <- executed

ImplementsKVService == Service!Spec

\* Finish is called at most once for a call, whoever calls it (the handler that
\* finds it is not the leader, or the apply thread after finish() has left its
\* lock), and never through a reactor that OnDone has deleted: the use-after-free
\* that RpcCompletion is there to prevent.
FinishIsSafe ==
  /\ \A n \in Call : calls[n].finishes <= 1
  /\ worker.at = "Finish" =>
       calls[worker.call].finishes = 0 /\ calls[worker.call].callback # "deleted"

\* No entry stays in pendingRequests_ once its call was cancelled or done (the
\* comment in cancelPending asks for it): it would hold the completion for ever
\* and keep every retry of the request from being registered.
PendingIsLive ==
  \A r \in Request : pendingRequests[r] # Nil =>
    LET n == pendingRequests[r].call
    IN asked[n] = r /\ calls[n].handler = "returned" /\ calls[n].callback = "none"

\* An entry goes when its own call ends or when its request is applied: the end
\* of an earlier attempt, however late gRPC reports it, leaves the entry of a
\* later attempt alone.
OnlyOwnEntryIsDropped ==
  [][\A r \in Request :
       pendingRequests[r] # Nil /\ pendingRequests'[r] # pendingRequests[r] =>
         \/ worker.at = "completing" /\ worker.msg.op = r
         \/ LET n == pendingRequests[r].call IN calls'[n].callback # calls[n].callback]_kvVars

\* What the apply thread has taken from the queue so far.
AppliedLog == SubSeq(raft.log, 1, raft.commitIndex - Len(applyQue))

\* Servers that applied the same log hold the same store (checkConsistency in
\* test_KVServer.cc): a restored snapshot changes nothing about that.
StoreIsOfTheLog == stateMachine.kv = SnapshotOf(AppliedLog).kv
=============================================================================
