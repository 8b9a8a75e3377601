---------------------------- MODULE MCKVLiveness ----------------------------
(***************************************************************************)
(* What clients get from a server that leads and is never deposed, while   *)
(* they give up and try again, and Raft commits a command at any time      *)
(* after it is appended, before the call has registered it, too.           *)
(*                                                                         *)
(* Fairness: gRPC runs a handler it has started and the callbacks it owes, *)
(* Raft commits what its leader appends while a quorum answers, the apply  *)
(* thread takes what is in its queue.  No client is obliged to call, to    *)
(* give up, or to try again.                                               *)
(***************************************************************************)
EXTENDS MCKVServer

CallRuns(n) ==
  /\ n \in Call
  /\ StartPut(n) \/ RegisterPending(n) \/ OnCancel(n) \/ Cancel(n) \/ OnDone(n)

Asks == \E r \in Request : Send(r)

GivesUp == \E n \in Call : GiveUp(n)

Leads == WorkerStep \/ Asks \/ Commits \/ \E n \in 1 .. MaxCalls : CallRuns(n)

Fairness ==
  /\ WF_kvVars(WorkerStep) /\ WF_kvVars(Commits)
  /\ \A n \in 1 .. MaxCalls : WF_kvVars(CallRuns(n))

\* Clients wait for their answers.
WaitSpec == LeaderInit /\ [][Leads]_kvVars /\ Fairness

\* Clients may give up, and then try again or not.
RetrySpec == LeaderInit /\ [][Leads \/ GivesUp]_kvVars /\ Fairness

----------------------------------------------------------------------------
\* The positions of a request that completePending is still to see.
ToComplete(r) ==
  { i \in 1 .. LastIndex :
      /\ raft.log[i].op = r
      /\ \/ i > raft.commitIndex - Len(applyQue)
         \/ worker.at = "completing" /\ worker.msg.index = i }

\* A call was registered before its position was completed.
Registered(n) ==
  /\ n \in Call
  /\ LET p == pendingRequests[asked[n]]
     IN p # Nil /\ p.call = n /\ p.logIndex \in ToComplete(asked[n])

\* And no earlier attempt at its request is still to be completed.
Awaited(n) ==
  /\ Registered(n)
  /\ LET r == asked[n] IN \A i \in ToComplete(r) : pendingRequests[r].logIndex <= i

\* A call whose entry waits for the next completion of its request is answered,
\* unless its client gives up: the entry is not lost to the cancellation of an
\* earlier attempt that gRPC reports late, to another command, or to what is
\* appended behind it (completePending, cancelPending, finish).
EveryAwaitedPutIsAnswered == \A n \in 1 .. MaxCalls : Awaited(n) ~> n \in Call /\ Over(n)

\* Not so while an earlier attempt is still to be completed.
EveryRegisteredPutIsAnswered ==
  \A n \in 1 .. MaxCalls : Registered(n) ~> n \in Call /\ Over(n)

\* Nor if the position is completed before the call registers it: of the calls
\* that reach the leader, not all are answered.
EveryPutIsAnswered == \A n \in 1 .. MaxCalls : n \in Call ~> n \in Call /\ Over(n)

\* gRPC gets every call back: it ends with OnDone, which deletes the reactor and
\* without which shutDown() waits for the call.  Not so if its client gives up.
EveryCallIsReleased ==
  \A n \in 1 .. MaxCalls : n \in Call ~> n \in Call /\ calls[n].callback = "deleted"
=============================================================================
