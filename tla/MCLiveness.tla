----------------------------- MODULE MCLiveness -----------------------------
(***************************************************************************)
(* What an undisturbed leader gets done once calls stop failing.           *)
(*                                                                         *)
(* Fairness: the event loop takes every event posted to it, so a request   *)
(* that arrived is answered and a reply that arrived is handled; the       *)
(* leader's heartbeat deadline passes again and again, whatever calls are  *)
(* under way; the network becomes reliable at some time.  There is at most *)
(* one call to each peer (InFlightIsExact), so fairness for each peer is   *)
(* fairness for each call.  No client is obliged to call, no state machine *)
(* to take a snapshot.                                                     *)
(***************************************************************************)
EXTENDS MCLeader

CONSTANT Far     \* followers to which read heartbeats may be lost

ASSUME FarAssumption == Far \subseteq Server \ {First}

VARIABLE reliable     \* no call fails any more

allVars == << vars, reliable >>

Followers == PeersOf(First)

ReceivesFromLeader(p) ==
  OnAppendEntries(p) \/ OnReadHeartBeat(p) \/ OnInstallSnapshot(p)

ReturnsToLeader(p) == AppendEntriesReturns(First, p) \/ InstallSnapshotReturns(First, p)

\* The call to p is answered, or its answer handled.
CallRuns(p) ==
  /\ ReceivesFromLeader(p) \/ ReturnsToLeader(p)
  /\ RecordVotes /\ UNCHANGED reliable

Beat == HeartbeatTimeout(First) /\ RecordVotes /\ UNCHANGED reliable

Clients ==
  /\ Start(First) \/ ReadIndex(First) \/ \E s \in Server : Snapshot(s)
  /\ RecordVotes /\ UNCHANGED reliable

IsNearRead(t) == t.request.kind = "ReadHeartBeat" /\ t.request.to \notin Far

LeaderCallFails ==
  /\ ~reliable /\ CallFails(First)
  /\ \A t \in raft[First].threadPool \ raft'[First].threadPool : ~IsNearRead(t)
  /\ RecordVotes /\ UNCHANGED reliable

BecomesReliable == reliable' = TRUE /\ UNCHANGED vars

Exchange ==
  \/ Clients
  \/ LeaderCallFails \/ BecomesReliable
  \/ \E p \in Followers : CallRuns(p)

LivenessInit == LeaderInit /\ reliable = FALSE

LeaderSpec == LivenessInit /\ [][Exchange \/ Beat]_allVars

\* Read rounds are opened or snapshots taken, not both: a read round that meets
\* a follower behind the leader's snapshot ends the leader (AssertionsHold).
ReadsApart == readFloor' = << >> \/ \A s \in Server : raft'[s].lastIncludeSnapshotIndex = 0

\* Weak fairness of CallRuns(p), with its ENABLED written out: a call to p that is
\* under way can always go on.
CallIsFair(p) ==
  \/ []<>(\A t \in raft[First].threadPool : t.request.to # p)
  \/ []<><< CallRuns(p) >>_allVars

StableSpec ==
  /\ LivenessInit
  /\ [][(Exchange \/ Beat) /\ ReadsApart]_allVars
  /\ \A p \in Followers : CallIsFair(p)
  /\ WF_allVars(BecomesReliable) /\ WF_allVars(Beat)

\* In the end every server has committed the same, the followers by hearing it
\* from the leader (scheduleAllReplication at every heartbeat deadline), however
\* many deadlines pass during a call.
FollowersCatchUp == <>[](\A s, r \in Server : raft[s].commitIndex = raft[r].commitIndex)

\* Again and again a call to p ends with nothing more to send to p.
IsIdleAgain(p) == []<>(~raft[First].replicationInFlight[p])

\* Every read round that is opened is answered, and with the bound on their
\* number so is the last, if the leader is idle again and again with a follower
\* to which no read heartbeat is lost: log entries go first
\* (trySchedulePendingReadHeartBeat), but a read heartbeat that waits for them is
\* sent, and a minority that does not answer holds nothing up.
EveryReadIsAnswered ==
  (\E p \in Followers \ Far : IsIdleAgain(p)) => <>[](raft[First].activeRead = Nil)

\* Without that: deadlines that pass during every call put the read off for ever.
EveryReadIsAnsweredAnyway == <>[](raft[First].activeRead = Nil)
=============================================================================
