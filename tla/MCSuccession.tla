---------------------------- MODULE MCSuccession ----------------------------
(***************************************************************************)
(* A leader replicates and serves reads while another server stands for    *)
(* the next term, wins and replicates its own log over the old leader's.   *)
(***************************************************************************)
EXTENDS MCLeader, RaftHistory

CONSTANT Second

SuccessionNext ==
  /\ \E s \in Server : \/ OnRequestVote(s) \/ OnAppendEntries(s) \/ OnReadHeartBeat(s)
                       \/ CallFails(s) \/ QuorumTimeout(s) \/ Start(s) \/ ReadIndex(s)
                       \/ \E p \in PeersOf(s) :
                            RequestVoteReturns(s, p) \/ AppendEntriesReturns(s, p)
  /\ RecordVotes

\* Bound: a third entry that is a command, or read rounds, not both.
ReadsApart ==
  \/ readFloor' = << >>
  \/ \A s \in Server : Len(raft'[s].logs) > 2 => raft'[s].logs[3] # raft'[s].logs[2]

\* First's no-op is committed.
SuccessionStart == SuccessionInit(Second) /\ committed = << 1 >>

SuccessionSpec ==
  SuccessionStart /\ [][SuccessionNext /\ ReadsApart /\ RecordCommits]_historyVars

\* With the heartbeat deadlines, which send again what failed.
Beats == (\E s \in Server : HeartbeatTimeout(s)) /\ RecordVotes

BeatingSpec ==
  SuccessionStart /\ [][(SuccessionNext \/ Beats) /\ RecordCommits]_historyVars

\* With readers that join an open round.
Joins == (\E s \in Server : JoinRead(s)) /\ RecordVotes

JoiningSpec ==
  SuccessionStart /\ [][(SuccessionNext \/ Joins) /\ RecordCommits]_historyVars
=============================================================================
