----------------------------- MODULE MCSnapshot -----------------------------
(***************************************************************************)
(* One leader whose followers fall behind its snapshot: log replication,   *)
(* snapshots on both sides, delayed requests, restarts.                    *)
(***************************************************************************)
EXTENDS MCLeader, RaftHistory

SnapshotNext ==
  /\ \E s \in Server : \/ OnAppendEntries(s) \/ OnInstallSnapshot(s) \/ CallFails(s)
                       \/ HeartbeatTimeout(s) \/ Start(s) \/ Snapshot(s) \/ Restart(s)
                       \/ \E p \in PeersOf(s) :
                            AppendEntriesReturns(s, p) \/ InstallSnapshotReturns(s, p)
  /\ RecordVotes

\* First's no-op is committed.
SnapshotInit == LeaderInit /\ committed = << 1 >>

SnapshotSpec == SnapshotInit /\ [][SnapshotNext /\ RecordCommits]_historyVars
=============================================================================
