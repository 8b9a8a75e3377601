----------------------------- MODULE RaftSafety -----------------------------
(***************************************************************************)
(* What the Raft objects of a cluster promise, over the states and steps   *)
(* of module Raft.                                                         *)
(***************************************************************************)
EXTENDS Raft

Status == { Follower, PreCandidate, Candidate, Leader }

Disk ==
  [ currentTerm : Nat, votedFor : Server \cup {Nil}, logs : Seq(Nat),
    lastIncludeSnapshotIndex : Nat, lastIncludeSnapshotTerm : Nat ]

ApplyMsg == [ snapshot : BOOLEAN, index : Nat, term : Nat ]

RaftObject ==
  [ id : Server, aborted : BOOLEAN, persister : Disk, threadPool : SUBSET Task,
    applyQueue : Seq(ApplyMsg),
    currentTerm : Nat, votedFor : Server \cup {Nil}, logs : Seq(Nat),
    lastIncludeSnapshotIndex : Nat, lastIncludeSnapshotTerm : Nat,
    commitIndex : Nat, lastApplied : Nat,
    status : Status, hasLeaderContact : BOOLEAN,
    votesGranted : Nat, electionTerm : Nat,
    preVotesGranted : Nat, preVoteTerm : Nat, preVoteRound : Nat,
    nextIndex : [ Server -> Nat \ {0} ], matchIndex : [ Server -> Nat ],
    replicationInFlight : [ Server -> BOOLEAN ],
    replicationPending : [ Server -> BOOLEAN ],
    currentTermCommitted : BOOLEAN,
    activeRead : PendingReadIndex \cup {Nil}, readIndexPending : [ Server -> Nat ],
    readsAnswered : SUBSET [ round : Nat \ {0}, readIndex : Nat ] ]

\* Every member has its type and every request its sender and an addressee
\* other than the sender.
TypeOK ==
  /\ raft \in [ Server -> RaftObject ]
  /\ \A s \in Server : raft[s].id = s
  /\ \A s \in Server : \A t \in raft[s].threadPool : t.request.from = s /\ t.request.to # s
  /\ late \subseteq Request
  /\ readFloor \in Seq([ Server -> Nat ])
  /\ votes \subseteq Nat \X Server \X Server

-----------------------------------------------------------------------------
(* Elections.                                                              *)

\* No server votes for two candidates in one term, restarts included: the vote
\* is on disk before the reply leaves handleRequestVote or beginElection asks.
VoteOnce ==
  \A v, w \in votes : v[1] = w[1] /\ v[2] = w[2] => v[3] = w[3]

\* Two servers never lead the same term (handleVoteReply counts each grant once
\* and only for the election it was asked in).
ElectionSafety ==
  \A s, r \in Server :
    raft[s].status = Leader /\ raft[r].status = Leader
      /\ raft[s].currentTerm = raft[r].currentTerm => s = r

\* Whenever the event loop is between two handlers, what a restart would read
\* is what the object holds: no handler forgets a persist().
DiskIsCurrent == \A s \in Server : raft[s].persister = PersistData(raft[s])

\* What only a leader may hold dies with its leadership: a commit of its own
\* term (which lets readIndex start) and an active read round of its term.
\* handleAppendEntries changes status without either reset.
LeaderStateOnlyAtLeader ==
  \A s \in Server :
    LET n == raft[s] IN
    /\ n.currentTermCommitted =>
         /\ n.status = Leader
         /\ GetLogTermFromIndex(n, Larger(n.commitIndex, n.lastIncludeSnapshotIndex))
              = n.currentTerm
    /\ n.activeRead # Nil => n.status = Leader /\ n.activeRead.term = n.currentTerm

-----------------------------------------------------------------------------
(* Logs.                                                                   *)

\* Two servers whose logs have an entry of the same term at an index have the
\* same entries before it, committed or not: a follower takes over entries only
\* behind one that matches, and replaces its log at the first that does not.
LogMatching ==
  \A s, r \in Server :
    LET n     == raft[s]
        m     == raft[r]
        first == Larger(n.lastIncludeSnapshotIndex, m.lastIncludeSnapshotIndex)
        last  == Smaller(GetLastLogIndex(n), GetLastLogIndex(m))
    IN  \A i \in first .. last :
          GetLogTermFromIndex(n, i) = GetLogTermFromIndex(m, i) =>
            \A j \in first .. i : GetLogTermFromIndex(n, j) = GetLogTermFromIndex(m, j)

\* What is committed lies in the log or its snapshot, and is applied when the
\* handler that committed it ends.
CommitWithinLog ==
  \A s \in Server :
    LET n == raft[s] IN
    /\ n.lastIncludeSnapshotIndex <= n.commitIndex
    /\ n.commitIndex <= GetLastLogIndex(n)
    /\ n.lastApplied = n.commitIndex

\* No two state machines are handed different entries at an index.
StateMachineSafety ==
  \A s, r \in Server :
    \A i \in 1 .. Len(raft[s].applyQueue), j \in 1 .. Len(raft[r].applyQueue) :
      raft[s].applyQueue[i].index = raft[r].applyQueue[j].index
        => raft[s].applyQueue[i].term = raft[r].applyQueue[j].term

\* A leader holds every entry that a server of its term or an older one knows
\* to be committed.
LeaderCompleteness ==
  \A l, s \in Server :
    raft[l].status = Leader /\ raft[s].currentTerm <= raft[l].currentTerm =>
      /\ raft[s].commitIndex <= GetLastLogIndex(raft[l])
      /\ \A i \in Larger(raft[l].lastIncludeSnapshotIndex, raft[s].lastIncludeSnapshotIndex)
                    .. raft[s].commitIndex :
           GetLogTermFromIndex(raft[s], i) = GetLogTermFromIndex(raft[l], i)

\* What a leader counts as replicated beyond its snapshot, the peer holds as
\* long as it has seen no newer term: an acknowledgement is never credited to
\* entries its request did not carry.  (Below the snapshot the leader may be
\* ahead: handleSnapshotReply credits the snapshot it has now.)
MatchIndexIsHeld ==
  \A l \in Server : \A p \in PeersOf(l) :
    raft[l].status = Leader /\ raft[p].currentTerm = raft[l].currentTerm =>
      \A i \in raft[l].lastIncludeSnapshotIndex + 1 .. raft[l].matchIndex[p] :
        \/ i <= raft[p].lastIncludeSnapshotIndex
        \/ MatchLog(raft[p], i, GetLogTermFromIndex(raft[l], i))

\* The calls to p through which s replicates and reads in its current term.
CallsUnderWay(s, p) ==
  { t \in raft[s].threadPool :
      /\ t.request.kind \in {"AppendEntries", "ReadHeartBeat", "InstallSnapshot"}
      /\ t.request.to = p /\ t.request.term = raft[s].currentTerm }

\* A leader has at most one such call to each peer, and replicationInFlight says
\* whether: a flag left set would silence the leader, one reset too early would
\* let two replies race.
InFlightIsExact ==
  \A s \in Server : \A p \in PeersOf(s) :
    raft[s].status = Leader /\ ~raft[s].aborted =>
      Cardinality(CallsUnderWay(s, p)) = IF raft[s].replicationInFlight[p] THEN 1 ELSE 0

\* A read round that a quorum acknowledged answers no read below what the
\* cluster had committed when it was opened.
ReadRoundIsFresh ==
  \A s, p \in Server : \A a \in raft[s].readsAnswered : a.readIndex >= readFloor[a.round][p]

\* The state machine has what the object says is applied: the last thing it was
\* handed is lastApplied (handleInstallSnapshot raises lastApplied to the
\* snapshot's index, and hands over the snapshot, each on its own condition).
StateMachineIsCurrent ==
  \A s \in Server :
    LET q == raft[s].applyQueue IN
    q # << >> => q[Len(q)].index = raft[s].lastApplied

\* No handler meets an index that getLogTermFromIndex asserts against.
AssertionsHold == \A s \in Server : ~raft[s].aborted

-----------------------------------------------------------------------------
(* Steps.                                                                  *)

\* Nothing a server committed is ever taken back from its log, not even by a
\* restart: it stays there, or in the snapshot, with its term.
CommittedIsKept ==
  [][ \A s \in Server :
        /\ raft[s].commitIndex <= GetLastLogIndex(raft'[s])
        /\ \A i \in raft'[s].lastIncludeSnapshotIndex .. raft[s].commitIndex :
             i >= raft[s].lastIncludeSnapshotIndex =>
               GetLogTermFromIndex(raft'[s], i) = GetLogTermFromIndex(raft[s], i) ]_vars
=============================================================================
