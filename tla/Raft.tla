-------------------------------- MODULE Raft --------------------------------
(***************************************************************************)
(* The Raft objects of a cluster and the calls between them.               *)
(*                                                                         *)
(* raft[s] is the Raft object of server s: its members under their names   *)
(* in the code, without the trailing underscore.  Every handler runs on    *)
(* the object's one event-loop thread from beginning to end, so an action  *)
(* is one handler.  A handler is written as a function from the object     *)
(* before it to the object after it, composed of the functions it calls.   *)
(*                                                                         *)
(* Three members stand for more than a value:                              *)
(*   threadPool  the tasks handed to the pool, each the one remote call it *)
(*               makes: the request and, once the peer has answered, the   *)
(*               reply.  The task ends by posting the outcome back to the  *)
(*               event loop.                                               *)
(*   persister   what readPersist would find on disk.                      *)
(*   applyQueue  everything pushed for the state machine since the object  *)
(*               was constructed.                                          *)
(*                                                                         *)
(* Time is not modelled: a timer may expire whenever the code lets it be   *)
(* armed, a peer may be found silent for too long at any time, a call may  *)
(* time out at any time.                                                   *)
(***************************************************************************)
EXTENDS RaftLog, FiniteSets

CONSTANTS
  Server,           \* the ids in idToAddr
  Nil,              \* no vote, no reply, no active read
  \* What bounds a run.
  MaxTerm,          \* no election beyond this term
  MaxIndex,         \* no client command beyond this log index
  MaxPreVoteRound,  \* pre-vote rounds a Raft object may start
  MaxReadRound,     \* read rounds opened in the whole cluster
  MaxLate,          \* requests under way whose caller has given up
  Impatient,        \* servers whose election timer may expire
  Compacting,       \* servers whose state machine takes snapshots
  Crashing,         \* servers that may be restarted
  Failing,          \* kinds of request whose call may fail or time out
  Flaky,            \* servers the calls to which may
  Overtaken         \* servers where a late request may meet the next stream

ASSUME ServerAssumption == IsFiniteSet(Server) /\ Server # {} /\ Nil \notin Server

ASSUME BoundAssumption ==
  /\ MaxTerm \in Nat /\ MaxIndex \in Nat /\ MaxPreVoteRound \in Nat
  /\ MaxReadRound \in Nat /\ MaxLate \in Nat
  /\ Impatient \subseteq Server /\ Compacting \subseteq Server /\ Crashing \subseteq Server
  /\ Overtaken \subseteq Server

VARIABLES
  raft,       \* the Raft object of every server
  late,       \* requests that may still arrive though nobody awaits the reply
  readFloor,  \* history: every server's commit index when each read round was
              \* opened; its length is the static readIndexRound
  votes       \* history: every vote a server has held, as <<term, voter, candidate>>

vars == << raft, late, readFloor, votes >>

Follower     == "follower"
PreCandidate == "precandidate"
Candidate    == "candidate"
Leader       == "leader"

PeersOf(s) == Server \ {s}
QuorumSize == (Cardinality(Server) \div 2) + 1

-----------------------------------------------------------------------------
(* Requests, replies and tasks.  votestate, status and leaderid are sent   *)
(* but no handler reads them; of a read heartbeat's log fields only the   *)
(* reply to it uses prevLogIndex, if it takes it for one to AppendEntries. *)

PreVoteArgs ==
  [ kind : {"PreVote"}, from : Server, to : Server, term : Nat, round : Nat,
    lastLogIndex : Nat, lastLogTerm : Nat ]
RequestVoteArgs ==
  [ kind : {"RequestVote"}, from : Server, to : Server, term : Nat,
    lastLogIndex : Nat, lastLogTerm : Nat ]
AppendEntriesArgs ==
  [ kind : {"AppendEntries"}, from : Server, to : Server, term : Nat,
    prevLogIndex : Nat, prevLogTerm : Nat, entries : Seq(Nat), leaderCommit : Nat ]
ReadHeartBeatArgs ==
  [ kind : {"ReadHeartBeat"}, from : Server, to : Server, term : Nat,
    prevLogIndex : Nat, readRound : Nat ]
InstallSnapshotArgs ==
  [ kind : {"InstallSnapshot"}, from : Server, to : Server, term : Nat,
    lastSnapshotIncludeIndex : Nat, lastSnapshotIncludeTerm : Nat ]

Request == PreVoteArgs \cup RequestVoteArgs \cup AppendEntriesArgs
             \cup ReadHeartBeatArgs \cup InstallSnapshotArgs

VoteReply == [ term : Nat, granted : BOOLEAN ]    \* of both kinds of vote
AppendEntriesReply ==
  [ term : Nat, success : BOOLEAN, updateNextIndex : Int, readRound : Nat ]
InstallSnapshotReply == [ term : Nat ]

Task ==
       [ request : PreVoteArgs \cup RequestVoteArgs, reply : VoteReply \cup {Nil} ]
  \cup [ request : AppendEntriesArgs \cup ReadHeartBeatArgs,
         reply : AppendEntriesReply \cup {Nil} ]
  \cup [ request : InstallSnapshotArgs, reply : InstallSnapshotReply \cup {Nil} ]

PersistData(n) ==
  [ currentTerm |-> n.currentTerm, votedFor |-> n.votedFor, logs |-> n.logs,
    lastIncludeSnapshotIndex |-> n.lastIncludeSnapshotIndex,
    lastIncludeSnapshotTerm  |-> n.lastIncludeSnapshotTerm ]

Persist(n) == [ n EXCEPT !.persister = PersistData(n) ]

Submit(n, requests) ==
  [ n EXCEPT !.threadPool = @ \cup { [ request |-> q, reply |-> Nil ] : q \in requests } ]

\* The process ends in a failed assertion: nothing of this object runs again.
Abort(n) == [ n EXCEPT !.aborted = TRUE ]

\* The constructor: readPersist, then the volatile members' initial values.
Construct(s, disk) ==
  [ id |-> s, aborted |-> FALSE, persister |-> disk, threadPool |-> {}, applyQueue |-> << >>,
    currentTerm |-> disk.currentTerm, votedFor |-> disk.votedFor, logs |-> disk.logs,
    lastIncludeSnapshotIndex |-> disk.lastIncludeSnapshotIndex,
    lastIncludeSnapshotTerm |-> disk.lastIncludeSnapshotTerm,
    commitIndex |-> disk.lastIncludeSnapshotIndex,
    lastApplied |-> disk.lastIncludeSnapshotIndex,
    status |-> Follower, hasLeaderContact |-> FALSE,
    votesGranted |-> 0, electionTerm |-> 0,
    preVotesGranted |-> 0, preVoteTerm |-> 0, preVoteRound |-> 0,
    nextIndex |-> [ p \in Server |-> 1 ], matchIndex |-> [ p \in Server |-> 0 ],
    replicationInFlight |-> [ p \in Server |-> FALSE ],
    replicationPending |-> [ p \in Server |-> FALSE ],
    currentTermCommitted |-> FALSE,
    activeRead |-> Nil, readIndexPending |-> [ p \in Server |-> 0 ],
    readsAnswered |-> {} ]

EmptyDisk ==
  [ currentTerm |-> 0, votedFor |-> Nil, logs |-> << >>,
    lastIncludeSnapshotIndex |-> 0, lastIncludeSnapshotTerm |-> 0 ]

-----------------------------------------------------------------------------
(* Read rounds.                                                            *)

PendingReadIndex ==
  [ round : Nat \ {0}, term : Nat, readIndex : Nat, acks : SUBSET Server ]

\* No active read is none of them.
ASSUME NilAssumption == Nil \notin PendingReadIndex

\* activeRead is reset and no peer has a heartbeat of its round to send.
ForgetActiveRead(n) ==
  [ n EXCEPT !.activeRead = Nil,
             !.readIndexPending =
               [ p \in Server |-> IF @[p] = n.activeRead.round THEN 0 ELSE @[p] ] ]

\* The callbacks are told that the read failed.
FailAllPendingReadIndex(n) == IF n.activeRead = Nil THEN n ELSE ForgetActiveRead(n)

\* The callbacks are told that the state machine may answer at readIndex.
CompleteActiveRead(n) ==
  [ ForgetActiveRead(n) EXCEPT
      !.readsAnswered = @ \cup { [ round |-> n.activeRead.round,
                                   readIndex |-> n.activeRead.readIndex ] } ]

ReadHeartBeat(n, p, round) ==
  [ kind |-> "ReadHeartBeat", from |-> n.id, to |-> p, term |-> n.currentTerm,
    prevLogIndex |-> n.nextIndex[p] - 1, readRound |-> round ]

\* buildReadHeartBeat asks for the term before nextIndex, which only the part
\* of the log that no snapshot has replaced can give.
ScheduleHeartBeat(n, peers, round) ==
  LET idle == { p \in peers : ~n.replicationInFlight[p] } IN
  IF \E p \in idle : ~IsLogIndex(n, n.nextIndex[p] - 1)
    THEN Abort(n)
    ELSE Submit([ n EXCEPT
                    !.readIndexPending =
                      [ p \in Server |-> IF p \in peers \ idle THEN round ELSE @[p] ],
                    !.replicationInFlight = [ p \in Server |-> @[p] \/ p \in idle ] ],
                { ReadHeartBeat(n, p, round) : p \in idle })

\* Mutant: the read heartbeat that waits is forgotten.
TrySchedulePendingReadHeartBeat_Never(n, p) == n

\* After an answer from p that leaves nothing to replicate to it.
TrySchedulePendingReadHeartBeat(n, p) ==
  LET round == n.readIndexPending[p]
      m     == [ n EXCEPT !.readIndexPending[p] = 0 ]
  IN  IF n.activeRead = Nil \/ n.activeRead.round # round THEN m
      ELSE IF n.replicationInFlight[p] THEN n
      ELSE ScheduleHeartBeat(m, {p}, round)

-----------------------------------------------------------------------------
(* Replication.                                                            *)

\* Everything after nextIndex: there is no limit on the size of a request.
BuildAppendEntries(n, p) ==
  LET prev == n.nextIndex[p] - 1 IN
  [ kind |-> "AppendEntries", from |-> n.id, to |-> p, term |-> n.currentTerm,
    prevLogIndex |-> prev, prevLogTerm |-> GetLogTermFromIndex(n, prev),
    entries |-> EntriesAfter(n, prev), leaderCommit |-> n.commitIndex ]

BuildInstallSnapshot(n, p) ==
  [ kind |-> "InstallSnapshot", from |-> n.id, to |-> p, term |-> n.currentTerm,
    lastSnapshotIncludeIndex |-> n.lastIncludeSnapshotIndex,
    lastSnapshotIncludeTerm |-> n.lastIncludeSnapshotTerm ]

\* One call at a time to each peer; a peer with a call under way is marked.
ScheduleReplication(n, peers) ==
  LET idle == { p \in peers : ~n.replicationInFlight[p] }
      lagging(p) == n.nextIndex[p] <= n.lastIncludeSnapshotIndex
  IN  IF n.status # Leader THEN n
      ELSE Submit([ n EXCEPT
                      !.replicationPending =
                        [ p \in Server |-> IF p \in peers THEN p \notin idle ELSE @[p] ],
                      !.replicationInFlight = [ p \in Server |-> @[p] \/ p \in idle ] ],
                  { IF lagging(p) THEN BuildInstallSnapshot(n, p)
                                  ELSE BuildAppendEntries(n, p) : p \in idle })

ScheduleAllReplication(n) == ScheduleReplication(n, PeersOf(n.id))

\* Mutant: of the commands that are committed together only the last is pushed.
ApplyCommitted_LastOnly(n) ==
  [ n EXCEPT
      !.lastApplied = Larger(@, n.commitIndex),
      !.applyQueue = IF n.commitIndex <= n.lastApplied THEN @
                     ELSE Append(@, [ snapshot |-> FALSE, index |-> n.commitIndex,
                                      term |-> GetLogTermFromIndex(n, n.commitIndex) ]) ]

\* Commands up to commitIndex go to the state machine in log order.
ApplyCommitted(n) ==
  [ n EXCEPT
      !.lastApplied = Larger(@, n.commitIndex),
      !.applyQueue = @ \o [ k \in 1 .. n.commitIndex - n.lastApplied |->
                              [ snapshot |-> FALSE, index |-> n.lastApplied + k,
                                term |-> GetLogTermFromIndex(n, n.lastApplied + k) ] ] ]

Replicated(n, i) == { p \in PeersOf(n.id) : n.matchIndex[p] >= i } \cup {n.id}

\* Mutant: the leader counts itself on top of a quorum that includes it.
Committable_OneShort(n) ==
  { i \in n.commitIndex + 1 .. GetLastLogIndex(n) :
      Cardinality(Replicated(n, i)) + 1 >= QuorumSize
        /\ GetLogTermFromIndex(n, i) = n.currentTerm }

\* The entries of the leader's own term that a quorum is known to hold.
Committable(n) ==
  { i \in n.commitIndex + 1 .. GetLastLogIndex(n) :
      Cardinality(Replicated(n, i)) >= QuorumSize
        /\ GetLogTermFromIndex(n, i) = n.currentTerm }

UpdateCommitIndex(n) ==
  IF Committable(n) = {} THEN n
  ELSE LET newest == CHOOSE i \in Committable(n) : \A j \in Committable(n) : j <= i
       IN  ApplyCommitted([ n EXCEPT !.commitIndex = newest, !.currentTermCommitted = TRUE ])

AppendOwn(n) == Persist([ n EXCEPT !.logs = Append(@, n.currentTerm) ])

-----------------------------------------------------------------------------
(* Roles.                                                                  *)

\* Mutant: what was committed in its term outlives the leadership.
LoseRole_KeepsCommitted(n) ==
  FailAllPendingReadIndex(
    [ n EXCEPT !.status = Follower, !.votesGranted = 0, !.preVotesGranted = 0 ])

LoseRole(n) ==
  FailAllPendingReadIndex(
    [ n EXCEPT !.status = Follower, !.votesGranted = 0, !.preVotesGranted = 0,
               !.currentTermCommitted = FALSE ])

EnterTerm(n, term) == Persist([ n EXCEPT !.currentTerm = term, !.votedFor = Nil ])

BecomeFollower(n, term) == LoseRole(IF term > n.currentTerm THEN EnterTerm(n, term) ELSE n)

StepDown(n) ==
  LoseRole([ n EXCEPT !.replicationPending = [ p \in Server |-> FALSE ],
                      !.replicationInFlight = [ p \in Server |-> FALSE ] ])

\* The no-op is replicated at once but its commit is left to the replies.
BecomeLeader(n) ==
  ScheduleAllReplication(AppendOwn(
    [ n EXCEPT !.status = Leader, !.votesGranted = 0, !.preVotesGranted = 0,
               !.nextIndex = [ p \in Server |-> GetLastLogIndex(n) + 1 ],
               !.matchIndex = [ p \in Server |-> 0 ],
               !.replicationInFlight = [ p \in Server |-> FALSE ],
               !.replicationPending = [ p \in Server |-> FALSE ] ]))

RequestVote(n, p) ==
  [ kind |-> "RequestVote", from |-> n.id, to |-> p, term |-> n.currentTerm,
    lastLogIndex |-> GetLastLogIndex(n), lastLogTerm |-> GetLastLogTerm(n) ]

BeginElection(n) ==
  LET m == Persist([ n EXCEPT !.status = Candidate, !.currentTerm = @ + 1,
                              !.votedFor = n.id, !.votesGranted = 1,
                              !.electionTerm = n.currentTerm + 1 ])
      asked == Submit(m, { RequestVote(m, p) : p \in PeersOf(n.id) })
  IN  IF QuorumSize <= 1 THEN BecomeLeader(asked) ELSE asked

PreVote(n, p) ==
  [ kind |-> "PreVote", from |-> n.id, to |-> p, term |-> n.preVoteTerm,
    round |-> n.preVoteRound,
    lastLogIndex |-> GetLastLogIndex(n), lastLogTerm |-> GetLastLogTerm(n) ]

BeginPreVote(n) ==
  LET m == [ n EXCEPT !.status = PreCandidate, !.preVoteTerm = n.currentTerm + 1,
                      !.preVotesGranted = 1, !.preVoteRound = @ + 1 ]
      asked == Submit(m, { PreVote(m, p) : p \in PeersOf(n.id) })
  IN  IF QuorumSize <= 1 THEN BeginElection(asked) ELSE asked

-----------------------------------------------------------------------------
(* Requests a server handles: the object afterwards and the reply.         *)

Handled(n, reply) == [ object |-> n, reply |-> reply ]

\* Every handler first follows a newer term.
Observe(n, term) == IF term > n.currentTerm THEN BecomeFollower(n, term) ELSE n

\* A pre-vote changes nothing.  recent: a leader was heard of within the last
\* election timeout, which lastLeaderContact cannot say before the first one.
HandlePreVote(n, q, recent) ==
  Handled(n, [ term |-> n.currentTerm,
               granted |-> /\ q.term >= n.currentTerm
                           /\ ~recent
                           /\ WhetherVoteFor(n, q.lastLogIndex, q.lastLogTerm) ])

\* Mutant: a vote already given does not matter.
GrantsVote_Again(n, q) ==
  q.term = n.currentTerm /\ WhetherVoteFor(n, q.lastLogIndex, q.lastLogTerm)

GrantsVote(n, q) ==
  /\ q.term = n.currentTerm
  /\ n.votedFor \in {Nil, q.from}
  /\ WhetherVoteFor(n, q.lastLogIndex, q.lastLogTerm)

\* Mutant: the vote is not saved.
CastVote_NoPersist(n, q) == [ n EXCEPT !.votedFor = q.from ]

CastVote(n, q) == Persist([ n EXCEPT !.votedFor = q.from ])

HandleRequestVote(n, q) ==
  LET m == Observe(n, q.term) IN
  Handled(IF GrantsVote(m, q) THEN CastVote(m, q) ELSE m,
          [ term |-> m.currentTerm, granted |-> GrantsVote(m, q) ])

\* The sender leads this term: whoever it is that this server had hoped for.
FollowLeader(n) == [ n EXCEPT !.status = Follower, !.hasLeaderContact = TRUE ]

\* Mutant: the log is cut behind the request's entries, new or not.
StoreEntries_Always(n, q) ==
  Persist([ n EXCEPT !.logs = MergeEntries(n, q.prevLogIndex, q.entries) ])

StoreEntries(n, q) ==
  IF ExtendsLog(n, q.prevLogIndex, q.entries)
    THEN Persist([ n EXCEPT !.logs = MergeEntries(n, q.prevLogIndex, q.entries) ])
    ELSE n

LearnCommitIndex(n, leaderCommit) ==
  IF leaderCommit > n.commitIndex
    THEN ApplyCommitted([ n EXCEPT !.commitIndex = Smaller(GetLastLogIndex(n), leaderCommit) ])
    ELSE n

\* Mutant: the commit index moves before the entries are compared.
Accept_CommitFirst(n, q) == StoreEntries(LearnCommitIndex(n, q.leaderCommit), q)

Accept(n, q) == LearnCommitIndex(StoreEntries(n, q), q.leaderCommit)

NoSuggestion == -100

HandleAppendEntries(n, q) ==
  LET m == Observe(n, q.term)
      f == FollowLeader(m)
      answer(success, suggestion) ==
        [ term |-> m.currentTerm, success |-> success, updateNextIndex |-> suggestion,
          readRound |-> 0 ]
  IN  CASE q.term < m.currentTerm ->
             Handled(m, answer(FALSE, NoSuggestion))
        [] q.term = m.currentTerm /\ ~MatchLog(f, q.prevLogIndex, q.prevLogTerm) ->
             Handled(f, answer(FALSE, ConflictIndex(f, q.prevLogIndex)))
        [] OTHER ->
             Handled(Accept(f, q), answer(TRUE, NoSuggestion))

\* Only the term is looked at, nothing of the log.
HandleReadHeartBeat(n, q) ==
  LET m == Observe(n, q.term)
      current == q.term = m.currentTerm
  IN  Handled(IF current THEN FollowLeader(m) ELSE m,
              [ term |-> m.currentTerm, success |-> current, readRound |-> q.readRound,
                updateNextIndex |-> IF current THEN NoSuggestion ELSE 100 ])

\* Mutant: the commit index stays behind the snapshot.
InstallNewer_CommitBehind(n, index, term) ==
  LET m == [ n EXCEPT !.logs = LogAfterSnapshot(n, index, term),
                      !.lastIncludeSnapshotIndex = index,
                      !.lastIncludeSnapshotTerm = term,
                      !.lastApplied = Larger(@, index) ]
  IN  [ Persist(m) EXCEPT
          !.applyQueue = Append(@, [ snapshot |-> TRUE, index |-> index, term |-> term ]) ]

\* Mutant: the state machine is not told.
InstallNewer_NotPushed(n, index, term) ==
  Persist([ n EXCEPT !.logs = LogAfterSnapshot(n, index, term),
                     !.lastIncludeSnapshotIndex = index,
                     !.lastIncludeSnapshotTerm = term,
                     !.commitIndex = Larger(@, index),
                     !.lastApplied = Larger(@, index) ])

\* The state machine is handed the snapshot whatever it has applied already.
InstallNewer(n, index, term) ==
  LET m == [ n EXCEPT !.logs = LogAfterSnapshot(n, index, term),
                      !.lastIncludeSnapshotIndex = index,
                      !.lastIncludeSnapshotTerm = term,
                      !.commitIndex = Larger(@, index),
                      !.lastApplied = Larger(@, index) ]
  IN  [ Persist(m) EXCEPT
          !.applyQueue = Append(@, [ snapshot |-> TRUE, index |-> index, term |-> term ]) ]

HandleInstallSnapshot(n, q) ==
  LET m == Observe(n, q.term)
      f == FollowLeader(m)
      index == q.lastSnapshotIncludeIndex
      after == CASE q.term < m.currentTerm -> m
                 [] q.term = m.currentTerm /\ index > m.lastIncludeSnapshotIndex ->
                      InstallNewer(f, index, q.lastSnapshotIncludeTerm)
                 [] OTHER -> f
  IN  Handled(after, [ term |-> m.currentTerm ])

-----------------------------------------------------------------------------
(* Replies a caller handles.                                               *)

HandlePreVoteReply(n, q, reply) ==
  LET counts == /\ n.status = PreCandidate /\ reply.granted
                /\ q.term = n.preVoteTerm /\ q.round = n.preVoteRound
      m == [ n EXCEPT !.preVotesGranted = @ + 1 ]
  IN  CASE reply.term > n.currentTerm -> BecomeFollower(n, reply.term)
        [] reply.term <= n.currentTerm /\ counts ->
             IF m.preVotesGranted >= QuorumSize THEN BeginElection(m) ELSE m
        [] OTHER -> n

HandleVoteReply(n, q, reply) ==
  LET counts == /\ n.status = Candidate /\ reply.granted
                /\ q.term = n.currentTerm /\ n.electionTerm = n.currentTerm
      m == [ n EXCEPT !.votesGranted = @ + 1 ]
  IN  CASE reply.term > n.currentTerm -> BecomeFollower(n, reply.term)
        [] reply.term <= n.currentTerm /\ counts ->
             IF m.votesGranted >= QuorumSize THEN BecomeLeader(m) ELSE m
        [] OTHER -> n

\* The caller still leads the term it asked in.
StillLeads(n, q) == n.status = Leader /\ q.term = n.currentTerm

NotInFlight(n, p) == [ n EXCEPT !.replicationInFlight[p] = FALSE ]

\* After an answer that is no refusal: the log first, a read heartbeat if
\* there is nothing to replicate.
ContinueWith(n, p) ==
  IF n.replicationPending[p] \/ n.nextIndex[p] <= GetLastLogIndex(n)
    THEN ScheduleReplication(n, {p})
    ELSE TrySchedulePendingReadHeartBeat(n, p)

AcknowledgeRead(n, p) ==
  LET m == [ n EXCEPT !.activeRead.acks = @ \cup {p} ] IN
  IF Cardinality(m.activeRead.acks) >= QuorumSize THEN CompleteActiveRead(m) ELSE m

\* Mutant: the follower is taken to hold the log as it is now.
Acknowledge_All(n, p, index) ==
  [ n EXCEPT !.matchIndex[p] = GetLastLogIndex(n), !.nextIndex[p] = GetLastLogIndex(n) + 1 ]

\* The last entry a request of the AppendEntries stream speaks of.
LastEntryOf(q) == q.prevLogIndex + (IF q.kind = "AppendEntries" THEN Len(q.entries) ELSE 0)

Acknowledge(n, p, index) ==
  LET match == Larger(n.matchIndex[p], index) IN
  [ n EXCEPT !.matchIndex[p] = match, !.nextIndex[p] = match + 1 ]

\* Mutant: nothing stops nextIndex at the first entry.
BackUp_NoFloor(n, p, updateNextIndex) ==
  LET asked == IF updateNextIndex = NoSuggestion THEN n.nextIndex[p] - 1 ELSE updateNextIndex
      inLog == Smaller(asked, GetLastLogIndex(n) + 1)
  IN  [ n EXCEPT !.nextIndex[p] = IF inLog >= @ THEN @ - 1 ELSE inLog ]

\* Back to where the follower suggests, in any case back.
BackUp(n, p, updateNextIndex) ==
  LET asked == IF updateNextIndex = NoSuggestion THEN n.nextIndex[p] - 1 ELSE updateNextIndex
      inLog == Larger(1, Smaller(asked, GetLastLogIndex(n) + 1))
  IN  [ n EXCEPT !.nextIndex[p] =
          IF inLog >= n.nextIndex[p] THEN Larger(1, n.nextIndex[p] - 1) ELSE inLog ]

HandleAppendReply(n, q, reply) ==
  LET m == NotInFlight(n, q.to)
      forActiveRead == /\ m.activeRead # Nil
                       /\ m.activeRead.term = q.term
                       /\ m.activeRead.round = reply.readRound
  IN  CASE ~StillLeads(n, q) -> n
        [] StillLeads(n, q) /\ reply.term > n.currentTerm -> BecomeFollower(m, reply.term)
        [] StillLeads(n, q) /\ reply.term = n.currentTerm /\ ~reply.success ->
             ScheduleReplication(BackUp(m, q.to, reply.updateNextIndex), {q.to})
        [] StillLeads(n, q) /\ reply.term = n.currentTerm /\ reply.success
             /\ reply.readRound = 0 ->
             ContinueWith(UpdateCommitIndex(Acknowledge(m, q.to, LastEntryOf(q))), q.to)
        [] StillLeads(n, q) /\ reply.term = n.currentTerm /\ reply.success
             /\ reply.readRound > 0 /\ forActiveRead ->
             ContinueWith(AcknowledgeRead(m, q.to), q.to)
        [] OTHER -> m

\* The follower holds the snapshot the leader has now.
HandleSnapshotReply(n, q, reply) ==
  LET m == NotInFlight(n, q.to)
      a == Acknowledge(m, q.to, n.lastIncludeSnapshotIndex)
  IN  CASE ~StillLeads(n, q) -> n
        [] StillLeads(n, q) /\ reply.term > n.currentTerm -> BecomeFollower(m, reply.term)
        [] StillLeads(n, q) /\ reply.term = n.currentTerm ->
             IF a.replicationPending[q.to] \/ a.nextIndex[q.to] <= GetLastLogIndex(a)
               THEN ScheduleReplication(a, {q.to})
               ELSE a
        [] OTHER -> m

\* Mutant: a call that failed stays under way.
TransportFailed_InFlight(n, q) == n

\* Mutant: read heartbeats are forgotten.
TransportFailed_NotReads(n, q) ==
  IF q.kind \in {"AppendEntries", "InstallSnapshot"} /\ StillLeads(n, q)
    THEN NotInFlight(n, q.to)
    ELSE n

\* transportOk is false.  Only replication remembers that a call was under way.
TransportFailed(n, q) ==
  IF q.kind \in {"AppendEntries", "ReadHeartBeat", "InstallSnapshot"} /\ StillLeads(n, q)
    THEN NotInFlight(n, q.to)
    ELSE n

-----------------------------------------------------------------------------
(* The network: a request is handled at most once, its reply may be lost,  *)
(* and a request may arrive after its caller has given up.  Late requests  *)
(* with the same content are one.                                          *)

Unanswered(q) == [ request |-> q, reply |-> Nil ]

Requests(kind, s) ==
  { q \in late \cup UNION { { t.request : t \in { u \in raft[p].threadPool : u.reply = Nil } }
                            : p \in Server } : q.kind = kind /\ q.to = s }

\* The two kinds of stream: streamServer_ keeps the newest of each from a peer.
Stream(kind) ==
  CASE kind \in {"AppendEntries", "ReadHeartBeat"} -> "AppendEntries"
    [] kind = "InstallSnapshot"                    -> "InstallSnapshot"
    [] OTHER                                       -> Nil

\* The calls whose stream takes the reply to the late request q.
NextOnStream(q) ==
  { t \in raft[q.from].threadPool :
      /\ q.to \in Overtaken /\ Stream(q.kind) # Nil
      /\ t.reply = Nil /\ t.request.to = q.to
      /\ Stream(t.request.kind) = Stream(q.kind) }

\* q.to has handled q.  The reply to a late request goes to the caller's newest
\* stream, if that is on by then: to its request it looks like the answer.
Answer(q, handled) ==
  /\ ~raft[q.to].aborted
  /\ \/ /\ Unanswered(q) \in raft[q.from].threadPool
        /\ raft' = [ raft EXCEPT
                       ![q.to] = handled.object,
                       ![q.from].threadPool =
                         (@ \ { Unanswered(q) })
                           \cup { [ request |-> q, reply |-> handled.reply ] } ]
        /\ UNCHANGED late
     \/ /\ q \in late
        /\ raft' = [ raft EXCEPT ![q.to] = handled.object ]
        /\ late' = late \ {q}
     \/ /\ q \in late
        /\ \E t \in NextOnStream(q) :
             /\ raft' = [ raft EXCEPT
                            ![q.to] = handled.object,
                            ![q.from].threadPool =
                              (@ \ {t}) \cup { [ request |-> t.request,
                                                  reply |-> handled.reply ] } ]
             /\ late' = (late \ {q}) \cup { t.request }
  /\ UNCHANGED readFloor

OnPreVote(s) ==
  \E q \in Requests("PreVote", s) : \E recent \in {FALSE, raft[s].hasLeaderContact} :
    Answer(q, HandlePreVote(raft[s], q, recent))

OnRequestVote(s) ==
  \E q \in Requests("RequestVote", s) : Answer(q, HandleRequestVote(raft[s], q))

OnAppendEntries(s) ==
  \E q \in Requests("AppendEntries", s) : Answer(q, HandleAppendEntries(raft[s], q))

OnReadHeartBeat(s) ==
  \E q \in Requests("ReadHeartBeat", s) : Answer(q, HandleReadHeartBeat(raft[s], q))

OnInstallSnapshot(s) ==
  \E q \in Requests("InstallSnapshot", s) : Answer(q, HandleInstallSnapshot(raft[s], q))

\* s does something that concerns no other server.
Step(s, n) ==
  /\ ~raft[s].aborted
  /\ raft' = [ raft EXCEPT ![s] = n ]

End(n, t) == [ n EXCEPT !.threadPool = @ \ {t} ]

\* The calls of s that p has answered.
Answered(s, p, kinds) ==
  { t \in raft[s].threadPool : t.request.kind \in kinds /\ t.request.to = p /\ t.reply # Nil }

PreVoteReturns(s, p) ==
  \E t \in Answered(s, p, {"PreVote"}) :
    /\ Step(s, HandlePreVoteReply(End(raft[s], t), t.request, t.reply))
    /\ UNCHANGED << late, readFloor >>

RequestVoteReturns(s, p) ==
  \E t \in Answered(s, p, {"RequestVote"}) :
    /\ Step(s, HandleVoteReply(End(raft[s], t), t.request, t.reply))
    /\ UNCHANGED << late, readFloor >>

AppendEntriesReturns(s, p) ==
  \E t \in Answered(s, p, {"AppendEntries", "ReadHeartBeat"}) :
    /\ Step(s, HandleAppendReply(End(raft[s], t), t.request, t.reply))
    /\ UNCHANGED << late, readFloor >>

InstallSnapshotReturns(s, p) ==
  \E t \in Answered(s, p, {"InstallSnapshot"}) :
    /\ Step(s, HandleSnapshotReply(End(raft[s], t), t.request, t.reply))
    /\ UNCHANGED << late, readFloor >>

\* A request that may still be handled after its caller is gone.  A late
\* pre-vote changes nothing, so it need not be remembered.
MayBeLate(t) == t.reply = Nil /\ t.request.kind # "PreVote"

CallFails(s) ==
  \E t \in { u \in raft[s].threadPool : u.request.kind \in Failing /\ u.request.to \in Flaky } :
    /\ Step(s, TransportFailed(End(raft[s], t), t.request))
    /\ \/ UNCHANGED late
       \/ /\ MayBeLate(t)
          /\ Cardinality(late) < MaxLate
          /\ late' = late \cup { t.request }
    /\ UNCHANGED readFloor

-----------------------------------------------------------------------------
(* Timers, clients, the state machine, and restarts.                       *)

ElectionTimeout(s) ==
  /\ s \in Impatient
  /\ raft[s].status # Leader
  /\ raft[s].currentTerm < MaxTerm
  /\ raft[s].preVoteRound < MaxPreVoteRound
  /\ Step(s, BeginPreVote(raft[s]))
  /\ UNCHANGED << late, readFloor >>

HeartbeatTimeout(s) ==
  /\ raft[s].status = Leader
  /\ Step(s, ScheduleAllReplication(raft[s]))
  /\ UNCHANGED << late, readFloor >>

\* Too few peers answered within an election timeout.
QuorumTimeout(s) ==
  /\ raft[s].status = Leader
  /\ \E active \in SUBSET PeersOf(s) : Cardinality(active) + 1 < QuorumSize
  /\ Step(s, StepDown(raft[s]))
  /\ UNCHANGED << late, readFloor >>

\* start(): a client command.  Anyone but a leader only answers "not leader".
Start(s) ==
  /\ raft[s].status = Leader
  /\ GetLastLogIndex(raft[s]) < MaxIndex
  /\ Step(s, ScheduleAllReplication(UpdateCommitIndex(AppendOwn(raft[s]))))
  /\ UNCHANGED << late, readFloor >>

\* Mutant: reads start before the leader has committed anything in its term.
MayOpenRead_Early(n) == n.status = Leader /\ n.activeRead = Nil

MayOpenRead(n) == n.status = Leader /\ n.currentTermCommitted /\ n.activeRead = Nil

OpenRead(n, round) ==
  ScheduleHeartBeat(
    [ n EXCEPT !.activeRead = [ round |-> round, term |-> n.currentTerm,
                                readIndex |-> n.commitIndex, acks |-> {n.id} ] ],
    PeersOf(n.id), round)

\* readIndex() that opens a round.  A call that is refused changes nothing.
ReadIndex(s) ==
  LET round == Len(readFloor) + 1 IN
  /\ MayOpenRead(raft[s])
  /\ round <= MaxReadRound
  /\ Step(s, OpenRead(raft[s], round))
  /\ readFloor' = Append(readFloor, [ p \in Server |-> raft[p].commitIndex ])
  /\ UNCHANGED late

\* readIndex() during a round: the caller joins it and will be answered with its
\* read index.
JoinRead(s) ==
  /\ raft[s].status = Leader /\ raft[s].currentTermCommitted /\ raft[s].activeRead # Nil
  /\ Step(s, raft[s])
  /\ readFloor' = [ r \in 1 .. Len(readFloor) |->
                      IF r = raft[s].activeRead.round
                        THEN [ p \in Server |-> Larger(readFloor[r][p], raft[p].commitIndex) ]
                        ELSE readFloor[r] ]
  /\ UNCHANGED late

\* Mutant: the shortened log is not saved with the snapshot.
DoSnapshot_NoPersist(n, i) ==
  [ n EXCEPT !.logs = EntriesAfter(n, i), !.lastIncludeSnapshotIndex = i,
             !.lastIncludeSnapshotTerm = GetLogTermFromIndex(n, i),
             !.lastApplied = Larger(@, i) ]

\* The term of the snapshot's last entry must be in the log.
DoSnapshot(n, i) ==
  IF ~IsLogIndex(n, i) THEN Abort(n)
  ELSE Persist([ n EXCEPT !.logs = EntriesAfter(n, i), !.lastIncludeSnapshotIndex = i,
                          !.lastIncludeSnapshotTerm = GetLogTermFromIndex(n, i),
                          !.lastApplied = Larger(@, i) ])

\* snapshot() by the state machine, of what it has applied.
Snapshot(s) ==
  /\ s \in Compacting
  /\ \E i \in raft[s].lastIncludeSnapshotIndex + 1 .. raft[s].commitIndex :
       Step(s, DoSnapshot(raft[s], i))
  /\ UNCHANGED << late, readFloor >>

\* The process is gone, its disk remains; a new Raft object reads it.
Restart(s) ==
  /\ s \in Crashing
  /\ raft' = [ raft EXCEPT ![s] = Construct(s, @.persister) ]
  /\ \E sent \in SUBSET { t.request : t \in { u \in raft[s].threadPool : MayBeLate(u) } } :
       /\ Cardinality(late \cup sent) <= MaxLate
       /\ late' = late \cup sent
  /\ UNCHANGED readFloor

-----------------------------------------------------------------------------
VotesHeld(objects) ==
  { << objects[s].currentTerm, s, objects[s].votedFor >> :
      s \in { v \in Server : objects[v].votedFor # Nil } }

Init ==
  /\ raft = [ s \in Server |-> Construct(s, EmptyDisk) ]
  /\ late = {}
  /\ readFloor = << >>
  /\ votes = {}

Receives(s) ==
  \/ OnPreVote(s) \/ OnRequestVote(s) \/ OnAppendEntries(s) \/ OnReadHeartBeat(s)
  \/ OnInstallSnapshot(s)

Returns(s) ==
  \E p \in PeersOf(s) : \/ PreVoteReturns(s, p) \/ RequestVoteReturns(s, p)
                        \/ AppendEntriesReturns(s, p) \/ InstallSnapshotReturns(s, p)

Acts(s) ==
  \/ ElectionTimeout(s) \/ HeartbeatTimeout(s) \/ QuorumTimeout(s)
  \/ Start(s) \/ ReadIndex(s) \/ JoinRead(s) \/ Snapshot(s) \/ Restart(s)

RecordVotes == votes' = votes \cup VotesHeld(raft')

Next ==
  /\ \E s \in Server : Receives(s) \/ Returns(s) \/ CallFails(s) \/ Acts(s)
  /\ RecordVotes

Spec == Init /\ [][Next]_vars
=============================================================================
