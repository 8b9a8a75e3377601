--------------------------- MODULE RaftLeader_proofs ----------------------------
(*****************************************************************************)
(* What a leader keeps about its own rule: one call at a time to each peer,  *)
(* as replicationInFlight says; commits and reads of its term that end with  *)
(* it; and read rounds that answer with all that any server had committed    *)
(* when they were opened, since a leader with a commit of its own term knows *)
(* what older ones committed, and a newer one has a quorum that confirms no  *)
(* round of an older term.                                                   *)
(*****************************************************************************)
EXTENDS RaftAgreement_proofs

\* The calls of n's term to p that share its replication stream.
StreamCalls(n, p) ==
  { t \in n.threadPool : /\ t.request.kind \in StreamKind
                         /\ t.request.to = p /\ t.request.term = n.currentTerm }

\* One such call is under way, or none, as replicationInFlight says.
FlagIsExact(n, p) ==
  IF n.replicationInFlight[p]
    THEN \E t : StreamCalls(n, p) = {t}
    ELSE StreamCalls(n, p) = {}

OneAtATime(n) == n.status = Leader /\ ~n.aborted => \A p \in PeersOf(n.id) : FlagIsExact(n, p)

\* What is in the snapshot is committed.
Covers(n) == n.lastIncludeSnapshotIndex <= n.commitIndex

\* A commit and a read of n's term are a leader's.
Reigns(n) ==
  /\ n.currentTermCommitted =>
       /\ n.status = Leader /\ n.commitIndex <= GetLastLogIndex(n)
       /\ GetLogTermFromIndex(n, n.commitIndex) = n.currentTerm
  /\ n.activeRead # Nil => n.status = Leader /\ n.activeRead.term = n.currentTerm

\* The inductive invariant of one object.
Office(n) == OneAtATime(n) /\ Covers(n) /\ Reigns(n)

-----------------------------------------------------------------------------
(* What keeps it.                                                          *)

\* An object out of office has neither a commit of its term nor a read.
LEMMA OutOfOffice ==
  ASSUME NEW n \in RaftObject, n.status # Leader
  PROVE  Office(n) <=> Covers(n) /\ ~n.currentTermCommitted /\ n.activeRead = Nil
  <1>1. n.currentTermCommitted \in BOOLEAN  BY DEF RaftObject
  <1> QED BY <1>1 DEF Office, OneAtATime, Reigns

\* m's calls are n's, and it says of them what n says.
SameCalls(n, m) ==
  /\ m.id = n.id /\ m.status = n.status /\ m.currentTerm = n.currentTerm
  /\ m.threadPool = n.threadPool /\ m.replicationInFlight = n.replicationInFlight
  /\ n.aborted => m.aborted

\* m's commits and reads are n's, or it has dropped the read.
SameReign(n, m) ==
  /\ m.status = n.status /\ m.currentTerm = n.currentTerm
  /\ SameLog(n, m) /\ m.commitIndex = n.commitIndex
  /\ m.currentTermCommitted = n.currentTermCommitted
  /\ m.activeRead # Nil => n.activeRead # Nil /\ m.activeRead.term = n.activeRead.term

\* Only pool, flags, term and role matter to the calls.
LEMMA SameCallsKeep ==
  ASSUME NEW n, NEW m, SameCalls(n, m), OneAtATime(n)
  PROVE  OneAtATime(m)
  <1>1. \A p : StreamCalls(m, p) = StreamCalls(n, p)  BY DEF SameCalls, StreamCalls
  <1>2. \A p : FlagIsExact(n, p) => FlagIsExact(m, p)
    BY <1>1 DEF SameCalls, FlagIsExact
  <1> QED BY <1>2 DEF SameCalls, OneAtATime

\* And log, commit index, term and role to commits and reads.
LEMMA SameReignKeeps ==
  ASSUME NEW n, NEW m, SameReign(n, m), Reigns(n), Covers(n)
  PROVE  Reigns(m) /\ Covers(m)
  <1>1. /\ GetLastLogIndex(m) = GetLastLogIndex(n)
        /\ GetLogTermFromIndex(m, m.commitIndex) = GetLogTermFromIndex(n, n.commitIndex)
    BY DEF SameReign, SameLog, GetLastLogIndex, GetLogTermFromIndex, GetSlicesIndexFromLogIndex
  <1> QED BY <1>1 DEF SameReign, SameLog, Reigns, Covers

\* An object alike in both keeps the invariant.
LEMMA SameOffice ==
  ASSUME NEW n, NEW m, SameCalls(n, m), SameReign(n, m), Office(n)
  PROVE  Office(m)
  BY SameCallsKeep, SameReignKeeps DEF Office

\* Calls that begin to peers without one, one to each, and are marked.
LEMMA CallsBegin ==
  ASSUME NEW n \in RaftObject, NEW m, OneAtATime(n), NEW idle, idle \subseteq Server,
         \A p \in idle : ~n.replicationInFlight[p],
         m.id = n.id, m.status = n.status, m.currentTerm = n.currentTerm, n.aborted => m.aborted,
         m.replicationInFlight = [ p \in Server |-> n.replicationInFlight[p] \/ p \in idle ],
         NEW f,
         m.threadPool = n.threadPool \cup { Unanswered(f[p]) : p \in idle },
         \A p \in idle : f[p].kind \in StreamKind /\ f[p].to = p /\ f[p].term = n.currentTerm
  PROVE  OneAtATime(m)
  <1> SUFFICES ASSUME n.status = Leader, ~n.aborted, NEW p \in PeersOf(n.id), FlagIsExact(n, p)
               PROVE  FlagIsExact(m, p)
    BY DEF OneAtATime
  <1>0. p \in Server  BY DEF PeersOf
  <1>1. \A x \in idle : Unanswered(f[x]).request = f[x]  BY DEF Unanswered
  <1>2. CASE p \in idle
    <2>1. StreamCalls(n, p) = {}  BY <1>2 DEF FlagIsExact
    <2>2. StreamCalls(m, p) = { Unanswered(f[p]) }
      <3>1. ASSUME NEW t \in StreamCalls(m, p)  PROVE t = Unanswered(f[p])
        <4>1. t \notin n.threadPool  BY <2>1 DEF StreamCalls
        <4>2. PICK x \in idle : t = Unanswered(f[x])  BY <4>1 DEF StreamCalls
        <4>3. x = p  BY <1>1, <4>2 DEF StreamCalls
        <4> QED BY <4>2, <4>3
      <3>2. Unanswered(f[p]) \in StreamCalls(m, p)  BY <1>1, <1>2 DEF StreamCalls
      <3> QED BY <3>1, <3>2
    <2>3. m.replicationInFlight[p]  BY <1>0, <1>2
    <2> QED BY <2>2, <2>3 DEF FlagIsExact
  <1>3. CASE p \notin idle
    <2>1. StreamCalls(m, p) = StreamCalls(n, p)
      <3>1. ASSUME NEW t \in StreamCalls(m, p)  PROVE t \in n.threadPool
        <4>1. SUFFICES ASSUME NEW x \in idle, t = Unanswered(f[x])  PROVE FALSE
          BY DEF StreamCalls
        <4> QED BY <1>1, <1>3, <4>1 DEF StreamCalls
      <3> QED BY <3>1 DEF StreamCalls
    <2>2. m.replicationInFlight[p] = n.replicationInFlight[p]
      <3>1. n.replicationInFlight[p] \in BOOLEAN  BY <1>0, FieldTypes
      <3> QED BY <1>0, <1>3, <3>1
    <2> QED BY <2>1, <2>2 DEF FlagIsExact
  <1> QED BY <1>2, <1>3

-----------------------------------------------------------------------------
(* Reads and replication.                                                  *)

\* Dropping or answering the active read.
LEMMA ReadsOffice ==
  ASSUME NEW n \in RaftObject, Office(n)
  PROVE  Office(ForgetActiveRead(n)) /\ Office(FailAllPendingReadIndex(n))
           /\ Office(CompleteActiveRead(n))
  <1>1. SameCalls(n, ForgetActiveRead(n)) /\ SameReign(n, ForgetActiveRead(n))
    BY DEF RaftObject, ForgetActiveRead, SameCalls, SameReign, SameLog
  <1>2. SameCalls(n, CompleteActiveRead(n)) /\ SameReign(n, CompleteActiveRead(n))
    BY DEF RaftObject, ForgetActiveRead, CompleteActiveRead, SameCalls, SameReign, SameLog
  <1> QED BY <1>1, <1>2, SameOffice DEF FailAllPendingReadIndex

\* A failed assertion.
LEMMA AbortOffice ==
  ASSUME NEW n \in RaftObject, Office(n)
  PROVE  Office(Abort(n))
  <1>1. SameCalls(n, Abort(n)) /\ SameReign(n, Abort(n))
    BY DEF RaftObject, Abort, SameCalls, SameReign, SameLog
  <1> QED BY <1>1, SameOffice

\* scheduleHeartBeatReadIndex calls the peers that have no call under way.
LEMMA ScheduleHeartBeatOffice ==
  ASSUME NEW n \in RaftObject, Office(n), NEW peers, peers \subseteq Server, NEW round
  PROVE  Office(ScheduleHeartBeat(n, peers, round))
  <1> DEFINE idle == { p \in peers : ~n.replicationInFlight[p] }
             pending == [ p \in Server |-> IF p \in peers \ idle THEN round ELSE n.readIndexPending[p] ]
             inFlight == [ p \in Server |-> n.replicationInFlight[p] \/ p \in idle ]
             f == [ p \in idle |-> ReadHeartBeat(n, p, round) ]
             k == [ n EXCEPT !.readIndexPending = pending, !.replicationInFlight = inFlight ]
             m == Submit(k, { ReadHeartBeat(n, p, round) : p \in idle })
  <1>1. CASE \E p \in idle : ~IsLogIndex(n, n.nextIndex[p] - 1)
    BY <1>1, AbortOffice DEF ScheduleHeartBeat
  <1>2. CASE \A p \in idle : IsLogIndex(n, n.nextIndex[p] - 1)
    <2>1. ScheduleHeartBeat(n, peers, round) = m
      BY <1>2 DEF ScheduleHeartBeat, RaftObject
    <2>7. PICK Q : Q = { ReadHeartBeat(n, p, round) : p \in idle }  OBVIOUS
    <2>8. { Unanswered(q) : q \in Q } = { Unanswered(f[p]) : p \in idle }  BY <2>7
    <2>2. /\ m.id = n.id /\ m.status = n.status /\ m.currentTerm = n.currentTerm
          /\ m.aborted = n.aborted /\ m.replicationInFlight = inFlight
          /\ m.threadPool = n.threadPool \cup { Unanswered(f[p]) : p \in idle }
          /\ SameReign(n, m)
      <3> HIDE DEF f, inFlight, pending, idle
      <3>1. m = Submit(k, Q)  BY <2>7
      <3>2. Submit(k, Q) = [ k EXCEPT !.threadPool = @ \cup { Unanswered(q) : q \in Q } ]
        BY DEF Submit, Unanswered
      <3> HIDE DEF m
      <3> QED BY ZenonT(30), <2>8, <3>1, <3>2 DEF RaftObject, SameReign, SameLog
    <2>3. \A p \in idle : f[p].kind \in StreamKind /\ f[p].to = p /\ f[p].term = n.currentTerm
      BY DEF ReadHeartBeat, StreamKind
    <2>4. idle \subseteq Server /\ \A p \in idle : ~n.replicationInFlight[p]  OBVIOUS
    <2>5. inFlight = [ p \in Server |-> n.replicationInFlight[p] \/ p \in idle ]  OBVIOUS
    <2> HIDE DEF m, f, idle, inFlight
    <2>6. OneAtATime(m)  BY SMTT(30), <2>2, <2>3, <2>4, <2>5, CallsBegin DEF Office
    <2> QED BY <2>1, <2>2, <2>6, SameReignKeeps DEF Office
  <1> QED BY <1>1, <1>2

\* trySchedulePendingReadHeartBeat calls at most one peer.
LEMMA TrySchedulePendingReadHeartBeatOffice ==
  ASSUME NEW n \in RaftObject, Office(n), NEW p \in Server
  PROVE  Office(TrySchedulePendingReadHeartBeat(n, p))
  <1> DEFINE round == n.readIndexPending[p]
             m == [ n EXCEPT !.readIndexPending[p] = 0 ]
  <1>1. m \in RaftObject /\ SameCalls(n, m) /\ SameReign(n, m)
    BY ZenonT(30) DEF RaftObject, SameCalls, SameReign, SameLog
  <1>2. TrySchedulePendingReadHeartBeat(n, p) \in { m, n, ScheduleHeartBeat(m, {p}, round) }
    BY DEF TrySchedulePendingReadHeartBeat
  <1> HIDE DEF m, round
  <1>3. Office(m)  BY <1>1, SameOffice
  <1>4. Office(ScheduleHeartBeat(m, {p}, round))  BY <1>1, <1>3, ScheduleHeartBeatOffice
  <1> QED BY <1>2, <1>3, <1>4

\* scheduleReplication calls the peers that have no call under way.
LEMMA ScheduleReplicationOffice ==
  ASSUME NEW n \in RaftObject, Office(n), NEW peers, peers \subseteq Server
  PROVE  Office(ScheduleReplication(n, peers))
  <1> DEFINE idle == { p \in peers : ~n.replicationInFlight[p] }
             pending == [ p \in Server |-> IF p \in peers THEN p \notin idle ELSE n.replicationPending[p] ]
             inFlight == [ p \in Server |-> n.replicationInFlight[p] \/ p \in idle ]
             f == [ p \in idle |-> IF n.nextIndex[p] <= n.lastIncludeSnapshotIndex
                                     THEN BuildInstallSnapshot(n, p) ELSE BuildAppendEntries(n, p) ]
             k == [ n EXCEPT !.replicationPending = pending, !.replicationInFlight = inFlight ]
             m == Submit(k, { f[p] : p \in idle })
  <1>1. CASE n.status # Leader
    BY <1>1 DEF ScheduleReplication
  <1>2. CASE n.status = Leader
    <2>1. ScheduleReplication(n, peers) = m
      <3>1. { IF n.nextIndex[p] <= n.lastIncludeSnapshotIndex
                THEN BuildInstallSnapshot(n, p) ELSE BuildAppendEntries(n, p) : p \in idle }
            = { f[p] : p \in idle }
        OBVIOUS
      <3> HIDE DEF f
      <3> QED BY <1>2, <3>1 DEF ScheduleReplication, RaftObject
    <2>2. \A p \in idle : f[p].kind \in StreamKind /\ f[p].to = p /\ f[p].term = n.currentTerm
      BY DEF BuildInstallSnapshot, BuildAppendEntries, StreamKind
    <2> HIDE DEF f
    <2>7. PICK Q : Q = { f[p] : p \in idle }  OBVIOUS
    <2>8. { Unanswered(q) : q \in Q } = { Unanswered(f[p]) : p \in idle }  BY <2>7
    <2>3. /\ m.id = n.id /\ m.status = n.status /\ m.currentTerm = n.currentTerm
          /\ m.aborted = n.aborted /\ m.replicationInFlight = inFlight
          /\ m.threadPool = n.threadPool \cup { Unanswered(f[p]) : p \in idle }
          /\ SameReign(n, m)
      <3> HIDE DEF inFlight, pending, idle
      <3>1. m = Submit(k, Q)  BY <2>7
      <3>2. Submit(k, Q) = [ k EXCEPT !.threadPool = @ \cup { Unanswered(q) : q \in Q } ]
        BY DEF Submit, Unanswered
      <3> HIDE DEF m
      <3> QED BY ZenonT(30), <2>8, <3>1, <3>2 DEF RaftObject, SameReign, SameLog
    <2>4. idle \subseteq Server /\ \A p \in idle : ~n.replicationInFlight[p]  OBVIOUS
    <2>5. inFlight = [ p \in Server |-> n.replicationInFlight[p] \/ p \in idle ]  OBVIOUS
    <2> HIDE DEF m, idle, inFlight
    <2>6. OneAtATime(m)  BY SMTT(30), <2>2, <2>3, <2>4, <2>5, CallsBegin DEF Office
    <2> QED BY <2>1, <2>3, <2>6, SameReignKeeps DEF Office
  <1> QED BY <1>1, <1>2

\* What follows an answer that is no refusal.
LEMMA ContinueWithOffice ==
  ASSUME NEW n \in RaftObject, Office(n), NEW p \in Server
  PROVE  Office(ContinueWith(n, p))
  BY ScheduleReplicationOffice, TrySchedulePendingReadHeartBeatOffice DEF ContinueWith

-----------------------------------------------------------------------------
(* Committing and appending.                                               *)

\* The term at an index that a log with one entry more has as well.
LEMMA AppendedTerm ==
  ASSUME NEW n \in RaftObject, NEW m, m.logs = Append(n.logs, n.currentTerm),
         m.lastIncludeSnapshotIndex = n.lastIncludeSnapshotIndex,
         m.lastIncludeSnapshotTerm = n.lastIncludeSnapshotTerm,
         NEW i \in Nat, IsLogIndex(n, i)
  PROVE  /\ GetLogTermFromIndex(m, i) = GetLogTermFromIndex(n, i)
         /\ GetLastLogIndex(m) = GetLastLogIndex(n) + 1
  <1>1. n.logs \in Seq(Nat) /\ n.currentTerm \in Nat /\ n.lastIncludeSnapshotIndex \in Nat
        /\ Len(n.logs) \in Nat
    BY FieldTypes, LogTypes
  <1>2. /\ Len(m.logs) = Len(n.logs) + 1
        /\ \A k \in 1 .. Len(n.logs) : m.logs[k] = n.logs[k]
    BY <1>1
  <1>3. i # n.lastIncludeSnapshotIndex => i - n.lastIncludeSnapshotIndex \in 1 .. Len(n.logs)
    BY <1>1 DEF IsLogIndex, GetLastLogIndex
  <1>4. GetLastLogIndex(m) = GetLastLogIndex(n) + 1
    <2>1. PICK k \in Nat : k = Len(n.logs)  BY <1>1
    <2>2. PICK j \in Nat : j = n.lastIncludeSnapshotIndex  BY <1>1
    <2>3. GetLastLogIndex(m) = j + (k + 1) /\ GetLastLogIndex(n) = j + k
      BY <1>2, <2>1, <2>2 DEF GetLastLogIndex
    <2> QED BY <2>3
  <1>5. GetLogTermFromIndex(m, i) = GetLogTermFromIndex(n, i)
    BY <1>2, <1>3 DEF GetLogTermFromIndex, GetSlicesIndexFromLogIndex
  <1> QED BY <1>4, <1>5

\* A leader's own entry comes after what it has committed.
LEMMA AppendOwnOffice ==
  ASSUME NEW n \in RaftObject, Office(n)
  PROVE  Office(AppendOwn(n))
  <1> DEFINE m == AppendOwn(n)
  <1>1. /\ SameCalls(n, m) /\ m.commitIndex = n.commitIndex
        /\ m.currentTermCommitted = n.currentTermCommitted /\ m.activeRead = n.activeRead
        /\ m.logs = Append(n.logs, n.currentTerm)
        /\ m.lastIncludeSnapshotIndex = n.lastIncludeSnapshotIndex
        /\ m.lastIncludeSnapshotTerm = n.lastIncludeSnapshotTerm
    BY DEF RaftObject, AppendOwn, Persist, SameCalls
  <1> HIDE DEF m
  <1>2. OneAtATime(m)  BY <1>1, SameCallsKeep DEF Office
  <1>3. Covers(m)  BY <1>1 DEF Office, Covers
  <1>4. Reigns(m)
    <2>1. n.commitIndex \in Nat /\ n.lastIncludeSnapshotIndex \in Nat /\ GetLastLogIndex(n) \in Nat
      BY FieldTypes, LogTypes
    <2>2. n.currentTermCommitted => IsLogIndex(n, n.commitIndex)
      BY DEF Office, Covers, Reigns, IsLogIndex
    <2>3. n.currentTermCommitted =>
            /\ GetLogTermFromIndex(m, n.commitIndex) = GetLogTermFromIndex(n, n.commitIndex)
            /\ GetLastLogIndex(m) = GetLastLogIndex(n) + 1
      BY <1>1, <2>1, <2>2, AppendedTerm
    <2> QED BY <1>1, <2>1, <2>3 DEF Office, Reigns, SameCalls
  <1> QED BY <1>2, <1>3, <1>4 DEF Office, m

\* applyCommitted touches neither calls nor reads.
LEMMA ApplyCommittedSame ==
  ASSUME NEW n \in RaftObject
  PROVE  SameCalls(n, ApplyCommitted(n)) /\ SameReign(n, ApplyCommitted(n))
  BY DEF RaftObject, ApplyCommitted, SameCalls, SameReign, SameLog

\* What updateCommitIndex commits is of the leader's term.
LEMMA UpdateCommitIndexOffice ==
  ASSUME NEW n \in RaftObject, Office(n), n.status = Leader
  PROVE  Office(UpdateCommitIndex(n))
  <1>1. CASE Committable(n) = {}
    BY <1>1 DEF UpdateCommitIndex
  <1>2. CASE Committable(n) # {}
    <2> DEFINE newest == CHOOSE i \in Committable(n) : \A j \in Committable(n) : j <= i
    <2>0. n.commitIndex \in Nat /\ GetLastLogIndex(n) \in Nat /\ n.lastIncludeSnapshotIndex \in Nat
      BY FieldTypes, LogTypes
    <2>1. newest \in Committable(n)
      <3>1. Committable(n) \subseteq 0 .. GetLastLogIndex(n)
        BY <2>0 DEF Committable
      <3>2. \E i \in Committable(n) : \A j \in Committable(n) : j <= i
        BY <1>2, <2>0, <3>1, Largest
      <3> QED BY <3>2
    <2>2. UpdateCommitIndex(n) =
            ApplyCommitted([ n EXCEPT !.commitIndex = newest, !.currentTermCommitted = TRUE ])
      BY <1>2 DEF UpdateCommitIndex
    <2> HIDE DEF newest
    <2>3. /\ newest \in Nat /\ newest > n.commitIndex /\ newest <= GetLastLogIndex(n)
          /\ GetLogTermFromIndex(n, newest) = n.currentTerm
      BY <2>0, <2>1 DEF Committable
    <2> DEFINE k == [ n EXCEPT !.commitIndex = newest, !.currentTermCommitted = TRUE ]
    <2>4. /\ k \in RaftObject /\ SameCalls(n, k) /\ SameLog(n, k) /\ k.commitIndex = newest
          /\ k.activeRead = n.activeRead
      BY ZenonT(30), <2>3 DEF RaftObject, SameCalls, SameLog
    <2> HIDE DEF k
    <2>5. /\ GetLastLogIndex(k) = GetLastLogIndex(n)
          /\ GetLogTermFromIndex(k, newest) = GetLogTermFromIndex(n, newest)
      BY <2>4 DEF SameLog, GetLastLogIndex, GetLogTermFromIndex, GetSlicesIndexFromLogIndex
    <2>6. Reigns(k)
      BY <2>3, <2>4, <2>5 DEF Reigns, Office, SameCalls
    <2>7. Covers(k)
      BY <2>0, <2>3, <2>4 DEF Covers, Office, SameLog
    <2>8. Office(k)  BY <2>4, <2>6, <2>7, SameCallsKeep DEF Office
    <2>9. Office(ApplyCommitted(k))  BY <2>4, <2>8, ApplyCommittedSame, SameOffice
    <2> QED BY <2>2, <2>9 DEF k
  <1> QED BY <1>1, <1>2

-----------------------------------------------------------------------------
(* Losing and gaining a role.                                              *)

\* Who loses its role forgets what only a leader has.
LEMMA LoseRoleOffice ==
  ASSUME NEW n \in RaftObject, Covers(n)
  PROVE  Office(LoseRole(n))
  <1> DEFINE k == [ n EXCEPT !.status = Follower, !.votesGranted = 0, !.preVotesGranted = 0,
                             !.currentTermCommitted = FALSE ]
  <1>1. /\ k \in RaftObject /\ k.status = Follower /\ ~k.currentTermCommitted
        /\ k.commitIndex = n.commitIndex /\ k.lastIncludeSnapshotIndex = n.lastIncludeSnapshotIndex
    BY ZenonT(30) DEF RaftObject, Status
  <1> HIDE DEF k
  <1> DEFINE m == FailAllPendingReadIndex(k)
  <1>2. /\ m \in RaftObject /\ m.status = Follower /\ ~m.currentTermCommitted
        /\ m.activeRead = Nil /\ m.commitIndex = n.commitIndex
        /\ m.lastIncludeSnapshotIndex = n.lastIncludeSnapshotIndex
    <2>1. m \in RaftObject  BY <1>1, FailAllPendingReadIndexSame
    <2> QED BY <1>1, <2>1 DEF RaftObject, FailAllPendingReadIndex, ForgetActiveRead
  <1>3. LoseRole(n) = m  BY DEF LoseRole, k
  <1> HIDE DEF m
  <1>4. Covers(m)  BY <1>2 DEF Covers
  <1> QED BY <1>2, <1>3, <1>4, OutOfOffice DEF Follower, Leader

\* Following a newer term, and stepping down.
LEMMA BecomeFollowerOffice ==
  ASSUME NEW n, Sound(n), Covers(n), NEW term \in Nat
  PROVE  Office(BecomeFollower(n, term)) /\ Office(StepDown(n))
  <1>0. n \in RaftObject /\ n.currentTerm \in Nat  BY FieldTypes DEF Sound
  <1>1. Office(BecomeFollower(n, term))
    <2>1. CASE term > n.currentTerm
      <3>1. EnterTerm(n, term) \in RaftObject  BY <2>1, EnterTermSound DEF Sound
      <3>2. Covers(EnterTerm(n, term))  BY <1>0 DEF RaftObject, EnterTerm, Persist, Covers
      <3> QED BY <2>1, <3>1, <3>2, LoseRoleOffice DEF BecomeFollower
    <2>2. CASE ~(term > n.currentTerm)
      BY <1>0, <2>2, LoseRoleOffice DEF BecomeFollower
    <2> QED BY <2>1, <2>2
  <1>2. Office(StepDown(n))
    <2> DEFINE k == [ n EXCEPT !.replicationPending = [ p \in Server |-> FALSE ],
                               !.replicationInFlight = [ p \in Server |-> FALSE ] ]
    <2>1. k \in RaftObject /\ Covers(k)
      BY <1>0 DEF RaftObject, Covers
    <2> QED BY <2>1, LoseRoleOffice DEF StepDown
  <1> QED BY <1>1, <1>2

\* Seeing a term in a request.
LEMMA ObserveOffice ==
  ASSUME NEW n, Sound(n), Office(n), NEW term \in Nat
  PROVE  Office(Observe(n, term))
  BY BecomeFollowerOffice DEF Observe, Office

\* A candidate takes office: it has made no call as a leader of its term.
LEMMA BecomeLeaderOffice ==
  ASSUME NEW n, Sound(n), Office(n), n.status = Candidate
  PROVE  Office(BecomeLeader(n))
  <1> DEFINE k == ElectedLeader(n)
  <1>0. n \in RaftObject  BY DEF Sound
  <1>1. /\ Sound(k) /\ k.status = Leader /\ SameDisk(n, k) /\ k.id = n.id
        /\ k.threadPool = n.threadPool /\ k.commitIndex = n.commitIndex
    BY ElectedLeaderSound
  <1>2. /\ k.currentTermCommitted = n.currentTermCommitted /\ k.activeRead = n.activeRead
        /\ k.replicationInFlight = [ p \in Server |-> FALSE ]
    BY <1>0 DEF RaftObject, ElectedLeader
  <1>3. BecomeLeader(n) = ScheduleAllReplication(AppendOwn(k))
    BY DEF BecomeLeader, ElectedLeader
  <1> HIDE DEF k
  <1>4. Covers(n) /\ ~n.currentTermCommitted /\ n.activeRead = Nil
    BY <1>0, OutOfOffice DEF Candidate, Leader
  <1>5. Covers(k) /\ Reigns(k)
    BY <1>1, <1>2, <1>4 DEF Covers, Reigns, SameDisk
  <1>6. OneAtATime(k)
    <2> SUFFICES ASSUME NEW p \in PeersOf(k.id)  PROVE FlagIsExact(k, p)
      BY DEF OneAtATime
    <2>1. ~k.replicationInFlight[p]  BY <1>2 DEF PeersOf
    <2>2. StreamCalls(k, p) = {}
      <3> SUFFICES ASSUME NEW t \in StreamCalls(k, p)  PROVE FALSE
        OBVIOUS
      <3>1. t \in n.threadPool /\ t.request.kind \in StreamKind /\ t.request.term = n.currentTerm
        BY <1>1 DEF StreamCalls, SameDisk
      <3> QED BY <3>1 DEF Sound
    <2> QED BY <2>1, <2>2 DEF FlagIsExact
  <1>7. Office(k) /\ k \in RaftObject  BY <1>1, <1>5, <1>6 DEF Office, Sound
  <1>8. Office(AppendOwn(k)) /\ AppendOwn(k) \in RaftObject
    BY <1>1, <1>7, AppendOwnOffice, AppendOwnKeeps DEF Keeps, Sound
  <1> QED BY <1>3, <1>8, ScheduleReplicationOffice DEF ScheduleAllReplication, PeersOf

\* beginElection by a server that does not lead.
LEMMA BeginElectionOffice ==
  ASSUME NEW n, Sound(n), Office(n), n.status # Leader
  PROVE  Office(BeginElection(n))
  <1> DEFINE m == NewCandidate(n)
             asked == Asking(n)
  <1>0. n \in RaftObject  BY DEF Sound
  <1>1. BeginElection(n) = IF QuorumSize <= 1 THEN BecomeLeader(asked) ELSE asked
    BY <1>0 DEF BeginElection, Asking, NewCandidate, RaftObject
  <1>2. Sound(asked) /\ asked.status = Candidate /\ asked.commitIndex = n.commitIndex
        /\ asked.lastIncludeSnapshotIndex = n.lastIncludeSnapshotIndex
    BY AskingSound
  <1>3. Covers(n) /\ ~n.currentTermCommitted /\ n.activeRead = Nil
    BY <1>0, OutOfOffice
  <1>4. ~asked.currentTermCommitted /\ asked.activeRead = Nil
    <2>1. ~m.currentTermCommitted /\ m.activeRead = Nil
      BY <1>0, <1>3 DEF RaftObject, NewCandidate, Persist
    <2>2. \A Q : Submit(m, Q).currentTermCommitted = m.currentTermCommitted
                 /\ Submit(m, Q).activeRead = m.activeRead
      BY <1>0 DEF RaftObject, NewCandidate, Persist, Submit
    <2> QED BY <2>1, <2>2 DEF Asking
  <1> HIDE DEF asked
  <1>5. Office(asked)
    BY <1>2, <1>3, <1>4, OutOfOffice DEF Sound, Covers, Candidate, Leader
  <1> QED BY <1>1, <1>2, <1>5, BecomeLeaderOffice

\* beginPreVote by a server that does not lead.
LEMMA BeginPreVoteOffice ==
  ASSUME NEW n, Sound(n), Office(n), n.status # Leader
  PROVE  Office(BeginPreVote(n))
  <1> DEFINE asked == PreVoting(n)
             m == [ n EXCEPT !.status = PreCandidate, !.preVoteTerm = n.currentTerm + 1,
                             !.preVotesGranted = 1, !.preVoteRound = n.preVoteRound + 1 ]
  <1>0. n \in RaftObject  BY DEF Sound
  <1>1. /\ BeginPreVote(n) = IF QuorumSize <= 1 THEN BeginElection(asked) ELSE asked
        /\ Sound(asked) /\ asked.status = PreCandidate
    BY PreVotingKeeps DEF Keeps
  <1>2. Covers(n) /\ ~n.currentTermCommitted /\ n.activeRead = Nil
    BY <1>0, OutOfOffice
  <1>3. Covers(asked) /\ ~asked.currentTermCommitted /\ asked.activeRead = Nil
    <2>1. Covers(m) /\ ~m.currentTermCommitted /\ m.activeRead = Nil
      BY <1>0, <1>2 DEF RaftObject, Covers
    <2>2. \A Q : /\ Submit(m, Q).currentTermCommitted = m.currentTermCommitted
                 /\ Submit(m, Q).activeRead = m.activeRead
                 /\ Submit(m, Q).commitIndex = m.commitIndex
                 /\ Submit(m, Q).lastIncludeSnapshotIndex = m.lastIncludeSnapshotIndex
      BY <1>0 DEF RaftObject, Submit
    <2>3. PICK Q : asked = Submit(m, Q)  BY DEF PreVoting
    <2> QED BY <2>1, <2>2, <2>3 DEF Covers
  <1> HIDE DEF asked
  <1>4. Office(asked)
    BY <1>1, <1>3, OutOfOffice DEF Sound, PreCandidate, Leader
  <1> QED BY <1>1, <1>4, BeginElectionOffice DEF PreCandidate, Leader

-----------------------------------------------------------------------------
(* Requests handled.                                                       *)

\* Who does not lead may change what it has and commits.
LEMMA FollowerOffice ==
  ASSUME NEW n \in RaftObject, Office(n), n.status # Leader, NEW m \in RaftObject,
         m.status # Leader, m.currentTermCommitted = n.currentTermCommitted,
         m.activeRead = n.activeRead, Covers(m)
  PROVE  Office(m)
  BY OutOfOffice

\* Following the sender of a request of a term that n does not lead.
LEMMA FollowsOffice ==
  ASSUME NEW n, Sound(n), Office(n), NEW term \in Nat, n.status = Leader => term # n.currentTerm,
         NEW m, m = Observe(n, term), m.currentTerm = term
  PROVE  LET f == FollowLeader(m)
         IN  f \in RaftObject /\ Sound(f) /\ f.status = Follower /\ Office(f)
  <1> DEFINE f == FollowLeader(m)
  <1>0. n \in RaftObject /\ n.currentTerm \in Nat  BY FieldTypes DEF Sound
  <1>1. Sound(m) /\ m \in RaftObject  BY ObserveKeeps DEF Keeps, Sound
  <1>2. Sound(f) /\ f \in RaftObject /\ f.status = Follower
    BY <1>1, FollowLeaderKeeps DEF Keeps, Sound
  <1>3. Office(m)  BY ObserveOffice
  <1>4. m.status # Leader
    <2>1. CASE term > n.currentTerm
      <3>1. m = BecomeFollower(n, term)  BY <2>1 DEF Observe
      <3>2. Sound(EnterTerm(n, term))  BY <2>1, EnterTermSound
      <3>3. m.status = Follower  BY <2>1, <3>1, <3>2, LoseRoleKeeps DEF BecomeFollower
      <3> QED BY <3>3 DEF Follower, Leader
    <2>2. CASE ~(term > n.currentTerm)
      BY <2>2 DEF Observe
    <2> QED BY <2>1, <2>2
  <1>5. /\ f.currentTermCommitted = m.currentTermCommitted /\ f.activeRead = m.activeRead
        /\ f.commitIndex = m.commitIndex /\ f.lastIncludeSnapshotIndex = m.lastIncludeSnapshotIndex
    BY <1>1 DEF RaftObject, FollowLeader
  <1> HIDE DEF f
  <1>6. Covers(f)  BY <1>3, <1>5 DEF Office, Covers
  <1>7. Office(f)  BY <1>1, <1>2, <1>3, <1>4, <1>5, <1>6, FollowerOffice DEF Follower, Leader
  <1> QED BY <1>2, <1>7 DEF f

\* handleRequestVote
LEMMA HandleRequestVoteOffice ==
  ASSUME NEW n, Sound(n), Office(n), NEW q \in RequestVoteArgs
  PROVE  Office(HandleRequestVote(n, q).object)
  <1> DEFINE m == Observe(n, q.term)
  <1>0. q.term \in Nat  BY DEF RequestVoteArgs
  <1>1. m \in RaftObject  BY <1>0, ObserveKeeps DEF Keeps, Sound
  <1>2. Office(m)  BY <1>0, ObserveOffice
  <1>3. HandleRequestVote(n, q).object \in { m, CastVote(m, q) }
    BY DEF HandleRequestVote, Handled
  <1> HIDE DEF m
  <1>4. SameCalls(m, CastVote(m, q)) /\ SameReign(m, CastVote(m, q))
    BY <1>1 DEF RaftObject, CastVote, Persist, SameCalls, SameReign, SameLog
  <1> QED BY <1>2, <1>3, <1>4, SameOffice

\* Storing the entries of a request and learning what is committed.
LEMMA AcceptOffice ==
  ASSUME NEW n, Sound(n), Office(n), n.status = Follower, NEW q \in AppendEntriesArgs,
         IsLogIndex(n, q.prevLogIndex)
  PROVE  Office(Accept(n, q))
  <1> DEFINE k == StoreEntries(n, q)
             m == LearnCommitIndex(k, q.leaderCommit)
  <1>0. n \in RaftObject /\ q.leaderCommit \in Nat  BY DEF Sound, AppendEntriesArgs
  <1>1. Sound(k) /\ k \in RaftObject /\ k.status = Follower
    BY StoreEntriesKeeps DEF Keeps, Sound
  <1>2. /\ k.currentTermCommitted = n.currentTermCommitted /\ k.activeRead = n.activeRead
        /\ k.commitIndex = n.commitIndex /\ k.lastIncludeSnapshotIndex = n.lastIncludeSnapshotIndex
    BY <1>0 DEF RaftObject, StoreEntries, Persist
  <1> HIDE DEF k
  <1>3. m \in RaftObject  BY <1>0, <1>1, LearnCommitIndexKeeps DEF Keeps, Sound
  <1>4. /\ m.status = k.status
        /\ m.currentTermCommitted = k.currentTermCommitted /\ m.activeRead = k.activeRead
        /\ m.lastIncludeSnapshotIndex = k.lastIncludeSnapshotIndex
        /\ \/ m.commitIndex = k.commitIndex
           \/ /\ q.leaderCommit > k.commitIndex
              /\ m.commitIndex = Smaller(GetLastLogIndex(k), q.leaderCommit)
    BY <1>1 DEF RaftObject, LearnCommitIndex, ApplyCommitted
  <1>5. /\ k.commitIndex \in Nat /\ GetLastLogIndex(k) \in Nat /\ k.lastIncludeSnapshotIndex \in Nat
        /\ k.lastIncludeSnapshotIndex <= GetLastLogIndex(k)
    BY <1>1, FieldTypes, LogTypes
  <1> HIDE DEF m
  <1>6. Covers(m)  BY <1>0, <1>2, <1>4, <1>5 DEF Office, Covers, Smaller
  <1>7. Office(m)
    BY <1>0, <1>1, <1>2, <1>3, <1>4, <1>6, FollowerOffice DEF Follower, Leader
  <1> QED BY <1>7 DEF Accept, m, k

\* handleAppendEntries
LEMMA HandleAppendEntriesOffice ==
  ASSUME NEW n, Sound(n), Office(n), NEW q \in AppendEntriesArgs,
         n.status = Leader => q.term # n.currentTerm
  PROVE  Office(HandleAppendEntries(n, q).object)
  <1> DEFINE m == Observe(n, q.term)
             f == FollowLeader(m)
  <1>0. q.term \in Nat /\ n.currentTerm \in Nat
    BY FieldTypes DEF Sound, AppendEntriesArgs
  <1>1. Office(m) /\ m.currentTerm = Larger(q.term, n.currentTerm)
    BY <1>0, ObserveOffice, ObserveKeeps
  <1>2. m.currentTerm \in Nat /\ (q.term < m.currentTerm \/ q.term = m.currentTerm)
    BY <1>0, <1>1 DEF Larger
  <1>3. \/ q.term < m.currentTerm /\ HandleAppendEntries(n, q).object = m
        \/ q.term = m.currentTerm /\ HandleAppendEntries(n, q).object = f
        \/ /\ q.term = m.currentTerm /\ MatchLog(f, q.prevLogIndex, q.prevLogTerm)
           /\ HandleAppendEntries(n, q).object = Accept(f, q)
    BY <1>0, <1>2 DEF HandleAppendEntries, Handled
  <1>4. q.term = m.currentTerm => Sound(f) /\ f.status = Follower /\ Office(f)
    BY <1>0, FollowsOffice
  <1> HIDE DEF f, m
  <1>5. q.term = m.currentTerm /\ MatchLog(f, q.prevLogIndex, q.prevLogTerm)
          => Office(Accept(f, q))
    BY <1>4, AcceptOffice DEF MatchLog
  <1> QED BY <1>1, <1>3, <1>4, <1>5

\* handleReadHeartBeat
LEMMA HandleReadHeartBeatOffice ==
  ASSUME NEW n, Sound(n), Office(n), NEW q \in ReadHeartBeatArgs,
         n.status = Leader => q.term # n.currentTerm
  PROVE  Office(HandleReadHeartBeat(n, q).object)
  <1> DEFINE m == Observe(n, q.term)
             f == FollowLeader(m)
  <1>0. q.term \in Nat  BY DEF ReadHeartBeatArgs
  <1>1. Office(m)  BY <1>0, ObserveOffice
  <1>2. q.term = m.currentTerm => Office(f)  BY <1>0, FollowsOffice
  <1>3. HandleReadHeartBeat(n, q).object = IF q.term = m.currentTerm THEN f ELSE m
    BY DEF HandleReadHeartBeat, Handled
  <1> HIDE DEF m, f
  <1> QED BY <1>1, <1>2, <1>3

\* handleInstallSnapshot
LEMMA HandleInstallSnapshotOffice ==
  ASSUME NEW n, Sound(n), Office(n), NEW q \in InstallSnapshotArgs,
         n.status = Leader => q.term # n.currentTerm
  PROVE  Office(HandleInstallSnapshot(n, q).object)
  <1> DEFINE m == Observe(n, q.term)
             f == FollowLeader(m)
             index == q.lastSnapshotIncludeIndex
             i == InstallNewer(f, index, q.lastSnapshotIncludeTerm)
  <1>0. /\ q.term \in Nat /\ index \in Nat /\ q.lastSnapshotIncludeTerm \in Nat
        /\ n.currentTerm \in Nat
    BY FieldTypes DEF Sound, InstallSnapshotArgs
  <1>1. Office(m) /\ m.currentTerm = Larger(q.term, n.currentTerm)
    BY <1>0, ObserveOffice, ObserveKeeps
  <1>2. m.currentTerm \in Nat /\ (q.term < m.currentTerm \/ q.term = m.currentTerm)
    BY <1>0, <1>1 DEF Larger
  <1>3. q.term = m.currentTerm => Sound(f) /\ f \in RaftObject /\ f.status = Follower /\ Office(f)
    BY <1>0, FollowsOffice
  <1>4. q.term = m.currentTerm => Office(i)
    <2> SUFFICES ASSUME q.term = m.currentTerm  PROVE Office(i)
      OBVIOUS
    <2> HIDE DEF f, index
    <2>1. i \in RaftObject  BY <1>0, <1>3, InstallNewerKeeps DEF Keeps, Sound
    <2>2. /\ i.status = f.status /\ i.currentTermCommitted = f.currentTermCommitted
          /\ i.activeRead = f.activeRead /\ i.lastIncludeSnapshotIndex = index
          /\ i.commitIndex = Larger(f.commitIndex, index)
      BY <1>3 DEF RaftObject, InstallNewer, Persist
    <2>3. f.commitIndex \in Nat  BY <1>3, FieldTypes
    <2> HIDE DEF i
    <2>4. Covers(i)  BY <1>0, <2>2, <2>3 DEF Covers, Larger
    <2> QED BY <1>3, <2>1, <2>2, <2>4, FollowerOffice DEF Follower, Leader
  <1>5. \/ HandleInstallSnapshot(n, q).object = m
        \/ q.term = m.currentTerm /\ HandleInstallSnapshot(n, q).object \in { f, i }
    BY <1>0, <1>2 DEF HandleInstallSnapshot, Handled
  <1> HIDE DEF m, f, i
  <1> QED BY <1>1, <1>3, <1>4, <1>5

-----------------------------------------------------------------------------
(* Replies handled.                                                        *)

\* A call that ends leaves those of other kinds, terms and peers; n's own call
\* to the peer is the one that replicationInFlight speaks of.
LEMMA EndOffice ==
  ASSUME NEW n, Sound(n), Office(n), NEW t \in n.threadPool, NEW q, q = t.request
  PROVE  LET e == End(n, t)
         IN  /\ Covers(e)
             /\ q.kind \notin StreamKind \/ ~StillLeads(n, q) => Office(e)
             /\ q.kind \in StreamKind /\ q.to \in Server /\ StillLeads(n, q)
                  => Office(NotInFlight(e, q.to))
  <1> DEFINE e == End(n, t)
             m == NotInFlight(e, q.to)
  <1>0. n \in RaftObject  BY DEF Sound
  <1>1. /\ e \in RaftObject /\ SameReign(n, e) /\ e.threadPool = n.threadPool \ {t} /\ e.id = n.id
        /\ e.replicationInFlight = n.replicationInFlight /\ e.aborted = n.aborted
    <2>1. e \in RaftObject /\ e.threadPool = n.threadPool \ {t} /\ e.id = n.id
      BY EndKeeps DEF Keeps, Sound
    <2>2. /\ SameReign(n, e) /\ e.replicationInFlight = n.replicationInFlight
          /\ e.aborted = n.aborted
      BY ZenonT(30), <1>0 DEF RaftObject, End, SameReign, SameLog
    <2> QED BY <2>1, <2>2
  <1>2. /\ SameReign(n, m) /\ m.threadPool = n.threadPool \ {t} /\ m.id = n.id
        /\ m.aborted = n.aborted
        /\ m.replicationInFlight = [ n.replicationInFlight EXCEPT ![q.to] = FALSE ]
    BY <1>0, <1>1 DEF RaftObject, NotInFlight, SameReign, SameLog
  <1> HIDE DEF e, m
  <1>3. ASSUME q.kind \notin StreamKind \/ ~StillLeads(n, q)  PROVE OneAtATime(e)
    <2> SUFFICES ASSUME n.status = Leader, ~n.aborted, NEW p \in PeersOf(n.id)
                 PROVE  FlagIsExact(e, p)
      BY <1>1 DEF OneAtATime, SameReign
    <2>1. StreamCalls(e, p) = StreamCalls(n, p)
      BY <1>1, <1>3 DEF StreamCalls, StillLeads, SameReign
    <2>2. FlagIsExact(n, p)  BY DEF Office, OneAtATime
    <2> QED BY <1>1, <2>1, <2>2 DEF FlagIsExact
  <1>4. ASSUME q.kind \in StreamKind, q.to \in Server, StillLeads(n, q)  PROVE OneAtATime(m)
    <2> SUFFICES ASSUME n.status = Leader, ~n.aborted, NEW p \in PeersOf(n.id)
                 PROVE  FlagIsExact(m, p)
      BY <1>2 DEF OneAtATime, SameReign
    <2>1. FlagIsExact(n, p) /\ p \in Server  BY DEF Office, OneAtATime, PeersOf
    <2>2. n.replicationInFlight \in [ Server -> BOOLEAN ]  BY <1>0, FieldTypes
    <2>3. StreamCalls(m, p) = StreamCalls(n, p) \ {t}
      BY <1>2 DEF StreamCalls, SameReign
    <2>4. CASE p = q.to
      <3>1. t \in StreamCalls(n, p)  BY <1>4, <2>4 DEF StreamCalls, StillLeads
      <3>2. StreamCalls(m, p) = {}  BY <2>1, <2>3, <3>1 DEF FlagIsExact
      <3>3. ~m.replicationInFlight[p]  BY <1>2, <2>1, <2>2, <2>4
      <3> QED BY <3>2, <3>3 DEF FlagIsExact
    <2>5. CASE p # q.to
      <3>1. StreamCalls(m, p) = StreamCalls(n, p)  BY <2>3, <2>5 DEF StreamCalls
      <3>2. m.replicationInFlight[p] = n.replicationInFlight[p]  BY <1>2, <2>1, <2>2, <2>5
      <3> QED BY <2>1, <3>1, <3>2 DEF FlagIsExact
    <2> QED BY <2>4, <2>5
  <1>5. Reigns(e) /\ Covers(e) /\ Reigns(m) /\ Covers(m)
    BY <1>1, <1>2, SameReignKeeps DEF Office
  <1> QED BY <1>3, <1>4, <1>5 DEF Office, e, m

\* What a leader learns of a peer changes neither calls nor reads.
LEMMA LearnsSame ==
  ASSUME NEW n \in RaftObject, NEW p, NEW i
  PROVE  /\ SameCalls(n, Acknowledge(n, p, i)) /\ SameReign(n, Acknowledge(n, p, i))
         /\ SameCalls(n, BackUp(n, p, i)) /\ SameReign(n, BackUp(n, p, i))
  <1>1. SameCalls(n, Acknowledge(n, p, i)) /\ SameReign(n, Acknowledge(n, p, i))
    BY DEF RaftObject, Acknowledge, SameCalls, SameReign, SameLog
  <1>2. SameCalls(n, BackUp(n, p, i)) /\ SameReign(n, BackUp(n, p, i))
    BY DEF RaftObject, BackUp, SameCalls, SameReign, SameLog
  <1> QED BY <1>1, <1>2

\* Counting an acknowledgement of the active read, and answering it.
LEMMA AcknowledgeReadOffice ==
  ASSUME NEW n \in RaftObject, Office(n), n.activeRead # Nil, NEW p \in Server
  PROVE  Office(AcknowledgeRead(n, p))
  <1> DEFINE acks == n.activeRead.acks \cup {p}
             active == [ n.activeRead EXCEPT !.acks = acks ]
             m == [ n EXCEPT !.activeRead = active ]
  <1>0. n.activeRead \in PendingReadIndex  BY FieldTypes
  <1>1. AcknowledgeRead(n, p) \in { m, CompleteActiveRead(m) }
    BY DEF AcknowledgeRead, RaftObject
  <1>2. acks \subseteq Server  BY <1>0 DEF PendingReadIndex
  <1> HIDE DEF acks
  <1>3. active \in PendingReadIndex /\ active.term = n.activeRead.term
    BY <1>0, <1>2 DEF PendingReadIndex
  <1> HIDE DEF active
  <1>4. m \in RaftObject /\ SameCalls(n, m) /\ SameReign(n, m)
    BY <1>3 DEF RaftObject, SameCalls, SameReign, SameLog
  <1> HIDE DEF m
  <1>5. Office(m)  BY <1>4, SameOffice
  <1>6. Office(CompleteActiveRead(m))  BY <1>4, <1>5, ReadsOffice
  <1> QED BY <1>1, <1>5, <1>6

\* handleAppendReply, once the call has ended.
LEMMA HandleAppendReplyOffice ==
  ASSUME NEW n, Sound(n), Covers(n), NEW q \in AppendEntriesArgs \cup ReadHeartBeatArgs,
         q.to \in PeersOf(n.id), NEW reply \in AppendEntriesReply,
         LastEntryOf(q) \in Nat, StillLeads(n, q) => LastEntryOf(q) <= GetLastLogIndex(n),
         ~StillLeads(n, q) => Office(n),
         StillLeads(n, q) => Office(NotInFlight(n, q.to))
  PROVE  Office(HandleAppendReply(n, q, reply))
  <1> DEFINE p == q.to
             m == NotInFlight(n, p)
             a == Acknowledge(m, p, LastEntryOf(q))
             u == UpdateCommitIndex(a)
             r == AcknowledgeRead(m, p)
             b == BackUp(m, p, reply.updateNextIndex)
             h == HandleAppendReply(n, q, reply)
  <1>0. /\ n \in RaftObject /\ n.currentTerm \in Nat /\ p \in Server
        /\ reply.term \in Nat /\ reply.updateNextIndex \in Int
        /\ reply.readRound \in Nat /\ reply.success \in BOOLEAN
    BY FieldTypes DEF Sound, AppendEntriesReply, PeersOf
  <1>1. Sound(m) /\ m \in RaftObject /\ SameObject(n, m)
    BY <1>0, NotInFlightKeeps DEF Keeps, Sound
  <1>2. \/ ~StillLeads(n, q) /\ h = n
        \/ /\ StillLeads(n, q)
           /\ \/ h = BecomeFollower(m, reply.term)
              \/ h = ScheduleReplication(b, {p})
              \/ h = ContinueWith(u, p)
              \/ m.activeRead # Nil /\ h = ContinueWith(r, p)
              \/ h = m
    BY <1>0 DEF HandleAppendReply
  <1> HIDE DEF m, h
  <1>3. CASE ~StillLeads(n, q) /\ h = n
    BY <1>3 DEF h
  <1>4. CASE StillLeads(n, q)
    <2>1. Office(m)  BY <1>4 DEF m
    <2>2. m.status = Leader /\ GetLastLogIndex(m) = GetLastLogIndex(n)
      BY <1>1, <1>4 DEF StillLeads, SameObject, SameRole, SameDisk, GetLastLogIndex
    <2>3. Office(BecomeFollower(m, reply.term))
      BY <1>0, <1>1, <2>1, BecomeFollowerOffice DEF Office
    <2>4. Office(ScheduleReplication(b, {p}))
      <3>1. b \in RaftObject  BY <1>0, <1>1, BackUpKeeps DEF Keeps, Sound
      <3>2. Office(b)  BY <1>1, <2>1, LearnsSame, SameOffice
      <3> HIDE DEF b
      <3> QED BY <1>0, <3>1, <3>2, ScheduleReplicationOffice
    <2>5. Office(ContinueWith(u, p))
      <3>1. Sound(a) /\ a \in RaftObject /\ a.status = Leader
        BY <1>0, <1>1, <1>4, <2>2, AcknowledgeKeeps DEF Keeps, Sound, SameRole
      <3>2. Office(a)  BY <1>1, <2>1, LearnsSame, SameOffice
      <3> HIDE DEF a
      <3>3. Office(u)  BY <3>1, <3>2, UpdateCommitIndexOffice
      <3>4. u \in RaftObject  BY <3>1, UpdateCommitIndexKeeps DEF Keeps, Sound
      <3> HIDE DEF u
      <3> QED BY <1>0, <3>3, <3>4, ContinueWithOffice
    <2>6. ASSUME m.activeRead # Nil  PROVE Office(ContinueWith(r, p))
      <3>1. Office(r)  BY <1>0, <1>1, <2>1, <2>6, AcknowledgeReadOffice
      <3>2. r \in RaftObject  BY <1>0, <1>1, <2>6, AcknowledgeReadKeeps DEF Keeps, Sound
      <3> HIDE DEF r
      <3> QED BY <1>0, <3>1, <3>2, ContinueWithOffice
    <2> HIDE DEF b, u, r, p
    <2> QED BY <1>2, <1>4, <2>1, <2>3, <2>4, <2>5, <2>6 DEF h
  <1> QED BY <1>2, <1>3, <1>4

\* handleSnapshotReply, once the call has ended.
LEMMA HandleSnapshotReplyOffice ==
  ASSUME NEW n, Sound(n), Covers(n), NEW q, q.to \in PeersOf(n.id),
         NEW reply \in InstallSnapshotReply,
         ~StillLeads(n, q) => Office(n),
         StillLeads(n, q) => Office(NotInFlight(n, q.to))
  PROVE  Office(HandleSnapshotReply(n, q, reply))
  <1> DEFINE p == q.to
             m == NotInFlight(n, p)
             a == Acknowledge(m, p, n.lastIncludeSnapshotIndex)
             h == HandleSnapshotReply(n, q, reply)
  <1>0. /\ n \in RaftObject /\ n.currentTerm \in Nat /\ p \in Server
        /\ reply.term \in Nat /\ n.lastIncludeSnapshotIndex \in Nat
        /\ n.lastIncludeSnapshotIndex <= GetLastLogIndex(n)
    BY FieldTypes, LogTypes DEF Sound, InstallSnapshotReply, PeersOf
  <1>1. Sound(m) /\ m \in RaftObject /\ SameObject(n, m)
    BY <1>0, NotInFlightKeeps DEF Keeps, Sound
  <1>2. \/ ~StillLeads(n, q) /\ h = n
        \/ /\ StillLeads(n, q)
           /\ h \in { BecomeFollower(m, reply.term), ScheduleReplication(a, {p}), a, m }
    BY <1>0 DEF HandleSnapshotReply
  <1> HIDE DEF m, h
  <1>3. CASE ~StillLeads(n, q) /\ h = n
    BY <1>3 DEF h
  <1>4. CASE StillLeads(n, q)
    <2>1. Office(m)  BY <1>4 DEF m
    <2>2. GetLastLogIndex(m) = GetLastLogIndex(n)
      BY <1>1 DEF SameObject, SameDisk, GetLastLogIndex
    <2>3. Office(BecomeFollower(m, reply.term))
      BY <1>0, <1>1, <2>1, BecomeFollowerOffice DEF Office
    <2>4. a \in RaftObject  BY <1>0, <1>1, <2>2, AcknowledgeKeeps DEF Keeps, Sound
    <2>5. Office(a)  BY <1>1, <2>1, LearnsSame, SameOffice
    <2> HIDE DEF a
    <2>6. Office(ScheduleReplication(a, {p}))  BY <1>0, <2>4, <2>5, ScheduleReplicationOffice
    <2> HIDE DEF p
    <2> QED BY <1>2, <1>4, <2>1, <2>3, <2>5, <2>6 DEF h
  <1> QED BY <1>2, <1>3, <1>4

\* A call for a vote or a pre-vote that ends.
LEMMA HandleVoteRepliesOffice ==
  ASSUME NEW n, Sound(n), Office(n), NEW q, NEW reply \in VoteReply
  PROVE  Office(HandlePreVoteReply(n, q, reply)) /\ Office(HandleVoteReply(n, q, reply))
  <1>0. n \in RaftObject /\ reply.term \in Nat /\ n.currentTerm \in Nat
        /\ n.preVotesGranted + 1 \in Nat /\ n.votesGranted + 1 \in Nat
    BY FieldTypes DEF Sound, VoteReply
  <1>1. Office(BecomeFollower(n, reply.term))  BY <1>0, BecomeFollowerOffice DEF Office
  <1>2. Office(HandlePreVoteReply(n, q, reply))
    <2> DEFINE m == [ n EXCEPT !.preVotesGranted = n.preVotesGranted + 1 ]
    <2>1. \/ HandlePreVoteReply(n, q, reply) \in { n, BecomeFollower(n, reply.term) }
          \/ n.status = PreCandidate /\ HandlePreVoteReply(n, q, reply) \in { m, BeginElection(m) }
      BY <1>0 DEF HandlePreVoteReply, RaftObject
    <2>2. m \in RaftObject /\ SameObject(n, m) /\ SameCalls(n, m) /\ SameReign(n, m)
      BY ZenonT(30), <1>0 DEF RaftObject, SameObject, SameDisk, SameRole, SamePeers, SameCalls,
                            SameReign, SameLog
    <2> HIDE DEF m
    <2>3. Sound(m) /\ Office(m)  BY <2>2, SameKeeps, SameOffice DEF Keeps
    <2>4. n.status = PreCandidate => Office(BeginElection(m))
      BY <2>2, <2>3, BeginElectionOffice DEF SameCalls, PreCandidate, Leader
    <2> QED BY <1>1, <2>1, <2>3, <2>4
  <1>3. Office(HandleVoteReply(n, q, reply))
    <2> DEFINE m == [ n EXCEPT !.votesGranted = n.votesGranted + 1 ]
    <2>1. \/ HandleVoteReply(n, q, reply) \in { n, BecomeFollower(n, reply.term) }
          \/ n.status = Candidate /\ HandleVoteReply(n, q, reply) \in { m, BecomeLeader(m) }
      BY <1>0 DEF HandleVoteReply, RaftObject
    <2>2. m \in RaftObject /\ SameCalls(n, m) /\ SameReign(n, m)
          /\ SameDisk(n, m) /\ SamePeers(n, m) /\ m.persister = n.persister
          /\ m.lastApplied = n.lastApplied
      BY ZenonT(30), <1>0 DEF RaftObject, SameCalls, SameReign, SameLog, SameDisk, SamePeers
    <2> HIDE DEF m
    <2>3. GetLastLogIndex(m) = GetLastLogIndex(n) /\ PersistData(m) = PersistData(n)
      BY <2>2 DEF SameDisk, GetLastLogIndex, PersistData
    <2>4. Sound(m)  BY <2>2, <2>3 DEF Sound, SameDisk, SamePeers, SameCalls
    <2>5. Office(m)  BY <2>2, SameOffice
    <2>6. n.status = Candidate => Office(BecomeLeader(m))
      BY <2>2, <2>4, <2>5, BecomeLeaderOffice DEF SameCalls
    <2> QED BY <1>1, <2>1, <2>5, <2>6
  <1> QED BY <1>2, <1>3

\* A call that ends without an answer.
LEMMA TransportFailedOffice ==
  ASSUME NEW n, Sound(n), Office(n), NEW t \in n.threadPool, t.request.to \in Server
  PROVE  Office(TransportFailed(End(n, t), t.request))
  <1> DEFINE e == End(n, t)
             q == t.request
  <1>1. e.status = n.status /\ e.currentTerm = n.currentTerm
    BY DEF Sound, RaftObject, End
  <1>2. TransportFailed(e, q) =
          IF q.kind \in StreamKind /\ StillLeads(n, q) THEN NotInFlight(e, q.to) ELSE e
    BY <1>1 DEF TransportFailed, StreamKind, StillLeads
  <1> HIDE DEF e
  <1>3. /\ q.kind \notin StreamKind \/ ~StillLeads(n, q) => Office(e)
        /\ q.kind \in StreamKind /\ StillLeads(n, q) => Office(NotInFlight(e, q.to))
    BY EndOffice DEF e
  <1> HIDE DEF q
  <1>4. CASE q.kind \in StreamKind /\ StillLeads(n, q)
    BY <1>2, <1>3, <1>4 DEF e, q
  <1>5. CASE ~(q.kind \in StreamKind /\ StillLeads(n, q))
    BY <1>2, <1>3, <1>5 DEF e, q
  <1> QED BY <1>4, <1>5

\* The reply to a call that waited.
LEMMA ReplyOffice ==
  ASSUME NEW n \in RaftObject, Office(n), NEW t \in n.threadPool, NEW reply,
         NEW m, m = [ n EXCEPT !.threadPool =
                        (@ \ {t}) \cup { [ request |-> t.request, reply |-> reply ] } ]
  PROVE  Office(m)
  <1> DEFINE u == [ request |-> t.request, reply |-> reply ]
  <1>1. /\ m.id = n.id /\ m.threadPool = (n.threadPool \ {t}) \cup {u} /\ m.aborted = n.aborted
        /\ m.replicationInFlight = n.replicationInFlight /\ SameReign(n, m)
    BY DEF RaftObject, SameReign, SameLog
  <1>2. u.request = t.request  OBVIOUS
  <1> HIDE DEF u
  <1>3. OneAtATime(m)
    <2> SUFFICES ASSUME n.status = Leader, ~n.aborted, NEW p \in PeersOf(n.id)
                 PROVE  FlagIsExact(m, p)
      BY <1>1 DEF OneAtATime, SameReign
    <2>1. FlagIsExact(n, p)  BY DEF Office, OneAtATime
    <2>2. CASE t \in StreamCalls(n, p)
      <3>1. StreamCalls(n, p) = {t} /\ n.replicationInFlight[p]
        BY <2>1, <2>2 DEF FlagIsExact
      <3>2. StreamCalls(m, p) = {u}
        BY <1>1, <1>2, <3>1 DEF StreamCalls, SameReign
      <3> QED BY <1>1, <3>1, <3>2 DEF FlagIsExact
    <2>3. CASE t \notin StreamCalls(n, p)
      <3>1. StreamCalls(m, p) = StreamCalls(n, p)
        BY <1>1, <1>2, <2>3 DEF StreamCalls, SameReign
      <3> QED BY <1>1, <2>1, <3>1 DEF FlagIsExact
    <2> QED BY <2>2, <2>3
  <1>4. Reigns(m) /\ Covers(m)  BY <1>1, SameReignKeeps DEF Office
  <1> QED BY <1>3, <1>4 DEF Office

-----------------------------------------------------------------------------
(* Clients, the state machine and restarts.                                *)

\* start: the leader's new entry, what that commits in a cluster of one, and calls.
LEMMA StartOffice ==
  ASSUME NEW n, Sound(n), Office(n), n.status = Leader
  PROVE  Office(ScheduleAllReplication(UpdateCommitIndex(AppendOwn(n))))
  <1> DEFINE a == AppendOwn(n)
             u == UpdateCommitIndex(a)
  <1>0. n \in RaftObject /\ n.id \in Server  BY FieldTypes DEF Sound
  <1>1. Sound(a) /\ a \in RaftObject  BY AppendOwnKeeps DEF Keeps, Sound
  <1>2. Office(a) /\ a.status = Leader
    BY <1>0, AppendOwnOffice DEF RaftObject, AppendOwn, Persist
  <1> HIDE DEF a
  <1>3. u \in RaftObject  BY <1>1, UpdateCommitIndexKeeps DEF Keeps, Sound
  <1>4. Office(u)  BY <1>1, <1>2, UpdateCommitIndexOffice
  <1> HIDE DEF u
  <1>5. Office(ScheduleReplication(u, PeersOf(u.id)))
    BY <1>3, <1>4, ScheduleReplicationOffice DEF PeersOf
  <1> QED BY <1>5 DEF ScheduleAllReplication, u, a

\* readIndex opens a round of the leader's term.
LEMMA OpenReadOffice ==
  ASSUME NEW n, Sound(n), Office(n), n.status = Leader, NEW round \in Nat \ {0}
  PROVE  Office(OpenRead(n, round))
  <1> DEFINE read == [ round |-> round, term |-> n.currentTerm,
                       readIndex |-> n.commitIndex, acks |-> {n.id} ]
             m == [ n EXCEPT !.activeRead = read ]
  <1>0. /\ n \in RaftObject /\ n.id \in Server /\ n.currentTerm \in Nat /\ n.commitIndex \in Nat
    BY FieldTypes DEF Sound
  <1>1. read \in PendingReadIndex /\ read.term = n.currentTerm
    BY <1>0 DEF PendingReadIndex
  <1>2. OpenRead(n, round) = ScheduleHeartBeat(m, PeersOf(n.id), round)
    BY DEF OpenRead
  <1> HIDE DEF read
  <1>3. /\ m \in RaftObject /\ SameCalls(n, m) /\ SameLog(n, m) /\ m.commitIndex = n.commitIndex
        /\ m.currentTermCommitted = n.currentTermCommitted /\ m.activeRead = read
    BY ZenonT(30), <1>0, <1>1 DEF RaftObject, SameCalls, SameLog
  <1> HIDE DEF m
  <1>4. /\ GetLastLogIndex(m) = GetLastLogIndex(n)
        /\ GetLogTermFromIndex(m, m.commitIndex) = GetLogTermFromIndex(n, n.commitIndex)
    BY <1>3 DEF SameLog, GetLastLogIndex, GetLogTermFromIndex, GetSlicesIndexFromLogIndex
  <1>5. Reigns(m) /\ Covers(m)
    BY <1>1, <1>3, <1>4 DEF Office, Reigns, Covers, SameCalls, SameLog
  <1>6. Office(m)  BY <1>3, <1>5, SameCallsKeep DEF Office
  <1> QED BY <1>2, <1>3, <1>6, ScheduleHeartBeatOffice DEF PeersOf

\* The state machine's snapshot ends within what is committed.
LEMMA DoSnapshotOffice ==
  ASSUME NEW n, Sound(n), Office(n), NEW i \in Nat, i <= n.commitIndex
  PROVE  Office(DoSnapshot(n, i))
  <1>0. n \in RaftObject /\ n.commitIndex \in Nat /\ GetLastLogIndex(n) \in Nat
    BY FieldTypes, LogTypes DEF Sound
  <1>1. CASE ~IsLogIndex(n, i)
    BY <1>0, <1>1, AbortOffice DEF DoSnapshot
  <1>2. CASE IsLogIndex(n, i)
    <2> DEFINE m == DoSnapshot(n, i)
    <2>1. m \in RaftObject  BY DoSnapshotKeeps DEF Keeps, Sound
    <2>2. /\ SameCalls(n, m) /\ m.commitIndex = n.commitIndex
          /\ m.currentTermCommitted = n.currentTermCommitted /\ m.activeRead = n.activeRead
          /\ m.logs = EntriesAfter(n, i) /\ m.lastIncludeSnapshotIndex = i
          /\ m.lastIncludeSnapshotTerm = GetLogTermFromIndex(n, i)
      BY <1>0, <1>2 DEF RaftObject, DoSnapshot, Persist, SameCalls
    <2> HIDE DEF m
    <2>3. /\ GetLastLogIndex(m) = GetLastLogIndex(n)
          /\ \A j \in i .. GetLastLogIndex(n) :
               GetLogTermFromIndex(m, j) = GetLogTermFromIndex(n, j)
      BY <1>0, <1>2, <2>1, <2>2, CutBefore
    <2>4. n.commitIndex <= GetLastLogIndex(n) => n.commitIndex \in i .. GetLastLogIndex(n)
      BY <1>0
    <2>5. Reigns(m)  BY <2>2, <2>3, <2>4 DEF Office, Reigns, SameCalls
    <2>6. Covers(m)  BY <2>2 DEF Covers
    <2> QED BY <2>2, <2>5, <2>6, SameCallsKeep DEF Office, m
  <1> QED BY <1>1, <1>2

\* A restarted server leads nobody and has committed its snapshot.
LEMMA ConstructOffice ==
  ASSUME NEW s \in Server, NEW disk \in Disk
  PROVE  Office(Construct(s, disk))
  <1> DEFINE m == Construct(s, disk)
  <1>1. m \in RaftObject /\ m.status # Leader
    BY ConstructFacts DEF Sound, Follower, Leader
  <1>2. /\ m.commitIndex = m.lastIncludeSnapshotIndex /\ ~m.currentTermCommitted
        /\ m.activeRead = Nil /\ m.lastIncludeSnapshotIndex \in Nat
    BY <1>1 DEF Construct, RaftObject
  <1> HIDE DEF m
  <1>3. Covers(m)  BY <1>2 DEF Covers
  <1> QED BY <1>1, <1>2, <1>3, OutOfOffice DEF m

-----------------------------------------------------------------------------
(* The cluster.                                                            *)

\* A call to replicate or to read was made to another by who was elected in its term.
OfLeader(q) ==
  q.kind \in StreamKind => q.from # q.to /\ VotersIn(q.term, q.from) \in Quorums

\* So were all calls that wait or are late.
LedRequests ==
  /\ \A s \in Server : \A t \in raft[s].threadPool : OfLeader(t.request)
  /\ \A q \in late : OfLeader(q)

\* The inductive invariant of leaders.
OfficeInv == VoteInv /\ LedRequests /\ \A s \in Server : Office(raft[s])

\* Calls go on to be those of elected leaders.
LEMMA LedRequestsStep ==
  ASSUME NEW s \in Server, Stepping(s), LedRequests
  PROVE  LedRequests'
  <1>1. ASSUME NEW q, OfLeader(q)  PROVE OfLeader(q)'
    BY <1>1, VotesStay DEF OfLeader
  <1>2. ASSUME NEW x \in Server, NEW t \in raft'[x].threadPool  PROVE OfLeader(t.request)'
    <2>1. CASE x = s
      <3>1. PICK n : Settled(s, n) /\ Deed(s, n, raft'[s])  BY DEF Stepping, StepOf
      <3>2. \/ t \in raft[s].threadPool
            \/ Built(raft'[s], t.request) \/ Asked(raft'[s], t.request)
        BY <1>2, <2>1, <3>1, DeedCalls
      <3>3. CASE t \in raft[s].threadPool
        BY <1>1, <3>3 DEF LedRequests
      <3>4. CASE Built(raft'[s], t.request)
        <4> SUFFICES ASSUME t.request.kind \in StreamKind
                     PROVE  /\ t.request.from # t.request.to
                            /\ VotersIn(t.request.term, t.request.from)' \in Quorums
          BY DEF OfLeader
        <4>1. t.request.from = s /\ t.request.to # s
          BY <1>2, <2>1, StepTypes DEF Sound
        <4>2. raft'[s].status = Leader /\ t.request.term = raft'[s].currentTerm
          BY <3>4 DEF Built
        <4> QED BY <4>1, <4>2, LeaderVotes
      <3>5. CASE Asked(raft'[s], t.request)
        BY <3>5 DEF Asked, OfLeader, StreamKind
      <3> QED BY <3>2, <3>3, <3>4, <3>5
    <2>2. CASE x # s
      <3>1. Waits(s, x) /\ raft[x] \in RaftObject  BY <2>2, StepTypes DEF Stepping, StepOf
      <3>2. PICK u \in raft[x].threadPool : u.request = t.request  BY <1>2, <3>1, WaitsSame
      <3> QED BY <1>1, <3>2 DEF LedRequests
    <2> QED BY <2>1, <2>2
  <1>3. ASSUME NEW q \in late'  PROVE OfLeader(q)'
    <2>1. \/ q \in late
          \/ \E x \in Server : \E t \in raft[x].threadPool : t.request = q
      BY <1>3 DEF Stepping, StepOf, LateCalls
    <2> QED BY <1>1, <2>1 DEF LedRequests
  <1> QED BY <1>2, <1>3 DEF LedRequests

\* A leader is asked by nobody in its own term.
LEMMA NobodyElse ==
  ASSUME VoteInv, LedRequests, NEW kind \in StreamKind, NEW s \in Server,
         NEW q \in Requests(kind, s), raft[s].status = Leader
  PROVE  q.term # raft[s].currentTerm
  <1> SUFFICES ASSUME q.term = raft[s].currentTerm  PROVE FALSE
    OBVIOUS
  <1>1. q \in Request /\ q.to = s /\ q.kind = kind /\ q.from \in Server
    BY RequestFacts DEF VoteInv
  <1>2. OfLeader(q)  BY DEF Requests, LedRequests
  <1>3. q.from # s /\ VotersIn(q.term, q.from) \in Quorums  BY <1>1, <1>2 DEF OfLeader
  <1>4. Voters(s) \in Quorums  BY DEF VoteInv, LeaderQuorum, Quorums, Voters
  <1>5. PICK v \in Server : v \in VotersIn(q.term, q.from) /\ v \in Voters(s)
    BY <1>3, <1>4, QuorumsMeet
  <1>6. << q.term, v, q.from >> \in votes /\ << q.term, v, s >> \in votes
    BY <1>5 DEF VotersIn, Voters
  <1> QED BY <1>3, <1>6 DEF VoteInv, VoteOnce

\* A server that waits for an answer goes on as before.
LEMMA WaitsOffice ==
  ASSUME NEW s, NEW x, Waits(s, x), raft[x] \in RaftObject, Office(raft[x])
  PROVE  Office(raft'[x])
  <1>1. CASE raft'[x] = raft[x]
    BY <1>1
  <1>2. ASSUME NEW t \in raft[x].threadPool, NEW reply \in ReplyType(t.request.kind),
               raft'[x] = [ raft[x] EXCEPT !.threadPool =
                              (@ \ {t}) \cup { [ request |-> t.request, reply |-> reply ] } ]
        PROVE  Office(raft'[x])
    <2>1. PICK n, m : n \in RaftObject /\ n = raft[x] /\ m = raft'[x]  OBVIOUS
    <2> QED BY <1>2, <2>1, ReplyOffice
  <1> QED BY <1>1, <1>2 DEF Waits

\* Who handles a request is what its handler made of it.
LEMMA AnswerLeaves ==
  ASSUME TypeInv, NEW kind, NEW s \in Server, NEW q \in Requests(kind, s), NEW h, Answer(q, h)
  PROVE  raft'[s] = h.object
  <1>1. /\ q \in Request /\ q.to = s /\ q.kind = kind /\ q.from \in Server
        /\ Unanswered(q) \in raft[q.from].threadPool => q.from # s
    BY RequestFacts
  <1>2. raft \in [ Server -> RaftObject ]  BY DEF TypeInv
  <1>3. ASSUME NEW t \in NextOnStream(q)  PROVE q.from # s
    <2>1. t \in raft[q.from].threadPool /\ t.request.to = s  BY <1>1, <1>3 DEF NextOnStream
    <2> QED BY ZenonT(30), <1>1, <2>1 DEF TypeInv, Sound
  <1> QED BY <1>1, <1>2, <1>3 DEF Answer

\* The handlers of requests.
LEMMA ReceivesOffice ==
  ASSUME OfficeInv, NEW s \in Server, Receives(s)
  PROVE  Office(raft'[s])
  <1> DEFINE n == raft[s]
  <1>0. /\ TypeInv /\ Sound(n) /\ Office(n) /\ n.hasLeaderContact \in BOOLEAN
    BY DEF OfficeInv, VoteInv, TypeInv, RaftObject
  <1>1. \A kind \in StreamKind : \A q \in Requests(kind, s) :
          n.status = Leader => q.term # n.currentTerm
    BY NobodyElse DEF OfficeInv
  <1>2. \A kind : \A q \in Requests(kind, s) : q \in Request /\ q.kind = kind
    BY <1>0, RequestFacts
  <1>3. ASSUME NEW kind, NEW q \in Requests(kind, s), NEW h, Answer(q, h), Office(h.object)
        PROVE  Office(raft'[s])
    BY <1>0, <1>3, AnswerLeaves
  <1> HIDE DEF n
  <1>4. CASE OnPreVote(s)
    <2>1. PICK q \in Requests("PreVote", s) : \E recent \in BOOLEAN :
            Answer(q, HandlePreVote(n, q, recent))
      BY <1>0, <1>4 DEF OnPreVote, n
    <2>2. PICK recent \in BOOLEAN : Answer(q, HandlePreVote(n, q, recent))  BY <2>1
    <2>3. q \in PreVoteArgs  BY <1>2, RequestTypes
    <2>4. Office(HandlePreVote(n, q, recent).object)  BY <1>0, <2>3, HandlePreVoteTypes
    <2> QED BY <1>3, <2>2, <2>4
  <1>5. CASE OnRequestVote(s)
    <2>1. PICK q \in Requests("RequestVote", s) : Answer(q, HandleRequestVote(n, q))
      BY <1>5 DEF OnRequestVote, n
    <2>2. q \in RequestVoteArgs  BY <1>2, RequestTypes
    <2>3. Office(HandleRequestVote(n, q).object)  BY <1>0, <2>2, HandleRequestVoteOffice
    <2> QED BY <1>3, <2>1, <2>3
  <1>6. CASE OnAppendEntries(s)
    <2>1. PICK q \in Requests("AppendEntries", s) : Answer(q, HandleAppendEntries(n, q))
      BY <1>6 DEF OnAppendEntries, n
    <2>2. q \in AppendEntriesArgs  BY <1>2, RequestTypes
    <2>3. Office(HandleAppendEntries(n, q).object)
      BY <1>0, <1>1, <2>2, HandleAppendEntriesOffice DEF StreamKind
    <2> QED BY <1>3, <2>1, <2>3
  <1>7. CASE OnReadHeartBeat(s)
    <2>1. PICK q \in Requests("ReadHeartBeat", s) : Answer(q, HandleReadHeartBeat(n, q))
      BY <1>7 DEF OnReadHeartBeat, n
    <2>2. q \in ReadHeartBeatArgs  BY <1>2, RequestTypes
    <2>3. Office(HandleReadHeartBeat(n, q).object)
      BY <1>0, <1>1, <2>2, HandleReadHeartBeatOffice DEF StreamKind
    <2> QED BY <1>3, <2>1, <2>3
  <1>8. CASE OnInstallSnapshot(s)
    <2>1. PICK q \in Requests("InstallSnapshot", s) : Answer(q, HandleInstallSnapshot(n, q))
      BY <1>8 DEF OnInstallSnapshot, n
    <2>2. q \in InstallSnapshotArgs  BY <1>2, RequestTypes
    <2>3. Office(HandleInstallSnapshot(n, q).object)
      BY <1>0, <1>1, <2>2, HandleInstallSnapshotOffice DEF StreamKind
    <2> QED BY <1>3, <2>1, <2>3
  <1> QED BY <1>4, <1>5, <1>6, <1>7, <1>8 DEF Receives

\* The handlers of replies, after the call has ended.
LEMMA ReturnsOffice ==
  ASSUME OfficeInv, NEW s \in Server, NEW p \in PeersOf(s),
         \/ PreVoteReturns(s, p) \/ RequestVoteReturns(s, p)
         \/ AppendEntriesReturns(s, p) \/ InstallSnapshotReturns(s, p)
  PROVE  Office(raft'[s])
  <1>0. /\ TypeInv /\ Sound(raft[s]) /\ raft[s] \in RaftObject /\ Office(raft[s])
        /\ raft[s].id = s
    BY DEF OfficeInv, VoteInv, TypeInv
  <1>1. ASSUME NEW h, Step(s, h)  PROVE raft'[s] = h
    BY <1>0, <1>1 DEF Step, TypeInv
  <1>2. ASSUME NEW t \in raft[s].threadPool
        PROVE  LET n == End(raft[s], t)
                   q == t.request
               IN  /\ t \in Task /\ Sound(n) /\ n \in RaftObject /\ n.id = s /\ Covers(n)
                   /\ q.to \in PeersOf(s) /\ (StillLeads(raft[s], q) <=> StillLeads(n, q))
                   /\ q.kind \notin StreamKind => Office(n)
                   /\ q.kind \in StreamKind /\ ~StillLeads(n, q) => Office(n)
                   /\ q.kind \in StreamKind /\ StillLeads(n, q) => Office(NotInFlight(n, q.to))
    <2> DEFINE n == End(raft[s], t)
    <2>1. /\ t \in Task /\ t.request.to \in PeersOf(s) /\ t.request.to \in Server
          /\ Sound(n) /\ n.id = s
      BY <1>0, TaskEnds DEF Keeps
    <2>2. n.status = raft[s].status /\ n.currentTerm = raft[s].currentTerm
      BY <1>0 DEF RaftObject, End
    <2>3. /\ Covers(n)
          /\ t.request.kind \notin StreamKind \/ ~StillLeads(raft[s], t.request) => Office(n)
          /\ t.request.kind \in StreamKind /\ StillLeads(raft[s], t.request)
               => Office(NotInFlight(n, t.request.to))
      BY <1>0, <2>1, EndOffice
    <2> QED BY <2>1, <2>2, <2>3 DEF Sound, StillLeads
  <1>3. CASE PreVoteReturns(s, p)
    <2>1. PICK t \in Answered(s, p, {"PreVote"}) :
            Step(s, HandlePreVoteReply(End(raft[s], t), t.request, t.reply))
      BY <1>3 DEF PreVoteReturns
    <2>2. t \in raft[s].threadPool /\ t.request.kind = "PreVote" /\ t.reply # Nil
      BY DEF Answered
    <2>3. t.reply \in VoteReply /\ t.request.kind \notin StreamKind
      BY <1>2, <2>2, TaskTypes DEF StreamKind
    <2> QED BY <1>1, <1>2, <2>1, <2>2, <2>3, HandleVoteRepliesOffice
  <1>4. CASE RequestVoteReturns(s, p)
    <2>1. PICK t \in Answered(s, p, {"RequestVote"}) :
            Step(s, HandleVoteReply(End(raft[s], t), t.request, t.reply))
      BY <1>4 DEF RequestVoteReturns
    <2>2. t \in raft[s].threadPool /\ t.request.kind = "RequestVote" /\ t.reply # Nil
      BY DEF Answered
    <2>3. t.reply \in VoteReply /\ t.request.kind \notin StreamKind
      BY <1>2, <2>2, TaskTypes DEF StreamKind
    <2> QED BY <1>1, <1>2, <2>1, <2>2, <2>3, HandleVoteRepliesOffice
  <1>5. CASE AppendEntriesReturns(s, p)
    <2>1. PICK t \in Answered(s, p, {"AppendEntries", "ReadHeartBeat"}) :
            Step(s, HandleAppendReply(End(raft[s], t), t.request, t.reply))
      BY <1>5 DEF AppendEntriesReturns
    <2>2. /\ t \in raft[s].threadPool /\ t.reply # Nil
          /\ t.request.kind \in { "AppendEntries", "ReadHeartBeat" }
      BY DEF Answered
    <2>3. PICK n, q : n = End(raft[s], t) /\ q = t.request  OBVIOUS
    <2>4. /\ q \in AppendEntriesArgs \cup ReadHeartBeatArgs /\ t.reply \in AppendEntriesReply
          /\ q.kind \in StreamKind
      BY <1>2, <2>2, <2>3, TaskTypes DEF StreamKind
    <2>5. /\ t \in Task /\ Sound(n) /\ n.id = s /\ Covers(n) /\ q.to \in PeersOf(n.id)
          /\ ~StillLeads(n, q) => Office(n)
          /\ StillLeads(n, q) => Office(NotInFlight(n, q.to))
          /\ StillLeads(raft[s], q) <=> StillLeads(n, q)
      BY <1>2, <2>2, <2>3, <2>4
    <2>6. LastEntryOf(q) \in Nat  BY <1>2, <2>2, <2>3, TaskTypes, LastEntryOfType
    <2>7. StillLeads(n, q) => LastEntryOf(q) <= GetLastLogIndex(n)
      <3>1. GetLastLogIndex(n) = GetLastLogIndex(raft[s])
        BY <1>0, <2>3, EndKeeps DEF SameDisk, GetLastLogIndex
      <3> QED BY <1>0, <2>2, <2>3, <2>5, <3>1 DEF Sound, StillLeads
    <2>8. Office(HandleAppendReply(n, q, t.reply))
      BY <2>4, <2>5, <2>6, <2>7, HandleAppendReplyOffice
    <2> QED BY <1>1, <2>1, <2>3, <2>8
  <1>6. CASE InstallSnapshotReturns(s, p)
    <2>1. PICK t \in Answered(s, p, {"InstallSnapshot"}) :
            Step(s, HandleSnapshotReply(End(raft[s], t), t.request, t.reply))
      BY <1>6 DEF InstallSnapshotReturns
    <2>2. /\ t \in raft[s].threadPool /\ t.reply # Nil /\ t.request.kind = "InstallSnapshot"
      BY DEF Answered
    <2>3. PICK n, q : n = End(raft[s], t) /\ q = t.request  OBVIOUS
    <2>4. t.reply \in InstallSnapshotReply /\ q.kind \in StreamKind
      BY <1>2, <2>2, <2>3, TaskTypes DEF StreamKind
    <2>5. /\ Sound(n) /\ n.id = s /\ Covers(n) /\ q.to \in PeersOf(n.id)
          /\ ~StillLeads(n, q) => Office(n)
          /\ StillLeads(n, q) => Office(NotInFlight(n, q.to))
      BY <1>2, <2>2, <2>3, <2>4
    <2>6. Office(HandleSnapshotReply(n, q, t.reply))
      BY <2>4, <2>5, HandleSnapshotReplyOffice
    <2> QED BY <1>1, <2>1, <2>3, <2>6
  <1> QED BY <1>3, <1>4, <1>5, <1>6

\* A call that fails.
LEMMA CallFailsOffice ==
  ASSUME OfficeInv, NEW s \in Server, CallFails(s)
  PROVE  Office(raft'[s])
  <1>0. TypeInv /\ Sound(raft[s]) /\ Office(raft[s])  BY DEF OfficeInv, VoteInv, TypeInv
  <1>1. PICK t \in raft[s].threadPool : Step(s, TransportFailed(End(raft[s], t), t.request))
    BY DEF CallFails
  <1>2. raft'[s] = TransportFailed(End(raft[s], t), t.request)
    BY <1>0, <1>1 DEF Step, TypeInv
  <1>3. t.request.to \in Server  BY <1>0, TaskEnds
  <1> QED BY <1>0, <1>2, <1>3, TransportFailedOffice

\* Timeouts, client calls, snapshots and restarts.
LEMMA ActsOffice ==
  ASSUME OfficeInv, NEW s \in Server, Acts(s)
  PROVE  Office(raft'[s])
  <1> DEFINE n == raft[s]
  <1>0. /\ TypeInv /\ Sound(n) /\ n \in RaftObject /\ Office(n) /\ n.id \in Server
        /\ n.commitIndex \in Nat /\ n.lastIncludeSnapshotIndex \in Nat /\ n.persister \in Disk
    BY FieldTypes DEF OfficeInv, VoteInv, TypeInv
  <1>1. ASSUME NEW h, Step(s, h)  PROVE raft'[s] = h
    BY <1>0, <1>1 DEF Step, TypeInv
  <1>2. CASE ElectionTimeout(s)
    <2>1. raft'[s] = BeginPreVote(n) /\ n.status # Leader
      BY <1>1, <1>2 DEF ElectionTimeout
    <2> QED BY <1>0, <2>1, BeginPreVoteOffice
  <1>3. CASE HeartbeatTimeout(s)
    <2>1. raft'[s] = ScheduleReplication(n, PeersOf(n.id))
      BY <1>1, <1>3 DEF HeartbeatTimeout, ScheduleAllReplication
    <2> QED BY <1>0, <2>1, ScheduleReplicationOffice DEF PeersOf
  <1>4. CASE QuorumTimeout(s)
    <2>1. raft'[s] = StepDown(n)  BY <1>1, <1>4 DEF QuorumTimeout
    <2> QED BY <1>0, <2>1, BecomeFollowerOffice DEF Office
  <1>5. CASE Start(s)
    <2>1. /\ n.status = Leader
          /\ raft'[s] = ScheduleAllReplication(UpdateCommitIndex(AppendOwn(n)))
      BY <1>1, <1>5 DEF Start
    <2> QED BY <1>0, <2>1, StartOffice
  <1>6. CASE ReadIndex(s)
    <2>1. PICK round : /\ round = Len(readFloor) + 1
                       /\ raft'[s] = OpenRead(n, round) /\ n.status = Leader
      BY <1>1, <1>6 DEF ReadIndex, MayOpenRead
    <2>2. round \in Nat \ {0}
      <3>1. Len(readFloor) \in Nat  BY <1>0, LenProperties DEF TypeInv
      <3> QED BY <2>1, <3>1
    <2> QED BY <1>0, <2>1, <2>2, OpenReadOffice
  <1>7. CASE JoinRead(s)
    <2>1. raft'[s] = n  BY <1>1, <1>7 DEF JoinRead
    <2> QED BY <1>0, <2>1
  <1>8. CASE Snapshot(s)
    <2>1. PICK i \in n.lastIncludeSnapshotIndex + 1 .. n.commitIndex : Step(s, DoSnapshot(n, i))
      BY <1>8 DEF Snapshot
    <2>2. i \in Nat /\ i <= n.commitIndex /\ raft'[s] = DoSnapshot(n, i)
      BY <1>0, <1>1, <2>1
    <2> QED BY <1>0, <2>2, DoSnapshotOffice
  <1>9. CASE Restart(s)
    <2>1. raft'[s] = Construct(s, n.persister)  BY <1>0, <1>9 DEF Restart, TypeInv
    <2> QED BY <1>0, <2>1, ConstructOffice
  <1> QED BY <1>2, <1>3, <1>4, <1>5, <1>6, <1>7, <1>8, <1>9 DEF Acts

-----------------------------------------------------------------------------
(* The invariant.                                                          *)

\* Every step preserves it.
LEMMA OfficeStep ==
  ASSUME OfficeInv, [Next]_vars
  PROVE  OfficeInv'
  <1>1. VoteInv'  BY VotesStep DEF OfficeInv
  <1>2. CASE Next
    <2>1. TypeInv /\ VoteInv  BY DEF OfficeInv, VoteInv
    <2>2. PICK s \in Server : Receives(s) \/ Returns(s) \/ CallFails(s) \/ Acts(s)
      BY <1>2 DEF Next
    <2>3. Moves /\ RecordVotes  BY <1>2, <2>1, NextMoves
    <2>4. StepOf(s)
      BY <2>1, <2>2, ReceivesSteps, ReturnsSteps, CallFailsSteps, ActsSteps DEF Returns
    <2>5. Stepping(s)  BY <1>1, <2>1, <2>3, <2>4, MoveVotes DEF Stepping
    <2>6. LedRequests'  BY <2>5, LedRequestsStep DEF OfficeInv
    <2>7. Office(raft'[s])
      BY <2>2, ReceivesOffice, ReturnsOffice, CallFailsOffice, ActsOffice DEF Returns
    <2>8. \A x \in Server : Office(raft'[x])
      <3> SUFFICES ASSUME NEW x \in Server, x # s  PROVE Office(raft'[x])
        BY <2>7
      <3>1. Waits(s, x) /\ raft[x] \in RaftObject /\ Office(raft[x])
        BY <2>5, StepTypes DEF Stepping, StepOf, OfficeInv
      <3> QED BY <3>1, WaitsOffice
    <2> QED BY <1>1, <2>6, <2>8 DEF OfficeInv
  <1>3. CASE UNCHANGED vars
    <2>1. raft' = raft /\ late' = late /\ votes' = votes  BY <1>3 DEF vars
    <2>2. LedRequests'  BY <2>1 DEF OfficeInv, LedRequests, OfLeader, VotersIn
    <2>3. \A x \in Server : Office(raft'[x])  BY <2>1 DEF OfficeInv
    <2> QED BY <1>1, <2>2, <2>3 DEF OfficeInv
  <1> QED BY <1>2, <1>3

\* At the start nobody leads.
LEMMA OfficeInit ==
  ASSUME Init
  PROVE  OfficeInv
  <1>1. \A s \in Server : raft[s] = Construct(s, EmptyDisk) /\ raft[s].threadPool = {}
    BY DEF Init, Construct
  <1>2. LedRequests  BY <1>1 DEF LedRequests, Init
  <1>3. EmptyDisk \in Disk
    BY EmptySeq DEF EmptyDisk, Disk
  <1> QED BY <1>1, <1>2, <1>3, VotesInit, ConstructOffice DEF OfficeInv

\* The invariant always holds.
LEMMA OfficeAlways == Spec => []OfficeInv
  BY OfficeInit, OfficeStep, PTL DEF Spec

\* replicationInFlight says exactly whether a leader's call to a peer is under way,
\* and never are two: every path of handleAppendReply and handleSnapshotReply, and
\* every failed call, gives the stream free once, whoever schedules next marks it
\* again, and the calls of a lost term do not count.
THEOREM OneCallAtATime == Spec => []InFlightIsExact
  <1>1. OfficeInv => InFlightIsExact
    <2> SUFFICES ASSUME OfficeInv, NEW s \in Server, NEW p \in PeersOf(s),
                        raft[s].status = Leader, ~raft[s].aborted
                 PROVE  Cardinality(CallsUnderWay(s, p))
                          = IF raft[s].replicationInFlight[p] THEN 1 ELSE 0
      BY DEF InFlightIsExact
    <2>1. CallsUnderWay(s, p) = StreamCalls(raft[s], p)
      BY DEF CallsUnderWay, StreamCalls, StreamKind
    <2>2. FlagIsExact(raft[s], p)
      BY DEF OfficeInv, Office, OneAtATime, VoteInv, TypeInv
    <2>3. Cardinality({}) = 0  BY FS_EmptySet
    <2>4. \A t : Cardinality({t}) = 1  BY FS_Singleton
    <2> QED BY <2>1, <2>2, <2>3, <2>4 DEF FlagIsExact
  <1> QED BY <1>1, OfficeAlways, PTL

\* A commit of its own term and an active read are a leader's, of the term it
\* leads: handleAppendEntries and its like make a follower without resetting
\* either, and rely on no leader hearing from another of its term.
THEOREM LeaderStateDies == Spec => []LeaderStateOnlyAtLeader
  <1>1. OfficeInv => LeaderStateOnlyAtLeader
    <2> SUFFICES ASSUME OfficeInv, NEW s \in Server, NEW n, n = raft[s]
                 PROVE  /\ n.currentTermCommitted =>
                             /\ n.status = Leader
                             /\ GetLogTermFromIndex(n, Larger(n.commitIndex, n.lastIncludeSnapshotIndex))
                                  = n.currentTerm
                        /\ n.activeRead # Nil =>
                             n.status = Leader /\ n.activeRead.term = n.currentTerm
      BY DEF LeaderStateOnlyAtLeader
    <2>1. Reigns(n) /\ Covers(n) /\ n \in RaftObject
      BY DEF OfficeInv, Office, VoteInv, TypeInv
    <2>2. n.commitIndex \in Nat /\ n.lastIncludeSnapshotIndex \in Nat  BY <2>1, FieldTypes
    <2>3. Larger(n.commitIndex, n.lastIncludeSnapshotIndex) = n.commitIndex
      BY <2>1, <2>2 DEF Covers, Larger
    <2> QED BY <2>1, <2>3 DEF Reigns
  <1> QED BY <1>1, OfficeAlways, PTL

-----------------------------------------------------------------------------
(* Commits that a leader knows of.  A server learns of a commit from the   *)
(* leader that decided it, which knows at least as much while it leads.    *)

\* Some leader committed c or more, and knows so as long as it leads.
Known(objects, led, held, c) ==
  c > 0 =>
    \E T, i \in Nat :
      /\ c <= i /\ Committed(led, held, T, i)
      /\ \A l \in Server : objects[l].status = Leader /\ objects[l].currentTerm = T
                           => c <= objects[l].commitIndex

\* So it is of what a request says of commits.
SaysKnown(objects, led, held, q) ==
  /\ q.kind = "AppendEntries" => Known(objects, led, held, q.leaderCommit)
  /\ q.kind = "InstallSnapshot" => Known(objects, led, held, q.lastSnapshotIncludeIndex)

\* All commits that servers and requests speak of are known, given the histories.
KnownInv(led, held) ==
  /\ \A s \in Server : Known(raft, led, held, raft[s].commitIndex)
  /\ \A s \in Server : \A t \in raft[s].threadPool : SaysKnown(raft, led, held, t.request)
  /\ \A q \in late : SaysKnown(raft, led, held, q)

\* What comes before a known commit is known.
LEMMA KnownDown ==
  ASSUME NEW objects, \A l \in Server : objects[l].commitIndex \in Nat, NEW led, NEW held,
         NEW c \in Nat, Known(objects, led, held, c), NEW j \in Nat, j <= c
  PROVE  Known(objects, led, held, j)
  <1> SUFFICES ASSUME j > 0
               PROVE  \E T, i \in Nat :
                        /\ j <= i /\ Committed(led, held, T, i)
                        /\ \A l \in Server :
                             objects[l].status = Leader /\ objects[l].currentTerm = T
                               => j <= objects[l].commitIndex
    BY DEF Known
  <1>1. PICK T, i \in Nat :
          /\ c <= i /\ Committed(led, held, T, i)
          /\ \A l \in Server :
               objects[l].status = Leader /\ objects[l].currentTerm = T
                 => c <= objects[l].commitIndex
    BY DEF Known
  <1>2. j <= i  BY <1>1
  <1>3. ASSUME NEW l \in Server, objects[l].status = Leader, objects[l].currentTerm = T
        PROVE  j <= objects[l].commitIndex
    <2>1. c <= objects[l].commitIndex /\ objects[l].commitIndex \in Nat  BY <1>1, <1>3
    <2> QED BY <2>1
  <1> QED BY <1>1, <1>2, <1>3

\* What s has committed after what it did: what it had, or as a leader an entry of
\* its term that a quorum held; a follower may learn from a request, or restart.
LEMMA DeedOwn ==
  ASSUME NEW s \in Server, NEW led, NEW held, NEW led2, NEW h2, Deciding(s, led, held, led2, h2),
         NEW n, Settled(s, n), Deed(s, n, raft'[s])
  PROVE  \/ CommitsOwn(led2, h2, n, raft'[s])
         \/ /\ raft'[s].status = Follower
            /\ \/ raft'[s].commitIndex <= n.commitIndex
               \/ \E q \in Requests("AppendEntries", s) : raft'[s].commitIndex <= q.leaderCommit
               \/ \E q \in Requests("InstallSnapshot", s) :
                    raft'[s].commitIndex <= q.lastSnapshotIncludeIndex
  <1>1. Ready(led2, h2, n, raft'[s]) /\ n \in RaftObject /\ raft'[s] \in RaftObject
    BY SettledReady DEF Ready
  <1> PICK m : m = raft'[s]  OBVIOUS
  <1>2. /\ n.commitIndex \in Nat /\ m.commitIndex \in Nat /\ GetLastLogIndex(m) \in Nat
        /\ n.lastIncludeSnapshotIndex <= n.commitIndex
    BY <1>1, FieldTypes, LogTypes DEF Ready, Within
  <1>3. ASSUME SameCommit(n, m)  PROVE CommitsOwn(led2, h2, n, m)
    BY <1>3 DEF SameCommit, CommitsOwn
  <1>4. CASE \/ Sends(n, m)
             \/ \E q \in Requests("RequestVote", s) : GivesVote(n, m, q)
             \/ Appends(n, m) \/ Runs(n, m)
    BY <1>3, <1>4 DEF Sends, SameProgress, GivesVote, Appends, Runs
  <1>5. CASE \E p \in PeersOf(s) : \E i \in Nat :
               Told(s, n, p, i) /\ Advances(n, m, p, i) /\ NoNewLeader(n, m)
    BY <1>5, AdvancesShape
  <1>6. CASE Starts(n, m)  BY <1>6, StartsShape
  <1>7. CASE \E i \in n.lastIncludeSnapshotIndex + 1 .. n.commitIndex : Compacts(n, m, i)
    BY <1>7 DEF Compacts, CommitsOwn
  <1>8. CASE Restarts(n, m)  BY <1>2, <1>8 DEF Restarts
  <1>9. CASE \E q \in Requests("AppendEntries", s) : Stores(n, m, q)
    <2>1. PICK q \in Requests("AppendEntries", s) : Stores(n, m, q)  BY <1>9
    <2>2. q \in AppendEntriesArgs  BY HandledCommits, RequestTypes
    <2>3. q.leaderCommit \in Nat  BY <2>2 DEF AppendEntriesArgs
    <2>4. m.status = Follower /\ Learns(n, m, q.leaderCommit)  BY <2>1 DEF Stores, Follows
    <2>5. SameCommit(n, m) \/ m.commitIndex <= q.leaderCommit
      BY <1>2, <2>3, <2>4 DEF Learns, Smaller
    <2> QED BY <1>3, <2>4, <2>5
  <1>10. CASE \E q \in Requests("InstallSnapshot", s) : Installs(n, m, q)
    <2>1. PICK q \in Requests("InstallSnapshot", s) : Installs(n, m, q)  BY <1>10
    <2>2. q \in InstallSnapshotArgs  BY HandledCommits, RequestTypes
    <2>3. q.lastSnapshotIncludeIndex \in Nat  BY <2>2 DEF InstallSnapshotArgs
    <2>4. m.status = Follower /\ m.commitIndex = Larger(n.commitIndex, q.lastSnapshotIncludeIndex)
      BY <2>1 DEF Installs, Follows
    <2>5. m.commitIndex <= n.commitIndex \/ m.commitIndex <= q.lastSnapshotIncludeIndex
      BY <1>2, <2>3, <2>4 DEF Larger
    <2> QED BY <2>4, <2>5
  <1> QED BY <1>4, <1>5, <1>6, <1>7, <1>8, <1>9, <1>10 DEF Deed

\* A leader after the step of a term with a log led it before, and knows no less.
LEMMA LeaderKnowsMore ==
  ASSUME NEW s \in Server, NEW led, NEW held, NEW led2, NEW h2, Deciding(s, led, held, led2, h2),
         NEW l \in Server, raft'[l].status = Leader, led[raft'[l].currentTerm] # << >>
  PROVE  /\ raft[l].status = Leader /\ raft[l].currentTerm = raft'[l].currentTerm
         /\ raft[l].commitIndex <= raft'[l].commitIndex
  <1>0. Stepping(s) /\ Elected(led)  BY DecidingFacts, RecordingFacts
  <1>1. raft[l].status = Leader /\ raft[l].currentTerm = raft'[l].currentTerm
    BY <1>0, LeadsFirst
  <1>2. raft[l] \in RaftObject /\ raft'[l] \in RaftObject  BY <1>0, StepTypes
  <1>3. raft[l].commitIndex \in Nat /\ raft'[l].commitIndex \in Nat  BY <1>2, FieldTypes
  <1>4. CASE l # s
    <2>1. Waits(s, l)  BY <1>0, <1>4 DEF Stepping, StepOf
    <2>2. raft'[l].commitIndex = raft[l].commitIndex  BY <1>2, <2>1, WaitsSame DEF SameCommit
    <2> QED BY <1>1, <1>3, <2>2
  <1>5. CASE l = s
    <2>1. PICK n : Settled(s, n) /\ Deed(s, n, raft'[s])  BY <1>0 DEF Stepping, StepOf
    <2>2. CommitsOwn(led2, h2, n, raft'[s])  BY <1>5, <2>1, DeedOwn DEF Follower, Leader
    <2>3. n.commitIndex = raft[s].commitIndex  BY <2>1 DEF Settled, Idle, SameProgress, SameCommit
    <2> QED BY <1>1, <1>3, <1>5, <2>2, <2>3 DEF CommitsOwn
  <1> QED BY <1>4, <1>5

\* A commit that is known stays known.
LEMMA KnownStays ==
  ASSUME NEW s \in Server, NEW led, NEW held, NEW led2, NEW h2, Deciding(s, led, held, led2, h2),
         NEW c \in Nat, Known(raft, led, held, c)
  PROVE  Known(raft', led2, h2, c)
  <1>0. /\ Stepping(s) /\ Tree(led) /\ Tree(led2) /\ Grows(led, led2) /\ held \subseteq h2
    BY DecidingFacts
  <1> SUFFICES ASSUME c > 0
               PROVE  \E T, i \in Nat :
                        /\ c <= i /\ Committed(led2, h2, T, i)
                        /\ \A l \in Server :
                             raft'[l].status = Leader /\ raft'[l].currentTerm = T
                               => c <= raft'[l].commitIndex
    BY DEF Known
  <1>1. PICK T, i \in Nat :
          /\ c <= i /\ Committed(led, held, T, i)
          /\ \A l \in Server :
               raft[l].status = Leader /\ raft[l].currentTerm = T => c <= raft[l].commitIndex
    BY DEF Known
  <1>2. In(led, T, i, T)  BY <1>1 DEF Committed
  <1>3. Committed(led2, h2, T, i)
    <2>1. In(led2, T, i, T)  BY <1>0, <1>2, InGrows
    <2> QED BY <1>0, <1>1, <2>1 DEF Committed
  <1>4. led[T] # << >>  BY <1>0, <1>2, LedTypes DEF In
  <1>5. ASSUME NEW l \in Server, raft'[l].status = Leader, raft'[l].currentTerm = T
        PROVE  c <= raft'[l].commitIndex
    <2>1. /\ raft[l].status = Leader /\ raft[l].currentTerm = T
          /\ raft[l].commitIndex <= raft'[l].commitIndex
      BY <1>4, <1>5, LeaderKnowsMore
    <2>2. raft[l].commitIndex \in Nat /\ raft'[l].commitIndex \in Nat
      BY <1>0, StepTypes, FieldTypes
    <2> QED BY <1>1, <2>1, <2>2
  <1> QED BY <1>1, <1>3, <1>5

\* What a request says of commits stays known.
LEMMA SaysStays ==
  ASSUME NEW s \in Server, NEW led, NEW held, NEW led2, NEW h2, Deciding(s, led, held, led2, h2),
         NEW q \in Request, SaysKnown(raft, led, held, q)
  PROVE  SaysKnown(raft', led2, h2, q)
  <1>1. q.kind = "AppendEntries" => q.leaderCommit \in Nat
    BY RequestTypes DEF AppendEntriesArgs
  <1>2. q.kind = "InstallSnapshot" => q.lastSnapshotIncludeIndex \in Nat
    BY RequestTypes DEF InstallSnapshotArgs
  <1> QED BY <1>1, <1>2, KnownStays DEF SaysKnown

\* What a server has committed after a step is known.
LEMMA KnownCommits ==
  ASSUME NEW s \in Server, NEW led, NEW held, NEW led2, NEW h2, Deciding(s, led, held, led2, h2),
         KnownInv(led, held), NEW x \in Server
  PROVE  Known(raft', led2, h2, raft'[x].commitIndex)
  <1>0. Stepping(s) /\ StepOf(s) /\ VoteInv /\ LogInv(led, held)
    BY DecidingFacts DEF Stepping, Recording
  <1>1. \A y \in Server : raft[y].commitIndex \in Nat /\ raft'[y].commitIndex \in Nat
    BY <1>0, StepTypes, FieldTypes
  <1>2. \A y \in Server : Known(raft', led2, h2, raft[y].commitIndex)
    BY <1>1, KnownStays DEF KnownInv
  <1>3. CASE x # s
    <2>1. Waits(s, x) /\ raft[x] \in RaftObject  BY <1>0, <1>3, StepTypes DEF StepOf
    <2>2. raft'[x].commitIndex = raft[x].commitIndex  BY <2>1, WaitsSame DEF SameCommit
    <2> QED BY <1>2, <2>2
  <1>4. CASE x = s
    <2> PICK c \in Nat : c = raft'[s].commitIndex  BY <1>1
    <2> SUFFICES Known(raft', led2, h2, c)  BY <1>4
    <2>1. PICK n : Settled(s, n) /\ Deed(s, n, raft'[s])  BY <1>0 DEF StepOf
    <2>2. /\ n.commitIndex = raft[s].commitIndex /\ n.status = raft[s].status
          /\ n.currentTerm = raft[s].currentTerm
      BY <2>1 DEF Settled, Idle, SameProgress, SameCommit, SameRole, SameDisk
    <2>3. ASSUME NEW j \in Nat, Known(raft', led2, h2, j), c <= j
          PROVE  Known(raft', led2, h2, c)
      BY <1>1, <2>3, KnownDown
    <2>4. ASSUME NEW kind, NEW q \in Requests(kind, s)
          PROVE  q \in Request /\ q.kind = kind /\ SaysKnown(raft', led2, h2, q)
      <3>1. q \in Request /\ q.kind = kind  BY HandledCommits
      <3>2. SaysKnown(raft, led, held, q)  BY DEF Requests, KnownInv
      <3> QED BY <3>1, <3>2, SaysStays
    <2>5. CASE c = n.commitIndex
      BY <1>2, <2>2, <2>5
    <2>6. CASE n.status = Leader /\ Committed(led2, h2, n.currentTerm, c)
      <3> PICK T \in Nat : T = raft[s].currentTerm  BY <1>0, StepTypes
      <3>1. led[T] # << >>
        <4>1. /\ Tree(led) /\ OwnLog(led, raft[s]) /\ raft[s].status = Leader
          BY <1>0, <2>2, <2>6 DEF LogInv
        <4>2. Len(led[T]) > 0  BY <4>1 DEF OwnLog
        <4> QED BY <4>2, <4>1, LedTypes
      <3>2. ASSUME NEW l \in Server, raft'[l].status = Leader, raft'[l].currentTerm = T
            PROVE  c <= raft'[l].commitIndex
        <4>1. raft[l].status = Leader /\ raft[l].currentTerm = T
          BY <3>1, <3>2, LeaderKnowsMore
        <4>2. l = s  BY <1>0, <2>2, <2>6, <4>1, OneLeader DEF ElectionSafety
        <4> QED BY <4>2
      <3> QED BY <2>2, <2>6, <3>2 DEF Known
    <2>7. CASE c <= n.commitIndex
      BY <1>1, <1>2, <2>2, <2>3, <2>7
    <2>8. CASE \E q \in Requests("AppendEntries", s) : c <= q.leaderCommit
      <3>1. PICK q \in Requests("AppendEntries", s) : c <= q.leaderCommit  BY <2>8
      <3>2. q.leaderCommit \in Nat /\ Known(raft', led2, h2, q.leaderCommit)
        BY <2>4, RequestTypes DEF SaysKnown, AppendEntriesArgs
      <3> QED BY <2>3, <3>1, <3>2
    <2>9. CASE \E q \in Requests("InstallSnapshot", s) : c <= q.lastSnapshotIncludeIndex
      <3>1. PICK q \in Requests("InstallSnapshot", s) : c <= q.lastSnapshotIncludeIndex  BY <2>9
      <3>2. /\ q.lastSnapshotIncludeIndex \in Nat
            /\ Known(raft', led2, h2, q.lastSnapshotIncludeIndex)
        BY <2>4, RequestTypes DEF SaysKnown, InstallSnapshotArgs
      <3> QED BY <2>3, <3>1, <3>2
    <2>10. CommitsOwn(led2, h2, n, raft'[s]) =>
             c = n.commitIndex \/ (n.status = Leader /\ Committed(led2, h2, n.currentTerm, c))
      BY DEF CommitsOwn
    <2> QED BY <2>1, <2>5, <2>6, <2>7, <2>8, <2>9, <2>10, DeedOwn
  <1> QED BY <1>3, <1>4

\* What the calls of a server say of commits after a step is known.
LEMMA KnownCalls ==
  ASSUME NEW s \in Server, NEW led, NEW held, NEW led2, NEW h2, Deciding(s, led, held, led2, h2),
         KnownInv(led, held), NEW x \in Server
  PROVE  /\ \A t \in raft[x].threadPool : SaysKnown(raft', led2, h2, t.request)
         /\ \A t \in raft'[x].threadPool : SaysKnown(raft', led2, h2, t.request)
  <1>0. Stepping(s) /\ StepOf(s)  BY DecidingFacts DEF Stepping
  <1>1. ASSUME NEW t \in raft[x].threadPool
        PROVE  SaysKnown(raft', led2, h2, t.request)
    <2>1. t.request \in Request  BY <1>0, CallRequest
    <2>2. SaysKnown(raft, led, held, t.request)  BY DEF KnownInv
    <2> QED BY <2>1, <2>2, SaysStays
  <1>2. ASSUME x = s, NEW t \in raft'[x].threadPool
        PROVE  SaysKnown(raft', led2, h2, t.request)
    <2>1. PICK n : Settled(s, n) /\ Deed(s, n, raft'[s])  BY <1>0 DEF StepOf
    <2>2. \/ t \in raft[s].threadPool
          \/ Built(raft'[s], t.request) \/ Asked(raft'[s], t.request)
      BY <1>2, <2>1, DeedCalls
    <2>3. CASE t \in raft[s].threadPool  BY <1>1, <1>2, <2>3
    <2>4. CASE Built(raft'[s], t.request)
      <3>1. Known(raft', led2, h2, raft'[s].commitIndex)  BY KnownCommits
      <3>2. raft'[s].lastIncludeSnapshotIndex <= raft'[s].commitIndex
        BY <2>1, DeedShape DEF Shape, Within
      <3>3. \A l \in Server : raft'[l].commitIndex \in Nat
        BY <1>0, StepTypes, FieldTypes
      <3>4. raft'[s].lastIncludeSnapshotIndex \in Nat  BY <1>0, StepTypes, FieldTypes
      <3>5. Known(raft', led2, h2, raft'[s].lastIncludeSnapshotIndex)
        BY <3>1, <3>2, <3>3, <3>4, KnownDown
      <3> QED BY <2>4, <3>1, <3>5 DEF Built, SaysKnown
    <2>5. CASE Asked(raft'[s], t.request)
      BY <2>5 DEF Asked, SaysKnown
    <2> QED BY <2>2, <2>3, <2>4, <2>5
  <1>3. ASSUME x # s, NEW t \in raft'[x].threadPool
        PROVE  SaysKnown(raft', led2, h2, t.request)
    <2>1. Waits(s, x) /\ raft[x] \in RaftObject  BY <1>0, <1>3, StepTypes DEF StepOf
    <2>2. PICK u \in raft[x].threadPool : u.request = t.request  BY <1>3, <2>1, WaitsSame
    <2> QED BY <1>1, <2>2
  <1> QED BY <1>1, <1>2, <1>3

\* A step keeps what is known.
LEMMA KnownInvStep ==
  ASSUME NEW s \in Server, NEW led, NEW held, NEW led2, NEW h2, Deciding(s, led, held, led2, h2),
         KnownInv(led, held)
  PROVE  KnownInv(led2, h2)'
  <1>0. Stepping(s) /\ StepOf(s)  BY DecidingFacts DEF Stepping
  <1>1. ASSUME NEW q \in late'  PROVE SaysKnown(raft', led2, h2, q)
    <2>1. CASE q \in late
      <3>1. q \in Request  BY <1>0, <2>1 DEF Stepping, VoteInv, TypeInv
      <3> QED BY <2>1, <3>1, SaysStays DEF KnownInv
    <2>2. CASE q \notin late
      <3>1. PICK x \in Server : \E t \in raft[x].threadPool : t.request = q
        BY <1>0, <1>1, <2>2 DEF StepOf, LateCalls
      <3> QED BY <3>1, KnownCalls
    <2> QED BY <2>1, <2>2
  <1>2. \A x \in Server : Known(raft', led2, h2, raft'[x].commitIndex)  BY KnownCommits
  <1>3. \A x \in Server : \A t \in raft'[x].threadPool : SaysKnown(raft', led2, h2, t.request)
    BY KnownCalls
  <1> QED BY <1>1, <1>2, <1>3 DEF KnownInv

\* The invariant of elections, logs, commits and of what is known of them.
Knowledge ==
  VoteInv /\ \E led, held : LogInv(led, held) /\ CommitInv(led, held) /\ KnownInv(led, held)

\* Every step preserves the invariant.
LEMMA KnowledgeStep ==
  ASSUME Overtaken = {}, Knowledge, [Next]_vars
  PROVE  Knowledge'
  <1>1. VoteInv'  BY VotesStep DEF Knowledge
  <1>2. PICK led, held : LogInv(led, held) /\ CommitInv(led, held) /\ KnownInv(led, held)
    BY DEF Knowledge
  <1>3. CASE Next
    <2>1. PICK s \in Server : Stepping(s)  BY <1>3, NextStepping DEF Knowledge
    <2>2. PICK led2, h2 : Recording(s, led, held, led2, h2) /\ LogInv(led2, h2)'
      BY <1>2, <2>1, LogInvStep
    <2>3. Deciding(s, led, held, led2, h2)  BY <1>2, <2>2 DEF Deciding
    <2>4. CommitInv(led2, h2)' /\ KnownInv(led2, h2)'
      BY <1>2, <2>3, CommitInvStep, KnownInvStep
    <2> QED BY <1>1, <2>2, <2>4 DEF Knowledge
  <1>4. CASE UNCHANGED vars
    <2>1. LogInv(led, held)' /\ CommitInv(led, held)'
      BY <1>2, <1>4, LogInvStutters, CommitInvStutters
    <2>2. raft' = raft /\ late' = late  BY <1>4 DEF vars
    <2>3. KnownInv(led, held)'  BY <1>2, <2>2 DEF KnownInv
    <2> QED BY <1>1, <2>1, <2>3 DEF Knowledge
  <1> QED BY <1>3, <1>4

\* It holds at the start.
LEMMA KnowledgeInit ==
  ASSUME Init
  PROVE  Knowledge
  <1>1. PICK led, held : LogInv(led, held)  BY LogInvInit
  <1>2. CommitInv(led, held)  BY CommitInvInit
  <1>3. \A s \in Server : raft[s].commitIndex = 0 /\ raft[s].threadPool = {}
    BY DEF Init, Construct, EmptyDisk
  <1>4. KnownInv(led, held)  BY <1>3 DEF KnownInv, Known, Init
  <1> QED BY <1>1, <1>2, <1>4, VotesInit DEF Knowledge

-----------------------------------------------------------------------------
(* Read rounds.  A round is fresh while it lasts: it has the commits of    *)
(* every server from before it was opened, or a quorum that will confirm   *)
(* no leader of its term any more is beyond that term.                     *)

\* The call t waits, and if it asks about a read it is about n's.
AsksRead(n, t) ==
  /\ t.reply = Nil
  /\ t.request.kind = "ReadHeartBeat" =>
       n.activeRead # Nil /\ t.request.readRound = n.activeRead.round

\* m has n's read or has dropped it, has answered no other, and asks about no other.
ReadsOn(n, m) ==
  /\ m.activeRead \in { n.activeRead, Nil }
  /\ m.readsAnswered \subseteq n.readsAnswered
  /\ \A t \in m.threadPool : t \in n.threadPool \/ AsksRead(n, t)

\* m reads and calls as n does.
SameReads(n, m) ==
  /\ m.activeRead = n.activeRead /\ m.readsAnswered = n.readsAnswered
  /\ m.threadPool = n.threadPool

\* Doing nothing about reads, and going on twice.
LEMMA ReadsOnRules ==
  /\ \A n, m : SameReads(n, m) => ReadsOn(n, m)
  /\ \A n, m, k : ReadsOn(n, m) /\ ReadsOn(m, k) => ReadsOn(n, k)
  <1>1. ASSUME NEW n, NEW m, SameReads(n, m)  PROVE ReadsOn(n, m)
    BY <1>1 DEF SameReads, ReadsOn
  <1>2. ASSUME NEW n, NEW m, NEW k, ReadsOn(n, m), ReadsOn(m, k)  PROVE ReadsOn(n, k)
    <2>1. k.activeRead \in { n.activeRead, Nil } /\ k.readsAnswered \subseteq n.readsAnswered
      BY <1>2 DEF ReadsOn
    <2>2. ASSUME NEW t, AsksRead(m, t)  PROVE AsksRead(n, t)
      BY <1>2, <2>2 DEF ReadsOn, AsksRead
    <2> QED BY <1>2, <2>1, <2>2 DEF ReadsOn
  <1> QED BY <1>1, <1>2

\* The parts of handlers that call nobody and leave reads alone.
LEMMA QuietReads ==
  ASSUME NEW n \in RaftObject
  PROVE  /\ SameReads(n, Abort(n)) /\ SameReads(n, AppendOwn(n)) /\ SameReads(n, FollowLeader(n))
         /\ SameReads(n, ApplyCommitted(n))
         /\ \A p : SameReads(n, NotInFlight(n, p))
         /\ \A p, i : SameReads(n, Acknowledge(n, p, i)) /\ SameReads(n, BackUp(n, p, i))
         /\ \A term : SameReads(n, EnterTerm(n, term))
         /\ \A q : SameReads(n, CastVote(n, q)) /\ SameReads(n, StoreEntries(n, q))
         /\ \A i, term : SameReads(n, InstallNewer(n, i, term))
         /\ \A i : SameReads(n, DoSnapshot(n, i))
  <1>1. /\ SameReads(n, Abort(n)) /\ SameReads(n, AppendOwn(n)) /\ SameReads(n, FollowLeader(n))
        /\ SameReads(n, ApplyCommitted(n))
    BY DEF RaftObject, Abort, AppendOwn, Persist, FollowLeader, ApplyCommitted, SameReads
  <1>2. \A p : SameReads(n, NotInFlight(n, p))
    BY DEF RaftObject, NotInFlight, SameReads
  <1>3. \A p, i : SameReads(n, Acknowledge(n, p, i)) /\ SameReads(n, BackUp(n, p, i))
    BY DEF RaftObject, Acknowledge, BackUp, SameReads
  <1>4. \A term : SameReads(n, EnterTerm(n, term))
    BY DEF RaftObject, EnterTerm, Persist, SameReads
  <1>5. \A q : SameReads(n, CastVote(n, q)) /\ SameReads(n, StoreEntries(n, q))
    BY DEF RaftObject, CastVote, StoreEntries, Persist, SameReads
  <1>6. \A i, term : SameReads(n, InstallNewer(n, i, term))
    BY DEF RaftObject, InstallNewer, Persist, SameReads
  <1>7. \A i : SameReads(n, DoSnapshot(n, i))
    BY DEF RaftObject, DoSnapshot, Abort, Persist, SameReads
  <1> QED BY <1>1, <1>2, <1>3, <1>4, <1>5, <1>6, <1>7

\* Calls that end, reads that are dropped, commits that are learned or counted.
LEMMA FewerReads ==
  ASSUME NEW n \in RaftObject
  PROVE  /\ \A t : ReadsOn(n, End(n, t))
         /\ ReadsOn(n, ForgetActiveRead(n)) /\ ReadsOn(n, FailAllPendingReadIndex(n))
         /\ ReadsOn(n, LoseRole(n)) /\ ReadsOn(n, StepDown(n))
         /\ \A term : ReadsOn(n, BecomeFollower(n, term)) /\ ReadsOn(n, Observe(n, term))
         /\ \A c : ReadsOn(n, LearnCommitIndex(n, c))
         /\ ReadsOn(n, UpdateCommitIndex(n))
  <1>1. \A t : ReadsOn(n, End(n, t))
    BY DEF RaftObject, End, ReadsOn
  <1>2. ReadsOn(n, ForgetActiveRead(n)) /\ ReadsOn(n, FailAllPendingReadIndex(n))
    BY DEF RaftObject, ForgetActiveRead, FailAllPendingReadIndex, ReadsOn
  <1>3. ReadsOn(n, LoseRole(n)) /\ ReadsOn(n, StepDown(n))
    BY DEF RaftObject, LoseRole, StepDown, ForgetActiveRead, FailAllPendingReadIndex, ReadsOn
  <1>4. ASSUME NEW term  PROVE ReadsOn(n, BecomeFollower(n, term))
    BY DEF RaftObject, BecomeFollower, EnterTerm, Persist, LoseRole, ForgetActiveRead,
           FailAllPendingReadIndex, ReadsOn
  <1>5. \A term : ReadsOn(n, Observe(n, term))
    BY <1>4, ReadsOnRules DEF Observe, SameReads
  <1>6. \A c : ReadsOn(n, LearnCommitIndex(n, c))
    BY DEF RaftObject, LearnCommitIndex, ApplyCommitted, ReadsOn
  <1>7. ReadsOn(n, UpdateCommitIndex(n))
    BY DEF RaftObject, UpdateCommitIndex, ApplyCommitted, ReadsOn
  <1> QED BY <1>1, <1>2, <1>3, <1>4, <1>5, <1>6, <1>7

\* Calls that ask about no read but n's.
LEMMA SubmitReads ==
  ASSUME NEW n \in RaftObject, NEW m, m.activeRead = n.activeRead,
         m.readsAnswered = n.readsAnswered, NEW Q,
         m.threadPool = n.threadPool \cup { Unanswered(q) : q \in Q },
         \A q \in Q : q.kind = "ReadHeartBeat" =>
           n.activeRead # Nil /\ q.readRound = n.activeRead.round
  PROVE  ReadsOn(n, m)
  <1> SUFFICES ASSUME NEW q \in Q  PROVE AsksRead(n, Unanswered(q))
    BY DEF ReadsOn
  <1>1. Unanswered(q).request = q /\ Unanswered(q).reply = Nil  BY DEF Unanswered
  <1> QED BY <1>1 DEF AsksRead

\* scheduleHeartBeatReadIndex asks about the active read.
LEMMA ScheduleHeartBeatReads ==
  ASSUME NEW n \in RaftObject, NEW peers, NEW round, n.activeRead # Nil,
         round = n.activeRead.round
  PROVE  ReadsOn(n, ScheduleHeartBeat(n, peers, round))
  <1> DEFINE idle == { p \in peers : ~n.replicationInFlight[p] }
             pending == [ p \in Server |-> IF p \in peers \ idle THEN round ELSE n.readIndexPending[p] ]
             inFlight == [ p \in Server |-> n.replicationInFlight[p] \/ p \in idle ]
             k == [ n EXCEPT !.readIndexPending = pending, !.replicationInFlight = inFlight ]
             Q == { ReadHeartBeat(n, p, round) : p \in idle }
  <1>1. CASE \E p \in idle : ~IsLogIndex(n, n.nextIndex[p] - 1)
    BY <1>1, QuietReads, ReadsOnRules DEF ScheduleHeartBeat
  <1>2. CASE \A p \in idle : IsLogIndex(n, n.nextIndex[p] - 1)
    <2>1. ScheduleHeartBeat(n, peers, round) = Submit(k, Q)
      BY <1>2 DEF ScheduleHeartBeat, RaftObject
    <2>2. \A q \in Q : q.readRound = round  BY DEF ReadHeartBeat
    <2> HIDE DEF Q, pending, inFlight, idle
    <2>3. Submit(k, Q) = [ k EXCEPT !.threadPool = @ \cup { Unanswered(q) : q \in Q } ]
      BY DEF Submit, Unanswered
    <2> PICK m : m = Submit(k, Q)  OBVIOUS
    <2>4. /\ m.activeRead = n.activeRead /\ m.readsAnswered = n.readsAnswered
          /\ m.threadPool = n.threadPool \cup { Unanswered(q) : q \in Q }
      BY <2>3 DEF RaftObject
    <2>5. ReadsOn(n, m)  BY <2>2, <2>4, SubmitReads
    <2> QED BY <2>1, <2>5
  <1> QED BY <1>1, <1>2

\* trySchedulePendingReadHeartBeat does so only if the peer's round is the active one.
LEMMA TrySchedulePendingReadHeartBeatReads ==
  ASSUME NEW n \in RaftObject, NEW p \in Server
  PROVE  ReadsOn(n, TrySchedulePendingReadHeartBeat(n, p))
  <1> DEFINE round == n.readIndexPending[p]
             m == [ n EXCEPT !.readIndexPending[p] = 0 ]
  <1>1. m \in RaftObject /\ SameReads(n, m)
    BY ZenonT(30) DEF RaftObject, SameReads
  <1>2. \/ TrySchedulePendingReadHeartBeat(n, p) \in { m, n }
        \/ /\ n.activeRead # Nil /\ n.activeRead.round = round
           /\ TrySchedulePendingReadHeartBeat(n, p) = ScheduleHeartBeat(m, {p}, round)
    BY DEF TrySchedulePendingReadHeartBeat
  <1> HIDE DEF m, round
  <1>3. ReadsOn(n, n) /\ ReadsOn(n, m)  BY <1>1, ReadsOnRules DEF SameReads
  <1>4. n.activeRead # Nil /\ n.activeRead.round = round
          => ReadsOn(n, ScheduleHeartBeat(m, {p}, round))
    <2>1. n.activeRead # Nil /\ n.activeRead.round = round
            => ReadsOn(m, ScheduleHeartBeat(m, {p}, round))
      BY <1>1, ScheduleHeartBeatReads DEF SameReads
    <2> QED BY <1>3, <2>1, ReadsOnRules
  <1> QED BY <1>2, <1>3, <1>4

\* scheduleReplication asks about no read.
LEMMA ScheduleReplicationReads ==
  ASSUME NEW n \in RaftObject, NEW peers
  PROVE  ReadsOn(n, ScheduleReplication(n, peers))
  <1> DEFINE idle == { p \in peers : ~n.replicationInFlight[p] }
             pending == [ p \in Server |-> IF p \in peers THEN p \notin idle ELSE n.replicationPending[p] ]
             inFlight == [ p \in Server |-> n.replicationInFlight[p] \/ p \in idle ]
             k == [ n EXCEPT !.replicationPending = pending, !.replicationInFlight = inFlight ]
             Q == { IF n.nextIndex[p] <= n.lastIncludeSnapshotIndex
                      THEN BuildInstallSnapshot(n, p) ELSE BuildAppendEntries(n, p) : p \in idle }
  <1>1. CASE n.status # Leader
    BY <1>1, ReadsOnRules DEF ScheduleReplication, SameReads
  <1>2. CASE n.status = Leader
    <2>1. ScheduleReplication(n, peers) = Submit(k, Q)
      BY <1>2 DEF ScheduleReplication, RaftObject
    <2>2. \A q \in Q : q.kind # "ReadHeartBeat"
      BY DEF BuildInstallSnapshot, BuildAppendEntries
    <2> HIDE DEF Q, pending, inFlight, idle
    <2>3. Submit(k, Q) = [ k EXCEPT !.threadPool = @ \cup { Unanswered(q) : q \in Q } ]
      BY DEF Submit, Unanswered
    <2> PICK m : m = Submit(k, Q)  OBVIOUS
    <2>4. /\ m.activeRead = n.activeRead /\ m.readsAnswered = n.readsAnswered
          /\ m.threadPool = n.threadPool \cup { Unanswered(q) : q \in Q }
      BY <2>3 DEF RaftObject
    <2>5. ReadsOn(n, m)  BY <2>2, <2>4, SubmitReads
    <2> QED BY <2>1, <2>5
  <1> QED BY <1>1, <1>2

\* What follows an answer that is no refusal.
LEMMA ContinueWithReads ==
  ASSUME NEW n \in RaftObject, NEW p \in Server
  PROVE  ReadsOn(n, ContinueWith(n, p))
  BY ScheduleReplicationReads, TrySchedulePendingReadHeartBeatReads DEF ContinueWith

\* Running for leader and taking office ask for votes and replicate.
LEMMA BecomeLeaderReads ==
  ASSUME NEW n, Sound(n), n.status = Candidate
  PROVE  ReadsOn(n, BecomeLeader(n))
  <1> DEFINE k == ElectedLeader(n)
  <1>0. n \in RaftObject  BY DEF Sound
  <1>1. Sound(k) /\ SameReads(n, k)
    <2>1. Sound(k)  BY ElectedLeaderSound
    <2> QED BY <1>0, <2>1 DEF RaftObject, ElectedLeader, SameReads
  <1>2. BecomeLeader(n) = ScheduleAllReplication(AppendOwn(k))
    BY DEF BecomeLeader, ElectedLeader
  <1> HIDE DEF k
  <1>3. SameReads(k, AppendOwn(k)) /\ AppendOwn(k) \in RaftObject
    BY <1>1, QuietReads, AppendOwnKeeps, ElectedLeaderSound DEF Keeps, Sound, k
  <1>4. ReadsOn(AppendOwn(k), ScheduleAllReplication(AppendOwn(k)))
    BY <1>3, ScheduleReplicationReads DEF ScheduleAllReplication
  <1> QED BY <1>1, <1>2, <1>3, <1>4, ReadsOnRules

\* beginElection
LEMMA BeginElectionReads ==
  ASSUME NEW n, Sound(n), n.status # Leader
  PROVE  ReadsOn(n, BeginElection(n))
  <1> DEFINE m == NewCandidate(n)
             asked == Asking(n)
  <1>0. n \in RaftObject  BY DEF Sound
  <1>1. BeginElection(n) = IF QuorumSize <= 1 THEN BecomeLeader(asked) ELSE asked
    BY <1>0 DEF BeginElection, Asking, NewCandidate, RaftObject
  <1>2. Sound(asked) /\ asked.status = Candidate
    BY AskingSound
  <1>3. ReadsOn(n, asked)
    <2>1. PICK Q : Q = { RequestVote(m, p) : p \in PeersOf(n.id) }  OBVIOUS
    <2>2. \A q \in Q : q.kind # "ReadHeartBeat"  BY <2>1 DEF RequestVote
    <2>3. asked = Submit(m, Q)  BY <2>1 DEF Asking
    <2>4. SameReads(n, m)
      BY ZenonT(30), <1>0 DEF RaftObject, NewCandidate, Persist, SameReads
    <2>5. /\ Submit(m, Q).activeRead = m.activeRead
          /\ Submit(m, Q).readsAnswered = m.readsAnswered
          /\ Submit(m, Q).threadPool = m.threadPool \cup { Unanswered(q) : q \in Q }
      BY ZenonT(30), <1>0 DEF RaftObject, NewCandidate, Persist, Submit, Unanswered
    <2> HIDE DEF asked
    <2> QED BY <1>0, <2>2, <2>3, <2>4, <2>5, SubmitReads DEF SameReads
  <1> HIDE DEF asked
  <1>4. ReadsOn(asked, BecomeLeader(asked))  BY <1>2, BecomeLeaderReads
  <1> QED BY <1>1, <1>3, <1>4, ReadsOnRules

\* beginPreVote
LEMMA BeginPreVoteReads ==
  ASSUME NEW n, Sound(n), n.status # Leader
  PROVE  ReadsOn(n, BeginPreVote(n))
  <1> DEFINE asked == PreVoting(n)
             m == [ n EXCEPT !.status = PreCandidate, !.preVoteTerm = n.currentTerm + 1,
                             !.preVotesGranted = 1, !.preVoteRound = n.preVoteRound + 1 ]
  <1>0. n \in RaftObject  BY DEF Sound
  <1>1. /\ BeginPreVote(n) = IF QuorumSize <= 1 THEN BeginElection(asked) ELSE asked
        /\ Sound(asked) /\ asked.status = PreCandidate
    BY PreVotingKeeps DEF Keeps
  <1>2. ReadsOn(n, asked)
    <2>1. PICK Q : Q = { PreVote(m, p) : p \in PeersOf(n.id) }  OBVIOUS
    <2>2. \A q \in Q : q.kind # "ReadHeartBeat"  BY <2>1 DEF PreVote
    <2>3. asked = Submit(m, Q)  BY <1>0, <2>1 DEF PreVoting, RaftObject
    <2>4. SameReads(n, m)
      BY ZenonT(30), <1>0 DEF RaftObject, SameReads
    <2>5. /\ Submit(m, Q).activeRead = m.activeRead
          /\ Submit(m, Q).readsAnswered = m.readsAnswered
          /\ Submit(m, Q).threadPool = m.threadPool \cup { Unanswered(q) : q \in Q }
      BY ZenonT(30), <1>0 DEF RaftObject, Submit, Unanswered
    <2> HIDE DEF asked
    <2> QED BY <1>0, <2>2, <2>3, <2>4, <2>5, SubmitReads DEF SameReads
  <1> HIDE DEF asked
  <1>3. ReadsOn(asked, BeginElection(asked))
    BY <1>1, BeginElectionReads DEF PreCandidate, Leader
  <1> QED BY <1>1, <1>2, <1>3, ReadsOnRules

\* The handlers of requests ask about nothing.
LEMMA HandlersRead ==
  ASSUME NEW n, Sound(n)
  PROVE  /\ \A q \in RequestVoteArgs : ReadsOn(n, HandleRequestVote(n, q).object)
         /\ \A q \in AppendEntriesArgs : ReadsOn(n, HandleAppendEntries(n, q).object)
         /\ \A q \in ReadHeartBeatArgs : ReadsOn(n, HandleReadHeartBeat(n, q).object)
         /\ \A q \in InstallSnapshotArgs : ReadsOn(n, HandleInstallSnapshot(n, q).object)
  <1>0. n \in RaftObject /\ n.currentTerm \in Nat  BY FieldTypes DEF Sound
  <1>1. ASSUME NEW term \in Nat, NEW m, m = Observe(n, term)
        PROVE  /\ Sound(m) /\ m \in RaftObject /\ ReadsOn(n, m) /\ m.currentTerm \in Nat
               /\ m.currentTerm = Larger(term, n.currentTerm)
               /\ Sound(FollowLeader(m)) /\ ReadsOn(n, FollowLeader(m))
               /\ FollowLeader(m) \in RaftObject /\ FollowLeader(m).status = Follower
    <2>1. Sound(m) /\ m \in RaftObject /\ m.currentTerm = Larger(term, n.currentTerm)
      BY <1>1, ObserveKeeps DEF Keeps, Sound
    <2>2. ReadsOn(n, m)  BY <1>0, <1>1, FewerReads
    <2>3. Sound(FollowLeader(m)) /\ FollowLeader(m).status = Follower
      BY <2>1, FollowLeaderKeeps DEF Keeps
    <2>4. ReadsOn(m, FollowLeader(m))  BY <2>1, QuietReads, ReadsOnRules
    <2>5. ReadsOn(n, FollowLeader(m))  BY <2>2, <2>4, ReadsOnRules
    <2> QED BY <2>1, <2>2, <2>3, <2>5, FieldTypes DEF Sound
  <1>2. ASSUME NEW q \in RequestVoteArgs  PROVE ReadsOn(n, HandleRequestVote(n, q).object)
    <2>0. PICK m : m = Observe(n, q.term)  OBVIOUS
    <2>1. q.term \in Nat  BY DEF RequestVoteArgs
    <2>2. HandleRequestVote(n, q).object \in { m, CastVote(m, q) }
      BY <2>0 DEF HandleRequestVote, Handled
    <2>3. ReadsOn(n, m) /\ ReadsOn(m, CastVote(m, q))
      BY <1>1, <2>0, <2>1, QuietReads, ReadsOnRules
    <2> QED BY <2>2, <2>3, ReadsOnRules
  <1>3. ASSUME NEW q \in AppendEntriesArgs  PROVE ReadsOn(n, HandleAppendEntries(n, q).object)
    <2>0. PICK m, f : m = Observe(n, q.term) /\ f = FollowLeader(m)  OBVIOUS
    <2>1. q.term \in Nat  BY DEF AppendEntriesArgs
    <2>2. /\ ReadsOn(n, m) /\ ReadsOn(n, f) /\ Sound(f) /\ f \in RaftObject /\ f.status = Follower
          /\ q.term < m.currentTerm \/ q.term = m.currentTerm
      BY <1>0, <1>1, <2>0, <2>1 DEF Larger
    <2>3. \/ HandleAppendEntries(n, q).object \in { m, f }
          \/ /\ MatchLog(f, q.prevLogIndex, q.prevLogTerm)
             /\ HandleAppendEntries(n, q).object = Accept(f, q)
      BY <2>0, <2>2 DEF HandleAppendEntries, Handled
    <2>4. ASSUME MatchLog(f, q.prevLogIndex, q.prevLogTerm)  PROVE ReadsOn(n, Accept(f, q))
      <3>1. StoreEntries(f, q) \in RaftObject
        BY <2>2, <2>4, StoreEntriesKeeps DEF Keeps, Sound, MatchLog
      <3>2. ReadsOn(f, StoreEntries(f, q))  BY <2>2, QuietReads, ReadsOnRules
      <3>3. ReadsOn(StoreEntries(f, q), Accept(f, q))  BY <3>1, FewerReads DEF Accept
      <3> QED BY <2>2, <3>2, <3>3, ReadsOnRules
    <2> QED BY <2>2, <2>3, <2>4
  <1>4. ASSUME NEW q \in ReadHeartBeatArgs  PROVE ReadsOn(n, HandleReadHeartBeat(n, q).object)
    <2>0. PICK m, f : m = Observe(n, q.term) /\ f = FollowLeader(m)  OBVIOUS
    <2>1. q.term \in Nat  BY DEF ReadHeartBeatArgs
    <2>2. HandleReadHeartBeat(n, q).object \in { m, f }
      BY <2>0 DEF HandleReadHeartBeat, Handled
    <2> QED BY <1>1, <2>0, <2>1, <2>2
  <1>5. ASSUME NEW q \in InstallSnapshotArgs  PROVE ReadsOn(n, HandleInstallSnapshot(n, q).object)
    <2>0. PICK m, f, i : /\ m = Observe(n, q.term) /\ f = FollowLeader(m)
                         /\ i = InstallNewer(f, q.lastSnapshotIncludeIndex, q.lastSnapshotIncludeTerm)
      OBVIOUS
    <2>1. q.term \in Nat  BY DEF InstallSnapshotArgs
    <2>2. /\ ReadsOn(n, m) /\ ReadsOn(n, f) /\ f \in RaftObject
          /\ q.term < m.currentTerm \/ q.term = m.currentTerm
      BY <1>0, <1>1, <2>0, <2>1 DEF Larger
    <2>3. HandleInstallSnapshot(n, q).object \in { m, f, i }
      BY <2>0, <2>2 DEF HandleInstallSnapshot, Handled
    <2>4. ReadsOn(f, i)  BY <2>0, <2>2, QuietReads, ReadsOnRules
    <2> QED BY <2>2, <2>3, <2>4, ReadsOnRules
  <1> QED BY <1>2, <1>3, <1>4, <1>5

\* An answered call by which q.to says that it still follows n in the active round.
Acknowledges(n, q, reply) ==
  /\ StillLeads(n, q) /\ reply.term = n.currentTerm /\ reply.success
  /\ n.activeRead # Nil /\ n.activeRead.round = reply.readRound

\* handleAppendReply counts such an answer, and else asks about no read but the active.
LEMMA HandleAppendReplyReads ==
  ASSUME NEW n, Sound(n), NEW q \in AppendEntriesArgs \cup ReadHeartBeatArgs,
         q.to \in PeersOf(n.id), NEW reply \in AppendEntriesReply,
         LastEntryOf(q) \in Nat, StillLeads(n, q) => LastEntryOf(q) <= GetLastLogIndex(n)
  PROVE  \/ ReadsOn(n, HandleAppendReply(n, q, reply))
         \/ /\ Acknowledges(n, q, reply)
            /\ ReadsOn(AcknowledgeRead(n, q.to), HandleAppendReply(n, q, reply))
  <1> DEFINE p == q.to
             m == NotInFlight(n, p)
             a == Acknowledge(m, p, LastEntryOf(q))
             u == UpdateCommitIndex(a)
             r == AcknowledgeRead(m, p)
             b == BackUp(m, p, reply.updateNextIndex)
             h == HandleAppendReply(n, q, reply)
  <1>0. /\ n \in RaftObject /\ n.currentTerm \in Nat /\ p \in Server
        /\ reply.term \in Nat /\ reply.updateNextIndex \in Int
        /\ reply.readRound \in Nat /\ reply.success \in BOOLEAN
    BY FieldTypes DEF Sound, AppendEntriesReply, PeersOf
  <1>1. Sound(m) /\ m \in RaftObject /\ SameObject(n, m) /\ SameReads(n, m)
    BY <1>0, NotInFlightKeeps, QuietReads DEF Keeps, Sound
  <1>2. \/ ~StillLeads(n, q) /\ h = n
        \/ /\ StillLeads(n, q)
           /\ \/ h = BecomeFollower(m, reply.term)
              \/ h = ScheduleReplication(b, {p})
              \/ h = ContinueWith(u, p)
              \/ /\ reply.term = n.currentTerm /\ reply.success
                 /\ m.activeRead # Nil /\ m.activeRead.round = reply.readRound
                 /\ h = ContinueWith(r, p)
              \/ h = m
    BY <1>0 DEF HandleAppendReply
  <1> HIDE DEF m, h
  <1>3. ReadsOn(n, n) /\ ReadsOn(n, m)  BY <1>1, ReadsOnRules DEF SameReads
  <1>4. ReadsOn(n, BecomeFollower(m, reply.term))  BY <1>1, <1>3, FewerReads, ReadsOnRules
  <1>5. ASSUME StillLeads(n, q)
        PROVE  /\ ReadsOn(n, ScheduleReplication(b, {p})) /\ ReadsOn(n, ContinueWith(u, p))
               /\ m.activeRead # Nil => r \in RaftObject
    <2>1. m.status = Leader /\ GetLastLogIndex(m) = GetLastLogIndex(n)
      BY <1>1, <1>5 DEF StillLeads, SameObject, SameRole, SameDisk, GetLastLogIndex
    <2>2. ReadsOn(n, ScheduleReplication(b, {p}))
      <3>1. b \in RaftObject  BY <1>0, <1>1, BackUpKeeps DEF Keeps, Sound
      <3>2. ReadsOn(m, b)  BY <1>1, QuietReads, ReadsOnRules
      <3>3. ReadsOn(b, ScheduleReplication(b, {p}))  BY <3>1, ScheduleReplicationReads
      <3> QED BY <1>3, <3>2, <3>3, ReadsOnRules
    <2>3. ReadsOn(n, ContinueWith(u, p))
      <3>1. Sound(a) /\ a \in RaftObject /\ a.status = Leader
        BY <1>0, <1>1, <1>5, <2>1, AcknowledgeKeeps DEF Keeps, Sound, SameRole
      <3>2. ReadsOn(m, a)  BY <1>1, QuietReads, ReadsOnRules
      <3>3. ReadsOn(a, u) /\ u \in RaftObject
        BY <3>1, FewerReads, UpdateCommitIndexKeeps DEF Keeps, Sound
      <3>4. ReadsOn(u, ContinueWith(u, p))  BY <1>0, <3>3, ContinueWithReads
      <3> QED BY <1>3, <3>2, <3>3, <3>4, ReadsOnRules
    <2>4. m.activeRead # Nil => r \in RaftObject
      BY <1>0, <1>1, AcknowledgeReadKeeps DEF Keeps, Sound
    <2> QED BY <2>2, <2>3, <2>4
  <1>6. ASSUME m.activeRead # Nil, r \in RaftObject
        PROVE  ReadsOn(AcknowledgeRead(n, p), ContinueWith(r, p))
    <2>1. SameReads(AcknowledgeRead(n, p), r)
      BY ZenonT(30), <1>0 DEF RaftObject, NotInFlight, AcknowledgeRead, CompleteActiveRead,
                          ForgetActiveRead, SameReads, m
    <2>2. ReadsOn(r, ContinueWith(r, p))  BY <1>0, <1>6, ContinueWithReads
    <2> QED BY <2>1, <2>2, ReadsOnRules
  <1> HIDE DEF b, u, r, p
  <1> QED BY <1>1, <1>2, <1>3, <1>4, <1>5, <1>6 DEF h, p, Acknowledges, SameReads

\* handleSnapshotReply, and the replies to calls for votes, ask about none.
LEMMA HandleSnapshotReplyReads ==
  ASSUME NEW n, Sound(n), NEW q, q.to \in PeersOf(n.id), NEW reply \in InstallSnapshotReply
  PROVE  ReadsOn(n, HandleSnapshotReply(n, q, reply))
  <1> DEFINE p == q.to
             m == NotInFlight(n, p)
             a == Acknowledge(m, p, n.lastIncludeSnapshotIndex)
             h == HandleSnapshotReply(n, q, reply)
  <1>0. /\ n \in RaftObject /\ n.currentTerm \in Nat /\ p \in Server
        /\ reply.term \in Nat /\ n.lastIncludeSnapshotIndex \in Nat
        /\ n.lastIncludeSnapshotIndex <= GetLastLogIndex(n)
    BY FieldTypes, LogTypes DEF Sound, InstallSnapshotReply, PeersOf
  <1>1. Sound(m) /\ m \in RaftObject /\ SameObject(n, m) /\ SameReads(n, m)
    BY <1>0, NotInFlightKeeps, QuietReads DEF Keeps, Sound
  <1>2. \/ ~StillLeads(n, q) /\ h = n
        \/ /\ StillLeads(n, q)
           /\ h \in { BecomeFollower(m, reply.term), ScheduleReplication(a, {p}), a, m }
    BY <1>0 DEF HandleSnapshotReply
  <1> HIDE DEF m, h
  <1>3. ReadsOn(n, n) /\ ReadsOn(n, m)  BY <1>1, ReadsOnRules DEF SameReads
  <1>4. ReadsOn(n, BecomeFollower(m, reply.term))  BY <1>1, <1>3, FewerReads, ReadsOnRules
  <1>5. ASSUME StillLeads(n, q)  PROVE ReadsOn(n, a) /\ ReadsOn(n, ScheduleReplication(a, {p}))
    <2>1. GetLastLogIndex(m) = GetLastLogIndex(n)
      BY <1>1 DEF SameObject, SameDisk, GetLastLogIndex
    <2>2. a \in RaftObject
      BY <1>0, <1>1, <1>5, <2>1, AcknowledgeKeeps DEF Keeps, Sound
    <2>3. ReadsOn(m, a)  BY <1>1, QuietReads, ReadsOnRules
    <2>4. ReadsOn(a, ScheduleReplication(a, {p}))  BY <2>2, ScheduleReplicationReads
    <2> QED BY <1>3, <2>3, <2>4, ReadsOnRules
  <1> HIDE DEF a, p
  <1> QED BY <1>2, <1>3, <1>4, <1>5 DEF h

\* A call for a vote or a pre-vote that ends.
LEMMA HandleVoteRepliesReads ==
  ASSUME NEW n, Sound(n), NEW q, NEW reply \in VoteReply
  PROVE  ReadsOn(n, HandlePreVoteReply(n, q, reply)) /\ ReadsOn(n, HandleVoteReply(n, q, reply))
  <1>0. n \in RaftObject /\ reply.term \in Nat /\ n.currentTerm \in Nat
        /\ n.preVotesGranted + 1 \in Nat /\ n.votesGranted + 1 \in Nat
    BY FieldTypes DEF Sound, VoteReply
  <1>1. ReadsOn(n, n) /\ ReadsOn(n, BecomeFollower(n, reply.term))
    BY <1>0, FewerReads, ReadsOnRules DEF SameReads
  <1>2. ReadsOn(n, HandlePreVoteReply(n, q, reply))
    <2> DEFINE m == [ n EXCEPT !.preVotesGranted = n.preVotesGranted + 1 ]
    <2>1. \/ HandlePreVoteReply(n, q, reply) \in { n, BecomeFollower(n, reply.term) }
          \/ n.status = PreCandidate /\ HandlePreVoteReply(n, q, reply) \in { m, BeginElection(m) }
      BY <1>0 DEF HandlePreVoteReply, RaftObject
    <2>2. m \in RaftObject /\ SameObject(n, m) /\ SameReads(n, m) /\ m.status = n.status
      BY ZenonT(30), <1>0 DEF RaftObject, SameObject, SameDisk, SameRole, SamePeers, SameReads
    <2> HIDE DEF m
    <2>3. Sound(m)  BY <2>2, SameKeeps DEF Keeps
    <2>4. n.status = PreCandidate => ReadsOn(m, BeginElection(m))
      BY <2>2, <2>3, BeginElectionReads DEF PreCandidate, Leader
    <2> QED BY <1>1, <2>1, <2>2, <2>4, ReadsOnRules
  <1>3. ReadsOn(n, HandleVoteReply(n, q, reply))
    <2> DEFINE m == [ n EXCEPT !.votesGranted = n.votesGranted + 1 ]
    <2>1. \/ HandleVoteReply(n, q, reply) \in { n, BecomeFollower(n, reply.term) }
          \/ n.status = Candidate /\ HandleVoteReply(n, q, reply) \in { m, BecomeLeader(m) }
      BY <1>0 DEF HandleVoteReply, RaftObject
    <2>2. m \in RaftObject /\ SameReads(n, m) /\ m.status = n.status /\ m.id = n.id
          /\ SameDisk(n, m) /\ SamePeers(n, m) /\ m.persister = n.persister
          /\ m.lastApplied = n.lastApplied /\ m.currentTerm = n.currentTerm
      BY ZenonT(30), <1>0 DEF RaftObject, SameReads, SameDisk, SamePeers
    <2> HIDE DEF m
    <2>3. GetLastLogIndex(m) = GetLastLogIndex(n) /\ PersistData(m) = PersistData(n)
      BY <2>2 DEF SameDisk, GetLastLogIndex, PersistData
    <2>4. Sound(m)  BY <2>2, <2>3 DEF Sound, SameDisk, SamePeers, SameReads
    <2>5. n.status = Candidate => ReadsOn(m, BecomeLeader(m))
      BY <2>2, <2>4, BecomeLeaderReads
    <2> QED BY <1>1, <2>1, <2>2, <2>5, ReadsOnRules
  <1> QED BY <1>2, <1>3

\* How s goes on with its reads in a step: as it was, with an acknowledgement more,
\* or with a round that it opens.
ReadStep(s) ==
  \/ ReadsOn(raft[s], raft'[s]) /\ readFloor' = readFloor
  \/ /\ readFloor' = readFloor
     /\ \E t \in raft[s].threadPool :
          /\ t.reply # Nil /\ t.request.kind \in { "AppendEntries", "ReadHeartBeat" }
          /\ Acknowledges(raft[s], t.request, t.reply)
          /\ ReadsOn(AcknowledgeRead(raft[s], t.request.to), raft'[s])
  \/ /\ MayOpenRead(raft[s])
     /\ readFloor' = Append(readFloor, [ p \in Server |-> raft[p].commitIndex ])
     /\ ReadsOn([ raft[s] EXCEPT !.activeRead =
                    [ round |-> Len(readFloor) + 1, term |-> raft[s].currentTerm,
                      readIndex |-> raft[s].commitIndex, acks |-> {raft[s].id} ] ],
                raft'[s])

\* The handlers of requests.
LEMMA ReceivesReads ==
  ASSUME TypeInv, NEW s \in Server, Receives(s)
  PROVE  ReadStep(s)
  <1> DEFINE n == raft[s]
  <1>0. /\ Sound(n) /\ n \in RaftObject /\ n.hasLeaderContact \in BOOLEAN
        /\ ReadsOn(n, n)
    BY ReadsOnRules DEF TypeInv, RaftObject, SameReads
  <1>1. \A kind : \A q \in Requests(kind, s) : q \in Request /\ q.kind = kind
    BY RequestFacts
  <1>2. ASSUME NEW kind, NEW q \in Requests(kind, s), NEW h, Answer(q, h), ReadsOn(n, h.object)
        PROVE  ReadStep(s)
    BY <1>2, AnswerLeaves DEF Answer, ReadStep
  <1> HIDE DEF n
  <1>3. CASE OnPreVote(s)
    <2>1. PICK q \in Requests("PreVote", s) : \E recent \in BOOLEAN :
            Answer(q, HandlePreVote(n, q, recent))
      BY <1>0, <1>3 DEF OnPreVote, n
    <2>2. PICK recent \in BOOLEAN : Answer(q, HandlePreVote(n, q, recent))  BY <2>1
    <2>3. q \in PreVoteArgs  BY <1>1, RequestTypes
    <2>4. ReadsOn(n, HandlePreVote(n, q, recent).object)
      BY <1>0, <2>3, HandlePreVoteTypes
    <2> QED BY <1>2, <2>2, <2>4
  <1>4. CASE OnRequestVote(s)
    <2>1. PICK q \in Requests("RequestVote", s) : Answer(q, HandleRequestVote(n, q))
      BY <1>4 DEF OnRequestVote, n
    <2>2. q \in RequestVoteArgs  BY <1>1, RequestTypes
    <2> QED BY <1>0, <1>2, <2>1, <2>2, HandlersRead
  <1>5. CASE OnAppendEntries(s)
    <2>1. PICK q \in Requests("AppendEntries", s) : Answer(q, HandleAppendEntries(n, q))
      BY <1>5 DEF OnAppendEntries, n
    <2>2. q \in AppendEntriesArgs  BY <1>1, RequestTypes
    <2> QED BY <1>0, <1>2, <2>1, <2>2, HandlersRead
  <1>6. CASE OnReadHeartBeat(s)
    <2>1. PICK q \in Requests("ReadHeartBeat", s) : Answer(q, HandleReadHeartBeat(n, q))
      BY <1>6 DEF OnReadHeartBeat, n
    <2>2. q \in ReadHeartBeatArgs  BY <1>1, RequestTypes
    <2> QED BY <1>0, <1>2, <2>1, <2>2, HandlersRead
  <1>7. CASE OnInstallSnapshot(s)
    <2>1. PICK q \in Requests("InstallSnapshot", s) : Answer(q, HandleInstallSnapshot(n, q))
      BY <1>7 DEF OnInstallSnapshot, n
    <2>2. q \in InstallSnapshotArgs  BY <1>1, RequestTypes
    <2> QED BY <1>0, <1>2, <2>1, <2>2, HandlersRead
  <1> QED BY <1>3, <1>4, <1>5, <1>6, <1>7 DEF Receives

\* The handlers of replies, after the call has ended.
LEMMA ReturnsReads ==
  ASSUME TypeInv, NEW s \in Server, NEW p \in PeersOf(s),
         \/ PreVoteReturns(s, p) \/ RequestVoteReturns(s, p)
         \/ AppendEntriesReturns(s, p) \/ InstallSnapshotReturns(s, p)
  PROVE  ReadStep(s)
  <1>0. Sound(raft[s]) /\ raft[s] \in RaftObject /\ raft[s].id = s
    BY DEF TypeInv
  <1>1. readFloor' = readFloor
    BY DEF PreVoteReturns, RequestVoteReturns, AppendEntriesReturns, InstallSnapshotReturns
  <1>2. ASSUME NEW h, Step(s, h)  PROVE raft'[s] = h
    BY <1>0, <1>2 DEF Step, TypeInv
  <1>3. ASSUME NEW t \in raft[s].threadPool
        PROVE  LET n == End(raft[s], t)
               IN  /\ t \in Task /\ Sound(n) /\ n \in RaftObject /\ n.id = s
                   /\ t.request.to \in PeersOf(s) /\ ReadsOn(raft[s], n)
                   /\ StillLeads(raft[s], t.request) <=> StillLeads(n, t.request)
    <2> DEFINE n == End(raft[s], t)
    <2>1. t \in Task /\ t.request.to \in PeersOf(s) /\ Sound(n) /\ n.id = s
      BY <1>0, TaskEnds DEF Keeps, TypeInv
    <2>2. n.status = raft[s].status /\ n.currentTerm = raft[s].currentTerm
      BY <1>0 DEF RaftObject, End
    <2>3. ReadsOn(raft[s], n)  BY <1>0, FewerReads
    <2> QED BY <2>1, <2>2, <2>3 DEF Sound, StillLeads
  <1>4. CASE PreVoteReturns(s, p)
    <2>1. PICK t \in Answered(s, p, {"PreVote"}) :
            Step(s, HandlePreVoteReply(End(raft[s], t), t.request, t.reply))
      BY <1>4 DEF PreVoteReturns
    <2>2. t \in raft[s].threadPool /\ t.request.kind = "PreVote" /\ t.reply # Nil
      BY DEF Answered
    <2>3. t.reply \in VoteReply  BY <1>3, <2>2, TaskTypes
    <2>4. ReadsOn(End(raft[s], t), raft'[s])
      BY <1>2, <1>3, <2>1, <2>2, <2>3, HandleVoteRepliesReads
    <2> QED BY <1>1, <1>3, <2>2, <2>4, ReadsOnRules DEF ReadStep
  <1>5. CASE RequestVoteReturns(s, p)
    <2>1. PICK t \in Answered(s, p, {"RequestVote"}) :
            Step(s, HandleVoteReply(End(raft[s], t), t.request, t.reply))
      BY <1>5 DEF RequestVoteReturns
    <2>2. t \in raft[s].threadPool /\ t.request.kind = "RequestVote" /\ t.reply # Nil
      BY DEF Answered
    <2>3. t.reply \in VoteReply  BY <1>3, <2>2, TaskTypes
    <2>4. ReadsOn(End(raft[s], t), raft'[s])
      BY <1>2, <1>3, <2>1, <2>2, <2>3, HandleVoteRepliesReads
    <2> QED BY <1>1, <1>3, <2>2, <2>4, ReadsOnRules DEF ReadStep
  <1>6. CASE AppendEntriesReturns(s, p)
    <2>1. PICK t \in Answered(s, p, {"AppendEntries", "ReadHeartBeat"}) :
            Step(s, HandleAppendReply(End(raft[s], t), t.request, t.reply))
      BY <1>6 DEF AppendEntriesReturns
    <2>2. /\ t \in raft[s].threadPool /\ t.reply # Nil
          /\ t.request.kind \in { "AppendEntries", "ReadHeartBeat" }
      BY DEF Answered
    <2>3. PICK n, q : n = End(raft[s], t) /\ q = t.request  OBVIOUS
    <2>4. q \in AppendEntriesArgs \cup ReadHeartBeatArgs /\ t.reply \in AppendEntriesReply
      BY <1>3, <2>2, <2>3, TaskTypes
    <2>5. /\ Sound(n) /\ n \in RaftObject /\ n.id = s /\ q.to \in PeersOf(n.id)
          /\ ReadsOn(raft[s], n) /\ (StillLeads(raft[s], q) <=> StillLeads(n, q))
      BY <1>3, <2>2, <2>3
    <2>6. LastEntryOf(q) \in Nat  BY <1>3, <2>2, <2>3, TaskTypes, LastEntryOfType
    <2>7. StillLeads(n, q) => LastEntryOf(q) <= GetLastLogIndex(n)
      <3>1. GetLastLogIndex(n) = GetLastLogIndex(raft[s])
        BY <1>0, <2>2, <2>3, EndKeeps DEF SameDisk, GetLastLogIndex
      <3> QED BY <1>0, <2>2, <2>3, <2>4, <2>5, <3>1 DEF Sound, StillLeads, StreamKind
    <2>8. \/ ReadsOn(n, raft'[s])
          \/ /\ Acknowledges(n, q, t.reply)
             /\ ReadsOn(AcknowledgeRead(n, q.to), raft'[s])
      BY <1>2, <2>1, <2>3, <2>4, <2>5, <2>6, <2>7, HandleAppendReplyReads
    <2>9. CASE ReadsOn(n, raft'[s])
      BY <1>1, <2>5, <2>9, ReadsOnRules DEF ReadStep
    <2>10. CASE Acknowledges(n, q, t.reply) /\ ReadsOn(AcknowledgeRead(n, q.to), raft'[s])
      <3>1. Acknowledges(raft[s], q, t.reply)
        <4>1. n.currentTerm = raft[s].currentTerm /\ n.activeRead = raft[s].activeRead
          BY <1>0, <2>3 DEF RaftObject, End
        <4> QED BY <2>5, <2>10, <4>1 DEF Acknowledges
      <3>2. ReadsOn(AcknowledgeRead(raft[s], q.to), AcknowledgeRead(n, q.to))
        BY ZenonT(30), <1>0, <2>3 DEF RaftObject, End, AcknowledgeRead, CompleteActiveRead,
                                      ForgetActiveRead, ReadsOn
      <3>3. ReadsOn(AcknowledgeRead(raft[s], q.to), raft'[s])  BY <2>10, <3>2, ReadsOnRules
      <3> QED BY <1>1, <2>2, <2>3, <3>1, <3>3 DEF ReadStep
    <2> QED BY <2>8, <2>9, <2>10
  <1>7. CASE InstallSnapshotReturns(s, p)
    <2>1. PICK t \in Answered(s, p, {"InstallSnapshot"}) :
            Step(s, HandleSnapshotReply(End(raft[s], t), t.request, t.reply))
      BY <1>7 DEF InstallSnapshotReturns
    <2>2. t \in raft[s].threadPool /\ t.reply # Nil /\ t.request.kind = "InstallSnapshot"
      BY DEF Answered
    <2>3. t.reply \in InstallSnapshotReply  BY <1>3, <2>2, TaskTypes
    <2>4. ReadsOn(End(raft[s], t), raft'[s])
      BY <1>2, <1>3, <2>1, <2>2, <2>3, HandleSnapshotReplyReads
    <2> QED BY <1>1, <1>3, <2>2, <2>4, ReadsOnRules DEF ReadStep
  <1> QED BY <1>4, <1>5, <1>6, <1>7

\* A call that fails.
LEMMA CallFailsReads ==
  ASSUME TypeInv, NEW s \in Server, CallFails(s)
  PROVE  ReadStep(s)
  <1>0. Sound(raft[s]) /\ raft[s] \in RaftObject  BY DEF TypeInv
  <1>1. PICK t \in raft[s].threadPool : Step(s, TransportFailed(End(raft[s], t), t.request))
    BY DEF CallFails
  <1>2. raft'[s] = TransportFailed(End(raft[s], t), t.request) /\ readFloor' = readFloor
    BY <1>0, <1>1 DEF Step, TypeInv, CallFails
  <1> PICK e : e = End(raft[s], t)  OBVIOUS
  <1>3. ReadsOn(raft[s], e) /\ e \in RaftObject
    BY <1>0, FewerReads, TaskEnds DEF Keeps, Sound, TypeInv
  <1>4. ReadsOn(e, TransportFailed(e, t.request))
    BY <1>3, QuietReads, ReadsOnRules DEF TransportFailed, SameReads
  <1> QED BY <1>2, <1>3, <1>4, ReadsOnRules DEF ReadStep

\* Timeouts, client calls, snapshots and restarts, but nobody joins a round.
LEMMA ActsReads ==
  ASSUME TypeInv, NEW s \in Server, Acts(s), ~JoinRead(s)
  PROVE  ReadStep(s)
  <1> DEFINE n == raft[s]
  <1>0. /\ Sound(n) /\ n \in RaftObject /\ n.id = s /\ n.currentTerm \in Nat
        /\ n.commitIndex \in Nat /\ n.lastIncludeSnapshotIndex \in Nat
    BY FieldTypes DEF TypeInv
  <1>1. ASSUME NEW h, Step(s, h)  PROVE raft'[s] = h
    BY <1>0, <1>1 DEF Step, TypeInv
  <1>2. ASSUME ReadsOn(n, raft'[s]), readFloor' = readFloor  PROVE ReadStep(s)
    BY <1>2 DEF ReadStep
  <1>3. CASE ElectionTimeout(s)
    <2>1. raft'[s] = BeginPreVote(n) /\ n.status # Leader /\ readFloor' = readFloor
      BY <1>1, <1>3 DEF ElectionTimeout
    <2> QED BY <1>0, <1>2, <2>1, BeginPreVoteReads
  <1>4. CASE HeartbeatTimeout(s)
    <2>1. raft'[s] = ScheduleReplication(n, PeersOf(n.id)) /\ readFloor' = readFloor
      BY <1>1, <1>4 DEF HeartbeatTimeout, ScheduleAllReplication
    <2> QED BY <1>0, <1>2, <2>1, ScheduleReplicationReads
  <1>5. CASE QuorumTimeout(s)
    <2>1. raft'[s] = StepDown(n) /\ readFloor' = readFloor
      BY <1>1, <1>5 DEF QuorumTimeout
    <2> QED BY <1>0, <1>2, <2>1, FewerReads
  <1>6. CASE Start(s)
    <2>1. /\ raft'[s] = ScheduleAllReplication(UpdateCommitIndex(AppendOwn(n)))
          /\ readFloor' = readFloor /\ n.status = Leader
      BY <1>1, <1>6 DEF Start
    <2> PICK a, u : a = AppendOwn(n) /\ u = UpdateCommitIndex(a)  OBVIOUS
    <2>2. ReadsOn(n, a) /\ Sound(a) /\ a \in RaftObject
      BY <1>0, <2>1, QuietReads, ReadsOnRules, AppendOwnKeeps DEF Keeps, Sound
    <2>3. a.status = Leader
      BY <1>0, <2>1 DEF RaftObject, AppendOwn, Persist
    <2>4. ReadsOn(a, u) /\ u \in RaftObject
      BY <2>2, <2>3, FewerReads, UpdateCommitIndexKeeps DEF Keeps, Sound
    <2>5. ReadsOn(u, ScheduleAllReplication(u))
      BY <2>4, ScheduleReplicationReads DEF ScheduleAllReplication
    <2> QED BY <1>2, <2>1, <2>2, <2>4, <2>5, ReadsOnRules
  <1>7. CASE ReadIndex(s)
    <2> PICK round : round = Len(readFloor) + 1  OBVIOUS
    <2> DEFINE read == [ round |-> round, term |-> n.currentTerm,
                         readIndex |-> n.commitIndex, acks |-> {n.id} ]
               m == [ n EXCEPT !.activeRead = read ]
    <2>1. /\ MayOpenRead(n) /\ raft'[s] = OpenRead(n, round)
          /\ readFloor' = Append(readFloor, [ p \in Server |-> raft[p].commitIndex ])
      BY <1>1, <1>7 DEF ReadIndex
    <2>2. round \in Nat \ {0}
      <3>1. Len(readFloor) \in Nat  BY LenProperties DEF TypeInv
      <3> QED BY <3>1
    <2>3. read \in PendingReadIndex /\ read # Nil /\ read.round = round
      <3>1. read \in PendingReadIndex
        <4>1. n.id \in Server  BY <1>0
        <4> QED BY <1>0, <2>2, <4>1 DEF PendingReadIndex
      <3> QED BY <3>1, NilAssumption
    <2>4. OpenRead(n, round) = ScheduleHeartBeat(m, PeersOf(n.id), round)
      BY DEF OpenRead
    <2> HIDE DEF read
    <2>5. m \in RaftObject /\ m.activeRead = read
      BY ZenonT(30), <1>0, <2>3 DEF RaftObject
    <2> HIDE DEF m
    <2>6. ReadsOn(m, raft'[s])  BY <2>1, <2>3, <2>4, <2>5, ScheduleHeartBeatReads
    <2> QED BY <2>1, <2>6 DEF ReadStep, m, read
  <1>8. CASE Snapshot(s)
    <2>1. PICK i \in n.lastIncludeSnapshotIndex + 1 .. n.commitIndex : Step(s, DoSnapshot(n, i))
      BY <1>8 DEF Snapshot
    <2>2. raft'[s] = DoSnapshot(n, i) /\ readFloor' = readFloor  BY <1>1, <1>8, <2>1 DEF Snapshot
    <2> QED BY <1>0, <1>2, <2>2, QuietReads, ReadsOnRules
  <1>9. CASE Restart(s)
    <2>1. raft'[s] = Construct(s, n.persister) /\ readFloor' = readFloor
      BY <1>0, <1>9 DEF Restart, TypeInv
    <2>2. ReadsOn(n, Construct(s, n.persister))
      BY DEF Construct, ReadsOn
    <2> QED BY <1>2, <2>1, <2>2
  <1> QED BY <1>3, <1>4, <1>5, <1>6, <1>7, <1>8, <1>9 DEF Acts

\* What x has of s in a step of s: the reply to one of its calls, if anything, which
\* confirms a read only if it was asked about it and s is in the call's term.
Hears(s, x) ==
  \/ raft'[x] = raft[x]
  \/ \E t \in raft[x].threadPool : \E reply :
       /\ t.reply = Nil /\ t.request.to = s
       /\ raft'[x] = [ raft[x] EXCEPT !.threadPool =
                         (@ \ {t}) \cup { [ request |-> t.request, reply |-> reply ] } ]
       /\ t.request.kind \in { "AppendEntries", "ReadHeartBeat" } =>
            \/ reply.readRound = 0
            \/ /\ t.request.kind = "ReadHeartBeat" /\ reply.readRound = t.request.readRound
               /\ reply.success => raft'[s].currentTerm = t.request.term

\* A handler that answers so is heard so, unless streams overtake each other.
LEMMA AnswerHears ==
  ASSUME TypeInv, Overtaken = {}, NEW kind, NEW s \in Server, NEW q \in Requests(kind, s), NEW h,
         Answer(q, h),
         kind = "AppendEntries" => h.reply.readRound = 0,
         kind = "ReadHeartBeat" =>
           h.reply.readRound = q.readRound /\ (h.reply.success => h.object.currentTerm = q.term),
         NEW x \in Server, x # s
  PROVE  Hears(s, x)
  <1>0. /\ q \in Request /\ q.to = s /\ q.kind = kind /\ q.from \in Server
        /\ Unanswered(q) \in raft[q.from].threadPool => q.from # s
        /\ raft'[s] = h.object /\ raft \in [ Server -> RaftObject ]
    BY RequestFacts, AnswerLeaves DEF TypeInv
  <1>1. CASE /\ Unanswered(q) \in raft[q.from].threadPool
             /\ raft' = [ raft EXCEPT
                            ![q.to] = h.object,
                            ![q.from].threadPool =
                              (@ \ { Unanswered(q) })
                                \cup { [ request |-> q, reply |-> h.reply ] } ]
    <2> PICK t : t = Unanswered(q)  OBVIOUS
    <2>1. t.request = q /\ t.reply = Nil /\ t \in raft[q.from].threadPool
      BY <1>1 DEF Unanswered
    <2>2. x # q.from => raft'[x] = raft[x]  BY <1>0, <1>1
    <2>3. raft'[q.from] = [ raft[q.from] EXCEPT !.threadPool =
                              (@ \ {t}) \cup { [ request |-> t.request, reply |-> h.reply ] } ]
      BY <1>0, <1>1, <2>1
    <2>4. t.request.kind \in { "AppendEntries", "ReadHeartBeat" } =>
            \/ h.reply.readRound = 0
            \/ /\ t.request.kind = "ReadHeartBeat" /\ h.reply.readRound = t.request.readRound
               /\ h.reply.success => raft'[s].currentTerm = t.request.term
      BY <1>0, <2>1
    <2>5. ASSUME x = q.from  PROVE Hears(s, x)
      <3> PICK reply : reply = h.reply  OBVIOUS
      <3>1. t \in raft[x].threadPool /\ t.reply = Nil /\ t.request.to = s
        BY <1>0, <2>1, <2>5
      <3>2. raft'[x] = [ raft[x] EXCEPT !.threadPool =
                           (@ \ {t}) \cup { [ request |-> t.request, reply |-> reply ] } ]
        BY <2>3, <2>5
      <3> QED BY ZenonT(30), <3>1, <3>2, <2>4 DEF Hears
    <2> QED BY <2>2, <2>5 DEF Hears
  <1>2. CASE raft' = [ raft EXCEPT ![q.to] = h.object ]
    BY <1>0, <1>2 DEF Hears
  <1>3. NextOnStream(q) = {}  BY DEF NextOnStream
  <1> QED BY <1>1, <1>2, <1>3 DEF Answer

\* Nobody hears of s anything else in a step of s.
LEMMA OthersHear ==
  ASSUME TypeInv, Overtaken = {}, NEW s \in Server,
         Receives(s) \/ Returns(s) \/ CallFails(s) \/ Acts(s), NEW x \in Server, x # s
  PROVE  Hears(s, x)
  <1> DEFINE n == raft[s]
  <1>0. Sound(n) /\ raft \in [ Server -> RaftObject ]  BY DEF TypeInv
  <1>1. \A kind : \A q \in Requests(kind, s) : q \in Request /\ q.kind = kind
    BY RequestFacts
  <1>2. ASSUME NEW h, Step(s, h)  PROVE Hears(s, x)
    BY <1>0, <1>2 DEF Step, Hears
  <1>3. CASE Receives(s)
    <2> HIDE DEF n
    <2>1. ASSUME NEW q \in Requests("PreVote", s), NEW h, Answer(q, h)  PROVE Hears(s, x)
      BY <2>1, AnswerHears
    <2>2. ASSUME NEW q \in Requests("RequestVote", s), NEW h, Answer(q, h)  PROVE Hears(s, x)
      BY <2>2, AnswerHears
    <2>3. ASSUME NEW q \in Requests("AppendEntries", s), Answer(q, HandleAppendEntries(n, q))
          PROVE  Hears(s, x)
      <3>1. q \in AppendEntriesArgs  BY <1>1, RequestTypes
      <3>2. HandleAppendEntries(n, q).reply.readRound = 0
        BY <1>0, <3>1, HandleAppendEntriesStores DEF n
      <3> QED BY <2>3, <3>2, AnswerHears
    <2>4. ASSUME NEW q \in Requests("ReadHeartBeat", s), Answer(q, HandleReadHeartBeat(n, q))
          PROVE  Hears(s, x)
      <3>1. q \in ReadHeartBeatArgs  BY <1>1, RequestTypes
      <3> PICK h : h = HandleReadHeartBeat(n, q)  OBVIOUS
      <3>2. h.reply.readRound = q.readRound /\ (h.reply.success => h.object.currentTerm = q.term)
        BY <1>0, <3>1, HandleReadHeartBeatIdle DEF n
      <3>3. Answer(q, h)  BY <2>4
      <3> QED BY <3>2, <3>3, AnswerHears
    <2>5. ASSUME NEW q \in Requests("InstallSnapshot", s), NEW h, Answer(q, h)  PROVE Hears(s, x)
      BY <2>5, AnswerHears
    <2> QED BY <1>3, <2>1, <2>2, <2>3, <2>4, <2>5
              DEF n, Receives, OnPreVote, OnRequestVote, OnAppendEntries, OnReadHeartBeat,
                  OnInstallSnapshot
  <1>4. CASE Returns(s)
    BY <1>2, <1>4 DEF Returns, PreVoteReturns, RequestVoteReturns, AppendEntriesReturns,
                      InstallSnapshotReturns
  <1>5. CASE CallFails(s)  BY <1>2, <1>5 DEF CallFails
  <1>6. CASE Acts(s)
    <2>1. Restart(s) => Hears(s, x)  BY <1>0 DEF Restart, Hears
    <2> QED BY <1>2, <1>6, <2>1 DEF Acts, ElectionTimeout, HeartbeatTimeout, QuorumTimeout,
                                    Start, ReadIndex, JoinRead, Snapshot
  <1> QED BY <1>3, <1>4, <1>5, <1>6

-----------------------------------------------------------------------------
(* What keeps a round fresh.                                               *)

ReadKind == { "AppendEntries", "ReadHeartBeat" }

\* v is counted by n for the active round, or its answer for it has come.
Confirms(n, v) ==
  \/ v \in n.activeRead.acks
  \/ \E t \in n.threadPool :
       /\ t.request.kind \in ReadKind /\ t.request.to = v
       /\ t.reply # Nil /\ t.reply.success /\ t.reply.readRound = n.activeRead.round

\* A quorum that did not confirm n's round is beyond its term, so it never will.
Overruled(objects, n) ==
  \E Q \in Quorums : \A v \in Q :
    objects[v].currentTerm > n.activeRead.term /\ ~Confirms(n, v)

\* i is no less than what any server had committed when round r was opened.
Covered(floor, r, i) == \A p \in Server : floor[r][p] <= i

\* The active round would answer with all of that or is overruled, and so did the
\* rounds that are answered.
Fresh(objects, floor, n) ==
  /\ n.activeRead # Nil =>
       Covered(floor, n.activeRead.round, n.activeRead.readIndex) \/ Overruled(objects, n)
  /\ \A a \in n.readsAnswered : Covered(floor, a.round, a.readIndex)

\* n knows of no round beyond k.
Begun(n, k) ==
  /\ n.activeRead # Nil => n.activeRead.round <= k
  /\ \A a \in n.readsAnswered : a.round <= k
  /\ \A t \in n.threadPool :
       /\ t.request.kind = "ReadHeartBeat" => t.request.readRound <= k
       /\ t.request.kind \in ReadKind /\ t.reply # Nil => t.reply.readRound <= k

\* The inductive invariant of one object's reads.
Timely(objects, floor, n) == Begun(n, Len(floor)) /\ Fresh(objects, floor, n)

\* What the rounds of an object's reads are.
LEMMA RoundTypes ==
  ASSUME NEW n \in RaftObject
  PROVE  /\ n.activeRead # Nil => /\ n.activeRead \in PendingReadIndex
                                  /\ n.activeRead.round \in Nat \ {0} /\ n.activeRead.term \in Nat
                                  /\ n.activeRead.readIndex \in Nat
                                  /\ n.activeRead.acks \subseteq Server
         /\ \A a \in n.readsAnswered : a.round \in Nat \ {0} /\ a.readIndex \in Nat
         /\ \A t \in n.threadPool :
              /\ t.request.kind = "ReadHeartBeat" => t.request.readRound \in Nat
              /\ t.request.kind \in ReadKind /\ t.reply # Nil => t.reply.readRound \in Nat
  <1>1. n.activeRead \in PendingReadIndex \cup {Nil} /\ n.threadPool \subseteq Task
        /\ n.readsAnswered \subseteq [ round : Nat \ {0}, readIndex : Nat ]
    BY DEF RaftObject
  <1>2. ASSUME NEW t \in n.threadPool, t.request.kind = "ReadHeartBeat"
        PROVE  t.request.readRound \in Nat
    <2>1. t.request \in Request  BY <1>1, TaskTypes
    <2>2. t.request \in ReadHeartBeatArgs  BY <1>2, <2>1, RequestTypes
    <2> QED BY <2>2 DEF ReadHeartBeatArgs
  <1>3. ASSUME NEW t \in n.threadPool, t.request.kind \in ReadKind, t.reply # Nil
        PROVE  t.reply.readRound \in Nat
    <2>1. t.reply \in AppendEntriesReply  BY <1>1, <1>3, TaskTypes DEF ReadKind
    <2> QED BY <2>1 DEF AppendEntriesReply
  <1>4. n.activeRead # Nil => /\ n.activeRead \in PendingReadIndex
                              /\ n.activeRead.round \in Nat \ {0} /\ n.activeRead.term \in Nat
                              /\ n.activeRead.readIndex \in Nat
                              /\ n.activeRead.acks \subseteq Server
    BY <1>1 DEF PendingReadIndex
  <1> QED BY <1>1, <1>2, <1>3, <1>4

\* Who reads on stays fresh.
LEMMA ReadsOnTimely ==
  ASSUME NEW objects, NEW floor, NEW n, NEW m, ReadsOn(n, m), Timely(objects, floor, n)
  PROVE  Timely(objects, floor, m)
  <1>1. m.activeRead # Nil => m.activeRead = n.activeRead /\ n.activeRead # Nil
    BY DEF ReadsOn
  <1>2. Begun(m, Len(floor))
    <2> PICK k : k = Len(floor)  OBVIOUS
    <2>1. Begun(n, k)  BY DEF Timely
    <2>2. ASSUME NEW t \in m.threadPool
          PROVE  /\ t.request.kind = "ReadHeartBeat" => t.request.readRound <= k
                 /\ t.request.kind \in ReadKind /\ t.reply # Nil => t.reply.readRound <= k
      BY <2>1 DEF ReadsOn, AsksRead, Begun
    <2>3. \A a \in m.readsAnswered : a.round <= k  BY <2>1 DEF ReadsOn, Begun
    <2>4. m.activeRead # Nil => m.activeRead.round <= k  BY <1>1, <2>1 DEF Begun
    <2> QED BY <2>2, <2>3, <2>4 DEF Begun
  <1>3. ASSUME m.activeRead # Nil, NEW v, Confirms(m, v)  PROVE Confirms(n, v)
    BY <1>1, <1>3 DEF Confirms, ReadsOn, AsksRead
  <1>4. m.activeRead # Nil /\ Overruled(objects, n) => Overruled(objects, m)
    BY <1>1, <1>3 DEF Overruled
  <1>5. Fresh(objects, floor, m)
    BY <1>1, <1>4 DEF Timely, Fresh, ReadsOn
  <1> QED BY <1>2, <1>5 DEF Timely

\* Rounds that are opened and terms that grow take nothing from it.
LEMMA TimelyGrows ==
  ASSUME NEW objects, NEW floor, NEW n \in RaftObject, Timely(objects, floor, n),
         Len(floor) \in Nat, NEW floor2, Len(floor2) \in Nat, Len(floor) <= Len(floor2),
         \A r \in 1 .. Len(floor) : floor2[r] = floor[r],
         NEW objects2,
         \A v \in Server : /\ objects[v].currentTerm \in Nat /\ objects2[v].currentTerm \in Nat
                           /\ objects[v].currentTerm <= objects2[v].currentTerm
  PROVE  Timely(objects2, floor2, n)
  <1> PICK k, k2 : k = Len(floor) /\ k2 = Len(floor2)  OBVIOUS
  <1>0. Begun(n, k) /\ k \in Nat /\ k2 \in Nat /\ k <= k2  BY DEF Timely
  <1>1. Begun(n, k2)
    <2>1. n.activeRead # Nil => n.activeRead.round <= k2  BY <1>0, RoundTypes DEF Begun
    <2>2. \A a \in n.readsAnswered : a.round <= k2  BY <1>0, RoundTypes DEF Begun
    <2>3. ASSUME NEW t \in n.threadPool
          PROVE  /\ t.request.kind = "ReadHeartBeat" => t.request.readRound <= k2
                 /\ t.request.kind \in ReadKind /\ t.reply # Nil => t.reply.readRound <= k2
      BY <1>0, RoundTypes DEF Begun
    <2> QED BY <2>1, <2>2, <2>3 DEF Begun
  <1>2. \A r, i : r \in 1 .. k /\ Covered(floor, r, i) => Covered(floor2, r, i)
    BY DEF Covered
  <1>3. n.activeRead # Nil /\ Overruled(objects, n) => Overruled(objects2, n)
    <2> SUFFICES ASSUME n.activeRead # Nil,
                        NEW Q \in Quorums, \A v \in Q : /\ objects[v].currentTerm > n.activeRead.term
                                                        /\ ~Confirms(n, v)
                 PROVE  \A v \in Q : /\ objects2[v].currentTerm > n.activeRead.term
                                     /\ ~Confirms(n, v)
      BY DEF Overruled
    <2>1. n.activeRead.term \in Nat  BY RoundTypes
    <2>2. Q \subseteq Server  BY DEF Quorums
    <2> QED BY <2>1, <2>2
  <1>4. n.activeRead # Nil => n.activeRead.round \in 1 .. k  BY <1>0, RoundTypes DEF Begun
  <1>5. \A a \in n.readsAnswered : a.round \in 1 .. k  BY <1>0, RoundTypes DEF Begun
  <1>6. Fresh(objects2, floor2, n)
    BY <1>2, <1>3, <1>4, <1>5 DEF Timely, Fresh
  <1> QED BY <1>1, <1>6 DEF Timely

\* An acknowledgement counted: a quorum of them meets every quorum, so that a round
\* that they complete was not overruled.
LEMMA AcknowledgeTimely ==
  ASSUME NEW objects, NEW floor, NEW n \in RaftObject, Timely(objects, floor, n),
         n.activeRead # Nil, NEW p \in Server, Confirms(n, p)
  PROVE  Timely(objects, floor, AcknowledgeRead(n, p))
  <1> PICK read : read = [ n.activeRead EXCEPT !.acks = @ \cup {p} ]  OBVIOUS
  <1> PICK m : m = [ n EXCEPT !.activeRead = read ]  OBVIOUS
  <1> DEFINE a == AcknowledgeRead(n, p)
  <1>0. /\ n.activeRead \in PendingReadIndex /\ n.activeRead.acks \subseteq Server
        /\ Begun(n, Len(floor)) /\ Fresh(objects, floor, n)
    BY RoundTypes DEF Timely
  <1>1. /\ read.round = n.activeRead.round /\ read.readIndex = n.activeRead.readIndex
        /\ read.term = n.activeRead.term /\ read.acks = n.activeRead.acks \cup {p}
    BY <1>0 DEF PendingReadIndex
  <1>2. /\ m.activeRead = read /\ m.readsAnswered = n.readsAnswered
        /\ m.threadPool = n.threadPool
    BY DEF RaftObject
  <1>3. \A v : Confirms(m, v) => Confirms(n, v)
    <2> SUFFICES ASSUME NEW v, v # p, Confirms(m, v)  PROVE Confirms(n, v)
      OBVIOUS
    <2>1. v \in m.activeRead.acks => v \in n.activeRead.acks  BY <1>1, <1>2
    <2>2. m.activeRead.round = n.activeRead.round  BY <1>1, <1>2
    <2> QED BY ZenonT(30), <1>2, <2>1, <2>2 DEF Confirms
  <1>4. Begun(m, Len(floor))
    BY <1>0, <1>1, <1>2 DEF Begun
  <1>5. Fresh(objects, floor, m)
    <2>1. Overruled(objects, n) => Overruled(objects, m)
      BY <1>1, <1>2, <1>3 DEF Overruled
    <2> QED BY <1>0, <1>1, <1>2, <2>1 DEF Fresh
  <1>6. a = IF Cardinality(m.activeRead.acks) >= QuorumSize THEN CompleteActiveRead(m) ELSE m
    BY DEF AcknowledgeRead, RaftObject
  <1>7. CASE ~(Cardinality(m.activeRead.acks) >= QuorumSize)
    BY <1>4, <1>5, <1>6, <1>7 DEF Timely
  <1>8. CASE Cardinality(m.activeRead.acks) >= QuorumSize
    <2> PICK c : c = CompleteActiveRead(m)  OBVIOUS
    <2>1. /\ c.activeRead = Nil /\ c.threadPool = n.threadPool
          /\ c.readsAnswered = n.readsAnswered
                \cup { [ round |-> read.round, readIndex |-> read.readIndex ] }
      BY ZenonT(30), <1>2 DEF RaftObject, CompleteActiveRead, ForgetActiveRead
    <2>2. read.acks \in Quorums  BY <1>0, <1>1, <1>2, <1>8 DEF Quorums
    <2>3. ~Overruled(objects, n)
      <3> SUFFICES ASSUME NEW Q \in Quorums, \A v \in Q : ~Confirms(n, v)  PROVE FALSE
        BY DEF Overruled
      <3>1. PICK v \in Server : v \in Q /\ v \in read.acks  BY <2>2, QuorumsMeet
      <3>2. Confirms(n, v)  BY <1>1, <3>1 DEF Confirms
      <3> QED BY <3>1, <3>2
    <2>4. Covered(floor, read.round, read.readIndex)
      BY <1>0, <1>1, <2>3 DEF Fresh
    <2>5. \A b \in c.readsAnswered : \/ b \in n.readsAnswered
                                     \/ b.round = read.round /\ b.readIndex = read.readIndex
      BY <2>1
    <2>6. Begun(c, Len(floor))
      BY <1>0, <1>1, <2>1, <2>5 DEF Begun
    <2>7. Fresh(objects, floor, c)
      BY <1>0, <2>1, <2>4, <2>5 DEF Fresh
    <2> QED BY <1>6, <1>8, <2>6, <2>7 DEF Timely
  <1> QED BY <1>7, <1>8

\* An answer that comes: from a server beyond the active round's term it is none for
\* the round, as it would be in the term of the call.
LEMMA HearsTimely ==
  ASSUME NEW objects, \A v \in Server : objects[v].currentTerm \in Nat,
         NEW floor, NEW n \in RaftObject, Timely(objects, floor, n),
         n.currentTerm \in Nat, n.activeRead # Nil => n.activeRead.term = n.currentTerm,
         NEW t \in n.threadPool, t.request.to \in Server,
         t.request.kind = "ReadHeartBeat" =>
           t.request.term \in Nat /\ t.request.term <= n.currentTerm,
         NEW reply,
         t.request.kind \in ReadKind =>
           \/ reply.readRound = 0
           \/ /\ t.request.kind = "ReadHeartBeat" /\ reply.readRound = t.request.readRound
              /\ reply.success => objects[t.request.to].currentTerm = t.request.term,
         Len(floor) \in Nat,
         NEW m, m = [ n EXCEPT !.threadPool =
                        (@ \ {t}) \cup { [ request |-> t.request, reply |-> reply ] } ]
  PROVE  Timely(objects, floor, m)
  <1> PICK u : u = [ request |-> t.request, reply |-> reply ]  OBVIOUS
  <1>0. u.request = t.request /\ u.reply = reply  OBVIOUS
  <1>1. /\ m.activeRead = n.activeRead /\ m.readsAnswered = n.readsAnswered
        /\ m.threadPool = (n.threadPool \ {t}) \cup {u}
    BY DEF RaftObject
  <1>2. Begun(n, Len(floor)) /\ Fresh(objects, floor, n)  BY DEF Timely
  <1>3. Begun(m, Len(floor))
    <2> PICK k : k = Len(floor)  OBVIOUS
    <2>1. Begun(n, k) /\ k \in Nat  BY <1>2
    <2>2. u.request.kind = "ReadHeartBeat" => u.request.readRound <= k
      BY <1>0, <2>1 DEF Begun
    <2>3. u.request.kind \in ReadKind /\ u.reply # Nil => u.reply.readRound <= k
      BY <1>0, <2>1, <2>2
    <2> QED BY <1>1, <2>1, <2>2, <2>3 DEF Begun
  <1>4. ASSUME n.activeRead # Nil, NEW v \in Server, objects[v].currentTerm > n.activeRead.term,
               Confirms(m, v)
        PROVE  Confirms(n, v)
    <2>1. n.activeRead.round \in Nat \ {0} /\ n.activeRead.term = n.currentTerm
      BY <1>4, RoundTypes
    <2>2. ~( /\ u.request.kind \in ReadKind /\ u.request.to = v
             /\ u.reply # Nil /\ u.reply.success /\ u.reply.readRound = n.activeRead.round )
      <3> SUFFICES ASSUME u.request.kind \in ReadKind, u.request.to = v, u.reply.success,
                          u.reply.readRound = n.activeRead.round
                   PROVE  FALSE
        OBVIOUS
      <3>1. t.request.kind = "ReadHeartBeat" /\ objects[v].currentTerm = t.request.term
        BY <1>0, <2>1
      <3>2. t.request.term <= n.currentTerm  BY <3>1
      <3> QED BY <1>4, <2>1, <3>1, <3>2
    <2> QED BY <1>1, <1>4, <2>2 DEF Confirms
  <1>5. n.activeRead # Nil /\ Overruled(objects, n) => Overruled(objects, m)
    <2> SUFFICES ASSUME n.activeRead # Nil,
                        NEW Q \in Quorums, \A v \in Q : /\ objects[v].currentTerm > n.activeRead.term
                                                        /\ ~Confirms(n, v)
                 PROVE  \A v \in Q : /\ objects[v].currentTerm > m.activeRead.term
                                     /\ ~Confirms(m, v)
      BY DEF Overruled
    <2>1. Q \subseteq Server  BY DEF Quorums
    <2> QED BY <1>1, <1>4, <2>1
  <1>6. Fresh(objects, floor, m)
    BY <1>1, <1>2, <1>5 DEF Fresh
  <1> QED BY <1>3, <1>6 DEF Timely

\* A round that is opened: no answer for it can have come.
LEMMA OpenTimely ==
  ASSUME NEW objects, NEW floor, Len(floor) \in Nat, NEW n \in RaftObject,
         NEW k \in Nat, Begun(n, k), Len(floor) = k + 1, Fresh(objects, floor, n),
         n.currentTerm \in Nat, n.id \in Server, objects[n.id].currentTerm = n.currentTerm,
         NEW read, read = [ round |-> k + 1, term |-> n.currentTerm,
                            readIndex |-> n.commitIndex, acks |-> {n.id} ],
         NEW m, m = [ n EXCEPT !.activeRead = read ],
         \/ Covered(floor, k + 1, n.commitIndex)
         \/ \E Q \in Quorums : \A v \in Q : objects[v].currentTerm > n.currentTerm
  PROVE  Timely(objects, floor, m)
  <1>1. /\ m.activeRead = read /\ m.readsAnswered = n.readsAnswered
        /\ m.threadPool = n.threadPool
    BY DEF RaftObject
  <1>2. Begun(m, k + 1)
    <2>1. m.activeRead.round <= k + 1  BY <1>1
    <2>2. \A a \in m.readsAnswered : a.round <= k + 1  BY <1>1, RoundTypes DEF Begun
    <2>3. ASSUME NEW t \in m.threadPool
          PROVE  /\ t.request.kind = "ReadHeartBeat" => t.request.readRound <= k + 1
                 /\ t.request.kind \in ReadKind /\ t.reply # Nil => t.reply.readRound <= k + 1
      BY <1>1, RoundTypes DEF Begun
    <2> QED BY <2>1, <2>2, <2>3 DEF Begun
  <1>3. ASSUME NEW v, v # n.id  PROVE ~Confirms(m, v)
    <2> SUFFICES ASSUME NEW t \in n.threadPool, t.request.kind \in ReadKind, t.reply # Nil,
                        t.reply.readRound = k + 1
                 PROVE  FALSE
      BY <1>1, <1>3 DEF Confirms
    <2> QED BY RoundTypes DEF Begun
  <1>4. ASSUME NEW Q \in Quorums, \A v \in Q : objects[v].currentTerm > n.currentTerm
        PROVE  Overruled(objects, m)
    <2>1. n.currentTerm \in Nat /\ objects[n.id].currentTerm = n.currentTerm  OBVIOUS
    <2>2. \A v \in Q : v # n.id  BY <1>4, <2>1
    <2>3. m.activeRead.term = n.currentTerm  BY <1>1
    <2>4. \A v \in Q : objects[v].currentTerm > m.activeRead.term /\ ~Confirms(m, v)
      BY <1>3, <1>4, <2>2, <2>3
    <2> QED BY <2>4 DEF Overruled
  <1>5. Fresh(objects, floor, m)
    <2>1. Covered(floor, k + 1, n.commitIndex) => Covered(floor, read.round, read.readIndex)
      OBVIOUS
    <2> QED BY <1>1, <1>4, <2>1 DEF Fresh
  <1> QED BY <1>2, <1>5 DEF Timely

\* A leader that has committed an entry of its term has committed what any server
\* has, unless a quorum is beyond its term: an older term's commit is in its log
\* before that entry, and a newer term's was held by a quorum in that term.
LEMMA LeaderKnowsAll ==
  ASSUME TypeInv, NEW led, NEW held, LogInv(led, held), KnownInv(led, held),
         NEW s \in Server, MayOpenRead(raft[s]), Office(raft[s]), NEW p \in Server
  PROVE  \/ raft[p].commitIndex <= raft[s].commitIndex
         \/ \E Q \in Quorums : \A v \in Q : raft[v].currentTerm > raft[s].currentTerm
  <1> PICK n, c, x, U : /\ n = raft[s] /\ c = raft[p].commitIndex
                        /\ x = n.commitIndex /\ U = n.currentTerm
    OBVIOUS
  <1>0. /\ n \in RaftObject /\ c \in Nat /\ x \in Nat /\ U \in Nat
        /\ GetLastLogIndex(n) \in Nat /\ n.lastIncludeSnapshotIndex \in Nat
        /\ \A v \in Server : raft[v].currentTerm \in Nat
    BY FieldTypes, LogTypes DEF TypeInv
  <1>1. /\ n.status = Leader /\ n.currentTermCommitted /\ Covers(n) /\ Reigns(n)
        /\ Tree(led) /\ FromLed(led, n) /\ OwnLog(led, n) /\ HeldSound(led, held)
    BY DEF MayOpenRead, Office, LogInv
  <1> SUFFICES ASSUME c > x
               PROVE  \E Q \in Quorums : \A v \in Q : raft[v].currentTerm > U
    BY <1>0
  <1>2. PICK T, i \in Nat :
          /\ c <= i /\ Committed(led, held, T, i)
          /\ \A l \in Server : raft[l].status = Leader /\ raft[l].currentTerm = T
                               => c <= raft[l].commitIndex
    <2>1. c > 0 /\ Known(raft, led, held, c)  BY <1>0 DEF KnownInv
    <2> QED BY <2>1 DEF Known
  <1>3. PICK Q \in Quorums : \A v \in Q : << T, v, i >> \in held
    BY <1>2 DEF Committed
  <1>4. T >= 1  BY <1>1, <1>2, InLed DEF Committed
  <1>5. CASE T < U
    <2>1. /\ x <= GetLastLogIndex(n) /\ n.lastIncludeSnapshotIndex <= x
          /\ GetLogTermFromIndex(n, x) = U /\ GetLastLogTerm(n) = U
          /\ GetLastLogIndex(n) = Len(led[U]) /\ GetLastLogIndex(n) > 0
      BY <1>1 DEF Reigns, Covers, OwnLog
    <2>2. U = TermAt(led[U], x)  BY <1>0, <1>1, <2>1 DEF FromLed
    <2>3. x > 0 /\ led[U][x] = U  BY <1>0, <1>4, <1>5, <2>2 DEF TermAt
    <2>4. led[U] # << >>  BY <1>0, <1>1, <2>1, LedTypes
    <2>5. In(led, U, i, T)
      BY <1>0, <1>2, <1>5, <2>4, LogInvRules DEF Ruling
    <2>6. x \in 1 .. i  BY <1>0, <1>2, <2>3
    <2>7. led[U][x] <= T  BY <1>0, <1>1, <2>5, <2>6, InLed
    <2> QED BY <1>0, <1>5, <2>3, <2>7
  <1>6. CASE T = U
    BY <1>0, <1>1, <1>2, <1>6
  <1>7. CASE T > U
    <2>1. Q \subseteq Server  BY DEF Quorums
    <2>2. \A v \in Q : T <= raft[v].currentTerm
      BY <1>1, <1>2, <1>3, <2>1 DEF HeldSound
    <2>3. \A v \in Q : raft[v].currentTerm > U  BY <1>0, <1>7, <2>1, <2>2
    <2> QED BY <2>3
  <1> QED BY <1>0, <1>5, <1>6, <1>7

-----------------------------------------------------------------------------
(* The invariant of reads.                                                 *)

ReadInv == OfficeInv /\ Knowledge /\ \A s \in Server : Timely(raft, readFloor, raft[s])

\* Rounds are only ever added.
LEMMA FloorGrows ==
  ASSUME TypeInv, NEW s \in Server, ReadStep(s)
  PROVE  /\ Len(readFloor) \in Nat /\ Len(readFloor') \in Nat /\ Len(readFloor) <= Len(readFloor')
         /\ \A r \in 1 .. Len(readFloor) : readFloor'[r] = readFloor[r]
  <1>1. readFloor \in Seq([ Server -> Nat ]) /\ Len(readFloor) \in Nat
    BY LenProperties DEF TypeInv
  <1>2. CASE readFloor' = readFloor  BY <1>1, <1>2
  <1>3. CASE readFloor' = Append(readFloor, [ p \in Server |-> raft[p].commitIndex ])
    <2> PICK f : f = [ p \in Server |-> raft[p].commitIndex ]  OBVIOUS
    <2>1. f \in [ Server -> Nat ]  BY FieldTypes DEF TypeInv
    <2> QED BY <1>1, <1>3, <2>1, AppendProperties
  <1> QED BY <1>2, <1>3 DEF ReadStep

\* The server that takes the step.
LEMMA OwnTimely ==
  ASSUME ReadInv, NEW s \in Server, Stepping(s), ReadStep(s)
  PROVE  Timely(raft', readFloor', raft'[s])
  <1> PICK n, k, floor : n = raft[s] /\ k = Len(readFloor) /\ floor = readFloor'  OBVIOUS
  <1>0. /\ TypeInv /\ n \in RaftObject /\ n.id = s /\ n.currentTerm \in Nat
        /\ Office(n) /\ Timely(raft, readFloor, n)
    BY StepTypes DEF ReadInv, OfficeInv, VoteInv
  <1>1. /\ k \in Nat /\ Len(floor) \in Nat /\ k <= Len(floor)
        /\ \A r \in 1 .. k : floor[r] = readFloor[r]
    BY <1>0, FloorGrows
  <1>2. \A v \in Server : /\ raft[v].currentTerm \in Nat /\ raft'[v].currentTerm \in Nat
                          /\ raft[v].currentTerm <= raft'[v].currentTerm
    BY StepTypes
  <1>3. Timely(raft', floor, n)
    <2> PICK objects2 : objects2 = raft'  OBVIOUS
    <2>1. \A v \in Server : /\ raft[v].currentTerm \in Nat /\ objects2[v].currentTerm \in Nat
                            /\ raft[v].currentTerm <= objects2[v].currentTerm
      BY <1>2
    <2>2. Timely(objects2, floor, n)  BY <1>0, <1>1, <2>1, TimelyGrows
    <2> QED BY <2>2
  <1>4. CASE ReadsOn(n, raft'[s])
    BY <1>3, <1>4, ReadsOnTimely
  <1>5. CASE \E t \in n.threadPool :
               /\ t.reply # Nil /\ t.request.kind \in { "AppendEntries", "ReadHeartBeat" }
               /\ Acknowledges(n, t.request, t.reply)
               /\ ReadsOn(AcknowledgeRead(n, t.request.to), raft'[s])
    <2>1. PICK t \in n.threadPool :
            /\ t.reply # Nil /\ t.request.kind \in { "AppendEntries", "ReadHeartBeat" }
            /\ Acknowledges(n, t.request, t.reply)
            /\ ReadsOn(AcknowledgeRead(n, t.request.to), raft'[s])
      BY <1>5
    <2>2. n.activeRead # Nil /\ Confirms(n, t.request.to)
      BY <2>1 DEF Acknowledges, Confirms, ReadKind
    <2>3. t.request.to \in Server  BY <1>0, FieldTypes, TaskTypes
    <2>4. Timely(raft', floor, AcknowledgeRead(n, t.request.to))
      BY <1>0, <1>3, <2>2, <2>3, AcknowledgeTimely
    <2> QED BY <2>1, <2>4, ReadsOnTimely
  <1>6. ASSUME NEW read, read = [ round |-> k + 1, term |-> n.currentTerm,
                                  readIndex |-> n.commitIndex, acks |-> {n.id} ],
               MayOpenRead(n), floor = Append(readFloor, [ p \in Server |-> raft[p].commitIndex ]),
               NEW m, m = [ n EXCEPT !.activeRead = read ], ReadsOn(m, raft'[s])
        PROVE  Timely(raft', floor, raft'[s])
    <2> PICK f : f = [ p \in Server |-> raft[p].commitIndex ]  OBVIOUS
    <2>1. f \in [ Server -> Nat ]  BY <1>0, FieldTypes DEF TypeInv
    <2>2. Len(floor) = k + 1 /\ floor[k + 1] = f
      BY <1>0, <1>6, <2>1, AppendProperties DEF TypeInv
    <2>3. Begun(n, k) /\ Fresh(raft, floor, n)
      <3> PICK o : o = raft  OBVIOUS
      <3>1. \A v \in Server : o[v].currentTerm \in Nat /\ o[v].currentTerm <= o[v].currentTerm
        BY <1>2
      <3>2. Timely(o, readFloor, n)  BY <1>0
      <3>3. Timely(o, floor, n)  BY <1>0, <1>1, <3>1, <3>2, TimelyGrows
      <3> QED BY <1>0, <3>3 DEF Timely
    <2>4. \/ Covered(floor, k + 1, n.commitIndex)
          \/ \E Q \in Quorums : \A v \in Q : raft[v].currentTerm > n.currentTerm
      <3>1. PICK led, held : LogInv(led, held) /\ KnownInv(led, held)
        BY DEF ReadInv, Knowledge
      <3>2. \A p \in Server : \/ raft[p].commitIndex <= n.commitIndex
                              \/ \E Q \in Quorums : \A v \in Q : raft[v].currentTerm > n.currentTerm
        BY <1>0, <1>6, <3>1, LeaderKnowsAll
      <3>3. \A p \in Server : floor[k + 1][p] = raft[p].commitIndex  BY <2>2
      <3> QED BY <3>2, <3>3 DEF Covered
    <2>5. Timely(raft, floor, m)
      <3> PICK o : o = raft  OBVIOUS
      <3>1. n.id \in Server /\ o[n.id].currentTerm = n.currentTerm  BY <1>0
      <3>2. /\ Fresh(o, floor, n)
            /\ \/ Covered(floor, k + 1, n.commitIndex)
               \/ \E Q \in Quorums : \A v \in Q : o[v].currentTerm > n.currentTerm
        BY <2>3, <2>4
      <3>3. Timely(o, floor, m)
        BY <1>0, <1>1, <1>6, <2>2, <2>3, <3>1, <3>2, OpenTimely
      <3> QED BY <3>3
    <2>6. m \in RaftObject
      <3>1. read \in PendingReadIndex
        <4>1. n.commitIndex \in Nat /\ k + 1 \in Nat \ {0} /\ {n.id} \subseteq Server
          BY <1>0, <1>1, FieldTypes
        <4> QED BY <1>0, <1>6, <4>1 DEF PendingReadIndex
      <3>2. n \in RaftObject /\ m = [ n EXCEPT !.activeRead = read ]  BY <1>0, <1>6
      <3> QED BY ZenonT(30), <3>1, <3>2 DEF RaftObject
    <2>7. Timely(raft', floor, m)
      <3> PICK objects2 : objects2 = raft'  OBVIOUS
      <3>1. \A v \in Server : /\ raft[v].currentTerm \in Nat /\ objects2[v].currentTerm \in Nat
                              /\ raft[v].currentTerm <= objects2[v].currentTerm
        BY <1>2
      <3>2. Timely(objects2, floor, m)  BY <1>1, <2>5, <2>6, <3>1, TimelyGrows
      <3> QED BY <3>2
    <2> QED BY <1>6, <2>7, ReadsOnTimely
  <1> QED BY <1>4, <1>5, <1>6 DEF ReadStep

\* The servers that wait.
LEMMA OtherTimely ==
  ASSUME ReadInv, NEW s \in Server, Stepping(s), ReadStep(s), NEW x \in Server, Hears(s, x)
  PROVE  Timely(raft', readFloor', raft'[x])
  <1> PICK n, floor, objects2 : n = raft[x] /\ floor = readFloor' /\ objects2 = raft'  OBVIOUS
  <1>0. /\ TypeInv /\ n \in RaftObject /\ n.currentTerm \in Nat
        /\ Office(n) /\ Timely(raft, readFloor, n)
    BY StepTypes DEF ReadInv, OfficeInv, VoteInv
  <1>1. /\ Len(readFloor) \in Nat /\ Len(floor) \in Nat /\ Len(readFloor) <= Len(floor)
        /\ \A r \in 1 .. Len(readFloor) : floor[r] = readFloor[r]
    BY <1>0, FloorGrows
  <1>2. \A v \in Server : /\ raft[v].currentTerm \in Nat /\ objects2[v].currentTerm \in Nat
                          /\ raft[v].currentTerm <= objects2[v].currentTerm
    BY StepTypes
  <1>3. Timely(objects2, floor, n)  BY <1>0, <1>1, <1>2, TimelyGrows
  <1>4. CASE raft'[x] = raft[x]  BY <1>3, <1>4
  <1>5. ASSUME NEW t \in n.threadPool, NEW reply, t.request.to = s,
               raft'[x] = [ n EXCEPT !.threadPool =
                              (@ \ {t}) \cup { [ request |-> t.request, reply |-> reply ] } ],
               t.request.kind \in { "AppendEntries", "ReadHeartBeat" } =>
                 \/ reply.readRound = 0
                 \/ /\ t.request.kind = "ReadHeartBeat" /\ reply.readRound = t.request.readRound
                    /\ reply.success => raft'[s].currentTerm = t.request.term
        PROVE  Timely(raft', floor, raft'[x])
    <2>1. n.activeRead # Nil => n.activeRead.term = n.currentTerm
      BY <1>0 DEF Office, Reigns
    <2>2. t.request.kind = "ReadHeartBeat" =>
            t.request.term \in Nat /\ t.request.term <= n.currentTerm
      <3>1. t.request \in Request /\ (t.request.kind # "PreVote" => t.request.term <= n.currentTerm)
        BY CallRequest
      <3>2. t.request.kind = "ReadHeartBeat" => t.request \in ReadHeartBeatArgs
        BY <3>1, RequestTypes
      <3> QED BY <3>1, <3>2 DEF ReadHeartBeatArgs
    <2>3. t.request.kind \in ReadKind =>
            \/ reply.readRound = 0
            \/ /\ t.request.kind = "ReadHeartBeat" /\ reply.readRound = t.request.readRound
               /\ reply.success => objects2[t.request.to].currentTerm = t.request.term
      <3>1. objects2[t.request.to] = raft'[s]  BY <1>5
      <3>2. t.request.kind \in ReadKind => t.request.kind \in { "AppendEntries", "ReadHeartBeat" }
        BY ZenonT(30) DEF ReadKind
      <3> QED BY ZenonT(30), <1>5, <3>1, <3>2
    <2>4. Timely(objects2, floor, raft'[x])
      BY <1>0, <1>1, <1>2, <1>3, <1>5, <2>1, <2>2, <2>3, HearsTimely
    <2> QED BY <2>4
  <1> QED BY <1>4, <1>5 DEF Hears

\* A step in which nobody joins a round preserves the invariant.
LEMMA ReadInvStep ==
  ASSUME Overtaken = {}, ReadInv, [Next]_vars, [\A s \in Server : ~JoinRead(s)]_vars
  PROVE  ReadInv'
  <1>1. OfficeInv' /\ Knowledge'  BY OfficeStep, KnowledgeStep DEF ReadInv
  <1>2. CASE UNCHANGED vars
    <2>1. raft' = raft /\ readFloor' = readFloor  BY <1>2 DEF vars
    <2>2. \A s \in Server : Timely(raft', readFloor', raft'[s])  BY <2>1 DEF ReadInv
    <2> QED BY <1>1, <2>2 DEF ReadInv
  <1>3. CASE Next /\ \A s \in Server : ~JoinRead(s)
    <2>1. TypeInv /\ VoteInv /\ VoteInv'  BY <1>1 DEF ReadInv, OfficeInv, VoteInv
    <2>2. PICK s \in Server : Receives(s) \/ Returns(s) \/ CallFails(s) \/ Acts(s)
      BY <1>3 DEF Next
    <2>3. Moves /\ RecordVotes  BY <1>3, <2>1, NextMoves
    <2>4. StepOf(s)
      BY <2>1, <2>2, ReceivesSteps, ReturnsSteps, CallFailsSteps, ActsSteps DEF Returns
    <2>5. Stepping(s)  BY <2>1, <2>3, <2>4, MoveVotes DEF Stepping
    <2>6. ReadStep(s)
      BY <1>3, <2>1, <2>2, ReceivesReads, ReturnsReads, CallFailsReads, ActsReads DEF Returns
    <2>7. \A x \in Server : Timely(raft', readFloor', raft'[x])
      <3>1. Timely(raft', readFloor', raft'[s])  BY <2>5, <2>6, OwnTimely
      <3>2. ASSUME NEW x \in Server, x # s  PROVE Timely(raft', readFloor', raft'[x])
        BY <2>1, <2>2, <2>5, <2>6, <3>2, OthersHear, OtherTimely
      <3> QED BY <3>1, <3>2
    <2> QED BY <1>1, <2>7 DEF ReadInv
  <1> QED BY <1>2, <1>3

\* At the start nobody reads.
LEMMA ReadInvInit ==
  ASSUME Init
  PROVE  ReadInv
  <1>1. \A s \in Server : /\ raft[s].activeRead = Nil /\ raft[s].threadPool = {}
                          /\ raft[s].readsAnswered = {}
    BY DEF Init, Construct
  <1>2. \A s \in Server : Timely(raft, readFloor, raft[s])
    BY <1>1 DEF Timely, Begun, Fresh
  <1> QED BY <1>2, OfficeInit, KnowledgeInit DEF ReadInv

\* The invariant says of every answered round what ReadRoundIsFresh says.
LEMMA ReadInvFresh ==
  ASSUME ReadInv
  PROVE  ReadRoundIsFresh
  <1> SUFFICES ASSUME NEW s \in Server, NEW p \in Server, NEW a \in raft[s].readsAnswered
               PROVE  a.readIndex >= readFloor[a.round][p]
    BY DEF ReadRoundIsFresh
  <1>1. TypeInv /\ raft[s] \in RaftObject /\ Timely(raft, readFloor, raft[s])
    BY DEF ReadInv, OfficeInv, VoteInv, TypeInv
  <1>2. Len(readFloor) \in Nat /\ readFloor \in [ 1 .. Len(readFloor) -> [ Server -> Nat ] ]
    BY <1>1, LenProperties DEF TypeInv
  <1>3. a.round \in Nat \ {0} /\ a.readIndex \in Nat /\ a.round <= Len(readFloor)
    BY <1>1, RoundTypes DEF Timely, Begun
  <1>4. readFloor[a.round][p] \in Nat  BY <1>2, <1>3
  <1>5. readFloor[a.round][p] <= a.readIndex  BY <1>1 DEF Timely, Fresh, Covered
  <1> QED BY <1>3, <1>4, <1>5

\* A read round that completes answers with no less than any server had committed
\* when it was opened, as long as nobody joins a round: currentTermCommitted makes
\* the leader's commit index cover every older term's, and the acknowledgements of
\* a quorum, each by a server still in the leader's term, rule out a newer one.
THEOREM ReadsAreFresh ==
  ASSUME Overtaken = {}
  PROVE  Spec /\ [][\A s \in Server : ~JoinRead(s)]_vars => []ReadRoundIsFresh
  <1>1. Init => ReadInv  BY ReadInvInit
  <1>2. ReadInv /\ [Next]_vars /\ [\A s \in Server : ~JoinRead(s)]_vars => ReadInv'
    BY ReadInvStep
  <1>3. ReadInv => ReadRoundIsFresh  BY ReadInvFresh
  <1> QED BY <1>1, <1>2, <1>3, PTL DEF Spec
=============================================================================
