-------------------------- MODULE RaftObject_proofs ---------------------------
(*****************************************************************************)
(* One Raft object: the types of its pieces and of what the log helpers      *)
(* return, and what the functions that Raft's handlers are built from do to  *)
(* it: each keeps it Sound, and gains it no role (Quiet) or begins an        *)
(* election (Stands) or wins one (Wins); then what each handler, reply       *)
(* handler, timeout and client call does.                                    *)
(*****************************************************************************)
EXTENDS RaftSafety, SequenceTheorems, FiniteSetTheorems, NaturalsInduction,
        WellFoundedInduction, TLAPS

-----------------------------------------------------------------------------
(* Fields and log.                                                         *)

\* The type of every field of a Raft object.
LEMMA FieldTypes ==
  ASSUME NEW n \in RaftObject
  PROVE  /\ n.id \in Server /\ n.persister \in Disk
         /\ n.threadPool \subseteq Task /\ n.applyQueue \in Seq(ApplyMsg)
         /\ n.currentTerm \in Nat /\ n.votedFor \in Server \cup {Nil}
         /\ n.logs \in Seq(Nat)
         /\ n.lastIncludeSnapshotIndex \in Nat /\ n.lastIncludeSnapshotTerm \in Nat
         /\ n.commitIndex \in Nat /\ n.lastApplied \in Nat /\ n.status \in Status
         /\ n.votesGranted \in Nat /\ n.electionTerm \in Nat
         /\ n.preVotesGranted \in Nat /\ n.preVoteTerm \in Nat /\ n.preVoteRound \in Nat
         /\ n.nextIndex \in [ Server -> Nat \ {0} ] /\ n.matchIndex \in [ Server -> Nat ]
         /\ n.replicationInFlight \in [ Server -> BOOLEAN ]
         /\ n.replicationPending \in [ Server -> BOOLEAN ]
         /\ n.activeRead \in PendingReadIndex \cup {Nil}
         /\ n.readIndexPending \in [ Server -> Nat ]
         /\ n.readsAnswered \subseteq [ round : Nat \ {0}, readIndex : Nat ]
  BY DEF RaftObject

\* Log positions are natural numbers, and logs is a sequence of terms.
LEMMA LogTypes ==
  ASSUME NEW n \in RaftObject
  PROVE  /\ Len(n.logs) \in Nat
         /\ GetLastLogIndex(n) \in Nat
         /\ n.lastIncludeSnapshotIndex <= GetLastLogIndex(n)
         /\ GetLastLogIndex(n) = n.lastIncludeSnapshotIndex + Len(n.logs)
         /\ GetLastLogTerm(n) \in Nat
  <1>1. /\ n.logs \in Seq(Nat) /\ Len(n.logs) \in Nat
        /\ n.lastIncludeSnapshotIndex \in Nat /\ n.lastIncludeSnapshotTerm \in Nat
    BY FieldTypes, LenProperties
  <1>2. n.logs # << >> => Len(n.logs) \in 1 .. Len(n.logs)
    BY <1>1, EmptySeq
  <1>3. n.logs # << >> => n.logs[Len(n.logs)] \in Nat
    BY <1>1, <1>2, ElementOfSeq
  <1> QED BY <1>1, <1>3 DEF GetLastLogIndex, GetLastLogTerm

\* getLogTermFromIndex returns a term at every index it does not assert against.
LEMMA LogTermType ==
  ASSUME NEW n \in RaftObject, NEW i \in Int, IsLogIndex(n, i)
  PROVE  GetLogTermFromIndex(n, i) \in Nat
  <1>1. n.lastIncludeSnapshotIndex \in Nat /\ n.lastIncludeSnapshotTerm \in Nat /\ n.logs \in Seq(Nat)
    BY FieldTypes
  <1>2. CASE i = n.lastIncludeSnapshotIndex
    BY <1>1, <1>2 DEF GetLogTermFromIndex
  <1>3. CASE i # n.lastIncludeSnapshotIndex
    <2>1. i - n.lastIncludeSnapshotIndex \in 1 .. Len(n.logs)
      BY <1>1, <1>3, LogTypes DEF IsLogIndex
    <2>2. n.logs[i - n.lastIncludeSnapshotIndex] \in Nat
      BY <1>1, <2>1, ElementOfSeq
    <2> QED BY <1>3, <2>2 DEF GetLogTermFromIndex, GetSlicesIndexFromLogIndex
  <1> QED BY <1>2, <1>3

\* The entries copied into a request, and the index of the last of them.
LEMMA EntriesTypes ==
  ASSUME NEW n \in RaftObject, NEW i \in Int, IsLogIndex(n, i)
  PROVE  /\ EntriesAfter(n, i) \in Seq(Nat)
         /\ Len(EntriesAfter(n, i)) = GetLastLogIndex(n) - i
         /\ EntriesUpTo(n, i) \in Seq(Nat)
         /\ Len(EntriesUpTo(n, i)) = i - n.lastIncludeSnapshotIndex
  <1> DEFINE k == i - n.lastIncludeSnapshotIndex
  <1>1. /\ n.logs \in Seq(Nat) /\ Len(n.logs) \in Nat /\ k \in 0 .. Len(n.logs)
        /\ GetLastLogIndex(n) = n.lastIncludeSnapshotIndex + Len(n.logs)
        /\ n.lastIncludeSnapshotIndex \in Nat
    BY FieldTypes, LogTypes DEF IsLogIndex
  <1>2. \A j \in 1 .. Len(n.logs) : n.logs[j] \in Nat
    BY <1>1, ElementOfSeq
  <1>3. /\ SubSeq(n.logs, k + 1, Len(n.logs)) \in Seq(Nat)
        /\ Len(SubSeq(n.logs, k + 1, Len(n.logs))) = Len(n.logs) - k
    <2>1. \A j \in k + 1 .. Len(n.logs) : n.logs[j] \in Nat  BY <1>1, <1>2
    <2>2. k + 1 \in Int /\ Len(n.logs) \in Int  BY <1>1
    <2> HIDE DEF k
    <2>3. /\ SubSeq(n.logs, k + 1, Len(n.logs)) \in Seq(Nat)
          /\ Len(SubSeq(n.logs, k + 1, Len(n.logs)))
               = IF k + 1 <= Len(n.logs) THEN Len(n.logs) - (k + 1) + 1 ELSE 0
      BY <2>1, <2>2, SubSeqProperties
    <2> QED BY <2>3, <1>1
  <1>4. /\ SubSeq(n.logs, 1, k) \in Seq(Nat)
        /\ Len(SubSeq(n.logs, 1, k)) = k
    <2>1. \A j \in 1 .. k : n.logs[j] \in Nat  BY <1>1, <1>2
    <2>2. k \in Int  BY <1>1
    <2> HIDE DEF k
    <2>3. /\ SubSeq(n.logs, 1, k) \in Seq(Nat)
          /\ Len(SubSeq(n.logs, 1, k)) = IF 1 <= k THEN k - 1 + 1 ELSE 0
      BY <2>1, <2>2, SubSeqProperties
    <2> QED BY <2>3, <1>1
  <1>5. /\ EntriesAfter(n, i) = SubSeq(n.logs, k + 1, Len(n.logs))
        /\ EntriesUpTo(n, i) = SubSeq(n.logs, 1, k)
    BY DEF EntriesAfter, EntriesUpTo, GetSlicesIndexFromLogIndex
  <1>6. Len(n.logs) - k = GetLastLogIndex(n) - i
    BY <1>1
  <1> QED
    BY <1>3, <1>4, <1>5, <1>6

\* A bounded set of numbers has a smallest element.
LEMMA Smallest ==
  ASSUME NEW S, S \subseteq Nat, S # {}
  PROVE  \E i \in S : \A j \in S : i <= j
  <1>1. PICK x \in S : \A y \in S : ~ (<< y, x >> \in OpToRel(<, Nat))
    BY NatLessThanWellFounded, WFMin
  <1>2. \A y \in S : ~(y < x)
    BY <1>1 DEF OpToRel
  <1> QED BY <1>2

\* A bounded set of numbers has a largest element.
LEMMA Largest ==
  ASSUME NEW S, NEW b \in Nat, S \subseteq 0 .. b, S # {}
  PROVE  \E i \in S : \A j \in S : j <= i
  <1> DEFINE T == { b - i : i \in S }
  <1>1. T \subseteq Nat /\ T # {}
    <2>1. PICK e \in S : TRUE  OBVIOUS
    <2>2. b - e \in T  BY <2>1
    <2>3. \A i \in S : i \in 0 .. b  OBVIOUS
    <2>4. \A i \in S : b - i \in Nat  BY <2>3
    <2> QED BY <2>2, <2>4
  <1> HIDE DEF T
  <1>2. PICK t \in T : \A u \in T : t <= u  BY <1>1, Smallest
  <1> USE DEF T
  <1>3. PICK i \in S : t = b - i  BY <1>2
  <1>4. \A j \in S : b - j \in T  OBVIOUS
  <1>5. \A j \in S : t <= b - j  BY <1>2, <1>4
  <1>6. \A j \in S : j <= i  BY <1>3, <1>5
  <1> QED BY <1>6

\* The index that a rejecting follower sends back is a number.
LEMMA ConflictIndexType ==
  ASSUME NEW n \in RaftObject, NEW prevIndex \in Nat
  PROVE  ConflictIndex(n, prevIndex) \in Int
  <1> DEFINE first == n.lastIncludeSnapshotIndex + 1
             start == Smaller(prevIndex, GetLastLogIndex(n))
             ofTerm == { i \in first .. start :
                           \A j \in i .. start :
                             GetLogTermFromIndex(n, j) = GetLogTermFromIndex(n, start) }
  <1>1. first \in Nat /\ start \in Nat
    BY FieldTypes, LogTypes DEF Smaller
  <1>2. CASE start < first
    BY <1>1, <1>2 DEF ConflictIndex
  <1>3. CASE ~(start < first)
    <2>1. start \in ofTerm  BY <1>1, <1>3
    <2>2. ofTerm \subseteq Nat  BY <1>1
    <2> DEFINE c == CHOOSE i \in ofTerm : \A j \in ofTerm : i <= j
    <2>3. ConflictIndex(n, prevIndex) = c
      BY <1>3 DEF ConflictIndex
    <2> HIDE DEF ofTerm
    <2>4. \E i \in ofTerm : \A j \in ofTerm : i <= j  BY <2>1, <2>2, Smallest
    <2>5. c \in ofTerm  BY <2>4
    <2> HIDE DEF c
    <2>6. c \in Nat  BY <2>2, <2>5
    <2> QED BY <2>3, <2>6
  <1> QED BY <1>2, <1>3

-----------------------------------------------------------------------------
(* What the read bookkeeping leaves alone.                                 *)

\* The calls that share a peer's replication stream.
StreamKind == { "AppendEntries", "ReadHeartBeat", "InstallSnapshot" }

\* n and m agree on what persist() writes.
SameDisk(n, m) ==
  /\ m.currentTerm = n.currentTerm /\ m.votedFor = n.votedFor /\ m.logs = n.logs
  /\ m.lastIncludeSnapshotIndex = n.lastIncludeSnapshotIndex
  /\ m.lastIncludeSnapshotTerm = n.lastIncludeSnapshotTerm

\* n and m agree on role and votes counted.
SameRole(n, m) == m.status = n.status /\ m.votesGranted = n.votesGranted

\* n and m agree on what a leader knows of its peers.
SamePeers(n, m) == m.nextIndex = n.nextIndex /\ m.matchIndex = n.matchIndex

\* m differs from n only in what no invariant below depends on.
SameObject(n, m) ==
  /\ m.id = n.id /\ m.persister = n.persister /\ m.threadPool = n.threadPool
  /\ m.lastApplied = n.lastApplied \/ m.lastApplied > n.lastApplied
  /\ SameDisk(n, m) /\ SameRole(n, m) /\ SamePeers(n, m)

\* Dropping the active read round touches nothing but read bookkeeping.
LEMMA ForgetActiveReadSame ==
  ASSUME NEW n \in RaftObject
  PROVE  ForgetActiveRead(n) \in RaftObject /\ SameObject(n, ForgetActiveRead(n))
  <1> DEFINE pending == [ p \in Server |-> IF n.readIndexPending[p] = n.activeRead.round THEN 0
                                         ELSE n.readIndexPending[p] ]
             m == [ n EXCEPT !.activeRead = Nil, !.readIndexPending = pending ]
  <1>1. ForgetActiveRead(n) = m  BY DEF ForgetActiveRead, RaftObject
  <1>2. pending \in [ Server -> Nat ]  BY FieldTypes
  <1> HIDE DEF pending
  <1>3. m \in RaftObject  BY <1>2 DEF RaftObject
  <1>4. SameObject(n, m)  BY DEF RaftObject, SameObject, SameDisk, SameRole, SamePeers
  <1> QED  BY <1>1, <1>3, <1>4

\* failAllPendingReadIndex touches nothing but read bookkeeping.
LEMMA FailAllPendingReadIndexSame ==
  ASSUME NEW n \in RaftObject
  PROVE  /\ FailAllPendingReadIndex(n) \in RaftObject
         /\ SameObject(n, FailAllPendingReadIndex(n))
  BY ForgetActiveReadSame
  DEF FailAllPendingReadIndex, SameObject, SameDisk, SameRole, SamePeers

\* completeActiveReadIndex touches nothing but read bookkeeping.
LEMMA CompleteActiveReadSame ==
  ASSUME NEW n \in RaftObject, n.activeRead \in PendingReadIndex
  PROVE  CompleteActiveRead(n) \in RaftObject /\ SameObject(n, CompleteActiveRead(n))
  <1> DEFINE f == ForgetActiveRead(n)
             answer == [ round |-> n.activeRead.round, readIndex |-> n.activeRead.readIndex ]
             answered == f.readsAnswered \cup { answer }
             m == [ f EXCEPT !.readsAnswered = answered ]
  <1>0. f \in RaftObject /\ SameObject(n, f)  BY ForgetActiveReadSame
  <1>1. CompleteActiveRead(n) = m  BY <1>0 DEF CompleteActiveRead, RaftObject
  <1>2. answered \subseteq [ round : Nat \ {0}, readIndex : Nat ]
    BY <1>0, FieldTypes DEF PendingReadIndex
  <1> HIDE DEF answered, f
  <1>3. m \in RaftObject  BY ZenonT(30), <1>0, <1>2 DEF RaftObject
  <1>4. SameObject(f, m)  BY <1>0 DEF RaftObject, SameObject, SameDisk, SameRole, SamePeers
  <1> QED  BY <1>0, <1>1, <1>3, <1>4 DEF SameObject, SameDisk, SameRole, SamePeers

-----------------------------------------------------------------------------
(* The invariant of one object.                                            *)

\* The inductive invariant of one object between two handlers: it has its type,
\* its disk is current, what it applied covers its snapshot, a leader's indexes
\* stay inside its log, and every call in its pool was made in its name, in no
\* later term, with no entries a leader of that term does not hold.
Sound(n) ==
  /\ n \in RaftObject
  /\ n.persister = PersistData(n)
  /\ n.lastIncludeSnapshotIndex <= n.lastApplied
  /\ n.status = Leader =>
       /\ \A p \in Server : n.nextIndex[p] <= GetLastLogIndex(n) + 1
       /\ \A p \in Server : n.matchIndex[p] <= GetLastLogIndex(n)
  /\ \A t \in n.threadPool :
       /\ t.request.from = n.id /\ t.request.to # n.id
       /\ t.request.kind # "PreVote" => t.request.term <= n.currentTerm
       /\ n.status = Leader /\ t.request.kind \in { "AppendEntries", "ReadHeartBeat" }
            /\ t.request.term = n.currentTerm => LastEntryOf(t.request) <= GetLastLogIndex(n)
       /\ n.status = Candidate /\ t.request.kind \in StreamKind
            => t.request.term # n.currentTerm

\* The calls for votes that n has not dealt with.
RequestVoteCalls(n) == { t \in n.threadPool : t.request.kind = "RequestVote" }

\* A step of an object that gains it no role: the term never falls, the vote of
\* a term is never changed, no call for a vote is made, and a candidate or leader
\* after it was that before it, in the same term, with the same votes.
Quiet(n, m) ==
  /\ m.id = n.id
  /\ m.currentTerm >= n.currentTerm
  /\ m.currentTerm = n.currentTerm /\ n.votedFor # Nil => m.votedFor = n.votedFor
  /\ RequestVoteCalls(m) \subseteq RequestVoteCalls(n)
  /\ m.status \in {Candidate, Leader} =>
       m.status = n.status /\ m.currentTerm = n.currentTerm /\ m.votesGranted = n.votesGranted

\* m is a sound outcome of a quiet step of n.
Keeps(n, m) == Sound(m) /\ Quiet(n, m)

\* Quiet steps compose.
LEMMA QuietTrans ==
  ASSUME NEW k \in RaftObject, NEW n \in RaftObject, NEW m \in RaftObject, Quiet(k, n), Quiet(n, m)
  PROVE  Quiet(k, m)
  <1>1. k.currentTerm \in Nat /\ n.currentTerm \in Nat /\ m.currentTerm \in Nat
    BY FieldTypes
  <1> QED BY <1>1 DEF Quiet

\* Sound quiet steps compose.
LEMMA KeepsTrans ==
  ASSUME NEW k, NEW n, NEW m, Sound(k), Keeps(k, n), Keeps(n, m)
  PROVE  Keeps(k, m)
  BY QuietTrans DEF Keeps, Sound

\* Doing nothing is a sound quiet step.
LEMMA KeepsRefl == ASSUME NEW n, Sound(n) PROVE Keeps(n, n)
  BY FieldTypes DEF Keeps, Quiet, Sound

\* A change of nothing the invariant depends on is a sound quiet step.
LEMMA SameKeeps ==
  ASSUME NEW n, NEW m \in RaftObject, Sound(n), SameObject(n, m)
  PROVE  Keeps(n, m)
  <1>1. n \in RaftObject  BY DEF Sound
  <1>2. GetLastLogIndex(m) = GetLastLogIndex(n) /\ PersistData(m) = PersistData(n)
    BY DEF SameObject, SameDisk, GetLastLogIndex, PersistData
  <1>3. Sound(m)
    BY <1>1, <1>2, FieldTypes DEF Sound, SameObject, SameDisk, SameRole, SamePeers
  <1>4. Quiet(n, m)
    BY <1>1, FieldTypes DEF Quiet, SameObject, SameDisk, SameRole, RequestVoteCalls
  <1> QED BY <1>3, <1>4 DEF Keeps

\* What a request must satisfy to be handed to n's thread pool.
SoundRequest(n, q) ==
  /\ Unanswered(q) \in Task
  /\ q.from = n.id /\ q.to # n.id
  /\ q.kind # "PreVote" => q.term <= n.currentTerm
  /\ n.status = Leader /\ q.kind \in { "AppendEntries", "ReadHeartBeat" }
       /\ q.term = n.currentTerm => LastEntryOf(q) <= GetLastLogIndex(n)
  /\ n.status = Candidate /\ q.kind \in StreamKind => q.term # n.currentTerm

\* Handing requests to the pool changes the pool and nothing else
LEMMA SubmitEffect ==
  ASSUME NEW n, Sound(n), NEW Q, \A q \in Q : SoundRequest(n, q)
  PROVE  /\ Sound(Submit(n, Q))
         /\ Submit(n, Q).threadPool = n.threadPool \cup { Unanswered(q) : q \in Q }
         /\ Submit(n, Q).id = n.id
         /\ Submit(n, Q).lastApplied = n.lastApplied
         /\ SameDisk(n, Submit(n, Q)) /\ SameRole(n, Submit(n, Q)) /\ SamePeers(n, Submit(n, Q))
  <1> DEFINE new == { Unanswered(q) : q \in Q }
             pool == n.threadPool \cup new
             m == [ n EXCEPT !.threadPool = pool ]
  <1>0. n \in RaftObject  BY DEF Sound
  <1>1. Submit(n, Q) = m  BY <1>0 DEF Submit, RaftObject, Unanswered
  <1>2. pool \subseteq Task  BY <1>0, FieldTypes DEF SoundRequest
  <1>3. \A t \in new : \E q \in Q : t.request = q  BY DEF Unanswered
  <1> HIDE DEF new
  <1>4. m \in RaftObject
    <2> HIDE DEF pool
    <2> QED BY <1>0, <1>2 DEF RaftObject
  <1>5. /\ m.threadPool = pool /\ m.id = n.id /\ m.lastApplied = n.lastApplied /\ m.persister = n.persister
        /\ SameDisk(n, m) /\ SameRole(n, m) /\ SamePeers(n, m)
    <2> HIDE DEF pool
    <2> QED BY <1>0 DEF RaftObject, SameDisk, SameRole, SamePeers
  <1> HIDE DEF m
  <1>6. GetLastLogIndex(m) = GetLastLogIndex(n) /\ PersistData(m) = PersistData(n)
    BY <1>5 DEF SameDisk, GetLastLogIndex, PersistData
  <1>7. ASSUME NEW t \in m.threadPool
        PROVE  /\ t.request.from = m.id /\ t.request.to # m.id
               /\ t.request.kind # "PreVote" => t.request.term <= m.currentTerm
               /\ m.status = Leader /\ t.request.kind \in { "AppendEntries", "ReadHeartBeat" }
                    /\ t.request.term = m.currentTerm => LastEntryOf(t.request) <= GetLastLogIndex(m)
               /\ m.status = Candidate /\ t.request.kind \in StreamKind
                    => t.request.term # m.currentTerm
    <2>1. CASE t \in n.threadPool
      BY <2>1, <1>5, <1>6 DEF Sound, SameDisk, SameRole
    <2>2. CASE t \in new
      BY <2>2, <1>3, <1>5, <1>6 DEF SoundRequest, SameDisk, SameRole
    <2> QED BY <2>1, <2>2, <1>5
  <1>8. Sound(m)
    BY <1>4, <1>5, <1>6, <1>7 DEF Sound, SameDisk, SameRole, SamePeers
  <1> QED BY <1>1, <1>5, <1>8 DEF new

\* Handing calls other than for votes to the pool is a quiet step.
LEMMA SubmitKeeps ==
  ASSUME NEW n, Sound(n), NEW Q, \A q \in Q : SoundRequest(n, q) /\ q.kind # "RequestVote"
  PROVE  Keeps(n, Submit(n, Q))
  <1> DEFINE m == Submit(n, Q)
  <1>1. /\ Sound(m) /\ m.threadPool = n.threadPool \cup { Unanswered(q) : q \in Q }
        /\ m.id = n.id /\ SameDisk(n, m) /\ SameRole(n, m)
    BY SubmitEffect
  <1> HIDE DEF m
  <1>2. RequestVoteCalls(m) = RequestVoteCalls(n)
    BY <1>1 DEF RequestVoteCalls, Unanswered
  <1>3. n.currentTerm \in Nat  BY FieldTypes DEF Sound
  <1>4. Quiet(n, m)
    BY <1>1, <1>2, <1>3 DEF Quiet, SameDisk, SameRole
  <1> QED BY <1>1, <1>4 DEF Keeps, m

-----------------------------------------------------------------------------
(* Calls.                                                                  *)

\* A failed assert stops the object as it is.
LEMMA AbortSame ==
  ASSUME NEW n \in RaftObject
  PROVE  Abort(n) \in RaftObject /\ SameObject(n, Abort(n))
  BY ZenonT(30) DEF Abort, RaftObject, SameObject, SameDisk, SameRole, SamePeers

\* The read heartbeat that a leader builds is a sound request.
LEMMA ReadHeartBeatSound ==
  ASSUME NEW n, Sound(n), n.status = Leader, NEW p \in PeersOf(n.id), NEW round \in Nat,
         IsLogIndex(n, n.nextIndex[p] - 1)
  PROVE  SoundRequest(n, ReadHeartBeat(n, p, round)) /\ ReadHeartBeat(n, p, round).kind = "ReadHeartBeat"
  <1> DEFINE q == ReadHeartBeat(n, p, round)
  <1>0. /\ n \in RaftObject /\ p \in Server /\ p # n.id /\ n.id \in Server
        /\ n.currentTerm \in Nat /\ n.nextIndex[p] - 1 \in Nat
    BY FieldTypes DEF Sound, PeersOf
  <1>1. q \in ReadHeartBeatArgs
    BY <1>0 DEF ReadHeartBeat, ReadHeartBeatArgs
  <1>2. Unanswered(q) \in Task
    BY <1>1 DEF Unanswered, Task
  <1>3. /\ q.from = n.id /\ q.to = p /\ q.term = n.currentTerm /\ q.kind = "ReadHeartBeat"
        /\ q.prevLogIndex = n.nextIndex[p] - 1
    BY DEF ReadHeartBeat
  <1>4. LastEntryOf(q) <= GetLastLogIndex(n)
    BY <1>0, <1>3, LogTypes DEF LastEntryOf, IsLogIndex
  <1> QED BY <1>0, <1>2, <1>3, <1>4 DEF SoundRequest, Leader, Candidate

\* Soundness of a request survives changes that the invariant ignores.
LEMMA SameSoundRequest ==
  ASSUME NEW n, NEW m, SameObject(n, m), NEW q, SoundRequest(n, q)
  PROVE  SoundRequest(m, q)
  BY DEF SameObject, SameDisk, SameRole, SoundRequest, GetLastLogIndex

\* scheduleHeartBeatReadIndex is a sound quiet step.
LEMMA ScheduleHeartBeatKeeps ==
  ASSUME NEW n, Sound(n), n.status = Leader, NEW peers, peers \subseteq PeersOf(n.id),
         NEW round \in Nat
  PROVE  Keeps(n, ScheduleHeartBeat(n, peers, round))
  <1> DEFINE idle == { p \in peers : ~n.replicationInFlight[p] }
             pending == [ p \in Server |-> IF p \in peers \ idle THEN round ELSE n.readIndexPending[p] ]
             inFlight == [ p \in Server |-> n.replicationInFlight[p] \/ p \in idle ]
             m == [ n EXCEPT !.readIndexPending = pending, !.replicationInFlight = inFlight ]
             Q == { ReadHeartBeat(n, p, round) : p \in idle }
  <1>0. n \in RaftObject  BY DEF Sound
  <1>1. CASE \E p \in idle : ~IsLogIndex(n, n.nextIndex[p] - 1)
    <2>1. ScheduleHeartBeat(n, peers, round) = Abort(n)
      BY <1>1 DEF ScheduleHeartBeat
    <2> QED BY <2>1, <1>0, AbortSame, SameKeeps
  <1>2. CASE \A p \in idle : IsLogIndex(n, n.nextIndex[p] - 1)
    <2>1. ScheduleHeartBeat(n, peers, round) = Submit(m, Q)
      BY <1>0, <1>2 DEF ScheduleHeartBeat, RaftObject
    <2>2. pending \in [ Server -> Nat ] /\ inFlight \in [ Server -> BOOLEAN ]
      BY <1>0, FieldTypes
    <2>3. \A q \in Q : SoundRequest(n, q) /\ q.kind = "ReadHeartBeat"
      BY <1>2, ReadHeartBeatSound
    <2> HIDE DEF pending, inFlight, Q
    <2>4. m \in RaftObject /\ SameObject(n, m)
      BY ZenonT(30), <1>0, <2>2 DEF RaftObject, SameObject, SameDisk, SameRole, SamePeers
    <2> HIDE DEF m
    <2>5. Keeps(n, m)  BY <2>4, SameKeeps
    <2>6. \A q \in Q : SoundRequest(m, q) /\ q.kind # "RequestVote"
      BY <2>3, <2>4, SameSoundRequest
    <2>7. Keeps(m, Submit(m, Q))  BY <2>5, <2>6, SubmitKeeps DEF Keeps
    <2> QED BY <2>1, <2>5, <2>7, KeepsTrans
  <1> QED BY <1>1, <1>2

\* trySchedulePendingReadHeartBeat is a sound quiet step.
LEMMA TrySchedulePendingReadHeartBeatKeeps ==
  ASSUME NEW n, Sound(n), n.status = Leader, NEW p \in PeersOf(n.id)
  PROVE  Keeps(n, TrySchedulePendingReadHeartBeat(n, p))
  <1> DEFINE round == n.readIndexPending[p]
             m == [ n EXCEPT !.readIndexPending[p] = 0 ]
  <1>0. n \in RaftObject /\ p \in Server  BY DEF Sound, PeersOf
  <1>1. m \in RaftObject /\ SameObject(n, m)
    BY <1>0 DEF RaftObject, SameObject, SameDisk, SameRole, SamePeers
  <1>2. round \in Nat  BY <1>0, FieldTypes
  <1>3. TrySchedulePendingReadHeartBeat(n, p) \in { m, n, ScheduleHeartBeat(m, {p}, round) }
    BY DEF TrySchedulePendingReadHeartBeat
  <1> HIDE DEF m, round
  <1>4. Keeps(n, m)  BY <1>1, SameKeeps
  <1>5. m.status = Leader /\ {p} \subseteq PeersOf(m.id)  BY <1>1 DEF SameObject, SameRole
  <1>6. Keeps(m, ScheduleHeartBeat(m, {p}, round))
    BY <1>2, <1>4, <1>5, ScheduleHeartBeatKeeps DEF Keeps
  <1>7. Keeps(n, ScheduleHeartBeat(m, {p}, round))  BY <1>4, <1>6, KeepsTrans
  <1> QED BY <1>3, <1>4, <1>7, KeepsRefl

\* The AppendEntries that a leader builds carries entries of its own log.
LEMMA BuildAppendEntriesSound ==
  ASSUME NEW n, Sound(n), n.status = Leader, NEW p \in PeersOf(n.id),
         n.nextIndex[p] > n.lastIncludeSnapshotIndex
  PROVE  /\ SoundRequest(n, BuildAppendEntries(n, p))
         /\ BuildAppendEntries(n, p).kind # "RequestVote"
  <1> DEFINE prev == n.nextIndex[p] - 1
             term == GetLogTermFromIndex(n, prev)
             entries == EntriesAfter(n, prev)
             q == BuildAppendEntries(n, p)
  <1>0. /\ n \in RaftObject /\ p \in Server /\ p # n.id /\ n.id \in Server
        /\ n.currentTerm \in Nat /\ n.nextIndex[p] \in Nat \ {0} /\ prev \in Nat /\ n.commitIndex \in Nat
        /\ n.nextIndex[p] <= GetLastLogIndex(n) + 1
        /\ GetLastLogIndex(n) \in Nat /\ n.lastIncludeSnapshotIndex \in Nat
    BY FieldTypes, LogTypes DEF Sound, PeersOf
  <1>1. IsLogIndex(n, prev)  BY <1>0 DEF IsLogIndex
  <1>2. term \in Nat /\ entries \in Seq(Nat) /\ Len(entries) = GetLastLogIndex(n) - prev
    BY <1>0, <1>1, LogTermType, EntriesTypes
  <1>3. q = [ kind |-> "AppendEntries", from |-> n.id, to |-> p, term |-> n.currentTerm,
              prevLogIndex |-> prev, prevLogTerm |-> term, entries |-> entries,
              leaderCommit |-> n.commitIndex ]
    BY DEF BuildAppendEntries
  <1> HIDE DEF prev, term, entries, q
  <1>4. q \in AppendEntriesArgs  BY <1>0, <1>2, <1>3 DEF AppendEntriesArgs
  <1>5. Unanswered(q) \in Task  BY <1>4 DEF Unanswered, Task
  <1>6. LastEntryOf(q) = GetLastLogIndex(n)  BY <1>0, <1>2, <1>3 DEF LastEntryOf
  <1>7. SoundRequest(n, q) /\ q.kind # "RequestVote"
     BY <1>0, <1>3, <1>5, <1>6 DEF SoundRequest, Leader, Candidate
  <1> QED BY <1>7 DEF q

\* The InstallSnapshot that a leader builds is a sound request.
LEMMA BuildInstallSnapshotSound ==
  ASSUME NEW n, Sound(n), n.status = Leader, NEW p \in PeersOf(n.id)
  PROVE  /\ SoundRequest(n, BuildInstallSnapshot(n, p))
         /\ BuildInstallSnapshot(n, p).kind # "RequestVote"
  <1> DEFINE q == BuildInstallSnapshot(n, p)
  <1>0. /\ n \in RaftObject /\ p \in Server /\ p # n.id /\ n.id \in Server
        /\ n.currentTerm \in Nat
        /\ n.lastIncludeSnapshotIndex \in Nat /\ n.lastIncludeSnapshotTerm \in Nat
    BY FieldTypes DEF Sound, PeersOf
  <1>1. q \in InstallSnapshotArgs  BY <1>0 DEF BuildInstallSnapshot, InstallSnapshotArgs
  <1>2. Unanswered(q) \in Task  BY <1>1 DEF Unanswered, Task
  <1>3. q.kind = "InstallSnapshot" /\ q.from = n.id /\ q.to = p /\ q.term = n.currentTerm
    BY DEF BuildInstallSnapshot
  <1> QED BY <1>0, <1>2, <1>3 DEF SoundRequest, Leader, Candidate

\* scheduleReplication is a sound quiet step, whether it asserts, sends or waits.
LEMMA ScheduleReplicationKeeps ==
  ASSUME NEW n, Sound(n), NEW peers, peers \subseteq PeersOf(n.id)
  PROVE  Keeps(n, ScheduleReplication(n, peers))
  <1> DEFINE idle == { p \in peers : ~n.replicationInFlight[p] }
             pending == [ p \in Server |-> IF p \in peers THEN p \notin idle ELSE n.replicationPending[p] ]
             inFlight == [ p \in Server |-> n.replicationInFlight[p] \/ p \in idle ]
             m == [ n EXCEPT !.replicationPending = pending, !.replicationInFlight = inFlight ]
             Q == { IF n.nextIndex[p] <= n.lastIncludeSnapshotIndex
                      THEN BuildInstallSnapshot(n, p) ELSE BuildAppendEntries(n, p) : p \in idle }
  <1>0. n \in RaftObject  BY DEF Sound
  <1>1. CASE n.status # Leader
    BY <1>1, KeepsRefl DEF ScheduleReplication
  <1>2. CASE n.status = Leader
    <2>1. ScheduleReplication(n, peers) = Submit(m, Q)
      BY <1>0, <1>2 DEF ScheduleReplication, RaftObject
    <2>2. pending \in [ Server -> BOOLEAN ] /\ inFlight \in [ Server -> BOOLEAN ]
      BY <1>0, FieldTypes
    <2>3. \A q \in Q : SoundRequest(n, q) /\ q.kind # "RequestVote"
      <3> SUFFICES ASSUME NEW p \in idle
                   PROVE  LET q == IF n.nextIndex[p] <= n.lastIncludeSnapshotIndex
                                     THEN BuildInstallSnapshot(n, p) ELSE BuildAppendEntries(n, p)
                          IN  SoundRequest(n, q) /\ q.kind # "RequestVote"
        OBVIOUS
      <3>1. p \in PeersOf(n.id) /\ p \in Server  BY DEF PeersOf
      <3>2. n.nextIndex[p] \in Nat /\ n.lastIncludeSnapshotIndex \in Nat  BY <1>0, <3>1, FieldTypes
      <3> QED BY <1>2, <3>1, <3>2, BuildInstallSnapshotSound, BuildAppendEntriesSound
    <2> HIDE DEF pending, inFlight, Q
    <2>4. m \in RaftObject /\ SameObject(n, m)
      BY ZenonT(30), <1>0, <2>2 DEF RaftObject, SameObject, SameDisk, SameRole, SamePeers
    <2> HIDE DEF m
    <2>5. Keeps(n, m)  BY <2>4, SameKeeps
    <2>6. \A q \in Q : SoundRequest(m, q) /\ q.kind # "RequestVote"
      BY <2>3, <2>4, SameSoundRequest
    <2>7. Keeps(m, Submit(m, Q))  BY <2>5, <2>6, SubmitKeeps DEF Keeps
    <2> QED BY <2>1, <2>5, <2>7, KeepsTrans
  <1> QED BY <1>1, <1>2

-----------------------------------------------------------------------------
(* Committing and applying.                                                *)

\* What applyCommitted hands to the state machine is a sequence of messages.
LEMMA SeqOfApplied ==
  ASSUME NEW S, NEW k \in Int, NEW f, f = [ i \in 1 .. k |-> f[i] ], \A i \in 1 .. k : f[i] \in S
  PROVE  f \in Seq(S)
  <1>1. CASE k >= 0
    <2>1. f \in [ 1 .. k -> S ]  OBVIOUS
    <2> QED BY <1>1, <2>1
  <1>2. CASE k < 0
    <2>1. 1 .. k = 1 .. 0 BY <1>2
    <2>2. f \in [ 1 .. 0 -> S ]  BY <2>1
    <2> QED BY <2>2
  <1> QED BY <1>1, <1>2

\* applyCommitted is a sound quiet step.
LEMMA ApplyCommittedKeeps ==
  ASSUME NEW n, Sound(n), n.commitIndex <= GetLastLogIndex(n)
  PROVE  Keeps(n, ApplyCommitted(n)) /\ SameRole(n, ApplyCommitted(n)) /\ SamePeers(n, ApplyCommitted(n))
            /\ SameDisk(n, ApplyCommitted(n))
  <1> DEFINE new == n.commitIndex - n.lastApplied
             msg(k) == [ snapshot |-> FALSE, index |-> n.lastApplied + k,
                         term |-> GetLogTermFromIndex(n, n.lastApplied + k) ]
             msgs == [ k \in 1 .. new |-> msg(k) ]
             applied == Larger(n.lastApplied, n.commitIndex)
             queue == n.applyQueue \o msgs
             m == [ n EXCEPT !.lastApplied = applied, !.applyQueue = queue ]
  <1>0. /\ n \in RaftObject /\ n.commitIndex \in Nat /\ n.lastApplied \in Nat
        /\ n.lastIncludeSnapshotIndex \in Nat /\ n.applyQueue \in Seq(ApplyMsg)
        /\ n.lastIncludeSnapshotIndex <= n.lastApplied
    BY FieldTypes DEF Sound
  <1>1. ApplyCommitted(n) = m  BY <1>0 DEF ApplyCommitted, RaftObject
  <1>2. \A k \in 1 .. new : msgs[k] \in ApplyMsg
    <2> SUFFICES ASSUME NEW k \in 1 .. new PROVE msg(k) \in ApplyMsg  OBVIOUS
    <2>1. IsLogIndex(n, n.lastApplied + k) /\ n.lastApplied + k \in Nat
      BY <1>0, LogTypes DEF IsLogIndex
    <2>2. GetLogTermFromIndex(n, n.lastApplied + k) \in Nat
      BY <1>0, <2>1, LogTermType
    <2> QED BY <2>1, <2>2 DEF ApplyMsg
  <1>3. msgs \in Seq(ApplyMsg)
    <2>1. msgs = [ k \in 1 .. new |-> msgs[k] ] /\ new \in Int  BY <1>0
    <2> HIDE DEF msgs, new
    <2> QED BY <1>2, <2>1, SeqOfApplied
  <1>4. queue \in Seq(ApplyMsg)
    <2> HIDE DEF msgs
    <2> QED BY <1>0, <1>3, ConcatProperties
  <1>5. applied \in Nat /\ (applied = n.lastApplied \/ applied > n.lastApplied)  BY <1>0 DEF Larger
  <1> HIDE DEF applied, queue
  <1>6. m \in RaftObject /\ SameObject(n, m)
    BY ZenonT(30), <1>0, <1>4, <1>5 DEF RaftObject, SameObject, SameDisk, SameRole, SamePeers
  <1>7. SameDisk(n, m) /\ SameRole(n, m) /\ SamePeers(n, m)  BY <1>6 DEF SameObject
  <1> HIDE DEF m
  <1> QED BY <1>1, <1>6, <1>7, SameKeeps

\* updateCommitIndex is a sound quiet step.
LEMMA UpdateCommitIndexKeeps ==
  ASSUME NEW n, Sound(n)
  PROVE  /\ Keeps(n, UpdateCommitIndex(n))
         /\ SameRole(n, UpdateCommitIndex(n)) /\ SamePeers(n, UpdateCommitIndex(n))
         /\ SameDisk(n, UpdateCommitIndex(n))
  <1> DEFINE C == Committable(n)
             newest == CHOOSE i \in C : \A j \in C : j <= i
             m == [ n EXCEPT !.commitIndex = newest, !.currentTermCommitted = TRUE ]
  <1>0. n \in RaftObject /\ n.commitIndex \in Nat /\ GetLastLogIndex(n) \in Nat
    BY FieldTypes, LogTypes DEF Sound
  <1>1. CASE C = {}
    <2>1. UpdateCommitIndex(n) = n  BY <1>1 DEF UpdateCommitIndex
    <2> QED BY <2>1, KeepsRefl DEF SameRole, SamePeers, SameDisk
  <1>2. CASE C # {}
    <2>1. UpdateCommitIndex(n) = ApplyCommitted(m)  BY <1>2 DEF UpdateCommitIndex
    <2>2. C \subseteq 0 .. GetLastLogIndex(n)  BY <1>0 DEF Committable
    <2> HIDE DEF C
    <2>3. \E i \in C : \A j \in C : j <= i  BY <1>0, <1>2, <2>2, Largest
    <2>4. newest \in C  BY <2>3
    <2> HIDE DEF newest
    <2>5. newest \in Nat /\ newest <= GetLastLogIndex(n)  BY <1>0, <2>2, <2>4
    <2>6. m \in RaftObject /\ SameObject(n, m) /\ m.commitIndex = newest
      BY ZenonT(30), <1>0, <2>5 DEF RaftObject, SameObject, SameDisk, SameRole, SamePeers
    <2> HIDE DEF m
    <2>7. Keeps(n, m) /\ SameDisk(n, m) /\ SameRole(n, m) /\ SamePeers(n, m)
      BY <2>6, SameKeeps DEF SameObject
    <2>8. m.commitIndex <= GetLastLogIndex(m)
      BY <2>5, <2>6, <2>7 DEF SameDisk, GetLastLogIndex
    <2>9. /\ Keeps(m, ApplyCommitted(m)) /\ SameDisk(m, ApplyCommitted(m))
          /\ SameRole(m, ApplyCommitted(m)) /\ SamePeers(m, ApplyCommitted(m))
      BY <2>7, <2>8, ApplyCommittedKeeps DEF Keeps
    <2>10. Keeps(n, ApplyCommitted(m))  BY <2>7, <2>9, KeepsTrans
    <2> QED BY <2>1, <2>7, <2>9, <2>10 DEF SameDisk, SameRole, SamePeers
  <1> QED BY <1>1, <1>2

-----------------------------------------------------------------------------
(* Persisting and appending.                                               *)

\* persist() makes the disk current and changes nothing else.
LEMMA PersistEffect ==
  ASSUME NEW n \in RaftObject
  PROVE  /\ Persist(n) \in RaftObject
         /\ Persist(n).persister = PersistData(n)
         /\ Persist(n).id = n.id /\ Persist(n).threadPool = n.threadPool
         /\ Persist(n).lastApplied = n.lastApplied
         /\ SameDisk(n, Persist(n)) /\ SameRole(n, Persist(n)) /\ SamePeers(n, Persist(n))
         /\ PersistData(Persist(n)) = PersistData(n)
  <1> DEFINE d == PersistData(n)
  <1>1. d \in Disk  BY FieldTypes DEF PersistData, Disk
  <1>2. Persist(n) = [ n EXCEPT !.persister = d ]  BY DEF Persist
  <1> HIDE DEF d
  <1>3. Persist(n) \in RaftObject  BY ZenonT(30), <1>1, <1>2 DEF RaftObject
  <1>4. /\ Persist(n).persister = d /\ Persist(n).id = n.id /\ Persist(n).threadPool = n.threadPool
        /\ Persist(n).lastApplied = n.lastApplied
        /\ SameDisk(n, Persist(n)) /\ SameRole(n, Persist(n)) /\ SamePeers(n, Persist(n))
    BY <1>2 DEF RaftObject, SameDisk, SameRole, SamePeers
  <1>5. PersistData(Persist(n)) = PersistData(n)
    BY <1>4 DEF PersistData, SameDisk
  <1> QED BY <1>3, <1>4, <1>5 DEF d

\* The last index that a request carries is a number.
LEMMA LastEntryOfType ==
  ASSUME NEW t \in Task, t.request.kind \in { "AppendEntries", "ReadHeartBeat" }
  PROVE  LastEntryOf(t.request) \in Nat
  <1>1. t.request \in AppendEntriesArgs \cup ReadHeartBeatArgs
    BY DEF Task, PreVoteArgs, RequestVoteArgs, InstallSnapshotArgs
  <1>2. CASE t.request \in AppendEntriesArgs
    <2>1. t.request.prevLogIndex \in Nat /\ Len(t.request.entries) \in Nat
      BY <1>2, LenProperties DEF AppendEntriesArgs
    <2> QED BY <2>1 DEF LastEntryOf
  <1>3. CASE t.request \in ReadHeartBeatArgs
    BY <1>3 DEF LastEntryOf, ReadHeartBeatArgs
  <1> QED BY <1>1, <1>2, <1>3

\* The log may have grown
LEMMA AppendOwnKeeps ==
  ASSUME NEW n, Sound(n)
  PROVE  /\ Keeps(n, AppendOwn(n)) /\ SameRole(n, AppendOwn(n)) /\ AppendOwn(n).id = n.id
         /\ AppendOwn(n).threadPool = n.threadPool
         /\ AppendOwn(n).currentTerm = n.currentTerm /\ AppendOwn(n).votedFor = n.votedFor
  <1> DEFINE logs == Append(n.logs, n.currentTerm)
             k == [ n EXCEPT !.logs = logs ]
             m == Persist(k)
  <1>0. /\ n \in RaftObject /\ n.logs \in Seq(Nat) /\ n.currentTerm \in Nat
        /\ n.lastIncludeSnapshotIndex \in Nat /\ Len(n.logs) \in Nat
        /\ n.nextIndex \in [ Server -> Nat \ {0} ] /\ n.matchIndex \in [ Server -> Nat ]
    BY FieldTypes, LogTypes DEF Sound
  <1>1. AppendOwn(n) = m  BY DEF AppendOwn
  <1>2. logs \in Seq(Nat) /\ Len(logs) = Len(n.logs) + 1  BY <1>0, AppendProperties
  <1> HIDE DEF logs
  <1>3. /\ k \in RaftObject /\ k.id = n.id /\ k.threadPool = n.threadPool
        /\ k.lastApplied = n.lastApplied /\ SameRole(n, k) /\ SamePeers(n, k)
        /\ k.currentTerm = n.currentTerm /\ k.votedFor = n.votedFor /\ k.logs = logs
        /\ k.lastIncludeSnapshotIndex = n.lastIncludeSnapshotIndex
    BY ZenonT(30), <1>0, <1>2 DEF RaftObject, SameRole, SamePeers
  <1> HIDE DEF k
  <1>4. /\ m \in RaftObject /\ m.persister = PersistData(m) /\ m.id = n.id
        /\ m.threadPool = n.threadPool
        /\ m.lastApplied = n.lastApplied /\ SameRole(n, m) /\ SamePeers(n, m)
        /\ m.currentTerm = n.currentTerm /\ m.votedFor = n.votedFor /\ m.logs = logs
        /\ m.lastIncludeSnapshotIndex = n.lastIncludeSnapshotIndex
    BY <1>3, PersistEffect DEF SameDisk, SameRole, SamePeers
  <1> HIDE DEF m
  <1>5. GetLastLogIndex(m) = GetLastLogIndex(n) + 1 /\ GetLastLogIndex(n) \in Nat
    <2>1. GetLastLogIndex(m) = n.lastIncludeSnapshotIndex + Len(logs)
      BY <1>4 DEF GetLastLogIndex
    <2>2. GetLastLogIndex(n) = n.lastIncludeSnapshotIndex + Len(n.logs)
      BY DEF GetLastLogIndex
    <2>3. n.lastIncludeSnapshotIndex \in Nat /\ Len(n.logs) \in Nat /\ Len(logs) = Len(n.logs) + 1
      BY <1>0, <1>2
    <2> QED BY <2>1, <2>2, <2>3
  <1>6. \A t \in n.threadPool : t.request.kind \in { "AppendEntries", "ReadHeartBeat" } =>
           LastEntryOf(t.request) \in Nat
    BY <1>0, FieldTypes, LastEntryOfType
  <1>7. Sound(m)
    BY <1>0, <1>4, <1>5, <1>6 DEF Sound, SameRole, SamePeers
  <1>8. Quiet(n, m)
    BY <1>0, <1>4 DEF Quiet, SameRole, RequestVoteCalls
  <1> QED BY <1>1, <1>4, <1>7, <1>8 DEF Keeps

-----------------------------------------------------------------------------
(* Losing a role.                                                          *)

\* An object that is neither candidate nor leader after a step that keeps term, vote and pool.
LEMMA NoRoleKeeps ==
  ASSUME NEW n, Sound(n), NEW m \in RaftObject, SameDisk(n, m),
         m.id = n.id, m.persister = n.persister, m.threadPool = n.threadPool,
         m.lastApplied = n.lastApplied, m.status \notin { Candidate, Leader }
  PROVE  Keeps(n, m)
  <1>0. n \in RaftObject /\ n.currentTerm \in Nat  BY FieldTypes DEF Sound
  <1>1. PersistData(m) = PersistData(n)  BY DEF SameDisk, PersistData
  <1>2. Sound(m)  BY <1>1 DEF Sound, SameDisk
  <1>3. Quiet(n, m)  BY <1>0 DEF Quiet, SameDisk, RequestVoteCalls
  <1> QED BY <1>2, <1>3 DEF Keeps

\* Becoming a follower, term unchanged, is a sound quiet step.
LEMMA LoseRoleKeeps ==
  ASSUME NEW n, Sound(n)
  PROVE  /\ Keeps(n, LoseRole(n)) /\ LoseRole(n).status = Follower
         /\ SameDisk(n, LoseRole(n)) /\ LoseRole(n).threadPool = n.threadPool
         /\ LoseRole(n).id = n.id
  <1> DEFINE k == [ n EXCEPT !.status = Follower, !.votesGranted = 0, !.preVotesGranted = 0,
                             !.currentTermCommitted = FALSE ]
             m == FailAllPendingReadIndex(k)
  <1>0. n \in RaftObject  BY DEF Sound
  <1>1. LoseRole(n) = m  BY DEF LoseRole
  <1>2. /\ k \in RaftObject /\ k.status = Follower /\ SameDisk(n, k) /\ k.id = n.id
        /\ k.persister = n.persister /\ k.threadPool = n.threadPool
        /\ k.lastApplied = n.lastApplied
    BY ZenonT(30), <1>0 DEF RaftObject, SameDisk, Status
  <1> HIDE DEF k
  <1>3. Keeps(n, k)  BY <1>2, NoRoleKeeps DEF Follower, Candidate, Leader
  <1>4. m \in RaftObject /\ SameObject(k, m)  BY <1>2, FailAllPendingReadIndexSame
  <1>5. Keeps(k, m)  BY <1>3, <1>4, SameKeeps DEF Keeps
  <1>6. Keeps(n, m)  BY <1>3, <1>5, KeepsTrans
  <1> HIDE DEF m
  <1> QED BY <1>1, <1>2, <1>4, <1>6 DEF SameObject, SameRole, SameDisk

\* Entering a later term, vote cleared or given, and persisting it is sound.
LEMMA EnterTermSound ==
  ASSUME NEW n, Sound(n), NEW term \in Nat, term > n.currentTerm
  PROVE  /\ Sound(EnterTerm(n, term))
         /\ EnterTerm(n, term).id = n.id /\ EnterTerm(n, term).currentTerm = term
         /\ EnterTerm(n, term).threadPool = n.threadPool
  <1> DEFINE k == [ n EXCEPT !.currentTerm = term, !.votedFor = Nil ]
             m == Persist(k)
  <1>0. n \in RaftObject /\ n.currentTerm \in Nat  BY FieldTypes DEF Sound
  <1>1. EnterTerm(n, term) = m  BY DEF EnterTerm
  <1>2. /\ k \in RaftObject /\ k.currentTerm = term /\ k.id = n.id
        /\ k.threadPool = n.threadPool /\ k.lastApplied = n.lastApplied
        /\ k.logs = n.logs /\ k.lastIncludeSnapshotIndex = n.lastIncludeSnapshotIndex
        /\ SameRole(n, k) /\ SamePeers(n, k)
    BY ZenonT(30), <1>0 DEF RaftObject, SameRole, SamePeers
  <1> HIDE DEF k
  <1>3. /\ m \in RaftObject /\ m.persister = PersistData(m)
        /\ m.currentTerm = term /\ m.id = n.id
        /\ m.threadPool = n.threadPool /\ m.lastApplied = n.lastApplied
        /\ m.logs = n.logs /\ m.lastIncludeSnapshotIndex = n.lastIncludeSnapshotIndex
        /\ SameRole(n, m) /\ SamePeers(n, m)
    BY <1>2, PersistEffect DEF SameDisk, SameRole, SamePeers
  <1> HIDE DEF m
  <1>4. GetLastLogIndex(m) = GetLastLogIndex(n)  BY <1>3 DEF GetLastLogIndex
  <1>5. ASSUME NEW t \in n.threadPool
        PROVE  /\ t.request.from = m.id /\ t.request.to # m.id
               /\ t.request.kind # "PreVote" => t.request.term <= m.currentTerm
               /\ t.request.kind # "PreVote" => t.request.term # m.currentTerm
    <2>1. t.request.term \in Nat
      BY <1>0, FieldTypes DEF Task, PreVoteArgs, RequestVoteArgs, AppendEntriesArgs,
                              ReadHeartBeatArgs, InstallSnapshotArgs
    <2> QED BY <1>0, <1>3, <2>1 DEF Sound
  <1>6. Sound(m)
    BY <1>3, <1>4, <1>5 DEF Sound, SameRole, SamePeers, StreamKind
  <1> QED BY <1>1, <1>3, <1>6

\* becomeFollower is a sound quiet step: an older or equal term keeps the vote.
LEMMA BecomeFollowerKeeps ==
  ASSUME NEW n, Sound(n), NEW term \in Nat
  PROVE  /\ Keeps(n, BecomeFollower(n, term))
         /\ BecomeFollower(n, term).currentTerm = Larger(term, n.currentTerm)
  <1>0. n \in RaftObject /\ n.currentTerm \in Nat  BY FieldTypes DEF Sound
  <1>1. CASE term > n.currentTerm
    <2> DEFINE k == EnterTerm(n, term)
               m == LoseRole(k)
    <2>1. BecomeFollower(n, term) = m  BY <1>1 DEF BecomeFollower
    <2>2. Sound(k) /\ k.id = n.id /\ k.currentTerm = term /\ k.threadPool = n.threadPool
      BY <1>1, EnterTermSound
    <2> HIDE DEF k
    <2>3. /\ Keeps(k, m) /\ m.status = Follower /\ m.currentTerm = term
          /\ m.id = n.id /\ m.threadPool = n.threadPool
      BY <2>2, LoseRoleKeeps DEF SameDisk
    <2> HIDE DEF m
    <2>4. Quiet(n, m)
      BY <1>0, <1>1, <2>3 DEF Quiet, RequestVoteCalls, Follower, Candidate, Leader
    <2> QED BY <1>0, <1>1, <2>1, <2>3, <2>4 DEF Keeps, Larger
  <1>2. CASE ~(term > n.currentTerm)
    <2>1. BecomeFollower(n, term) = LoseRole(n)  BY <1>2 DEF BecomeFollower
    <2> QED BY <1>0, <1>2, <2>1, LoseRoleKeeps DEF Larger, SameDisk
  <1> QED BY <1>1, <1>2

\* Stepping down on quorum timeout is a sound quiet step.
LEMMA StepDownKeeps ==
  ASSUME NEW n, Sound(n)
  PROVE  Keeps(n, StepDown(n))
  <1> DEFINE none == [ p \in Server |-> FALSE ]
             k == [ n EXCEPT !.replicationPending = none, !.replicationInFlight = none ]
  <1>0. n \in RaftObject  BY DEF Sound
  <1>1. StepDown(n) = LoseRole(k)  BY DEF StepDown
  <1>2. none \in [ Server -> BOOLEAN ]  OBVIOUS
  <1> HIDE DEF none
  <1>3. k \in RaftObject /\ SameObject(n, k)
    BY ZenonT(30), <1>0, <1>2 DEF RaftObject, SameObject, SameDisk, SameRole, SamePeers
  <1> HIDE DEF k
  <1>4. Keeps(n, k)  BY <1>3, SameKeeps
  <1>5. Keeps(k, LoseRole(k))  BY <1>4, LoseRoleKeeps DEF Keeps
  <1> QED BY <1>1, <1>4, <1>5, KeepsTrans

-----------------------------------------------------------------------------
(* Gaining a role.                                                         *)

\* A candidate that stops being one: it leads its own term, or a later step took the role away.
Wins(n, m) ==
  /\ m.id = n.id
  /\ m.currentTerm >= n.currentTerm
  /\ m.currentTerm = n.currentTerm /\ n.votedFor # Nil => m.votedFor = n.votedFor
  /\ RequestVoteCalls(m) \subseteq RequestVoteCalls(n)
  /\ m.status # Candidate
  /\ m.status = Leader => m.currentTerm = n.currentTerm

\* n begins an election: a later term, a vote for itself, and calls for votes of
\* that term, at most one to a peer.
Stands(n, m) ==
  /\ m.id = n.id
  /\ m.currentTerm > n.currentTerm
  /\ m.status \in {Candidate, Leader} => m.votedFor = m.id
  /\ m.status = Candidate => m.votesGranted = 1
  /\ m.status = Leader => QuorumSize <= 1
  /\ \A t \in RequestVoteCalls(m) \ RequestVoteCalls(n) :
       /\ t.reply = Nil /\ t.request.term > n.currentTerm
       /\ \A u \in RequestVoteCalls(m) \ RequestVoteCalls(n) :
            u.request.to = t.request.to => u = t

\* Peers are servers.
LEMMA PeersFacts == ASSUME NEW n \in RaftObject PROVE PeersOf(n.id) \subseteq Server /\ n.id \in Server
  BY FieldTypes DEF PeersOf

\* The leader that a candidate becomes, before its no-op entry.
ElectedLeader(n) ==
  [ n EXCEPT !.status = Leader, !.votesGranted = 0, !.preVotesGranted = 0,
             !.nextIndex = [ p \in Server |-> GetLastLogIndex(n) + 1 ],
             !.matchIndex = [ p \in Server |-> 0 ],
             !.replicationInFlight = [ p \in Server |-> FALSE ],
             !.replicationPending = [ p \in Server |-> FALSE ] ]

\* It has made no call as leader and may make its first.
LEMMA ElectedLeaderSound ==
  ASSUME NEW n, Sound(n), n.status = Candidate
  PROVE  LET k == ElectedLeader(n)
         IN  /\ Sound(k) /\ k.status = Leader /\ SameDisk(n, k) /\ k.id = n.id
             /\ k.threadPool = n.threadPool /\ k.lastApplied = n.lastApplied
             /\ k.commitIndex = n.commitIndex /\ k.applyQueue = n.applyQueue
             /\ k.matchIndex = [ p \in Server |-> 0 ]
  <1> DEFINE next == [ p \in Server |-> GetLastLogIndex(n) + 1 ]
             match == [ p \in Server |-> 0 ]
             none == [ p \in Server |-> FALSE ]
             k == [ n EXCEPT !.status = Leader, !.votesGranted = 0, !.preVotesGranted = 0,
                             !.nextIndex = next, !.matchIndex = match,
                             !.replicationInFlight = none, !.replicationPending = none ]
  <1>0. /\ n \in RaftObject /\ GetLastLogIndex(n) \in Nat /\ n.currentTerm \in Nat
        /\ n.lastIncludeSnapshotIndex <= n.lastApplied
    BY FieldTypes, LogTypes DEF Sound
  <1>1. ElectedLeader(n) = k  BY DEF ElectedLeader
  <1>2. /\ next \in [ Server -> Nat \ {0} ] /\ match \in [ Server -> Nat ]
        /\ none \in [ Server -> BOOLEAN ]
        /\ \A p \in Server : next[p] = GetLastLogIndex(n) + 1 /\ match[p] = 0
    BY <1>0
  <1> HIDE DEF next, match, none
  <1>3. k \in RaftObject
    BY ZenonT(30), <1>0, <1>2 DEF RaftObject, Status
  <1>4. /\ k.status = Leader /\ SameDisk(n, k) /\ k.id = n.id /\ k.threadPool = n.threadPool
        /\ k.persister = n.persister /\ k.lastApplied = n.lastApplied
        /\ k.commitIndex = n.commitIndex /\ k.applyQueue = n.applyQueue
        /\ k.nextIndex = next /\ k.matchIndex = match
    BY <1>0 DEF RaftObject, SameDisk
  <1> HIDE DEF k
  <1>5. GetLastLogIndex(k) = GetLastLogIndex(n) /\ PersistData(k) = PersistData(n)
    BY <1>4 DEF SameDisk, GetLastLogIndex, PersistData
  <1>6. ASSUME NEW t \in n.threadPool, t.request.kind \in StreamKind
        PROVE  t.request.term # k.currentTerm
    BY <1>4, <1>6 DEF Sound, SameDisk
  <1>7. Sound(k)
    <2>1. \A t \in k.threadPool :
            /\ t.request.from = k.id /\ t.request.to # k.id
            /\ t.request.kind # "PreVote" => t.request.term <= k.currentTerm
            /\ t.request.kind \in { "AppendEntries", "ReadHeartBeat" } =>
                 t.request.term # k.currentTerm
      BY <1>4, <1>6 DEF Sound, SameDisk, StreamKind
    <2>2. \A p \in Server : /\ k.nextIndex[p] <= GetLastLogIndex(k) + 1
                            /\ k.matchIndex[p] <= GetLastLogIndex(k)
      BY <1>0, <1>2, <1>4, <1>5
    <2>3. k.persister = PersistData(k) /\ k.lastIncludeSnapshotIndex <= k.lastApplied
      BY <1>4, <1>5 DEF Sound, SameDisk
    <2> QED BY <1>3, <1>4, <2>1, <2>2, <2>3 DEF Sound, Leader, Candidate
  <1> QED BY <1>1, <1>4, <1>7 DEF match

\* becomeLeader, its no-op entry and first replication included, yields a sound leader.
LEMMA BecomeLeaderWins ==
  ASSUME NEW n, Sound(n), n.status = Candidate
  PROVE  Sound(BecomeLeader(n)) /\ Wins(n, BecomeLeader(n))
  <1> DEFINE k == ElectedLeader(n)
             a == AppendOwn(k)
             m == ScheduleAllReplication(a)
  <1>1. BecomeLeader(n) = m  BY DEF BecomeLeader, ElectedLeader
  <1>2. n \in RaftObject /\ n.currentTerm \in Nat  BY FieldTypes DEF Sound
  <1>4. /\ Sound(k) /\ k.status = Leader /\ SameDisk(n, k) /\ k.id = n.id
        /\ k.threadPool = n.threadPool
    BY ElectedLeaderSound
  <1> HIDE DEF k
  <1>8. Keeps(k, a)  BY <1>4, AppendOwnKeeps
  <1> HIDE DEF a
  <1>9. Keeps(a, m)
    BY <1>8, ScheduleReplicationKeeps DEF Keeps, ScheduleAllReplication
  <1> HIDE DEF m
  <1>10. Keeps(k, m)  BY <1>4, <1>8, <1>9, KeepsTrans
  <1>11. Wins(n, m)
    BY <1>2, <1>4, <1>10 DEF Keeps, Quiet, Wins, SameDisk, RequestVoteCalls, Candidate, Leader
  <1> QED BY <1>1, <1>10, <1>11 DEF Keeps

\* The candidate that begins an election, before it has asked anybody.
NewCandidate(n) ==
  Persist([ n EXCEPT !.status = Candidate, !.currentTerm = n.currentTerm + 1, !.votedFor = n.id,
                     !.votesGranted = 1, !.electionTerm = n.currentTerm + 1 ])

\* The candidate that has asked its peers.
Asking(n) ==
  Submit(NewCandidate(n), { RequestVote(NewCandidate(n), p) : p \in PeersOf(n.id) })

\* A candidate that asks its peers, one call to each.
LEMMA AskingSound ==
  ASSUME NEW n, Sound(n)
  PROVE  LET m == NewCandidate(n)
             asked == Asking(n)
         IN  /\ Sound(asked) /\ SameDisk(m, asked) /\ asked.id = n.id
             /\ asked.status = Candidate /\ asked.currentTerm = n.currentTerm + 1
             /\ asked.votedFor = n.id /\ asked.votesGranted = 1 /\ asked.logs = n.logs
             /\ asked.lastIncludeSnapshotIndex = n.lastIncludeSnapshotIndex
             /\ asked.lastIncludeSnapshotTerm = n.lastIncludeSnapshotTerm
             /\ asked.lastApplied = n.lastApplied /\ asked.commitIndex = n.commitIndex
             /\ asked.applyQueue = n.applyQueue /\ asked.matchIndex = n.matchIndex
             /\ \A t \in asked.threadPool \ n.threadPool :
                  \E p \in PeersOf(n.id) : t = Unanswered(RequestVote(m, p))
             /\ \A t \in RequestVoteCalls(asked) \ RequestVoteCalls(n) :
                  /\ t.reply = Nil /\ t.request.term > n.currentTerm
                  /\ \A u \in RequestVoteCalls(asked) \ RequestVoteCalls(n) :
                       u.request.to = t.request.to => u = t
  <1> DEFINE term == n.currentTerm + 1
             k == [ n EXCEPT !.status = Candidate, !.currentTerm = term, !.votedFor = n.id,
                             !.votesGranted = 1, !.electionTerm = term ]
             m == NewCandidate(n)
             Q == { RequestVote(m, p) : p \in PeersOf(n.id) }
             new == { [ request |-> q, reply |-> Nil ] : q \in Q }
             pool == m.threadPool \cup new
             asked == Asking(n)
  <1>0. n \in RaftObject /\ n.currentTerm \in Nat /\ term \in Nat /\ n.id \in Server
    BY FieldTypes DEF Sound
  <1>1. m = Persist(k) /\ asked = Submit(m, Q)  BY DEF NewCandidate, Asking
  <1>2. /\ k \in RaftObject /\ k.id = n.id /\ k.status = Candidate /\ k.currentTerm = term
        /\ k.votedFor = n.id /\ k.votesGranted = 1 /\ k.threadPool = n.threadPool
        /\ k.lastApplied = n.lastApplied /\ k.logs = n.logs
        /\ k.lastIncludeSnapshotIndex = n.lastIncludeSnapshotIndex
        /\ k.lastIncludeSnapshotTerm = n.lastIncludeSnapshotTerm
        /\ k.commitIndex = n.commitIndex /\ k.applyQueue = n.applyQueue
        /\ k.matchIndex = n.matchIndex
    <2> HIDE DEF term
    <2> QED BY ZenonT(30), <1>0 DEF RaftObject, Status
  <1> HIDE DEF k, m
  <1>3. /\ m \in RaftObject /\ m.id = n.id /\ m.status = Candidate /\ m.currentTerm = term
        /\ m.votedFor = n.id /\ m.votesGranted = 1 /\ m.threadPool = n.threadPool
        /\ m.lastApplied = n.lastApplied /\ m.logs = n.logs
        /\ m.lastIncludeSnapshotIndex = n.lastIncludeSnapshotIndex
        /\ m.lastIncludeSnapshotTerm = n.lastIncludeSnapshotTerm
        /\ m.persister = PersistData(m)
    BY <1>1, <1>2, PersistEffect DEF SameDisk, SameRole
  <1>a. m.commitIndex = n.commitIndex /\ m.applyQueue = n.applyQueue /\ m.matchIndex = n.matchIndex
    <2> DEFINE d == PersistData(k)
    <2>1. m = [ k EXCEPT !.persister = d ]  BY <1>1 DEF Persist
    <2> HIDE DEF d
    <2> QED BY <1>2, <2>1 DEF RaftObject
  <1>4. ASSUME NEW t \in n.threadPool
        PROVE  /\ t.request.from = m.id /\ t.request.to # m.id
               /\ t.request.kind # "PreVote" => t.request.term <= m.currentTerm
               /\ t.request.kind # "PreVote" => t.request.term # m.currentTerm
    <2>1. t.request.term \in Nat
      BY <1>0, FieldTypes DEF Task, PreVoteArgs, RequestVoteArgs, AppendEntriesArgs,
                              ReadHeartBeatArgs, InstallSnapshotArgs
    <2> QED BY <1>0, <1>3, <2>1 DEF Sound
  <1>5. Sound(m)
    <2>1. m.lastIncludeSnapshotIndex <= m.lastApplied  BY <1>3 DEF Sound
    <2> QED BY <1>3, <1>4, <2>1 DEF Sound, StreamKind, Leader, Candidate
  <1>6. \A q \in Q : SoundRequest(m, q) /\ q.kind = "RequestVote" /\ q.term = term
    <2> SUFFICES ASSUME NEW p \in PeersOf(n.id)
                 PROVE  LET q == RequestVote(m, p)
                        IN  SoundRequest(m, q) /\ q.kind = "RequestVote" /\ q.term = term
      OBVIOUS
    <2> DEFINE q == RequestVote(m, p)
    <2>1. /\ q.kind = "RequestVote" /\ q.from = m.id /\ q.to = p /\ q.term = m.currentTerm
          /\ p \in Server /\ p # m.id
      BY <1>3, PeersFacts DEF RequestVote, PeersOf
    <2>2. q \in RequestVoteArgs
      BY <1>0, <1>3, <2>1, LogTypes DEF RequestVote, RequestVoteArgs
    <2>3. Unanswered(q) \in Task  BY <2>2 DEF Unanswered, Task
    <2> QED BY <1>0, <1>3, <2>1, <2>3 DEF SoundRequest, StreamKind
  <1>7. /\ Sound(asked)
        /\ asked.threadPool = m.threadPool \cup { Unanswered(q) : q \in Q }
        /\ asked.id = m.id /\ SameDisk(m, asked) /\ SameRole(m, asked)
        /\ asked.lastApplied = m.lastApplied /\ SamePeers(m, asked)
    <2> HIDE DEF Q, asked
    <2> QED BY <1>1, <1>5, <1>6, SubmitEffect
  <1>b. asked.commitIndex = m.commitIndex /\ asked.applyQueue = m.applyQueue
    <2>1. asked = [ m EXCEPT !.threadPool = pool ]  BY <1>1, <1>3 DEF Submit, RaftObject
    <2> HIDE DEF pool
    <2> QED BY <1>3, <2>1 DEF RaftObject
  <1>8. \A t \in asked.threadPool \ n.threadPool :
          \E p \in PeersOf(n.id) : t = Unanswered(RequestVote(m, p))
    BY <1>3, <1>7
  <1> HIDE DEF Q, asked
  <1>9. \A t \in RequestVoteCalls(asked) \ RequestVoteCalls(n) :
          /\ t.reply = Nil /\ t.request.term > n.currentTerm
          /\ \A u \in RequestVoteCalls(asked) \ RequestVoteCalls(n) :
               u.request.to = t.request.to => u = t
    <2>1. \A p \in PeersOf(n.id) : /\ Unanswered(RequestVote(m, p)).request.to = p
                                   /\ Unanswered(RequestVote(m, p)).request.term = term
                                   /\ Unanswered(RequestVote(m, p)).reply = Nil
      BY <1>3 DEF Unanswered, RequestVote
    <2>2. \A t \in RequestVoteCalls(asked) \ RequestVoteCalls(n) :
            t \in asked.threadPool \ n.threadPool
      BY DEF RequestVoteCalls
    <2> QED BY <1>0, <1>8, <2>1, <2>2
  <1>10. /\ asked.id = n.id
         /\ asked.status = Candidate /\ asked.currentTerm = term
         /\ asked.votedFor = n.id /\ asked.votesGranted = 1 /\ asked.logs = n.logs
         /\ asked.lastIncludeSnapshotIndex = n.lastIncludeSnapshotIndex
         /\ asked.lastIncludeSnapshotTerm = n.lastIncludeSnapshotTerm
         /\ asked.lastApplied = n.lastApplied /\ asked.commitIndex = n.commitIndex
         /\ asked.applyQueue = n.applyQueue /\ asked.matchIndex = n.matchIndex
    BY <1>3, <1>7, <1>a, <1>b DEF SameDisk, SameRole, SamePeers
  <1> QED BY <1>7, <1>8, <1>9, <1>10 DEF m, asked

\* beginElection, the one-server cluster's immediate victory included, stands in a new term.
LEMMA BeginElectionStands ==
  ASSUME NEW n, Sound(n)
  PROVE  Sound(BeginElection(n)) /\ Stands(n, BeginElection(n))
  <1> DEFINE term == n.currentTerm + 1
             asked == Asking(n)
  <1>0. n \in RaftObject /\ n.currentTerm \in Nat /\ term \in Nat /\ n.id \in Server
    BY FieldTypes DEF Sound
  <1>1. BeginElection(n) = IF QuorumSize <= 1 THEN BecomeLeader(asked) ELSE asked
    BY <1>0 DEF BeginElection, Asking, NewCandidate, RaftObject
  <1>7. /\ Sound(asked) /\ asked.id = n.id
        /\ asked.status = Candidate /\ asked.currentTerm = term
        /\ asked.votedFor = n.id /\ asked.votesGranted = 1
    BY AskingSound
  <1>9. \A t \in RequestVoteCalls(asked) \ RequestVoteCalls(n) :
          /\ t.reply = Nil /\ t.request.term > n.currentTerm
          /\ \A u \in RequestVoteCalls(asked) \ RequestVoteCalls(n) :
               u.request.to = t.request.to => u = t
    BY AskingSound
  <1> HIDE DEF asked
  <1>10. CASE ~(QuorumSize <= 1)
    BY <1>0, <1>1, <1>7, <1>9, <1>10 DEF Stands, Leader, Candidate
  <1>11. CASE QuorumSize <= 1
    <2> DEFINE w == BecomeLeader(asked)
    <2>2. Sound(w) /\ Wins(asked, w)  BY <1>7, BecomeLeaderWins
    <2>3. w.currentTerm \in Nat /\ n.id # Nil
      BY <1>0, <2>2, FieldTypes, ServerAssumption DEF Sound
    <2> HIDE DEF w, term
    <2>4. RequestVoteCalls(w) \subseteq RequestVoteCalls(asked)  BY <2>2 DEF Wins
    <2>5. w.id = n.id /\ w.currentTerm >= term /\ w.status # Candidate
          /\ (w.status = Leader => w.votedFor = n.id)
      BY <1>7, <2>2, <2>3 DEF Wins
    <2>6. w.currentTerm > n.currentTerm  BY <1>0, <2>3, <2>5 DEF term
    <2>7. Stands(n, w)
      BY <1>9, <1>11, <2>4, <2>5, <2>6 DEF Stands
    <2> QED BY <1>1, <1>11, <2>2, <2>7 DEF w
  <1> QED BY <1>10, <1>11

-----------------------------------------------------------------------------
(* Followers.                                                              *)

\* A follower that keeps term, vote and pool may change its log and applied index.
LEMMA FollowerKeeps ==
  ASSUME NEW n, Sound(n), NEW m \in RaftObject, m.persister = PersistData(m),
         m.lastIncludeSnapshotIndex <= m.lastApplied,
         m.id = n.id, m.threadPool = n.threadPool,
         m.currentTerm = n.currentTerm, n.votedFor # Nil => m.votedFor = n.votedFor,
         m.status \notin { Candidate, Leader }
  PROVE  Keeps(n, m)
  <1>0. n \in RaftObject /\ n.currentTerm \in Nat  BY FieldTypes DEF Sound
  <1>1. Sound(m)  BY DEF Sound
  <1>2. Quiet(n, m)  BY <1>0 DEF Quiet, RequestVoteCalls
  <1> QED BY <1>1, <1>2 DEF Keeps

\* The term of a task's request is a number.
LEMMA RequestTermType ==
  ASSUME NEW t \in Task
  PROVE  t.request.term \in Nat
  BY DEF Task, PreVoteArgs, RequestVoteArgs, AppendEntriesArgs, ReadHeartBeatArgs, InstallSnapshotArgs

\* The pre-candidate that has asked its peers.
PreVoting(n) ==
  LET m == [ n EXCEPT !.status = PreCandidate, !.preVoteTerm = n.currentTerm + 1,
                      !.preVotesGranted = 1, !.preVoteRound = n.preVoteRound + 1 ]
  IN  Submit(m, { PreVote(m, p) : p \in PeersOf(n.id) })

\* It gave up what it was, and asked.
LEMMA PreVotingKeeps ==
  ASSUME NEW n, Sound(n)
  PROVE  /\ BeginPreVote(n) = IF QuorumSize <= 1 THEN BeginElection(PreVoting(n)) ELSE PreVoting(n)
         /\ Keeps(n, PreVoting(n)) /\ PreVoting(n).status = PreCandidate
  <1> DEFINE term == n.currentTerm + 1
             round == n.preVoteRound + 1
             m == [ n EXCEPT !.status = PreCandidate, !.preVoteTerm = term,
                             !.preVotesGranted = 1, !.preVoteRound = round ]
             Q == { PreVote(m, p) : p \in PeersOf(n.id) }
             asked == Submit(m, Q)
  <1>0. /\ n \in RaftObject /\ n.currentTerm \in Nat /\ term \in Nat /\ round \in Nat
        /\ n.id \in Server
    BY FieldTypes DEF Sound
  <1>1. BeginPreVote(n) = IF QuorumSize <= 1 THEN BeginElection(asked) ELSE asked
    BY <1>0 DEF BeginPreVote, RaftObject
  <1>2. /\ m \in RaftObject /\ SameDisk(n, m) /\ m.id = n.id /\ m.persister = n.persister
        /\ m.threadPool = n.threadPool /\ m.lastApplied = n.lastApplied
        /\ m.status = PreCandidate /\ m.preVoteTerm = term /\ m.preVoteRound = round
    <2> HIDE DEF term, round
    <2> QED BY ZenonT(30), <1>0 DEF RaftObject, Status, SameDisk
  <1> HIDE DEF m
  <1>3. Keeps(n, m)  BY <1>2, NoRoleKeeps DEF PreCandidate, Candidate, Leader
  <1>4. \A q \in Q : SoundRequest(m, q) /\ q.kind # "RequestVote"
    <2> SUFFICES ASSUME NEW p \in PeersOf(n.id)
                 PROVE  SoundRequest(m, PreVote(m, p)) /\ PreVote(m, p).kind # "RequestVote"
      OBVIOUS
    <2> DEFINE q == PreVote(m, p)
    <2>1. /\ q.kind = "PreVote" /\ q.from = m.id /\ q.to = p /\ p \in Server /\ p # m.id
      BY <1>2, PeersFacts DEF PreVote, PeersOf
    <2>2. q \in PreVoteArgs
      BY <1>0, <1>2, <2>1, LogTypes DEF PreVote, PreVoteArgs
    <2>3. Unanswered(q) \in Task  BY <2>2 DEF Unanswered, Task
    <2> QED BY <2>1, <2>3 DEF SoundRequest, StreamKind
  <1> HIDE DEF Q
  <1>5. Keeps(n, asked)
    <2>1. Keeps(m, asked)  BY <1>3, <1>4, SubmitKeeps DEF Keeps
    <2> HIDE DEF asked
    <2> QED BY <1>3, <2>1, KeepsTrans
  <1>6. asked.status = PreCandidate
    BY <1>2 DEF RaftObject, Submit
  <1>7. PreVoting(n) = asked  BY DEF PreVoting, m, Q
  <1> HIDE DEF asked
  <1> QED BY <1>1, <1>5, <1>6, <1>7

\* beginPreVote asks its peers, or stands at once when it is its own quorum.
LEMMA BeginPreVoteSteps ==
  ASSUME NEW n, Sound(n)
  PROVE  Sound(BeginPreVote(n)) /\ (Quiet(n, BeginPreVote(n)) \/ Stands(n, BeginPreVote(n)))
  <1> DEFINE asked == PreVoting(n)
  <1>0. n \in RaftObject /\ n.currentTerm \in Nat  BY FieldTypes DEF Sound
  <1>1. BeginPreVote(n) = IF QuorumSize <= 1 THEN BeginElection(asked) ELSE asked
    BY PreVotingKeeps
  <1>5. Keeps(n, asked)  BY PreVotingKeeps
  <1> HIDE DEF asked
  <1>6. Sound(BeginElection(asked)) /\ Stands(asked, BeginElection(asked))
    BY <1>5, BeginElectionStands DEF Keeps
  <1> DEFINE w == BeginElection(asked)
  <1>7. Stands(n, BeginElection(asked))
    <2>1. asked.currentTerm \in Nat /\ w.currentTerm \in Nat
      BY <1>5, <1>6, FieldTypes DEF Keeps, Sound
    <2>2. RequestVoteCalls(asked) \subseteq RequestVoteCalls(n) /\ asked.id = n.id
          /\ asked.currentTerm >= n.currentTerm
      BY <1>5 DEF Keeps, Quiet
    <2> HIDE DEF w
    <2>3. Stands(asked, w)  BY <1>6 DEF w
    <2>4. \A t \in RequestVoteCalls(w) : t.request.term \in Nat
      BY <1>6, FieldTypes, RequestTermType DEF Sound, RequestVoteCalls, w
    <2>5. w.currentTerm > n.currentTerm /\ w.id = n.id
      BY <1>0, <2>1, <2>2, <2>3 DEF Stands
    <2>6. \A t \in RequestVoteCalls(w) \ RequestVoteCalls(n) :
            /\ t \in RequestVoteCalls(w) \ RequestVoteCalls(asked)
            /\ t.request.term > asked.currentTerm => t.request.term > n.currentTerm
      BY <1>0, <2>1, <2>2, <2>4
    <2>7. Stands(n, w)
      BY <2>3, <2>5, <2>6 DEF Stands
    <2> QED BY <2>7 DEF w
  <1> QED BY <1>1, <1>5, <1>6, <1>7 DEF Keeps

-----------------------------------------------------------------------------
(* Requests for votes and entries.                                         *)

\* Seeing a term in a request is a sound quiet step.
LEMMA ObserveKeeps ==
  ASSUME NEW n, Sound(n), NEW term \in Nat
  PROVE  Keeps(n, Observe(n, term)) /\ Observe(n, term).currentTerm = Larger(term, n.currentTerm)
  <1>1. n.currentTerm \in Nat  BY FieldTypes DEF Sound
  <1> QED BY <1>1, BecomeFollowerKeeps, KeepsRefl DEF Observe, Larger

\* handlePreVote changes nothing and answers with a vote reply.
LEMMA HandlePreVoteTypes ==
  ASSUME NEW n, Sound(n), NEW q \in PreVoteArgs, NEW recent \in BOOLEAN
  PROVE  /\ HandlePreVote(n, q, recent).object = n
         /\ HandlePreVote(n, q, recent).reply \in VoteReply
  <1>1. n.currentTerm \in Nat  BY FieldTypes DEF Sound
  <1> QED BY <1>1 DEF HandlePreVote, Handled, VoteReply

\* Giving the vote and persisting it is a sound quiet step.
LEMMA CastVoteKeeps ==
  ASSUME NEW n, Sound(n), NEW q \in RequestVoteArgs, n.votedFor \in {Nil, q.from}
  PROVE  /\ Keeps(n, CastVote(n, q))
         /\ CastVote(n, q).votedFor = q.from /\ CastVote(n, q).currentTerm = n.currentTerm
         /\ CastVote(n, q).id = n.id
  <1> DEFINE k == [ n EXCEPT !.votedFor = q.from ]
             m == Persist(k)
  <1>0. n \in RaftObject /\ n.currentTerm \in Nat /\ q.from \in Server
    BY FieldTypes DEF Sound, RequestVoteArgs
  <1>1. CastVote(n, q) = m  BY DEF CastVote
  <1>2. /\ k \in RaftObject /\ k.votedFor = q.from /\ k.currentTerm = n.currentTerm
        /\ k.logs = n.logs /\ k.lastIncludeSnapshotIndex = n.lastIncludeSnapshotIndex
        /\ k.id = n.id /\ k.threadPool = n.threadPool /\ k.lastApplied = n.lastApplied
        /\ SameRole(n, k) /\ SamePeers(n, k)
    BY <1>0 DEF RaftObject, SameRole, SamePeers
  <1> HIDE DEF k
  <1>3. /\ m \in RaftObject /\ m.persister = PersistData(m)
        /\ m.votedFor = q.from /\ m.currentTerm = n.currentTerm
        /\ m.logs = n.logs /\ m.lastIncludeSnapshotIndex = n.lastIncludeSnapshotIndex
        /\ m.id = n.id /\ m.threadPool = n.threadPool /\ m.lastApplied = n.lastApplied
        /\ SameRole(n, m) /\ SamePeers(n, m)
    BY <1>2, PersistEffect DEF SameDisk, SameRole, SamePeers
  <1> HIDE DEF m
  <1>4. GetLastLogIndex(m) = GetLastLogIndex(n)  BY <1>3 DEF GetLastLogIndex
  <1>5. Sound(m)  BY <1>3, <1>4 DEF Sound, SameRole, SamePeers
  <1>6. Quiet(n, m)  BY <1>0, <1>3 DEF Quiet, SameRole, RequestVoteCalls
  <1> QED BY <1>1, <1>3, <1>5, <1>6 DEF Keeps

\* handleRequestVote: a granted answer means that the answerer's vote of that term is the asker's.
LEMMA HandleRequestVoteKeeps ==
  ASSUME NEW n, Sound(n), NEW q \in RequestVoteArgs
  PROVE  LET h == HandleRequestVote(n, q)
         IN  /\ Keeps(n, h.object) /\ h.reply \in VoteReply
             /\ h.reply.granted => h.object.currentTerm = q.term /\ h.object.votedFor = q.from
  <1> DEFINE m == Observe(n, q.term)
             h == HandleRequestVote(n, q)
  <1>1. Keeps(n, m)  BY ObserveKeeps DEF RequestVoteArgs
  <1>2. m.currentTerm \in Nat  BY <1>1, FieldTypes DEF Keeps, Sound
  <1>3. /\ h.object = IF GrantsVote(m, q) THEN CastVote(m, q) ELSE m
        /\ h.reply = [ term |-> m.currentTerm, granted |-> GrantsVote(m, q) ]
    BY DEF HandleRequestVote, Handled
  <1> HIDE DEF m, h
  <1>4. h.reply \in VoteReply
    <2>1. GrantsVote(m, q) \in BOOLEAN  BY DEF GrantsVote
    <2> QED BY <1>2, <1>3, <2>1 DEF VoteReply
  <1>5. CASE GrantsVote(m, q)
    <2>1. q.term = m.currentTerm /\ m.votedFor \in {Nil, q.from}  BY <1>5 DEF GrantsVote
    <2>2. /\ Keeps(m, CastVote(m, q)) /\ CastVote(m, q).votedFor = q.from
          /\ CastVote(m, q).currentTerm = m.currentTerm
      BY <1>1, <2>1, CastVoteKeeps DEF Keeps
    <2>3. Keeps(n, CastVote(m, q))  BY <1>1, <2>2, KeepsTrans
    <2>4. h.object = CastVote(m, q)  BY <1>3, <1>5
    <2> QED BY <1>4, <2>1, <2>2, <2>3, <2>4 DEF h
  <1>6. CASE ~GrantsVote(m, q)
    <2>1. h.object = m /\ ~h.reply.granted  BY <1>3, <1>6
    <2> QED BY <1>1, <1>4, <2>1 DEF h
  <1> QED BY <1>5, <1>6

\* Accepting the sender as leader of the term is a sound quiet step to follower.
LEMMA FollowLeaderKeeps ==
  ASSUME NEW n, Sound(n)
  PROVE  Keeps(n, FollowLeader(n)) /\ FollowLeader(n).status = Follower
           /\ FollowLeader(n).currentTerm = n.currentTerm
  <1> DEFINE m == FollowLeader(n)
  <1>0. n \in RaftObject  BY DEF Sound
  <1>1. /\ m \in RaftObject /\ m.status = Follower /\ SameDisk(n, m) /\ m.id = n.id
        /\ m.persister = n.persister /\ m.threadPool = n.threadPool
        /\ m.lastApplied = n.lastApplied
    BY ZenonT(30), <1>0 DEF FollowLeader, RaftObject, SameDisk, Status
  <1> HIDE DEF m
  <1>2. Keeps(n, m)  BY <1>1, NoRoleKeeps DEF Follower, Candidate, Leader
  <1> QED BY <1>1, <1>2 DEF m, SameDisk

\* Truncating on conflict, appending and persisting keeps a follower sound.
LEMMA StoreEntriesKeeps ==
  ASSUME NEW n, Sound(n), n.status = Follower, NEW q \in AppendEntriesArgs,
         IsLogIndex(n, q.prevLogIndex)
  PROVE  Keeps(n, StoreEntries(n, q)) /\ StoreEntries(n, q).status = Follower
  <1> DEFINE logs == MergeEntries(n, q.prevLogIndex, q.entries)
             k == [ n EXCEPT !.logs = logs ]
             m == Persist(k)
  <1>0. n \in RaftObject /\ n.lastIncludeSnapshotIndex <= n.lastApplied  BY DEF Sound
  <1>1. CASE ~ExtendsLog(n, q.prevLogIndex, q.entries)
    BY <1>1, KeepsRefl DEF StoreEntries
  <1>2. CASE ExtendsLog(n, q.prevLogIndex, q.entries)
    <2>1. StoreEntries(n, q) = m  BY <1>2 DEF StoreEntries
    <2>2. logs \in Seq(Nat)
      <3>1. q.prevLogIndex \in Int /\ q.entries \in Seq(Nat)  BY DEF AppendEntriesArgs
      <3>2. EntriesUpTo(n, q.prevLogIndex) \in Seq(Nat)  BY <1>0, <3>1, EntriesTypes
      <3> QED BY <3>1, <3>2, ConcatProperties DEF MergeEntries
    <2> HIDE DEF logs
    <2>3. /\ k \in RaftObject /\ k.id = n.id /\ k.threadPool = n.threadPool
          /\ k.lastApplied = n.lastApplied
          /\ k.lastIncludeSnapshotIndex = n.lastIncludeSnapshotIndex
          /\ k.currentTerm = n.currentTerm /\ k.votedFor = n.votedFor /\ k.status = n.status
      BY <1>0, <2>2 DEF RaftObject
    <2> HIDE DEF k
    <2>4. /\ m \in RaftObject /\ m.persister = PersistData(m)
          /\ m.id = n.id /\ m.threadPool = n.threadPool
          /\ m.lastIncludeSnapshotIndex <= m.lastApplied
          /\ m.currentTerm = n.currentTerm /\ m.votedFor = n.votedFor /\ m.status = n.status
      BY <1>0, <2>3, PersistEffect DEF SameDisk, SameRole
    <2> HIDE DEF m
    <2>5. Keeps(n, m)  BY <2>4, FollowerKeeps DEF Follower, Candidate, Leader
    <2> QED BY <2>1, <2>4, <2>5
  <1> QED BY <1>1, <1>2

\* Learning the leader's commit index and applying up to it keeps a follower sound.
LEMMA LearnCommitIndexKeeps ==
  ASSUME NEW n, Sound(n), NEW leaderCommit \in Nat
  PROVE  Keeps(n, LearnCommitIndex(n, leaderCommit))
  <1> DEFINE commit == Smaller(GetLastLogIndex(n), leaderCommit)
             m == [ n EXCEPT !.commitIndex = commit ]
  <1>0. n \in RaftObject /\ GetLastLogIndex(n) \in Nat  BY LogTypes DEF Sound
  <1>1. LearnCommitIndex(n, leaderCommit) \in { n, ApplyCommitted(m) }
    BY DEF LearnCommitIndex
  <1>2. commit \in Nat /\ commit <= GetLastLogIndex(n)  BY <1>0 DEF Smaller
  <1> HIDE DEF commit
  <1>3. m \in RaftObject /\ SameObject(n, m) /\ m.commitIndex = commit
    BY <1>0, <1>2 DEF RaftObject, SameObject, SameDisk, SameRole, SamePeers
  <1> HIDE DEF m
  <1>4. Keeps(n, m)  BY <1>3, SameKeeps
  <1>5. m.commitIndex <= GetLastLogIndex(m)
    BY <1>2, <1>3 DEF SameObject, SameDisk, GetLastLogIndex
  <1>6. Keeps(m, ApplyCommitted(m))  BY <1>4, <1>5, ApplyCommittedKeeps DEF Keeps
  <1>7. Keeps(n, ApplyCommitted(m))  BY <1>4, <1>6, KeepsTrans
  <1> QED BY <1>1, <1>7, KeepsRefl

\* The accepting path of handleAppendEntries.
LEMMA AcceptKeeps ==
  ASSUME NEW n, Sound(n), n.status = Follower, NEW q \in AppendEntriesArgs,
         IsLogIndex(n, q.prevLogIndex)
  PROVE  Keeps(n, Accept(n, q))
  <1> DEFINE k == StoreEntries(n, q)
  <1>1. Keeps(n, k)  BY StoreEntriesKeeps
  <1>2. Accept(n, q) = LearnCommitIndex(k, q.leaderCommit)  BY DEF Accept
  <1> HIDE DEF k
  <1>3. Keeps(k, LearnCommitIndex(k, q.leaderCommit))
    BY <1>1, LearnCommitIndexKeeps DEF Keeps, AppendEntriesArgs
  <1> QED BY <1>1, <1>2, <1>3, KeepsTrans

\* handleAppendEntries is a sound quiet step on every path.
LEMMA HandleAppendEntriesKeeps ==
  ASSUME NEW n, Sound(n), NEW q \in AppendEntriesArgs
  PROVE  LET h == HandleAppendEntries(n, q)
         IN  Keeps(n, h.object) /\ h.reply \in AppendEntriesReply
  <1> DEFINE m == Observe(n, q.term)
             f == FollowLeader(m)
             h == HandleAppendEntries(n, q)
             answer(success, suggestion) ==
               [ term |-> m.currentTerm, success |-> success, updateNextIndex |-> suggestion,
                 readRound |-> 0 ]
  <1>0. q.term \in Nat /\ q.prevLogIndex \in Nat  BY DEF AppendEntriesArgs
  <1>1. Keeps(n, m) /\ m.currentTerm = Larger(q.term, n.currentTerm)  BY <1>0, ObserveKeeps
  <1>2. Keeps(m, f) /\ f.status = Follower  BY <1>1, FollowLeaderKeeps DEF Keeps
  <1>3. m.currentTerm \in Nat /\ f \in RaftObject /\ n.currentTerm \in Nat
    BY <1>1, <1>2, FieldTypes DEF Keeps, Sound
  <1>4. ConflictIndex(f, q.prevLogIndex) \in Int  BY <1>0, <1>3, ConflictIndexType
  <1>5. \A success \in BOOLEAN, suggestion \in Int : answer(success, suggestion) \in AppendEntriesReply
    BY <1>3 DEF AppendEntriesReply
  <1>6. Keeps(n, f)  BY <1>1, <1>2, KeepsTrans
  <1>7. CASE q.term < m.currentTerm
    <2>1. h = Handled(m, answer(FALSE, NoSuggestion))
      BY <1>0, <1>3, <1>7 DEF HandleAppendEntries
    <2>2. NoSuggestion \in Int BY DEF NoSuggestion
    <2> HIDE DEF m, h, answer
    <2>3. h.object = m /\ h.reply = answer(FALSE, NoSuggestion)  BY <2>1 DEF Handled
    <2> QED BY <1>1, <1>5, <2>2, <2>3 DEF h
  <1>8. CASE q.term = m.currentTerm /\ ~MatchLog(f, q.prevLogIndex, q.prevLogTerm)
    <2>1. h = Handled(f, answer(FALSE, ConflictIndex(f, q.prevLogIndex)))
      BY <1>0, <1>3, <1>8 DEF HandleAppendEntries
    <2> HIDE DEF f, h, answer
    <2>3. h.object = f /\ h.reply = answer(FALSE, ConflictIndex(f, q.prevLogIndex))
      BY <2>1 DEF Handled
    <2> QED BY <1>4, <1>5, <1>6, <2>3 DEF h
  <1>9. CASE q.term = m.currentTerm /\ MatchLog(f, q.prevLogIndex, q.prevLogTerm)
    <2>1. h = Handled(Accept(f, q), answer(TRUE, NoSuggestion))
      BY <1>0, <1>3, <1>9 DEF HandleAppendEntries
    <2>2. NoSuggestion \in Int  BY DEF NoSuggestion
    <2>3. Keeps(f, Accept(f, q))  BY <1>2, <1>9, AcceptKeeps DEF Keeps, MatchLog
    <2>4. Keeps(n, Accept(f, q))  BY <1>6, <2>3, KeepsTrans
    <2> HIDE DEF f, h, answer
    <2>5. h.object = Accept(f, q) /\ h.reply = answer(TRUE, NoSuggestion)  BY <2>1 DEF Handled
    <2> QED BY <1>5, <2>2, <2>4, <2>5 DEF h
  <1>10. q.term < m.currentTerm \/ q.term = m.currentTerm
    BY <1>0, <1>1, <1>3 DEF Larger
  <1> QED BY <1>7, <1>8, <1>9, <1>10

-----------------------------------------------------------------------------
(* Read heartbeats and snapshots.                                          *)

\* handleReadHeartBeat is a sound quiet step on every path.
LEMMA HandleReadHeartBeatKeeps ==
  ASSUME NEW n, Sound(n), NEW q \in ReadHeartBeatArgs
  PROVE  LET h == HandleReadHeartBeat(n, q)
         IN  Keeps(n, h.object) /\ h.reply \in AppendEntriesReply
  <1> DEFINE m == Observe(n, q.term)
             f == FollowLeader(m)
             h == HandleReadHeartBeat(n, q)
  <1>0. q.term \in Nat /\ q.readRound \in Nat  BY DEF ReadHeartBeatArgs
  <1>1. Keeps(n, m)  BY <1>0, ObserveKeeps
  <1>2. Keeps(m, f)  BY <1>1, FollowLeaderKeeps DEF Keeps
  <1>3. m.currentTerm \in Nat  BY <1>1, FieldTypes DEF Keeps, Sound
  <1>4. Keeps(n, f)  BY <1>1, <1>2, KeepsTrans
  <1>5. /\ h.object = IF q.term = m.currentTerm THEN f ELSE m
        /\ h.reply = [ term |-> m.currentTerm, success |-> (q.term = m.currentTerm),
                       readRound |-> q.readRound,
                       updateNextIndex |-> IF q.term = m.currentTerm THEN NoSuggestion ELSE 100 ]
    BY DEF HandleReadHeartBeat, Handled
  <1> HIDE DEF h, f, m
  <1>6. h.reply \in AppendEntriesReply
    BY <1>0, <1>3, <1>5 DEF AppendEntriesReply, NoSuggestion
  <1> QED BY <1>1, <1>4, <1>5, <1>6 DEF h

\* Taking over a newer snapshot keeps a follower sound.
LEMMA InstallNewerKeeps ==
  ASSUME NEW n, Sound(n), n.status = Follower, NEW index \in Nat, NEW term \in Nat
  PROVE  Keeps(n, InstallNewer(n, index, term))
  <1> DEFINE logs == LogAfterSnapshot(n, index, term)
             commit == Larger(n.commitIndex, index)
             applied == Larger(n.lastApplied, index)
             k == [ n EXCEPT !.logs = logs, !.lastIncludeSnapshotIndex = index,
                             !.lastIncludeSnapshotTerm = term,
                             !.commitIndex = commit, !.lastApplied = applied ]
             p == Persist(k)
             queue == Append(p.applyQueue, [ snapshot |-> TRUE, index |-> index, term |-> term ])
             m == [ p EXCEPT !.applyQueue = queue ]
  <1>0. n \in RaftObject /\ n.commitIndex \in Nat /\ n.lastApplied \in Nat
    BY FieldTypes DEF Sound
  <1>1. InstallNewer(n, index, term) = m  BY <1>0 DEF InstallNewer, RaftObject
  <1>2. logs \in Seq(Nat)
    BY <1>0, EntriesTypes, EmptySeq DEF LogAfterSnapshot, MatchLog
  <1>3. commit \in Nat /\ applied \in Nat /\ index <= applied  BY <1>0 DEF Larger
  <1> HIDE DEF logs, commit, applied
  <1>4. /\ k \in RaftObject /\ k.id = n.id /\ k.threadPool = n.threadPool
        /\ k.lastApplied = applied /\ k.lastIncludeSnapshotIndex = index
        /\ k.currentTerm = n.currentTerm /\ k.votedFor = n.votedFor /\ k.status = n.status
    BY ZenonT(30), <1>0, <1>2, <1>3 DEF RaftObject
  <1> HIDE DEF k
  <1>5. /\ p \in RaftObject /\ p.id = n.id /\ p.threadPool = n.threadPool
        /\ p.lastApplied = applied /\ p.lastIncludeSnapshotIndex = index
        /\ p.currentTerm = n.currentTerm /\ p.votedFor = n.votedFor /\ p.status = n.status
        /\ p.persister = PersistData(p)
    BY <1>4, PersistEffect DEF SameDisk, SameRole
  <1> HIDE DEF p
  <1>6. queue \in Seq(ApplyMsg)
    <2>1. [ snapshot |-> TRUE, index |-> index, term |-> term ] \in ApplyMsg  BY DEF ApplyMsg
    <2> QED BY <1>5, <2>1, FieldTypes, AppendProperties
  <1> HIDE DEF queue
  <1>7. /\ m \in RaftObject /\ m.id = n.id /\ m.threadPool = n.threadPool
        /\ m.lastApplied = applied /\ m.lastIncludeSnapshotIndex = index
        /\ m.currentTerm = n.currentTerm /\ m.votedFor = n.votedFor /\ m.status = n.status
        /\ m.persister = p.persister /\ SameDisk(p, m)
    BY ZenonT(30), <1>5, <1>6 DEF RaftObject, SameDisk
  <1>8. m.persister = PersistData(m)
    BY <1>5, <1>7 DEF PersistData, SameDisk
  <1> HIDE DEF m
  <1>9. Keeps(n, m)
    BY <1>3, <1>7, <1>8, FollowerKeeps DEF Follower, Candidate, Leader
  <1> QED BY <1>1, <1>9

\* handleInstallSnapshot is a sound quiet step on every path.
LEMMA HandleInstallSnapshotKeeps ==
  ASSUME NEW n, Sound(n), NEW q \in InstallSnapshotArgs
  PROVE  LET h == HandleInstallSnapshot(n, q)
         IN  Keeps(n, h.object) /\ h.reply \in InstallSnapshotReply
  <1> DEFINE m == Observe(n, q.term)
             f == FollowLeader(m)
             i == InstallNewer(f, q.lastSnapshotIncludeIndex, q.lastSnapshotIncludeTerm)
             h == HandleInstallSnapshot(n, q)
  <1>0. q.term \in Nat /\ q.lastSnapshotIncludeIndex \in Nat /\ q.lastSnapshotIncludeTerm \in Nat
    BY DEF InstallSnapshotArgs
  <1>1. Keeps(n, m)  BY <1>0, ObserveKeeps
  <1>2. Keeps(m, f) /\ f.status = Follower  BY <1>1, FollowLeaderKeeps DEF Keeps
  <1>3. m.currentTerm \in Nat  BY <1>1, FieldTypes DEF Keeps, Sound
  <1>4. Keeps(n, f)  BY <1>1, <1>2, KeepsTrans
  <1>5. Keeps(f, i)  BY <1>0, <1>2, InstallNewerKeeps DEF Keeps
  <1>6. Keeps(n, i)  BY <1>4, <1>5, KeepsTrans
  <1>7. h.object \in { m, f, i } /\ h.reply = [ term |-> m.currentTerm ]
    BY <1>0, <1>3 DEF HandleInstallSnapshot, Handled
  <1> HIDE DEF h, f, m, i
  <1>8. h.reply \in InstallSnapshotReply  BY <1>3, <1>7 DEF InstallSnapshotReply
  <1> QED BY <1>1, <1>4, <1>6, <1>7, <1>8 DEF h

\* A quiet step or the beginning of an election.
KeepsOrStands(n, m) == Sound(m) /\ (Quiet(n, m) \/ Stands(n, m))

\* An election begun after a quiet step is one begun before it.
LEMMA StandsAfter ==
  ASSUME NEW n, NEW k, NEW m, Sound(n), Keeps(n, k), Sound(m), Stands(k, m)
  PROVE  Stands(n, m)
  <1>1. n.currentTerm \in Nat /\ k.currentTerm \in Nat /\ m.currentTerm \in Nat
    BY FieldTypes DEF Keeps, Sound
  <1>2. RequestVoteCalls(k) \subseteq RequestVoteCalls(n) /\ k.id = n.id
        /\ k.currentTerm >= n.currentTerm
    BY DEF Keeps, Quiet
  <1>3. \A t \in RequestVoteCalls(m) : t.request.term \in Nat
    BY FieldTypes, RequestTermType DEF Sound, RequestVoteCalls
  <1>4. m.currentTerm > n.currentTerm /\ m.id = n.id
    BY <1>1, <1>2 DEF Stands
  <1>5. \A t \in RequestVoteCalls(m) \ RequestVoteCalls(n) :
          /\ t \in RequestVoteCalls(m) \ RequestVoteCalls(k)
          /\ t.request.term > k.currentTerm => t.request.term > n.currentTerm
    BY <1>1, <1>2, <1>3
  <1> QED BY <1>4, <1>5 DEF Stands

\* handlePreVoteReply is quiet, or begins the election that enough pre-votes allow.
LEMMA HandlePreVoteReplySteps ==
  ASSUME NEW n, Sound(n), NEW q \in PreVoteArgs, NEW reply \in VoteReply
  PROVE  KeepsOrStands(n, HandlePreVoteReply(n, q, reply))
  <1> DEFINE granted == n.preVotesGranted + 1
             m == [ n EXCEPT !.preVotesGranted = granted ]
             h == HandlePreVoteReply(n, q, reply)
  <1>0. /\ n \in RaftObject /\ granted \in Nat /\ reply.term \in Nat /\ n.currentTerm \in Nat
    BY FieldTypes DEF Sound, VoteReply
  <1>1. h \in { n, BecomeFollower(n, reply.term), BeginElection(m), m }
    BY <1>0 DEF HandlePreVoteReply, RaftObject
  <1> HIDE DEF granted
  <1>2. m \in RaftObject /\ SameObject(n, m)
    BY <1>0 DEF RaftObject, SameObject, SameDisk, SameRole, SamePeers
  <1> HIDE DEF m, h
  <1>3. Keeps(n, m)  BY <1>2, SameKeeps
  <1>4. Sound(BeginElection(m)) /\ Stands(n, BeginElection(m))
    BY <1>3, BeginElectionStands, StandsAfter DEF Keeps
  <1>5. Keeps(n, n) /\ Keeps(n, BecomeFollower(n, reply.term))
    BY <1>0, KeepsRefl, BecomeFollowerKeeps
  <1> QED BY <1>1, <1>3, <1>4, <1>5 DEF KeepsOrStands, Keeps, h

\* One more vote
Counts(n, q, reply) ==
  n.status = Candidate /\ reply.granted /\ q.term = n.currentTerm

\* handleVoteReply is quiet, counts one vote, or wins with the vote it counts.
LEMMA HandleVoteReplySteps ==
  ASSUME NEW n, Sound(n), NEW q \in RequestVoteArgs, NEW reply \in VoteReply
  PROVE  LET h == HandleVoteReply(n, q, reply)
         IN  /\ Sound(h)
             /\ \/ Quiet(n, h)
                \/ /\ Counts(n, q, reply)
                   /\ h.id = n.id /\ SameDisk(n, h) /\ h.threadPool = n.threadPool
                   /\ h.status = Candidate /\ h.votesGranted = n.votesGranted + 1
                \/ /\ Counts(n, q, reply)
                   /\ n.votesGranted + 1 >= QuorumSize /\ Wins(n, h)
  <1> DEFINE granted == n.votesGranted + 1
             m == [ n EXCEPT !.votesGranted = granted ]
             h == HandleVoteReply(n, q, reply)
  <1>0. /\ n \in RaftObject /\ granted \in Nat /\ reply.term \in Nat /\ n.currentTerm \in Nat
    BY FieldTypes DEF Sound, VoteReply
  <1>1. \/ h \in { n, BecomeFollower(n, reply.term) }
        \/ Counts(n, q, reply) /\ h = m
        \/ Counts(n, q, reply) /\ granted >= QuorumSize /\ h = BecomeLeader(m)
    BY <1>0 DEF HandleVoteReply, RaftObject, Counts
  <1>2. /\ m \in RaftObject /\ SameDisk(n, m) /\ SamePeers(n, m)
        /\ m.id = n.id /\ m.persister = n.persister /\ m.threadPool = n.threadPool
        /\ m.lastApplied = n.lastApplied /\ m.status = n.status /\ m.votesGranted = granted
    <2> HIDE DEF granted
    <2> QED BY <1>0 DEF RaftObject, SameDisk, SamePeers
  <1> HIDE DEF m, h
  <1>3. GetLastLogIndex(m) = GetLastLogIndex(n) /\ PersistData(m) = PersistData(n)
    BY <1>2 DEF SameDisk, GetLastLogIndex, PersistData
  <1>4. Sound(m)
    BY <1>2, <1>3 DEF Sound, SameDisk, SamePeers
  <1>5. Keeps(n, n) /\ Keeps(n, BecomeFollower(n, reply.term))
    BY <1>0, KeepsRefl, BecomeFollowerKeeps
  <1>6. CASE h \in { n, BecomeFollower(n, reply.term) }
    BY <1>5, <1>6 DEF Keeps, h
  <1>7. CASE Counts(n, q, reply) /\ h = m
    BY <1>2, <1>4, <1>7 DEF Counts, h
  <1>8. CASE Counts(n, q, reply) /\ granted >= QuorumSize /\ h = BecomeLeader(m)
    <2>1. Sound(h) /\ Wins(m, h)
      BY <1>2, <1>4, <1>8, BecomeLeaderWins DEF Counts
    <2>2. Wins(n, h)
      BY <1>2, <2>1 DEF Wins, SameDisk, RequestVoteCalls
    <2> QED BY <1>8, <2>1, <2>2 DEF h
  <1> QED BY <1>1, <1>6, <1>7, <1>8

-----------------------------------------------------------------------------
(* What a leader learns of a peer.                                         *)

\* A leader's knowledge of its peers may change inside the bounds of its log.
LEMMA PeersKeeps ==
  ASSUME NEW n, Sound(n), NEW m \in RaftObject,
         m.id = n.id, m.persister = n.persister, m.threadPool = n.threadPool,
         m.lastApplied = n.lastApplied, SameDisk(n, m), SameRole(n, m),
         n.status = Leader =>
           \A p \in Server : /\ m.nextIndex[p] <= GetLastLogIndex(n) + 1
                             /\ m.matchIndex[p] <= GetLastLogIndex(n)
  PROVE  Keeps(n, m)
  <1>0. n \in RaftObject /\ n.currentTerm \in Nat  BY FieldTypes DEF Sound
  <1>1. GetLastLogIndex(m) = GetLastLogIndex(n) /\ PersistData(m) = PersistData(n)
    BY DEF SameDisk, GetLastLogIndex, PersistData
  <1>2. Sound(m)  BY <1>1 DEF Sound, SameDisk, SameRole
  <1>3. Quiet(n, m)  BY <1>0 DEF Quiet, SameDisk, SameRole, RequestVoteCalls
  <1> QED BY <1>2, <1>3 DEF Keeps

\* Clearing replicationInFlight is a sound quiet step.
LEMMA NotInFlightKeeps ==
  ASSUME NEW n, Sound(n), NEW p \in Server
  PROVE  Keeps(n, NotInFlight(n, p)) /\ SameObject(n, NotInFlight(n, p))
  <1>0. n \in RaftObject  BY DEF Sound
  <1>1. NotInFlight(n, p) \in RaftObject /\ SameObject(n, NotInFlight(n, p))
    BY <1>0 DEF NotInFlight, RaftObject, SameObject, SameDisk, SameRole, SamePeers
  <1> QED BY <1>1, SameKeeps

\* Crediting an acknowledged request keeps matchIndex within the log.
LEMMA AcknowledgeKeeps ==
  ASSUME NEW n, Sound(n), NEW p \in Server, NEW index \in Nat, index <= GetLastLogIndex(n)
  PROVE  Keeps(n, Acknowledge(n, p, index)) /\ Acknowledge(n, p, index).id = n.id
           /\ SameRole(n, Acknowledge(n, p, index))
  <1> DEFINE match == Larger(n.matchIndex[p], index)
             nextIndex == [ n.nextIndex EXCEPT ![p] = match + 1 ]
             matchIndex == [ n.matchIndex EXCEPT ![p] = match ]
             m == [ n EXCEPT !.matchIndex = matchIndex, !.nextIndex = nextIndex ]
  <1>0. /\ n \in RaftObject /\ GetLastLogIndex(n) \in Nat
        /\ n.nextIndex \in [ Server -> Nat \ {0} ] /\ n.matchIndex \in [ Server -> Nat ]
    BY FieldTypes, LogTypes DEF Sound
  <1>1. Acknowledge(n, p, index) = m
    BY <1>0 DEF Acknowledge, RaftObject
  <1>2. match \in Nat  BY <1>0 DEF Larger
  <1>3. n.status = Leader => match <= GetLastLogIndex(n)
    BY <1>0 DEF Sound, Larger
  <1> HIDE DEF match
  <1>4. /\ nextIndex \in [ Server -> Nat \ {0} ] /\ matchIndex \in [ Server -> Nat ]
        /\ \A r \in Server : /\ nextIndex[r] = IF r = p THEN match + 1 ELSE n.nextIndex[r]
                             /\ matchIndex[r] = IF r = p THEN match ELSE n.matchIndex[r]
    BY <1>0, <1>2
  <1>5. n.status = Leader =>
          \A r \in Server : /\ nextIndex[r] <= GetLastLogIndex(n) + 1
                            /\ matchIndex[r] <= GetLastLogIndex(n)
    <2>1. n.status = Leader =>
            \A r \in Server : /\ n.nextIndex[r] <= GetLastLogIndex(n) + 1
                              /\ n.matchIndex[r] <= GetLastLogIndex(n)
      BY DEF Sound
    <2>2. match \in Nat /\ GetLastLogIndex(n) \in Nat  BY <1>0, <1>2
    <2> HIDE DEF nextIndex, matchIndex
    <2> QED BY <1>3, <1>4, <2>1, <2>2
  <1> HIDE DEF nextIndex, matchIndex
  <1>6. /\ m \in RaftObject /\ m.id = n.id /\ m.persister = n.persister
        /\ m.threadPool = n.threadPool /\ m.lastApplied = n.lastApplied
        /\ SameDisk(n, m) /\ SameRole(n, m)
        /\ m.nextIndex = nextIndex /\ m.matchIndex = matchIndex
    BY ZenonT(30), <1>0, <1>4 DEF RaftObject, SameDisk, SameRole
  <1> HIDE DEF m
  <1>7. Keeps(n, m)  BY <1>5, <1>6, PeersKeeps
  <1> QED BY <1>1, <1>6, <1>7

\* Backing up nextIndex after a rejection keeps it within the log.
LEMMA BackUpKeeps ==
  ASSUME NEW n, Sound(n), NEW p \in Server, NEW updateNextIndex \in Int
  PROVE  Keeps(n, BackUp(n, p, updateNextIndex)) /\ BackUp(n, p, updateNextIndex).id = n.id
  <1> DEFINE asked == IF updateNextIndex = NoSuggestion THEN n.nextIndex[p] - 1 ELSE updateNextIndex
             inLog == Larger(1, Smaller(asked, GetLastLogIndex(n) + 1))
             next == IF inLog >= n.nextIndex[p] THEN Larger(1, n.nextIndex[p] - 1) ELSE inLog
             nextIndex == [ n.nextIndex EXCEPT ![p] = next ]
             m == [ n EXCEPT !.nextIndex = nextIndex ]
  <1>0. /\ n \in RaftObject /\ GetLastLogIndex(n) \in Nat
        /\ n.nextIndex \in [ Server -> Nat \ {0} ] /\ n.nextIndex[p] \in Nat \ {0}
        /\ n.matchIndex \in [ Server -> Nat ]
    BY FieldTypes, LogTypes DEF Sound
  <1>1. BackUp(n, p, updateNextIndex) = m
    BY <1>0 DEF BackUp, RaftObject
  <1>2. asked \in Int  BY <1>0
  <1> HIDE DEF asked
  <1>3. inLog \in Nat \ {0} /\ inLog <= GetLastLogIndex(n) + 1
    BY <1>0, <1>2 DEF Larger, Smaller
  <1> HIDE DEF inLog
  <1>4. next \in Nat \ {0} /\ (n.nextIndex[p] <= GetLastLogIndex(n) + 1
                                 => next <= GetLastLogIndex(n) + 1)
    BY <1>0, <1>3 DEF Larger
  <1> HIDE DEF next
  <1>5. /\ nextIndex \in [ Server -> Nat \ {0} ]
        /\ \A r \in Server : nextIndex[r] = IF r = p THEN next ELSE n.nextIndex[r]
    BY <1>0, <1>4
  <1> HIDE DEF nextIndex
  <1>6. /\ m \in RaftObject /\ m.id = n.id /\ m.persister = n.persister
        /\ m.threadPool = n.threadPool /\ m.lastApplied = n.lastApplied
        /\ SameDisk(n, m) /\ SameRole(n, m)
        /\ m.nextIndex = nextIndex /\ m.matchIndex = n.matchIndex
    BY ZenonT(30), <1>0, <1>5 DEF RaftObject, SameDisk, SameRole
  <1> HIDE DEF m
  <1>7. n.status = Leader =>
          \A r \in Server : /\ m.nextIndex[r] <= GetLastLogIndex(n) + 1
                            /\ m.matchIndex[r] <= GetLastLogIndex(n)
    BY <1>4, <1>5, <1>6 DEF Sound
  <1>8. Keeps(n, m)  BY <1>6, <1>7, PeersKeeps
  <1> QED BY <1>1, <1>6, <1>8

\* Continuing a peer's stream after a reply is a sound quiet step.
LEMMA ContinueWithKeeps ==
  ASSUME NEW n, Sound(n), n.status = Leader, NEW p \in PeersOf(n.id)
  PROVE  Keeps(n, ContinueWith(n, p))
  BY ScheduleReplicationKeeps, TrySchedulePendingReadHeartBeatKeeps DEF ContinueWith

\* Counting an acknowledgement of the active read round is a sound quiet step.
LEMMA AcknowledgeReadKeeps ==
  ASSUME NEW n, Sound(n), n.activeRead # Nil, NEW p \in Server
  PROVE  /\ Keeps(n, AcknowledgeRead(n, p)) /\ AcknowledgeRead(n, p).id = n.id
         /\ SameRole(n, AcknowledgeRead(n, p))
  <1> DEFINE acks == n.activeRead.acks \cup {p}
             active == [ n.activeRead EXCEPT !.acks = acks ]
             m == [ n EXCEPT !.activeRead = active ]
  <1>0. n \in RaftObject /\ n.activeRead \in PendingReadIndex
    BY FieldTypes DEF Sound
  <1>1. AcknowledgeRead(n, p) \in { m, CompleteActiveRead(m) }
    BY <1>0 DEF AcknowledgeRead, RaftObject
  <1>2. acks \subseteq Server  BY <1>0 DEF PendingReadIndex
  <1> HIDE DEF acks
  <1>3. active \in PendingReadIndex  BY <1>0, <1>2 DEF PendingReadIndex
  <1> HIDE DEF active
  <1>4. m \in RaftObject /\ SameObject(n, m) /\ m.activeRead = active
    BY <1>0, <1>3 DEF RaftObject, SameObject, SameDisk, SameRole, SamePeers
  <1> HIDE DEF m
  <1>5. CompleteActiveRead(m) \in RaftObject /\ SameObject(m, CompleteActiveRead(m))
    BY <1>3, <1>4, CompleteActiveReadSame
  <1>6. Keeps(n, m)  BY <1>4, SameKeeps
  <1>7. Keeps(m, CompleteActiveRead(m))  BY <1>5, <1>6, SameKeeps DEF Keeps
  <1>8. Keeps(n, CompleteActiveRead(m))  BY <1>6, <1>7, KeepsTrans
  <1> QED BY <1>1, <1>4, <1>5, <1>6, <1>8 DEF SameObject, SameRole

-----------------------------------------------------------------------------
(* Replies, failures and client calls.                                     *)

\* handleAppendReply is a sound quiet step on every path.
LEMMA HandleAppendReplyKeeps ==
  ASSUME NEW n, Sound(n), NEW q \in AppendEntriesArgs \cup ReadHeartBeatArgs,
         q.to \in PeersOf(n.id), NEW reply \in AppendEntriesReply,
         LastEntryOf(q) \in Nat, StillLeads(n, q) => LastEntryOf(q) <= GetLastLogIndex(n)
  PROVE  Keeps(n, HandleAppendReply(n, q, reply))
  <1> DEFINE p == q.to
             m == NotInFlight(n, p)
             a == Acknowledge(m, p, LastEntryOf(q))
             u == UpdateCommitIndex(a)
             r == AcknowledgeRead(m, p)
             b == BackUp(m, p, reply.updateNextIndex)
             h == HandleAppendReply(n, q, reply)
  <1>0. /\ n \in RaftObject /\ n.currentTerm \in Nat /\ p \in Server /\ p \in PeersOf(n.id)
        /\ reply.term \in Nat /\ reply.updateNextIndex \in Int /\ reply.readRound \in Nat
        /\ reply.success \in BOOLEAN
    BY FieldTypes DEF Sound, AppendEntriesReply, PeersOf
  <1>1. Keeps(n, m) /\ SameObject(n, m)  BY <1>0, NotInFlightKeeps
  <1>2. \/ h = n
        \/ h = BecomeFollower(m, reply.term)
        \/ StillLeads(n, q) /\ h = ScheduleReplication(b, {p})
        \/ StillLeads(n, q) /\ h = ContinueWith(u, p)
        \/ StillLeads(n, q) /\ m.activeRead # Nil /\ h = ContinueWith(r, p)
        \/ h = m
    BY <1>0 DEF HandleAppendReply
  <1> HIDE DEF m, h
  <1>3. Sound(m) /\ m.id = n.id /\ m.status = n.status
        /\ GetLastLogIndex(m) = GetLastLogIndex(n)
    BY <1>1 DEF Keeps, SameObject, SameDisk, SameRole, GetLastLogIndex
  <1>4. Keeps(n, BecomeFollower(m, reply.term))
    BY <1>0, <1>1, <1>3, BecomeFollowerKeeps, KeepsTrans
  <1>5. Keeps(n, ScheduleReplication(b, {p}))
    <2>1. Keeps(m, b) /\ b.id = n.id  BY <1>0, <1>3, BackUpKeeps
    <2> HIDE DEF b
    <2>2. Keeps(n, b)  BY <1>1, <2>1, KeepsTrans
    <2>3. Keeps(b, ScheduleReplication(b, {p}))
      BY <1>0, <2>1, ScheduleReplicationKeeps DEF Keeps
    <2> QED BY <2>2, <2>3, KeepsTrans
  <1>6. ASSUME StillLeads(n, q)  PROVE Keeps(n, ContinueWith(u, p))
    <2>1. Keeps(m, a) /\ a.id = n.id /\ a.status = Leader
      BY <1>0, <1>3, <1>6, AcknowledgeKeeps DEF StillLeads, SameRole
    <2> HIDE DEF a
    <2>2. Keeps(n, a)  BY <1>1, <2>1, KeepsTrans
    <2>3. Keeps(a, u) /\ u.status = Leader /\ u.id = n.id
      BY <2>1, UpdateCommitIndexKeeps DEF Keeps, SameRole, Quiet
    <2> HIDE DEF u
    <2>4. Keeps(u, ContinueWith(u, p))
      BY <1>0, <2>3, ContinueWithKeeps DEF Keeps
    <2>5. Keeps(n, u)  BY <2>2, <2>3, KeepsTrans
    <2> QED BY <2>4, <2>5, KeepsTrans
  <1>7. ASSUME StillLeads(n, q), m.activeRead # Nil  PROVE Keeps(n, ContinueWith(r, p))
    <2>1. Keeps(m, r) /\ r.id = n.id /\ r.status = Leader
      BY <1>0, <1>3, <1>7, AcknowledgeReadKeeps DEF StillLeads, SameRole
    <2> HIDE DEF r
    <2>2. Keeps(r, ContinueWith(r, p))
      BY <1>0, <2>1, ContinueWithKeeps DEF Keeps
    <2>3. Keeps(n, r)  BY <1>1, <2>1, KeepsTrans
    <2> QED BY <2>2, <2>3, KeepsTrans
  <1> HIDE DEF u, r, b, p
  <1>8. Keeps(n, n)  BY KeepsRefl
  <1> QED BY <1>1, <1>2, <1>4, <1>5, <1>6, <1>7, <1>8 DEF h

\* handleSnapshotReply is a sound quiet step on every path.
LEMMA HandleSnapshotReplyKeeps ==
  ASSUME NEW n, Sound(n), NEW q, q.to \in PeersOf(n.id), NEW reply \in InstallSnapshotReply
  PROVE  Keeps(n, HandleSnapshotReply(n, q, reply))
  <1> DEFINE p == q.to
             m == NotInFlight(n, p)
             a == Acknowledge(m, p, n.lastIncludeSnapshotIndex)
             h == HandleSnapshotReply(n, q, reply)
  <1>0. /\ n \in RaftObject /\ n.currentTerm \in Nat /\ p \in Server /\ p \in PeersOf(n.id)
        /\ reply.term \in Nat /\ n.lastIncludeSnapshotIndex \in Nat
        /\ n.lastIncludeSnapshotIndex <= GetLastLogIndex(n)
    BY FieldTypes, LogTypes DEF Sound, InstallSnapshotReply, PeersOf
  <1>1. Keeps(n, m) /\ SameObject(n, m)  BY <1>0, NotInFlightKeeps
  <1>2. h \in { n, BecomeFollower(m, reply.term), ScheduleReplication(a, {p}), a, m }
    BY <1>0 DEF HandleSnapshotReply
  <1> HIDE DEF m, h
  <1>3. Sound(m) /\ m.id = n.id /\ GetLastLogIndex(m) = GetLastLogIndex(n)
    BY <1>1 DEF Keeps, SameObject, SameDisk, GetLastLogIndex
  <1>4. Keeps(n, BecomeFollower(m, reply.term))
    BY <1>0, <1>1, <1>3, BecomeFollowerKeeps, KeepsTrans
  <1>5. Keeps(m, a) /\ a.id = n.id  BY <1>0, <1>3, AcknowledgeKeeps
  <1> HIDE DEF a
  <1>6. Keeps(n, a)  BY <1>1, <1>5, KeepsTrans
  <1>7. Keeps(a, ScheduleReplication(a, {p}))
    BY <1>0, <1>5, ScheduleReplicationKeeps DEF Keeps
  <1>8. Keeps(n, ScheduleReplication(a, {p}))  BY <1>6, <1>7, KeepsTrans
  <1> HIDE DEF p
  <1>9. Keeps(n, n)  BY KeepsRefl
  <1> QED BY <1>1, <1>2, <1>4, <1>6, <1>8, <1>9 DEF h

\* A failed call frees its stream and is otherwise quiet.
LEMMA TransportFailedKeeps ==
  ASSUME NEW n, Sound(n), NEW q, q.to \in Server
  PROVE  Keeps(n, TransportFailed(n, q))
  BY NotInFlightKeeps, KeepsRefl DEF TransportFailed

\* A task that ends
LEMMA EndKeeps ==
  ASSUME NEW n, Sound(n), NEW t
  PROVE  /\ Keeps(n, End(n, t)) /\ SameDisk(n, End(n, t)) /\ SameRole(n, End(n, t))
         /\ End(n, t).threadPool = n.threadPool \ {t} /\ End(n, t).id = n.id
         /\ SamePeers(n, End(n, t))
  <1> DEFINE pool == n.threadPool \ {t}
             m == [ n EXCEPT !.threadPool = pool ]
  <1>0. n \in RaftObject /\ n.currentTerm \in Nat  BY FieldTypes DEF Sound
  <1>1. End(n, t) = m  BY <1>0 DEF End, RaftObject
  <1>2. pool \subseteq Task /\ pool \subseteq n.threadPool  BY <1>0, FieldTypes
  <1> HIDE DEF pool
  <1>3. /\ m \in RaftObject /\ SameDisk(n, m) /\ SameRole(n, m) /\ SamePeers(n, m)
        /\ m.id = n.id /\ m.persister = n.persister /\ m.lastApplied = n.lastApplied
        /\ m.threadPool = pool
    BY ZenonT(30), <1>0, <1>2 DEF RaftObject, SameDisk, SameRole, SamePeers
  <1> HIDE DEF m
  <1>4. GetLastLogIndex(m) = GetLastLogIndex(n) /\ PersistData(m) = PersistData(n)
    BY <1>3 DEF SameDisk, GetLastLogIndex, PersistData
  <1>5. Sound(m)
    BY <1>2, <1>3, <1>4 DEF Sound, SameDisk, SameRole, SamePeers
  <1>6. Quiet(n, m)
    BY <1>0, <1>2, <1>3 DEF Quiet, SameDisk, SameRole, RequestVoteCalls
  <1> QED BY <1>1, <1>3, <1>5, <1>6 DEF Keeps, pool

\* start, persisting and replicating the new entry, is a sound quiet step.
LEMMA StartKeeps ==
  ASSUME NEW n, Sound(n)
  PROVE  Keeps(n, ScheduleAllReplication(UpdateCommitIndex(AppendOwn(n))))
  <1> DEFINE a == AppendOwn(n)
             u == UpdateCommitIndex(a)
  <1>1. Keeps(n, a)  BY AppendOwnKeeps
  <1> HIDE DEF a
  <1>2. Keeps(a, u)  BY <1>1, UpdateCommitIndexKeeps DEF Keeps
  <1> HIDE DEF u
  <1>3. Keeps(n, u)  BY <1>1, <1>2, KeepsTrans
  <1>4. Keeps(u, ScheduleAllReplication(u))
    BY <1>3, ScheduleReplicationKeeps DEF Keeps, ScheduleAllReplication
  <1>5. Keeps(n, ScheduleAllReplication(u))  BY <1>3, <1>4, KeepsTrans
  <1> QED BY <1>5 DEF u, a

\* Opening a read round is a sound quiet step.
LEMMA OpenReadKeeps ==
  ASSUME NEW n, Sound(n), n.status = Leader, NEW round \in Nat \ {0}
  PROVE  Keeps(n, OpenRead(n, round))
  <1> DEFINE active == [ round |-> round, term |-> n.currentTerm,
                         readIndex |-> n.commitIndex, acks |-> {n.id} ]
             m == [ n EXCEPT !.activeRead = active ]
  <1>0. /\ n \in RaftObject /\ n.currentTerm \in Nat /\ n.commitIndex \in Nat
        /\ n.id \in Server
    BY FieldTypes DEF Sound
  <1>1. OpenRead(n, round) = ScheduleHeartBeat(m, PeersOf(n.id), round)  BY DEF OpenRead
  <1>2. active \in PendingReadIndex  BY <1>0 DEF PendingReadIndex
  <1> HIDE DEF active
  <1>3. m \in RaftObject /\ SameObject(n, m)
    BY <1>0, <1>2 DEF RaftObject, SameObject, SameDisk, SameRole, SamePeers
  <1> HIDE DEF m
  <1>4. Keeps(n, m)  BY <1>3, SameKeeps
  <1>5. Keeps(m, ScheduleHeartBeat(m, PeersOf(n.id), round))
    BY <1>3, <1>4, ScheduleHeartBeatKeeps DEF Keeps, SameObject, SameRole
  <1> QED BY <1>1, <1>4, <1>5, KeepsTrans

\* The state machine's snapshot takes entries from the log's front only
LEMMA DoSnapshotKeeps ==
  ASSUME NEW n, Sound(n), NEW i \in Nat
  PROVE  Keeps(n, DoSnapshot(n, i))
  <1> DEFINE logs == EntriesAfter(n, i)
             term == GetLogTermFromIndex(n, i)
             applied == Larger(n.lastApplied, i)
             k == [ n EXCEPT !.logs = logs, !.lastIncludeSnapshotIndex = i,
                             !.lastIncludeSnapshotTerm = term, !.lastApplied = applied ]
             m == Persist(k)
  <1>0. /\ n \in RaftObject /\ n.lastApplied \in Nat /\ n.currentTerm \in Nat
        /\ GetLastLogIndex(n) \in Nat
    BY FieldTypes, LogTypes DEF Sound
  <1>1. CASE ~IsLogIndex(n, i)
    <2>1. DoSnapshot(n, i) = Abort(n)  BY <1>1 DEF DoSnapshot
    <2> QED BY <1>0, <2>1, AbortSame, SameKeeps
  <1>2. CASE IsLogIndex(n, i)
    <2>1. DoSnapshot(n, i) = m  BY <1>0, <1>2 DEF DoSnapshot, RaftObject
    <2>2. logs \in Seq(Nat) /\ Len(logs) = GetLastLogIndex(n) - i /\ term \in Nat
      BY <1>0, <1>2, EntriesTypes, LogTermType
    <2>3. applied \in Nat /\ i <= applied  BY <1>0 DEF Larger
    <2> HIDE DEF logs, term, applied
    <2>4. /\ k \in RaftObject /\ k.id = n.id /\ k.threadPool = n.threadPool
          /\ k.lastApplied = applied /\ k.lastIncludeSnapshotIndex = i /\ k.logs = logs
          /\ k.currentTerm = n.currentTerm /\ k.votedFor = n.votedFor
          /\ SameRole(n, k) /\ SamePeers(n, k)
      BY ZenonT(30), <1>0, <2>2, <2>3 DEF RaftObject, SameRole, SamePeers
    <2> HIDE DEF k
    <2>5. /\ m \in RaftObject /\ m.persister = PersistData(m)
          /\ m.id = n.id /\ m.threadPool = n.threadPool
          /\ m.lastIncludeSnapshotIndex <= m.lastApplied
          /\ m.lastIncludeSnapshotIndex = i /\ m.logs = logs
          /\ m.currentTerm = n.currentTerm /\ m.votedFor = n.votedFor
          /\ SameRole(n, m) /\ SamePeers(n, m)
      BY <2>3, <2>4, PersistEffect DEF SameDisk, SameRole, SamePeers
    <2> HIDE DEF m
    <2>6. GetLastLogIndex(m) = GetLastLogIndex(n)
      <3>1. GetLastLogIndex(m) = i + Len(logs)  BY <2>5 DEF GetLastLogIndex
      <3> QED BY <1>0, <2>2, <3>1
    <2>7. Sound(m)  BY <2>5, <2>6 DEF Sound, SameRole, SamePeers
    <2>8. Quiet(n, m)  BY <1>0, <2>5 DEF Quiet, SameRole, RequestVoteCalls
    <2> QED BY <2>1, <2>7, <2>8 DEF Keeps
  <1> QED BY <1>1, <1>2

\* The constructor yields a sound follower with the term and vote of its disk.
LEMMA ConstructFacts ==
  ASSUME NEW s \in Server, NEW disk \in Disk
  PROVE  /\ Sound(Construct(s, disk)) /\ Construct(s, disk).id = s
         /\ Construct(s, disk).currentTerm = disk.currentTerm
         /\ Construct(s, disk).votedFor = disk.votedFor
         /\ Construct(s, disk).threadPool = {} /\ Construct(s, disk).status = Follower
  <1> DEFINE m == Construct(s, disk)
             ones == [ p \in Server |-> 1 ]
             zeros == [ p \in Server |-> 0 ]
             none == [ p \in Server |-> FALSE ]
  <1>1. /\ disk.currentTerm \in Nat /\ disk.votedFor \in Server \cup {Nil} /\ disk.logs \in Seq(Nat)
        /\ disk.lastIncludeSnapshotIndex \in Nat /\ disk.lastIncludeSnapshotTerm \in Nat
        /\ disk = [ currentTerm |-> disk.currentTerm, votedFor |-> disk.votedFor,
                    logs |-> disk.logs,
                    lastIncludeSnapshotIndex |-> disk.lastIncludeSnapshotIndex,
                    lastIncludeSnapshotTerm |-> disk.lastIncludeSnapshotTerm ]
    BY DEF Disk
  <1>2. /\ ones \in [ Server -> Nat \ {0} ] /\ zeros \in [ Server -> Nat ]
        /\ none \in [ Server -> BOOLEAN ] /\ << >> \in Seq(ApplyMsg)
    BY EmptySeq
  <1>3. m \in RaftObject
    <2> HIDE DEF ones, zeros, none
    <2>1. m = [ id |-> s, aborted |-> FALSE, persister |-> disk, threadPool |-> {},
                applyQueue |-> << >>,
                currentTerm |-> disk.currentTerm, votedFor |-> disk.votedFor, logs |-> disk.logs,
                lastIncludeSnapshotIndex |-> disk.lastIncludeSnapshotIndex,
                lastIncludeSnapshotTerm |-> disk.lastIncludeSnapshotTerm,
                commitIndex |-> disk.lastIncludeSnapshotIndex,
                lastApplied |-> disk.lastIncludeSnapshotIndex,
                status |-> Follower, hasLeaderContact |-> FALSE,
                votesGranted |-> 0, electionTerm |-> 0,
                preVotesGranted |-> 0, preVoteTerm |-> 0, preVoteRound |-> 0,
                nextIndex |-> ones, matchIndex |-> zeros,
                replicationInFlight |-> none, replicationPending |-> none,
                currentTermCommitted |-> FALSE,
                activeRead |-> Nil, readIndexPending |-> zeros,
                readsAnswered |-> {} ]
      BY DEF Construct, ones, zeros, none
    <2> HIDE DEF m
    <2> QED BY <1>1, <1>2, <2>1 DEF RaftObject, Status
  <1>4. /\ m.id = s /\ m.currentTerm = disk.currentTerm /\ m.votedFor = disk.votedFor
        /\ m.threadPool = {} /\ m.status = Follower /\ m.persister = disk /\ m.logs = disk.logs
        /\ m.lastIncludeSnapshotIndex = disk.lastIncludeSnapshotIndex
        /\ m.lastIncludeSnapshotTerm = disk.lastIncludeSnapshotTerm
        /\ m.lastApplied = disk.lastIncludeSnapshotIndex
    BY DEF Construct
  <1> HIDE DEF m
  <1>5. m.persister = PersistData(m)
    BY <1>1, <1>4 DEF PersistData
  <1>6. Sound(m)
    BY <1>1, <1>3, <1>4, <1>5 DEF Sound, Follower, Leader, Candidate
  <1> QED BY <1>4, <1>6 DEF m
=============================================================================
