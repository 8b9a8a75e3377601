---------------------------- MODULE Raft_proofs -----------------------------
(***************************************************************************)
(* From handlers to steps of the cluster.  Every step of Next is a Move,   *)
(* and Moves preserve TypeInv, from which type correctness and the         *)
(* currency of the disk follow, and VoteInv: a server votes once in a term *)
(* and a term has one leader.  Then what each step changes and what it     *)
(* leaves alone: the log, the commit index and what was applied, the       *)
(* peers' progress, the votes and the calls (NextSteps).                   *)
(***************************************************************************)
EXTENDS RaftObject_proofs

-----------------------------------------------------------------------------
(* Moves.                                                                  *)

\* A task's reply has the type that its request's kind calls for.
LEMMA TaskTypes ==
  ASSUME NEW t \in Task
  PROVE  /\ t.request \in Request /\ t.request.to \in Server /\ t.request.from \in Server
         /\ t.request.kind = "PreVote" =>
              t.request \in PreVoteArgs /\ t.reply \in VoteReply \cup {Nil}
         /\ t.request.kind = "RequestVote" =>
              t.request \in RequestVoteArgs /\ t.reply \in VoteReply \cup {Nil}
         /\ t.request.kind \in { "AppendEntries", "ReadHeartBeat" } =>
              /\ t.request \in AppendEntriesArgs \cup ReadHeartBeatArgs
              /\ t.reply \in AppendEntriesReply \cup {Nil}
         /\ t.request.kind = "InstallSnapshot" =>
              t.request \in InstallSnapshotArgs /\ t.reply \in InstallSnapshotReply \cup {Nil}
  BY DEF Task, Request, PreVoteArgs, RequestVoteArgs, AppendEntriesArgs, ReadHeartBeatArgs,
         InstallSnapshotArgs

\* A request is a record of its kind.
LEMMA RequestTypes ==
  ASSUME NEW q \in Request
  PROVE  /\ q.to \in Server /\ q.from \in Server
         /\ q.kind = "PreVote" => q \in PreVoteArgs
         /\ q.kind = "RequestVote" => q \in RequestVoteArgs
         /\ q.kind = "AppendEntries" => q \in AppendEntriesArgs
         /\ q.kind = "ReadHeartBeat" => q \in ReadHeartBeatArgs
         /\ q.kind = "InstallSnapshot" => q \in InstallSnapshotArgs
  BY DEF Request, PreVoteArgs, RequestVoteArgs, AppendEntriesArgs, ReadHeartBeatArgs,
         InstallSnapshotArgs

\* The replies to requests of a kind.
ReplyType(kind) ==
  CASE kind \in { "PreVote", "RequestVote" }           -> VoteReply
    [] kind \in { "AppendEntries", "ReadHeartBeat" }   -> AppendEntriesReply
    [] OTHER                                           -> InstallSnapshotReply

\* A task given a reply of its kind is a task.
LEMMA AnsweredTask ==
  ASSUME NEW t \in Task, NEW reply \in ReplyType(t.request.kind)
  PROVE  [ request |-> t.request, reply |-> reply ] \in Task
  <1>1. CASE t.request.kind \in { "PreVote", "RequestVote" }
    BY <1>1, TaskTypes DEF ReplyType, Task
  <1>2. CASE t.request.kind \in { "AppendEntries", "ReadHeartBeat" }
    BY <1>2, TaskTypes DEF ReplyType, Task
  <1>3. CASE t.request.kind = "InstallSnapshot"
    BY <1>3, TaskTypes DEF ReplyType, Task
  <1>4. t.request.kind \in { "PreVote", "RequestVote", "AppendEntries", "ReadHeartBeat", "InstallSnapshot" }
    BY TaskTypes DEF Request, PreVoteArgs, RequestVoteArgs, AppendEntriesArgs, ReadHeartBeatArgs,
         InstallSnapshotArgs
  <1> QED BY <1>1, <1>2, <1>3, <1>4

\* The inductive invariant behind the first theorems: every object is sound, the rest has its type.
TypeInv ==
  /\ raft \in [ Server -> RaftObject ]
  /\ \A s \in Server : Sound(raft[s]) /\ raft[s].id = s
  /\ late \subseteq Request
  /\ readFloor \in Seq([ Server -> Nat ])
  /\ votes \subseteq Nat \X Server \X Server

\* n counts the vote of one call, which leaves its pool, and may win with it.
GainsVote(n, m) ==
  \E t \in RequestVoteCalls(n) :
    /\ n.status = Candidate
    /\ t.reply # Nil /\ t.reply.granted /\ t.request.term = n.currentTerm
    /\ m.id = n.id /\ RequestVoteCalls(m) \subseteq RequestVoteCalls(n) \ {t}
    /\ \/ /\ m.status = Candidate /\ m.votesGranted = n.votesGranted + 1
          /\ m.currentTerm = n.currentTerm /\ m.votedFor = n.votedFor
       \/ n.votesGranted + 1 >= QuorumSize /\ Wins(n, m)

\* s alone changes
LocalMove(s, m) ==
  /\ raft' = [ raft EXCEPT ![s] = m ]
  /\ Sound(m)
  /\ Quiet(raft[s], m) \/ Stands(raft[s], m) \/ GainsVote(raft[s], m)

\* r handles a request, the task of c that waited for it has its reply
CallMove(r, c, m, t, reply) ==
  /\ raft' = [ raft EXCEPT ![r] = m, ![c].threadPool =
                 (@ \ {t}) \cup { [ request |-> t.request, reply |-> reply ] } ]
  /\ r # c /\ Keeps(raft[r], m)
  /\ t \in raft[c].threadPool /\ t.reply = Nil
  /\ reply \in ReplyType(t.request.kind)
  /\ t.request.kind = "RequestVote" =>
       /\ t.request.to = r
       /\ reply.granted => m.currentTerm = t.request.term /\ m.votedFor = c

\* What every step of the cluster comes to, whatever the handler.
Moves ==
  /\ \/ \E s \in Server : \E m \in RaftObject : LocalMove(s, m)
     \/ \E r, c \in Server : \E m \in RaftObject : \E t \in raft[c].threadPool :
          \E reply \in ReplyType(t.request.kind) : CallMove(r, c, m, t, reply)
  /\ late' \subseteq Request
  /\ readFloor' \in Seq([ Server -> Nat ])

\* A sound quiet step of one server is a move.
LEMMA LocalMoves ==
  ASSUME TypeInv, NEW s \in Server, NEW m, Keeps(raft[s], m),
         raft' = [ raft EXCEPT ![s] = m ],
         late' \subseteq Request, readFloor' \in Seq([ Server -> Nat ])
  PROVE  Moves
  <1>1. LocalMove(s, m) /\ m \in RaftObject  BY DEF LocalMove, Keeps, Sound
  <1> QED BY <1>1 DEF Moves

\* A request that a server may receive is typed, addressed to it and not from it.
LEMMA RequestFacts ==
  ASSUME TypeInv, NEW kind, NEW s \in Server, NEW q \in Requests(kind, s)
  PROVE  /\ q \in Request /\ q.to = s /\ q.kind = kind /\ q.from \in Server
         /\ Unanswered(q) \in raft[q.from].threadPool => q.from # s
  <1>1. q.kind = kind /\ q.to = s  BY DEF Requests
  <1>2. q \in Request
    <2>1. CASE q \in late  BY <2>1 DEF TypeInv
    <2>2. CASE q \notin late
      <3>1. PICK p \in Server : \E t \in raft[p].threadPool : t.request = q
        BY <2>2 DEF Requests
      <3> PICK t \in raft[p].threadPool : t.request = q  BY <3>1
      <3>2. t \in Task  BY FieldTypes DEF TypeInv, Sound
      <3> QED BY <3>2, TaskTypes
    <2> QED BY <2>1, <2>2
  <1>3. q.from \in Server  BY <1>2, RequestTypes
  <1>4. ASSUME Unanswered(q) \in raft[q.from].threadPool  PROVE q.from # s
    <2>1. Sound(raft[q.from]) /\ raft[q.from].id = q.from  BY <1>3 DEF TypeInv
    <2>2. Unanswered(q).request.to # q.from  BY <1>4, <2>1 DEF Sound
    <2> QED BY <1>1, <2>2 DEF Unanswered
  <1> QED BY <1>1, <1>2, <1>3, <1>4

\* Handling a request and answering it is a move, in time, late or overtaken.
LEMMA AnswerMoves ==
  ASSUME TypeInv, NEW kind, NEW s \in Server, NEW q \in Requests(kind, s), NEW h,
         Keeps(raft[s], h.object), h.reply \in ReplyType(kind),
         kind = "RequestVote" /\ h.reply.granted =>
           h.object.currentTerm = q.term /\ h.object.votedFor = q.from,
         Answer(q, h)
  PROVE  Moves
  <1>0. /\ q \in Request /\ q.to = s /\ q.kind = kind /\ q.from \in Server
        /\ Unanswered(q) \in raft[q.from].threadPool => q.from # s
    BY RequestFacts
  <1>1. readFloor' \in Seq([ Server -> Nat ]) /\ late \subseteq Request
    BY DEF Answer, TypeInv
  <1>2. h.object \in RaftObject  BY DEF Keeps, Sound
  <1>3. CASE /\ Unanswered(q) \in raft[q.from].threadPool
             /\ raft' = [ raft EXCEPT
                            ![q.to] = h.object,
                            ![q.from].threadPool =
                              (@ \ { Unanswered(q) })
                                \cup { [ request |-> q, reply |-> h.reply ] } ]
             /\ UNCHANGED late
    <2> DEFINE t == Unanswered(q)
    <2>1. t.request = q /\ t.reply = Nil  BY DEF Unanswered
    <2> HIDE DEF t
    <2>2. CallMove(s, q.from, h.object, t, h.reply)
      BY <1>0, <1>3, <2>1 DEF CallMove, t
    <2>3. t \in raft[q.from].threadPool /\ h.reply \in ReplyType(t.request.kind)
      BY <1>0, <1>3, <2>1 DEF t
    <2> QED BY <1>0, <1>1, <1>2, <1>3, <2>2, <2>3 DEF Moves
  <1>4. CASE /\ q \in late
             /\ raft' = [ raft EXCEPT ![q.to] = h.object ]
             /\ late' = late \ {q}
    <2>1. late' \subseteq Request  BY <1>1, <1>4
    <2> QED BY <1>0, <1>1, <1>4, <2>1, LocalMoves
  <1>5. ASSUME q \in late, NEW t \in NextOnStream(q),
               raft' = [ raft EXCEPT
                           ![q.to] = h.object,
                           ![q.from].threadPool =
                             (@ \ {t}) \cup { [ request |-> t.request, reply |-> h.reply ] } ],
               late' = (late \ {q}) \cup { t.request }
        PROVE  Moves
    <2>1. /\ t \in raft[q.from].threadPool /\ t.reply = Nil /\ t.request.to = s
          /\ Stream(t.request.kind) = Stream(kind) /\ Stream(kind) # Nil
      BY <1>0 DEF NextOnStream
    <2>2. Sound(raft[q.from]) /\ raft[q.from].id = q.from  BY <1>0 DEF TypeInv
    <2>3. t \in Task /\ q.from # s
      BY <2>1, <2>2, FieldTypes DEF Sound
    <2>4. /\ t.request.kind # "RequestVote"
          /\ ReplyType(t.request.kind) = ReplyType(kind)
      <3>1. kind \in { "PreVote", "RequestVote", "AppendEntries", "ReadHeartBeat", "InstallSnapshot" }
        BY <1>0 DEF Request, PreVoteArgs, RequestVoteArgs, AppendEntriesArgs,
                    ReadHeartBeatArgs, InstallSnapshotArgs
      <3>2. t.request.kind \in { "PreVote", "RequestVote", "AppendEntries", "ReadHeartBeat",
                                 "InstallSnapshot" }
        BY <2>3, TaskTypes DEF Request, PreVoteArgs, RequestVoteArgs, AppendEntriesArgs,
                    ReadHeartBeatArgs, InstallSnapshotArgs
      <3> QED BY <2>1, <3>1, <3>2 DEF Stream, ReplyType
    <2>5. CallMove(s, q.from, h.object, t, h.reply)
      BY <1>0, <1>5, <2>1, <2>3, <2>4 DEF CallMove
    <2>6. late' \subseteq Request  BY <1>1, <1>5, <2>3, TaskTypes
    <2>7. h.reply \in ReplyType(t.request.kind)  BY <2>4
    <2> QED BY <1>0, <1>1, <1>2, <2>1, <2>5, <2>6, <2>7 DEF Moves
  <1> QED BY <1>3, <1>4, <1>5 DEF Answer

-----------------------------------------------------------------------------
(* Every action is a move.                                                 *)

\* Every request handler is a move.
LEMMA ReceivesMoves ==
  ASSUME TypeInv, NEW s \in Server, Receives(s)
  PROVE  Moves
  <1>0. Sound(raft[s]) /\ raft[s] \in RaftObject /\ raft[s].hasLeaderContact \in BOOLEAN
    BY DEF TypeInv, RaftObject
  <1>1. CASE OnPreVote(s)
    <2>1. PICK q \in Requests("PreVote", s) : \E recent \in {FALSE, raft[s].hasLeaderContact} :
            Answer(q, HandlePreVote(raft[s], q, recent))
      BY <1>1 DEF OnPreVote
    <2>2. PICK recent \in BOOLEAN : Answer(q, HandlePreVote(raft[s], q, recent))
      BY <1>0, <2>1
    <2> DEFINE h == HandlePreVote(raft[s], q, recent)
    <2>3. q \in PreVoteArgs  BY RequestFacts, RequestTypes
    <2>4. h.object = raft[s] /\ h.reply \in VoteReply  BY <1>0, <2>3, HandlePreVoteTypes
    <2>5. Answer(q, h)  BY <2>2
    <2> HIDE DEF h
    <2>6. Keeps(raft[s], h.object)  BY <1>0, <2>4, KeepsRefl
    <2>7. h.reply \in ReplyType("PreVote")  BY <2>4 DEF ReplyType
    <2> QED BY <2>5, <2>6, <2>7, AnswerMoves
  <1>2. CASE OnRequestVote(s)
    <2>1. PICK q \in Requests("RequestVote", s) : Answer(q, HandleRequestVote(raft[s], q))
      BY <1>2 DEF OnRequestVote
    <2> DEFINE h == HandleRequestVote(raft[s], q)
    <2>2. q \in RequestVoteArgs  BY RequestFacts, RequestTypes
    <2>3. /\ Keeps(raft[s], h.object) /\ h.reply \in VoteReply
          /\ h.reply.granted => h.object.currentTerm = q.term /\ h.object.votedFor = q.from
      BY <1>0, <2>2, HandleRequestVoteKeeps
    <2>4. Answer(q, h)  BY <2>1
    <2> HIDE DEF h
    <2>5. h.reply \in ReplyType("RequestVote")  BY <2>3 DEF ReplyType
    <2> QED BY <2>3, <2>4, <2>5, AnswerMoves
  <1>3. CASE OnAppendEntries(s)
    <2>1. PICK q \in Requests("AppendEntries", s) : Answer(q, HandleAppendEntries(raft[s], q))
      BY <1>3 DEF OnAppendEntries
    <2> DEFINE h == HandleAppendEntries(raft[s], q)
    <2>2. q \in AppendEntriesArgs  BY RequestFacts, RequestTypes
    <2>3. Keeps(raft[s], h.object) /\ h.reply \in AppendEntriesReply
      BY <1>0, <2>2, HandleAppendEntriesKeeps
    <2>4. Answer(q, h)  BY <2>1
    <2> HIDE DEF h
    <2>5. h.reply \in ReplyType("AppendEntries")  BY <2>3 DEF ReplyType
    <2> QED BY <2>3, <2>4, <2>5, AnswerMoves
  <1>4. CASE OnReadHeartBeat(s)
    <2>1. PICK q \in Requests("ReadHeartBeat", s) : Answer(q, HandleReadHeartBeat(raft[s], q))
      BY <1>4 DEF OnReadHeartBeat
    <2> DEFINE h == HandleReadHeartBeat(raft[s], q)
    <2>2. q \in ReadHeartBeatArgs  BY RequestFacts, RequestTypes
    <2>3. Keeps(raft[s], h.object) /\ h.reply \in AppendEntriesReply
      BY <1>0, <2>2, HandleReadHeartBeatKeeps
    <2>4. Answer(q, h)  BY <2>1
    <2> HIDE DEF h
    <2>5. h.reply \in ReplyType("ReadHeartBeat")  BY <2>3 DEF ReplyType
    <2> QED BY <2>3, <2>4, <2>5, AnswerMoves
  <1>5. CASE OnInstallSnapshot(s)
    <2>1. PICK q \in Requests("InstallSnapshot", s) : Answer(q, HandleInstallSnapshot(raft[s], q))
      BY <1>5 DEF OnInstallSnapshot
    <2> DEFINE h == HandleInstallSnapshot(raft[s], q)
    <2>2. q \in InstallSnapshotArgs  BY RequestFacts, RequestTypes
    <2>3. Keeps(raft[s], h.object) /\ h.reply \in InstallSnapshotReply
      BY <1>0, <2>2, HandleInstallSnapshotKeeps
    <2>4. Answer(q, h)  BY <2>1
    <2> HIDE DEF h
    <2>5. h.reply \in ReplyType("InstallSnapshot")  BY <2>3 DEF ReplyType
    <2> QED BY <2>3, <2>4, <2>5, AnswerMoves
  <1> QED BY <1>1, <1>2, <1>3, <1>4, <1>5 DEF Receives

\* A task of s: what handling its end starts from
LEMMA TaskEnds ==
  ASSUME TypeInv, NEW s \in Server, NEW t \in raft[s].threadPool
  PROVE  /\ t \in Task /\ t.request.to \in PeersOf(s) /\ t.request.to \in Server
         /\ Keeps(raft[s], End(raft[s], t)) /\ End(raft[s], t).id = s
  <1>1. Sound(raft[s]) /\ raft[s] \in RaftObject /\ raft[s].id = s  BY DEF TypeInv
  <1>2. t \in Task /\ t.request.to # s  BY <1>1, FieldTypes DEF Sound
  <1>3. Keeps(raft[s], End(raft[s], t)) /\ End(raft[s], t).id = s  BY <1>1, EndKeeps
  <1> QED BY <1>2, <1>3, TaskTypes DEF PeersOf

\* Every reply handler is a move.
LEMMA ReturnsMoves ==
  ASSUME TypeInv, NEW s \in Server, NEW p \in PeersOf(s),
         \/ PreVoteReturns(s, p) \/ RequestVoteReturns(s, p)
         \/ AppendEntriesReturns(s, p) \/ InstallSnapshotReturns(s, p)
  PROVE  Moves
  <1>0. /\ Sound(raft[s]) /\ raft[s] \in RaftObject /\ raft[s].id = s
        /\ late \subseteq Request /\ readFloor \in Seq([ Server -> Nat ])
    BY DEF TypeInv
  <1>1. CASE PreVoteReturns(s, p)
    <2>1. PICK t \in Answered(s, p, {"PreVote"}) :
            /\ Step(s, HandlePreVoteReply(End(raft[s], t), t.request, t.reply))
            /\ UNCHANGED << late, readFloor >>
      BY <1>1 DEF PreVoteReturns
    <2>2. t \in raft[s].threadPool /\ t.request.kind = "PreVote" /\ t.reply # Nil
      BY DEF Answered
    <2> DEFINE e == End(raft[s], t)
               h == HandlePreVoteReply(e, t.request, t.reply)
    <2>3. Keeps(raft[s], e) /\ t \in Task  BY <2>2, TaskEnds
    <2>4. raft' = [ raft EXCEPT ![s] = h ]  BY <2>1 DEF Step
    <2> HIDE DEF e
    <2>5. KeepsOrStands(e, h)  BY <2>2, <2>3, TaskTypes, HandlePreVoteReplySteps DEF Keeps
    <2> HIDE DEF h
    <2>6. Sound(h) /\ (Quiet(raft[s], h) \/ Stands(raft[s], h))
      BY <1>0, <2>3, <2>5, KeepsTrans, StandsAfter DEF KeepsOrStands, Keeps
    <2>7. LocalMove(s, h) /\ h \in RaftObject  BY <2>4, <2>6 DEF LocalMove, Sound
    <2> QED BY <1>0, <2>1, <2>7 DEF Moves
  <1>2. CASE RequestVoteReturns(s, p)
    <2>1. PICK t \in Answered(s, p, {"RequestVote"}) :
            /\ Step(s, HandleVoteReply(End(raft[s], t), t.request, t.reply))
            /\ UNCHANGED << late, readFloor >>
      BY <1>2 DEF RequestVoteReturns
    <2>2. t \in raft[s].threadPool /\ t.request.kind = "RequestVote" /\ t.reply # Nil
      BY DEF Answered
    <2> DEFINE n == raft[s]
               e == End(n, t)
               h == HandleVoteReply(e, t.request, t.reply)
    <2>3. Keeps(n, e) /\ t \in Task  BY <2>2, TaskEnds
    <2>4. /\ SameDisk(n, e) /\ SameRole(n, e) /\ e.id = n.id
          /\ e.threadPool = n.threadPool \ {t}
      BY <1>0, EndKeeps
    <2>5. raft' = [ raft EXCEPT ![s] = h ]  BY <2>1 DEF Step
    <2> HIDE DEF e
    <2>6. /\ Sound(h)
          /\ \/ Quiet(e, h)
             \/ /\ Counts(e, t.request, t.reply)
                /\ h.id = e.id /\ SameDisk(e, h) /\ h.threadPool = e.threadPool
                /\ h.status = Candidate /\ h.votesGranted = e.votesGranted + 1
             \/ /\ Counts(e, t.request, t.reply)
                /\ e.votesGranted + 1 >= QuorumSize /\ Wins(e, h)
      BY <2>2, <2>3, TaskTypes, HandleVoteReplySteps DEF Keeps
    <2> HIDE DEF h
    <2>7. /\ t \in RequestVoteCalls(n)
          /\ RequestVoteCalls(e) = RequestVoteCalls(n) \ {t}
      BY <2>2, <2>4 DEF RequestVoteCalls
    <2>8. ASSUME Quiet(e, h)
          PROVE  Quiet(n, h)
      BY <1>0, <2>3, <2>6, <2>8, KeepsTrans DEF Keeps
    <2>9. ASSUME Counts(e, t.request, t.reply),
                 h.id = e.id, SameDisk(e, h), h.threadPool = e.threadPool,
                 h.status = Candidate, h.votesGranted = e.votesGranted + 1
          PROVE  GainsVote(n, h)
      <3>1. RequestVoteCalls(h) = RequestVoteCalls(e)  BY <2>9 DEF RequestVoteCalls
      <3>2. GainsVote(n, h)
        BY <2>2, <2>4, <2>7, <2>9, <3>1 DEF GainsVote, Counts, SameDisk, SameRole
      <3> QED BY <3>2
    <2>10. ASSUME Counts(e, t.request, t.reply),
                  e.votesGranted + 1 >= QuorumSize, Wins(e, h)
           PROVE  GainsVote(n, h)
      <3>1. RequestVoteCalls(h) \subseteq RequestVoteCalls(n) \ {t} /\ h.id = n.id
        BY <2>4, <2>7, <2>10 DEF Wins
      <3>2. Wins(n, h) /\ n.votesGranted + 1 >= QuorumSize
        BY <2>4, <2>10, <3>1 DEF Wins, SameDisk, SameRole
      <3>3. GainsVote(n, h)
        BY <2>2, <2>4, <2>7, <2>10, <3>1, <3>2 DEF GainsVote, Counts, SameDisk, SameRole
      <3> QED BY <3>3
    <2>11. LocalMove(s, h) /\ h \in RaftObject
      BY <2>5, <2>6, <2>8, <2>9, <2>10 DEF LocalMove, Sound, Keeps
    <2> QED BY <1>0, <2>1, <2>11 DEF Moves
  <1>3. CASE AppendEntriesReturns(s, p)
    <2>1. PICK t \in Answered(s, p, {"AppendEntries", "ReadHeartBeat"}) :
            /\ Step(s, HandleAppendReply(End(raft[s], t), t.request, t.reply))
            /\ UNCHANGED << late, readFloor >>
      BY <1>3 DEF AppendEntriesReturns
    <2>2. /\ t \in raft[s].threadPool /\ t.reply # Nil
          /\ t.request.kind \in { "AppendEntries", "ReadHeartBeat" }
      BY DEF Answered
    <2> DEFINE n == raft[s]
               e == End(n, t)
               h == HandleAppendReply(e, t.request, t.reply)
    <2>3. Keeps(n, e) /\ t \in Task /\ e.id = s /\ t.request.to \in PeersOf(s)
      BY <2>2, TaskEnds
    <2>4. SameDisk(n, e) /\ SameRole(n, e)  BY <1>0, EndKeeps
    <2>5. raft' = [ raft EXCEPT ![s] = h ]  BY <2>1 DEF Step
    <2> HIDE DEF e
    <2>6. LastEntryOf(t.request) \in Nat  BY <2>2, <2>3, LastEntryOfType
    <2>7. StillLeads(e, t.request) => LastEntryOf(t.request) <= GetLastLogIndex(e)
      BY <1>0, <2>2, <2>4 DEF StillLeads, Sound, SameDisk, SameRole, GetLastLogIndex
    <2>8. Keeps(e, h)
      BY <2>2, <2>3, <2>6, <2>7, TaskTypes, HandleAppendReplyKeeps DEF Keeps
    <2> HIDE DEF h
    <2>9. Keeps(n, h)  BY <1>0, <2>3, <2>8, KeepsTrans
    <2> QED BY <1>0, <2>1, <2>5, <2>9, LocalMoves
  <1>4. CASE InstallSnapshotReturns(s, p)
    <2>1. PICK t \in Answered(s, p, {"InstallSnapshot"}) :
            /\ Step(s, HandleSnapshotReply(End(raft[s], t), t.request, t.reply))
            /\ UNCHANGED << late, readFloor >>
      BY <1>4 DEF InstallSnapshotReturns
    <2>2. t \in raft[s].threadPool /\ t.reply # Nil /\ t.request.kind = "InstallSnapshot"
      BY DEF Answered
    <2> DEFINE n == raft[s]
               e == End(n, t)
               h == HandleSnapshotReply(e, t.request, t.reply)
    <2>3. Keeps(n, e) /\ t \in Task /\ e.id = s /\ t.request.to \in PeersOf(s)
      BY <2>2, TaskEnds
    <2>4. raft' = [ raft EXCEPT ![s] = h ]  BY <2>1 DEF Step
    <2> HIDE DEF e
    <2>5. Keeps(e, h)  BY <2>2, <2>3, TaskTypes, HandleSnapshotReplyKeeps DEF Keeps
    <2> HIDE DEF h
    <2>6. Keeps(n, h)  BY <1>0, <2>3, <2>5, KeepsTrans
    <2> QED BY <1>0, <2>1, <2>4, <2>6, LocalMoves
  <1> QED BY <1>1, <1>2, <1>3, <1>4

\* A failed call is a move.
LEMMA CallFailsMoves ==
  ASSUME TypeInv, NEW s \in Server, CallFails(s)
  PROVE  Moves
  <1>0. /\ Sound(raft[s]) /\ raft[s] \in RaftObject
        /\ late \subseteq Request /\ readFloor \in Seq([ Server -> Nat ])
    BY DEF TypeInv
  <1>1. PICK t \in raft[s].threadPool :
          /\ Step(s, TransportFailed(End(raft[s], t), t.request))
          /\ late' = late \/ late' = late \cup { t.request }
          /\ UNCHANGED readFloor
    BY DEF CallFails
  <1> DEFINE e == End(raft[s], t)
             h == TransportFailed(e, t.request)
  <1>2. Keeps(raft[s], e) /\ t \in Task /\ t.request.to \in Server  BY TaskEnds
  <1>3. raft' = [ raft EXCEPT ![s] = h ]  BY <1>1 DEF Step
  <1> HIDE DEF e
  <1>4. Keeps(e, h)  BY <1>2, TransportFailedKeeps DEF Keeps
  <1> HIDE DEF h
  <1>5. Keeps(raft[s], h)  BY <1>0, <1>2, <1>4, KeepsTrans
  <1>6. late' \subseteq Request  BY <1>0, <1>1, <1>2, TaskTypes
  <1> QED BY <1>0, <1>1, <1>3, <1>5, <1>6, LocalMoves

\* Every timeout, client call, snapshot and restart is a move.
LEMMA ActsMoves ==
  ASSUME TypeInv, NEW s \in Server, Acts(s)
  PROVE  Moves
  <1>0. /\ Sound(raft[s]) /\ raft[s] \in RaftObject /\ raft[s].id = s
        /\ late \subseteq Request /\ readFloor \in Seq([ Server -> Nat ])
    BY DEF TypeInv
  <1> DEFINE n == raft[s]
  <1>1. CASE ElectionTimeout(s)
    <2> DEFINE h == BeginPreVote(n)
    <2>1. raft' = [ raft EXCEPT ![s] = h ] /\ UNCHANGED << late, readFloor >>
      BY <1>1 DEF ElectionTimeout, Step
    <2>2. Sound(h) /\ (Quiet(n, h) \/ Stands(n, h))  BY <1>0, BeginPreVoteSteps
    <2> HIDE DEF h
    <2>3. LocalMove(s, h) /\ h \in RaftObject  BY <2>1, <2>2 DEF LocalMove, Sound
    <2> QED BY <1>0, <2>1, <2>3 DEF Moves
  <1>2. CASE HeartbeatTimeout(s)
    <2>1. raft' = [ raft EXCEPT ![s] = ScheduleAllReplication(n) ] /\ UNCHANGED << late, readFloor >>
      BY <1>2 DEF HeartbeatTimeout, Step
    <2>2. Keeps(n, ScheduleAllReplication(n))
      BY <1>0, ScheduleReplicationKeeps DEF ScheduleAllReplication
    <2> QED BY <1>0, <2>1, <2>2, LocalMoves
  <1>3. CASE QuorumTimeout(s)
    <2>1. raft' = [ raft EXCEPT ![s] = StepDown(n) ] /\ UNCHANGED << late, readFloor >>
      BY <1>3 DEF QuorumTimeout, Step
    <2> QED BY <1>0, <2>1, StepDownKeeps, LocalMoves
  <1>4. CASE Start(s)
    <2> DEFINE h == ScheduleAllReplication(UpdateCommitIndex(AppendOwn(n)))
    <2>1. raft' = [ raft EXCEPT ![s] = h ] /\ UNCHANGED << late, readFloor >>
      BY <1>4 DEF Start, Step
    <2>2. Keeps(n, h)  BY <1>0, StartKeeps
    <2> HIDE DEF h
    <2> QED BY <1>0, <2>1, <2>2, LocalMoves
  <1>5. CASE ReadIndex(s)
    <2> DEFINE round == Len(readFloor) + 1
               h == OpenRead(n, round)
               floor == [ p \in Server |-> raft[p].commitIndex ]
    <2>1. /\ raft' = [ raft EXCEPT ![s] = h ] /\ late' = late
          /\ readFloor' = Append(readFloor, floor) /\ n.status = Leader
      BY <1>5 DEF ReadIndex, Step, MayOpenRead
    <2>2. Len(readFloor) \in Nat  BY <1>0, LenProperties
    <2>3. round \in Nat \ {0}  BY <2>2
    <2> HIDE DEF round
    <2>4. Keeps(n, h)  BY <1>0, <2>1, <2>3, OpenReadKeeps
    <2>5. \A p \in Server : raft[p].commitIndex \in Nat  BY FieldTypes DEF TypeInv
    <2>6. floor \in [ Server -> Nat ]  BY <2>5
    <2> HIDE DEF floor, h
    <2>7. readFloor' \in Seq([ Server -> Nat ])  BY <1>0, <2>1, <2>6, AppendProperties
    <2> QED BY <1>0, <2>1, <2>4, <2>7, LocalMoves
  <1>6. CASE Snapshot(s)
    <2>1. PICK i \in n.lastIncludeSnapshotIndex + 1 .. n.commitIndex : Step(s, DoSnapshot(n, i))
      BY <1>6 DEF Snapshot
    <2>2. UNCHANGED << late, readFloor >>  BY <1>6 DEF Snapshot
    <2>3. i \in Nat  BY <1>0, FieldTypes
    <2>4. raft' = [ raft EXCEPT ![s] = DoSnapshot(n, i) ]  BY <2>1 DEF Step
    <2> QED BY <1>0, <2>2, <2>3, <2>4, DoSnapshotKeeps, LocalMoves
  <1>7. CASE Restart(s)
    <2> DEFINE h == Construct(s, n.persister)
    <2>1. raft' = [ raft EXCEPT ![s] = h ] /\ readFloor' = readFloor
      BY <1>7 DEF Restart
    <2>2. PICK sent \in SUBSET { t.request : t \in { u \in n.threadPool : MayBeLate(u) } } :
            late' = late \cup sent
      BY <1>7 DEF Restart
    <2>3. \A u \in n.threadPool : u.request \in Request  BY <1>0, FieldTypes, TaskTypes
    <2>4. late' \subseteq Request
      <3>1. \A r \in sent : \E u \in n.threadPool : r = u.request  OBVIOUS
      <3> QED BY <1>0, <2>2, <2>3, <3>1
    <2>5. n.persister \in Disk /\ n.persister = PersistData(n)  BY <1>0, FieldTypes DEF Sound
    <2>6. /\ Sound(h) /\ h.id = s /\ h.currentTerm = n.persister.currentTerm
          /\ h.votedFor = n.persister.votedFor /\ h.threadPool = {} /\ h.status = Follower
      BY <2>5, ConstructFacts
    <2> HIDE DEF h
    <2>7. h.currentTerm = n.currentTerm /\ h.votedFor = n.votedFor
      BY <2>5, <2>6 DEF PersistData
    <2>8. Quiet(n, h)
      BY <1>0, <2>6, <2>7, FieldTypes
      DEF Quiet, RequestVoteCalls, Follower, Candidate, Leader
    <2> QED BY <1>0, <2>1, <2>4, <2>6, <2>8, LocalMoves DEF Keeps
  <1>8. CASE JoinRead(s)
    <2> DEFINE raised(r) == [ p \in Server |-> Larger(readFloor[r][p], raft[p].commitIndex) ]
               floors(c) == [ r \in 1 .. Len(readFloor) |->
                                IF r = c THEN raised(r) ELSE readFloor[r] ]
    <2>1. /\ raft' = [ raft EXCEPT ![s] = n ] /\ late' = late
          /\ readFloor' = floors(n.activeRead.round)
      BY <1>8 DEF JoinRead, Step
    <2>2. \A p \in Server : raft[p].commitIndex \in Nat  BY FieldTypes DEF TypeInv
    <2>3. \A r \in 1 .. Len(readFloor) : readFloor[r] \in [ Server -> Nat ]
      BY <1>0, ElementOfSeq
    <2>4. \A r \in 1 .. Len(readFloor) : raised(r) \in [ Server -> Nat ]
      BY <2>2, <2>3 DEF Larger
    <2>5. Len(readFloor) \in Nat  BY <1>0, LenProperties
    <2> HIDE DEF raised
    <2>6. \A c : floors(c) \in Seq([ Server -> Nat ])
      BY <2>3, <2>4, <2>5
    <2> HIDE DEF floors
    <2>7. readFloor' \in Seq([ Server -> Nat ])  BY <2>1, <2>6
    <2> QED BY <1>0, <2>1, <2>7, KeepsRefl, LocalMoves
  <1> QED BY <1>1, <1>2, <1>3, <1>4, <1>5, <1>6, <1>7, <1>8 DEF Acts

\* Every step of the specification is a move that records votes.
LEMMA NextMoves ==
  ASSUME TypeInv, Next
  PROVE  Moves /\ RecordVotes
  <1>1. PICK s \in Server : Receives(s) \/ Returns(s) \/ CallFails(s) \/ Acts(s)
    BY DEF Next
  <1>2. RecordVotes  BY DEF Next
  <1> QED BY <1>1, <1>2, ReceivesMoves, ReturnsMoves, CallFailsMoves, ActsMoves DEF Returns

-----------------------------------------------------------------------------
(* The invariant.                                                          *)

\* A reply delivered to a waiting task leaves its object sound and its role alone.
LEMMA ReplyArrives ==
  ASSUME NEW n, Sound(n), NEW t \in n.threadPool, NEW reply \in ReplyType(t.request.kind)
  PROVE  LET m == [ n EXCEPT !.threadPool =
                      (@ \ {t}) \cup { [ request |-> t.request, reply |-> reply ] } ]
         IN  /\ Sound(m) /\ m.id = n.id /\ SameDisk(n, m) /\ SameRole(n, m)
             /\ m.threadPool = (n.threadPool \ {t})
                                  \cup { [ request |-> t.request, reply |-> reply ] }
  <1> DEFINE u == [ request |-> t.request, reply |-> reply ]
             pool == (n.threadPool \ {t}) \cup {u}
             m == [ n EXCEPT !.threadPool = pool ]
  <1>0. n \in RaftObject /\ n.threadPool \subseteq Task  BY FieldTypes DEF Sound
  <1>1. [ n EXCEPT !.threadPool =
            (@ \ {t}) \cup { [ request |-> t.request, reply |-> reply ] } ] = m
    BY <1>0 DEF RaftObject
  <1>2. u \in Task  BY <1>0, AnsweredTask
  <1>3. u.request = t.request  OBVIOUS
  <1>4. pool \subseteq Task /\ \A v \in pool : v \in n.threadPool \/ v = u  BY <1>0, <1>2
  <1> HIDE DEF u
  <1>5. /\ m \in RaftObject /\ SameDisk(n, m) /\ SameRole(n, m) /\ SamePeers(n, m)
        /\ m.id = n.id /\ m.persister = n.persister /\ m.lastApplied = n.lastApplied
        /\ m.threadPool = pool
    <2> HIDE DEF pool
    <2> QED BY ZenonT(30), <1>0, <1>4 DEF RaftObject, SameDisk, SameRole, SamePeers
  <1> HIDE DEF m
  <1>6. GetLastLogIndex(m) = GetLastLogIndex(n) /\ PersistData(m) = PersistData(n)
    BY <1>5 DEF SameDisk, GetLastLogIndex, PersistData
  <1>7. \A v \in m.threadPool : \E w \in n.threadPool : v.request = w.request
    BY <1>3, <1>4, <1>5
  <1> HIDE DEF pool
  <1>8. Sound(m)
    <2>1. \A v \in m.threadPool :
            /\ v.request.from = m.id /\ v.request.to # m.id
            /\ v.request.kind # "PreVote" => v.request.term <= m.currentTerm
            /\ m.status = Leader /\ v.request.kind \in { "AppendEntries", "ReadHeartBeat" }
                 /\ v.request.term = m.currentTerm
                   => LastEntryOf(v.request) <= GetLastLogIndex(m)
            /\ m.status = Candidate /\ v.request.kind \in StreamKind
                 => v.request.term # m.currentTerm
      BY <1>5, <1>6, <1>7 DEF Sound, SameDisk, SameRole
    <2> QED BY <1>5, <1>6, <2>1 DEF Sound, SameDisk, SameRole, SamePeers
  <1> QED BY <1>1, <1>5, <1>8 DEF pool, u

\* The cluster after a move of one server.
LEMMA LocalEffect ==
  ASSUME TypeInv, NEW s \in Server, NEW m, LocalMove(s, m)
  PROVE  /\ raft' \in [ Server -> RaftObject ]
         /\ raft'[s] = m /\ m.id = s
         /\ \A r \in Server \ {s} : raft'[r] = raft[r]
         /\ \A r \in Server : Sound(raft'[r]) /\ raft'[r].id = r
  <1>1. m \in RaftObject /\ m.id = s
    BY DEF LocalMove, Sound, Quiet, Stands, GainsVote, TypeInv
  <1>2. raft \in [ Server -> RaftObject ] /\ raft' = [ raft EXCEPT ![s] = m ] /\ Sound(m)
    BY DEF LocalMove, TypeInv
  <1>3. raft'[s] = m /\ \A r \in Server \ {s} : raft'[r] = raft[r]  BY <1>2
  <1>4. \A r \in Server : Sound(raft[r]) /\ raft[r].id = r  BY DEF TypeInv
  <1> QED BY <1>1, <1>2, <1>3, <1>4

\* The cluster after a request is handled and answered.
LEMMA CallEffect ==
  ASSUME TypeInv, NEW r \in Server, NEW c \in Server, NEW m, NEW t \in raft[c].threadPool,
         NEW reply \in ReplyType(t.request.kind), CallMove(r, c, m, t, reply)
  PROVE  /\ raft' \in [ Server -> RaftObject ]
         /\ raft'[r] = m
         /\ SameDisk(raft[c], raft'[c]) /\ SameRole(raft[c], raft'[c])
         /\ raft'[c].threadPool =
              (raft[c].threadPool \ {t}) \cup { [ request |-> t.request, reply |-> reply ] }
         /\ \A s \in Server \ {r, c} : raft'[s] = raft[s]
         /\ \A s \in Server : Sound(raft'[s]) /\ raft'[s].id = s
  <1> DEFINE k == [ raft[c] EXCEPT !.threadPool =
                      (@ \ {t}) \cup { [ request |-> t.request, reply |-> reply ] } ]
  <1>0. /\ raft \in [ Server -> RaftObject ] /\ r # c
        /\ \A s \in Server : Sound(raft[s]) /\ raft[s].id = s
    BY DEF TypeInv, CallMove
  <1>1. /\ Sound(k) /\ k.id = c /\ SameDisk(raft[c], k) /\ SameRole(raft[c], k)
        /\ k.threadPool = (raft[c].threadPool \ {t})
                             \cup { [ request |-> t.request, reply |-> reply ] }
    BY <1>0, ReplyArrives
  <1>2. raft' = [ raft EXCEPT ![r] = m, ![c] = k ]
    BY <1>0 DEF CallMove
  <1>3. Sound(m) /\ m.id = r
    BY <1>0 DEF CallMove, Keeps, Quiet
  <1> HIDE DEF k
  <1>4. m \in RaftObject /\ k \in RaftObject  BY <1>1, <1>3 DEF Sound
  <1>5. raft'[r] = m /\ raft'[c] = k /\ \A s \in Server \ {r, c} : raft'[s] = raft[s]
    BY <1>0, <1>2
  <1> QED BY <1>0, <1>1, <1>2, <1>3, <1>4, <1>5

\* Moves preserve the invariant.
LEMMA MovesKeepTypes ==
  ASSUME TypeInv, Moves, RecordVotes
  PROVE  TypeInv'
  <1>1. /\ raft' \in [ Server -> RaftObject ]
        /\ \A s \in Server : Sound(raft'[s]) /\ raft'[s].id = s
    <2>1. CASE \E s \in Server : \E m \in RaftObject : LocalMove(s, m)
      BY <2>1, LocalEffect
    <2>2. CASE \E r, c \in Server : \E m \in RaftObject : \E t \in raft[c].threadPool :
                 \E reply \in ReplyType(t.request.kind) : CallMove(r, c, m, t, reply)
      BY <2>2, CallEffect
    <2> QED BY <2>1, <2>2 DEF Moves
  <1>2. votes' \subseteq Nat \X Server \X Server
    <2>1. VotesHeld(raft') \subseteq Nat \X Server \X Server
      <3> SUFFICES ASSUME NEW s \in Server, raft'[s].votedFor # Nil
                   PROVE  << raft'[s].currentTerm, s, raft'[s].votedFor >> \in Nat \X Server \X Server
        BY DEF VotesHeld
      <3>1. raft'[s].currentTerm \in Nat /\ raft'[s].votedFor \in Server \cup {Nil}
        BY <1>1, FieldTypes
      <3> QED BY <3>1
    <2> QED BY <2>1 DEF RecordVotes, TypeInv
  <1>3. late' \subseteq Request /\ readFloor' \in Seq([ Server -> Nat ])
    BY DEF Moves
  <1>4. (\A s \in Server : Sound(raft[s]) /\ raft[s].id = s)'
    BY <1>1
  <1> QED BY <1>1, <1>2, <1>3, <1>4 DEF TypeInv

\* Freshly constructed objects satisfy the invariant.
LEMMA InitTypes ==
  ASSUME Init
  PROVE  TypeInv
  <1>1. EmptyDisk \in Disk  BY EmptySeq DEF EmptyDisk, Disk
  <1>2. \A s \in Server : Sound(Construct(s, EmptyDisk)) /\ Construct(s, EmptyDisk).id = s
    BY <1>1, ConstructFacts
  <1>3. raft \in [ Server -> RaftObject ]
        /\ \A s \in Server : Sound(raft[s]) /\ raft[s].id = s
    BY <1>2 DEF Init, Sound
  <1> QED BY <1>3, EmptySeq DEF Init, TypeInv

\* The invariant implies the two properties the runs check.
LEMMA TypeInvImplies ==
  ASSUME TypeInv
  PROVE  TypeOK /\ DiskIsCurrent
  <1>1. TypeOK  BY DEF TypeInv, TypeOK, Sound
  <1>2. DiskIsCurrent  BY DEF TypeInv, DiskIsCurrent, Sound
  <1> QED BY <1>1, <1>2

\* Every step preserves the invariant.
LEMMA StepKeepsTypes ==
  ASSUME TypeInv, [Next]_vars
  PROVE  TypeInv'
  <1>1. CASE Next  BY <1>1, NextMoves, MovesKeepTypes
  <1>2. CASE UNCHANGED vars  BY <1>2 DEF vars, TypeInv
  <1> QED BY <1>1, <1>2

\* The invariant always holds.
LEMMA TypeInvAlways == Spec => []TypeInv
  <1>1. Init => TypeInv  BY InitTypes
  <1>2. TypeInv /\ [Next]_vars => TypeInv'  BY StepKeepsTypes
  <1> QED BY <1>1, <1>2, PTL DEF Spec

\* The cluster's state always has its type, and every call is made in its
\* caller's name to another server, through all handlers, failures and restarts.
THEOREM TypeCorrectness == Spec => []TypeOK
  <1>1. TypeInv => TypeOK  BY TypeInvImplies
  <1> QED BY <1>1, TypeInvAlways, PTL

\* Between handlers the persisted state is the object's: no handler of Raft.cc
\* that changes term, vote, log or snapshot position ends without persist().
THEOREM DiskAlwaysCurrent == Spec => []DiskIsCurrent
  <1>1. TypeInv => DiskIsCurrent  BY TypeInvImplies
  <1> QED BY <1>1, TypeInvAlways, PTL

-----------------------------------------------------------------------------
(* Votes, and what moves do to them.                                       *)

\* No server voted in a term after its own, and its vote of its term stands
VotesKept ==
  \A v \in votes :
    /\ v[1] <= raft[v[2]].currentTerm
    /\ v[1] = raft[v[2]].currentTerm => raft[v[2]].votedFor = v[3]

\* The vote a server holds is among the votes given.
VotesRecorded ==
  \A s \in Server :
    raft[s].votedFor # Nil => << raft[s].currentTerm, s, raft[s].votedFor >> \in votes

\* A granted answer that waits to be counted is a vote that was given.
GrantsRecorded ==
  \A s \in Server : \A t \in RequestVoteCalls(raft[s]) :
    t.reply # Nil /\ t.reply.granted => << t.request.term, t.request.to, s >> \in votes

\* A server has one call to each peer for its vote in a term.
OneCallEach ==
  \A s \in Server : \A t, u \in RequestVoteCalls(raft[s]) :
    t.request.term = u.request.term /\ t.request.to = u.request.to => t = u

\* Those who voted for s in its term.
Voters(s) == { q \in Server : << raft[s].currentTerm, q, s >> \in votes }

\* Those of them that s no longer waits for
Counted(s) ==
  { q \in Voters(s) : \A t \in RequestVoteCalls(raft[s]) :
                        t.request.term = raft[s].currentTerm => t.request.to # q }

\* votesGranted counts voters, each once.
CandidateCount ==
  \A s \in Server : raft[s].status = Candidate => raft[s].votesGranted <= Cardinality(Counted(s))

\* A leader has the votes of a quorum in its term.
LeaderQuorum ==
  \A s \in Server : raft[s].status = Leader => Cardinality(Voters(s)) >= QuorumSize

\* The inductive invariant of elections.
VoteInv ==
  /\ TypeInv
  /\ VoteOnce /\ VotesKept /\ VotesRecorded
  /\ GrantsRecorded /\ OneCallEach
  /\ CandidateCount /\ LeaderQuorum

\* What becomes of the calls for votes of s.
CallsKept(s) ==
  \/ RequestVoteCalls(raft'[s]) \subseteq RequestVoteCalls(raft[s])
  \/ Stands(raft[s], raft'[s])
  \/ \E t \in raft[s].threadPool :
       /\ t.reply = Nil
       /\ \E reply \in ReplyType(t.request.kind) :
            /\ raft'[s].threadPool = (raft[s].threadPool \ {t})
                                       \cup { [ request |-> t.request, reply |-> reply ] }
            /\ t.request.kind = "RequestVote" /\ reply.granted =>
                 /\ raft'[t.request.to].currentTerm = t.request.term
                 /\ raft'[t.request.to].votedFor = s

\* What a step does to the term, vote and calls for votes of s.
VoteStep(s) ==
  /\ raft'[s].currentTerm >= raft[s].currentTerm
  /\ raft'[s].currentTerm = raft[s].currentTerm /\ raft[s].votedFor # Nil
       => raft'[s].votedFor = raft[s].votedFor
  /\ CallsKept(s)

\* The candidacy or leadership of s goes on, no call for a vote is added.
SameCandidacy(s) ==
  /\ raft'[s].status = raft[s].status /\ raft'[s].currentTerm = raft[s].currentTerm
  /\ raft'[s].votesGranted = raft[s].votesGranted
  /\ { t.request : t \in RequestVoteCalls(raft'[s]) }
       \subseteq { t.request : t \in RequestVoteCalls(raft[s]) }

\* What a step does to the role of s.
RoleStep(s) ==
  \/ raft'[s].status \notin {Candidate, Leader}
  \/ SameCandidacy(s)
  \/ Stands(raft[s], raft'[s])
  \/ GainsVote(raft[s], raft'[s])

\* Quiet steps change neither votes nor roles.
LEMMA QuietVotes ==
  ASSUME NEW s \in Server, Quiet(raft[s], raft'[s])
  PROVE  VoteStep(s) /\ RoleStep(s)
  <1>1. VoteStep(s)  BY DEF Quiet, VoteStep, CallsKept
  <1>2. { t.request : t \in RequestVoteCalls(raft'[s]) }
          \subseteq { t.request : t \in RequestVoteCalls(raft[s]) }
    BY DEF Quiet
  <1>3. RoleStep(s)  BY <1>2 DEF Quiet, RoleStep, SameCandidacy
  <1> QED BY <1>1, <1>3

\* Every move treats the votes and role of every server in one of these ways.
LEMMA MoveVotes ==
  ASSUME TypeInv, Moves, NEW s \in Server
  PROVE  VoteStep(s) /\ RoleStep(s)
  <1>0. \A r \in Server : raft[r] \in RaftObject /\ raft[r].currentTerm \in Nat
    BY FieldTypes DEF TypeInv
  <1>1. CASE raft'[s] = raft[s]
    <2>1. Quiet(raft[s], raft'[s])  BY <1>0, <1>1 DEF Quiet
    <2> QED BY <2>1, QuietVotes
  <1>2. ASSUME NEW r \in Server, NEW m \in RaftObject, LocalMove(r, m)
        PROVE  VoteStep(s) /\ RoleStep(s)
    <2>1. CASE s # r  BY <1>1, <1>2, <2>1, LocalEffect
    <2>2. CASE s = r
      <3>1. raft'[s] = m /\ m \in RaftObject /\ m.currentTerm \in Nat
        BY <1>2, <2>2, LocalEffect, FieldTypes
      <3>2. CASE Quiet(raft[s], m)  BY <3>1, <3>2, QuietVotes
      <3>3. CASE Stands(raft[s], m)
        BY <1>0, <3>1, <3>3 DEF VoteStep, CallsKept, RoleStep, Stands
      <3>4. CASE GainsVote(raft[s], m)
        <4>1. RoleStep(s)  BY <3>1, <3>4 DEF RoleStep
        <4>2. RequestVoteCalls(m) \subseteq RequestVoteCalls(raft[s])
          BY <3>4 DEF GainsVote
        <4>3. VoteStep(s)
          BY <1>0, <3>1, <3>4, <4>2 DEF VoteStep, CallsKept, GainsVote, Wins
        <4> QED BY <4>1, <4>3
      <3> QED BY <1>2, <2>2, <3>2, <3>3, <3>4 DEF LocalMove
    <2> QED BY <2>1, <2>2
  <1>3. ASSUME NEW r \in Server, NEW c \in Server, NEW m \in RaftObject,
               NEW t \in raft[c].threadPool, NEW reply \in ReplyType(t.request.kind),
               CallMove(r, c, m, t, reply)
        PROVE  VoteStep(s) /\ RoleStep(s)
    <2>0. r # c /\ Quiet(raft[r], m)  BY <1>3 DEF CallMove, Keeps
    <2>4. /\ raft'[r] = m
          /\ SameDisk(raft[c], raft'[c]) /\ SameRole(raft[c], raft'[c])
          /\ raft'[c].threadPool =
               (raft[c].threadPool \ {t}) \cup { [ request |-> t.request, reply |-> reply ] }
      BY <1>3, CallEffect
    <2>1. CASE s \notin {r, c}  BY <1>1, <1>3, <2>1, CallEffect
    <2>2. CASE s = r
      BY <2>0, <2>2, <2>4, QuietVotes
    <2>3. CASE s = c
      <3>1. /\ SameDisk(raft[s], raft'[s]) /\ SameRole(raft[s], raft'[s])
            /\ raft'[s].threadPool =
                 (raft[s].threadPool \ {t}) \cup { [ request |-> t.request, reply |-> reply ] }
            /\ raft'[r] = m
        BY <1>3, <2>3, CallEffect
      <3>2. /\ t.reply = Nil /\ t \in raft[s].threadPool /\ reply \in ReplyType(t.request.kind)
            /\ t.request.kind = "RequestVote" /\ reply.granted =>
                 /\ raft'[t.request.to].currentTerm = t.request.term
                 /\ raft'[t.request.to].votedFor = s
        BY <1>3, <2>3, <3>1 DEF CallMove
      <3>3. CallsKept(s)  BY <3>1, <3>2 DEF CallsKept
      <3>4. VoteStep(s)  BY <1>0, <3>1, <3>3 DEF VoteStep, SameDisk
      <3>5. { u.request : u \in RequestVoteCalls(raft'[s]) }
              \subseteq { u.request : u \in RequestVoteCalls(raft[s]) }
        <4> SUFFICES ASSUME NEW u \in RequestVoteCalls(raft'[s])
                     PROVE  \E v \in RequestVoteCalls(raft[s]) : v.request = u.request
          OBVIOUS
        <4>1. u \in raft[s].threadPool \/ u.request = t.request
          BY <3>1 DEF RequestVoteCalls
        <4> QED BY <3>2, <4>1 DEF RequestVoteCalls
      <3>6. RoleStep(s)  BY <3>1, <3>5 DEF RoleStep, SameCandidacy, SameRole, SameDisk
      <3> QED BY <3>4, <3>6
    <2> QED BY <2>1, <2>2, <2>3
  <1> QED BY <1>2, <1>3 DEF Moves

-----------------------------------------------------------------------------
(* Votes given.                                                            *)

\* The shape of a recorded vote.
LEMMA VotesType ==
  ASSUME TypeInv, NEW v \in votes
  PROVE  v[1] \in Nat /\ v[2] \in Server /\ v[3] \in Server /\ v = << v[1], v[2], v[3] >>
  BY DEF TypeInv

\* Votes are recorded as they are given, and never contradict an earlier one.
LEMMA VotesSteps ==
  ASSUME VoteInv, Moves, RecordVotes, TypeInv'
  PROVE  VotesKept' /\ VotesRecorded' /\ VoteOnce'
  <1>0. /\ \A s \in Server : VoteStep(s)
        /\ \A s \in Server : raft[s].currentTerm \in Nat /\ raft'[s].currentTerm \in Nat
    BY MoveVotes, FieldTypes DEF VoteInv, TypeInv
  <1>1. VotesRecorded'  BY DEF RecordVotes, VotesHeld, VotesRecorded
  <1>2. \A v \in votes' \ votes :
          /\ v[2] \in Server /\ v[1] = raft'[v[2]].currentTerm /\ v[3] = raft'[v[2]].votedFor
    BY DEF RecordVotes, VotesHeld
  <1>3. \A v \in votes :
          /\ v[1] <= raft'[v[2]].currentTerm
          /\ v[1] = raft'[v[2]].currentTerm => raft'[v[2]].votedFor = v[3]
    <2> SUFFICES ASSUME NEW v \in votes
                 PROVE  /\ v[1] <= raft'[v[2]].currentTerm
                        /\ v[1] = raft'[v[2]].currentTerm => raft'[v[2]].votedFor = v[3]
      OBVIOUS
    <2>1. v[1] \in Nat /\ v[2] \in Server /\ v[3] \in Server  BY VotesType DEF VoteInv
    <2>2. v[3] # Nil  BY <2>1, ServerAssumption
    <2>3. /\ v[1] <= raft[v[2]].currentTerm
          /\ v[1] = raft[v[2]].currentTerm => raft[v[2]].votedFor = v[3]
      BY DEF VoteInv, VotesKept
    <2>4. /\ raft'[v[2]].currentTerm >= raft[v[2]].currentTerm
          /\ raft'[v[2]].currentTerm = raft[v[2]].currentTerm /\ raft[v[2]].votedFor # Nil
               => raft'[v[2]].votedFor = raft[v[2]].votedFor
      BY <1>0, <2>1 DEF VoteStep
    <2> QED BY <1>0, <2>1, <2>2, <2>3, <2>4
  <1>4. VotesKept'
    <2>1. \A v \in votes' :
            /\ v[1] <= raft'[v[2]].currentTerm
            /\ v[1] = raft'[v[2]].currentTerm => raft'[v[2]].votedFor = v[3]
      BY <1>0, <1>2, <1>3
    <2> QED BY <2>1 DEF VotesKept
  <1>5. ASSUME NEW v \in votes', NEW w \in votes', v[1] = w[1], v[2] = w[2]
        PROVE  v[3] = w[3]
    <2>1. CASE v \in votes /\ w \in votes  BY <1>5, <2>1 DEF VoteInv, VoteOnce
    <2>2. CASE v \notin votes  BY <1>2, <1>4, <1>5, <2>2 DEF VotesKept
    <2>3. CASE w \notin votes  BY <1>2, <1>4, <1>5, <2>3 DEF VotesKept
    <2> QED BY <2>1, <2>2, <2>3
  <1> QED BY <1>1, <1>4, <1>5 DEF VoteOnce

\* A granted answer is the answerer's vote.
LEMMA GrantsSteps ==
  ASSUME VoteInv, Moves, RecordVotes, TypeInv'
  PROVE  GrantsRecorded'
  <1> SUFFICES ASSUME NEW s \in Server, NEW t \in RequestVoteCalls(raft'[s]),
                      t.reply # Nil, t.reply.granted
               PROVE  << t.request.term, t.request.to, s >> \in votes'
    BY DEF GrantsRecorded
  <1>0. VoteStep(s) /\ votes \subseteq votes'
    BY MoveVotes DEF RecordVotes, VoteInv
  <1>1. CASE t \in RequestVoteCalls(raft[s])
    BY <1>0, <1>1 DEF VoteInv, GrantsRecorded
  <1>2. CASE RequestVoteCalls(raft'[s]) \subseteq RequestVoteCalls(raft[s])  BY <1>1, <1>2
  <1>3. CASE Stands(raft[s], raft'[s])  BY <1>1, <1>3 DEF Stands
  <1>4. ASSUME NEW u \in raft[s].threadPool, NEW reply \in ReplyType(u.request.kind),
               raft'[s].threadPool = (raft[s].threadPool \ {u})
                                       \cup { [ request |-> u.request, reply |-> reply ] },
               u.request.kind = "RequestVote" /\ reply.granted =>
                 /\ raft'[u.request.to].currentTerm = u.request.term
                 /\ raft'[u.request.to].votedFor = s
        PROVE  << t.request.term, t.request.to, s >> \in votes'
    <2>1. CASE t # [ request |-> u.request, reply |-> reply ]
      BY <1>1, <1>4, <2>1 DEF RequestVoteCalls
    <2>2. CASE t = [ request |-> u.request, reply |-> reply ]
      <3>1. /\ raft'[t.request.to].currentTerm = t.request.term
            /\ raft'[t.request.to].votedFor = s
        BY <1>4, <2>2 DEF RequestVoteCalls
      <3>2. t.request.to \in Server /\ s # Nil
        BY <2>2, ServerAssumption, TaskTypes, FieldTypes DEF VoteInv, TypeInv
      <3> QED BY <3>1, <3>2 DEF RecordVotes, VotesHeld
    <2> QED BY <2>1, <2>2
  <1> QED BY <1>0, <1>2, <1>3, <1>4 DEF VoteStep, CallsKept

\* A server asks each peer for its vote once in a term.
LEMMA OneCallSteps ==
  ASSUME VoteInv, Moves, TypeInv'
  PROVE  OneCallEach'
  <1> SUFFICES ASSUME NEW s \in Server,
                      NEW t \in RequestVoteCalls(raft'[s]), NEW u \in RequestVoteCalls(raft'[s]),
                      t.request.term = u.request.term, t.request.to = u.request.to
               PROVE  t = u
    BY DEF OneCallEach
  <1>0. VoteStep(s) /\ OneCallEach  BY MoveVotes DEF VoteInv
  <1>1. CASE RequestVoteCalls(raft'[s]) \subseteq RequestVoteCalls(raft[s])
    BY <1>0, <1>1 DEF OneCallEach
  <1>2. CASE Stands(raft[s], raft'[s])
    <2>1. raft[s].currentTerm \in Nat
          /\ \A v \in RequestVoteCalls(raft[s]) : v.request.term <= raft[s].currentTerm
      BY FieldTypes DEF VoteInv, TypeInv, Sound, RequestVoteCalls
    <2>2. \A v \in RequestVoteCalls(raft[s]) \cup RequestVoteCalls(raft'[s]) :
             v.request.term \in Nat
      BY FieldTypes, RequestTermType DEF VoteInv, TypeInv, RequestVoteCalls
    <2>3. \A v \in RequestVoteCalls(raft'[s]) \ RequestVoteCalls(raft[s]) :
             v.request.term > raft[s].currentTerm
      BY <1>2 DEF Stands
    <2>4. t \in RequestVoteCalls(raft[s]) <=> u \in RequestVoteCalls(raft[s])
      BY <2>1, <2>2, <2>3
    <2>5. CASE t \in RequestVoteCalls(raft[s])  BY <1>0, <2>4, <2>5 DEF OneCallEach
    <2>6. CASE t \notin RequestVoteCalls(raft[s])  BY <1>2, <2>4, <2>6 DEF Stands
    <2> QED BY <2>5, <2>6
  <1>3. ASSUME NEW w \in raft[s].threadPool, NEW reply,
               raft'[s].threadPool = (raft[s].threadPool \ {w})
                                       \cup { [ request |-> w.request, reply |-> reply ] }
        PROVE  t = u
    <2> DEFINE new == [ request |-> w.request, reply |-> reply ]
    <2>1. new.request = w.request  OBVIOUS
    <2> HIDE DEF new
    <2>2. \A v \in RequestVoteCalls(raft'[s]) :
            \/ v = new /\ w \in RequestVoteCalls(raft[s])
            \/ v # w /\ v \in RequestVoteCalls(raft[s])
      BY <1>3, <2>1 DEF RequestVoteCalls, new
    <2> QED BY <1>0, <2>1, <2>2 DEF OneCallEach
  <1> QED BY <1>0, <1>1, <1>2, <1>3 DEF VoteStep, CallsKept

-----------------------------------------------------------------------------
(* Votes counted.                                                          *)

\* Sets of servers are finite and no larger than the cluster.
LEMMA VotersFinite ==
  ASSUME NEW S, S \subseteq Server
  PROVE  IsFiniteSet(S) /\ Cardinality(S) \in Nat /\ Cardinality(S) <= Cardinality(Server)
         /\ Cardinality(Server) \in Nat
  BY ServerAssumption, FS_Subset, FS_CardinalityType

\* A set of servers with a member has at least one.
LEMMA SelfVote ==
  ASSUME NEW S, NEW q \in Server, S \subseteq Server, q \in S
  PROVE  Cardinality(S) >= 1
  <1>1. {q} \subseteq S  OBVIOUS
  <1>2. Cardinality({q}) = 1 /\ IsFiniteSet(S)  BY VotersFinite, FS_Singleton
  <1>3. Cardinality({q}) <= Cardinality(S)  BY <1>1, <1>2, FS_Subset
  <1> QED BY <1>2, <1>3, VotersFinite

\* A set of servers with one member more is larger by at least one.
LEMMA OneMore ==
  ASSUME NEW S, NEW T, NEW q, S \subseteq T, T \subseteq Server, q \in T, q \notin S
  PROVE  Cardinality(T) >= Cardinality(S) + 1
  <1>1. S \cup {q} \subseteq T  OBVIOUS
  <1>2. IsFiniteSet(S) /\ IsFiniteSet(T) /\ IsFiniteSet(S \cup {q})
        /\ Cardinality(S) \in Nat /\ Cardinality(T) \in Nat /\ Cardinality(S \cup {q}) \in Nat
    BY <1>1, VotersFinite
  <1>3. Cardinality(S \cup {q}) = Cardinality(S) + 1  BY <1>2, FS_AddElement
  <1>4. Cardinality(S \cup {q}) <= Cardinality(T)  BY <1>1, <1>2, FS_Subset
  <1> QED BY <1>2, <1>3, <1>4

\* A server that was elected on its own vote, or stands, has that vote counted.
LEMMA StandsCounts ==
  ASSUME VoteInv, TypeInv', RecordVotes, NEW s \in Server, Stands(raft[s], raft'[s]),
         raft'[s].status \in {Candidate, Leader}
  PROVE  s \in Voters(s)' /\ s \in Counted(s)'
  <1>1. raft'[s].id = s /\ raft'[s].votedFor = s
    BY DEF Stands, TypeInv
  <1>2. s # Nil  BY ServerAssumption
  <1>3. << raft'[s].currentTerm, s, s >> \in votes'
    BY <1>1, <1>2 DEF RecordVotes, VotesHeld
  <1>4. \A t \in RequestVoteCalls(raft'[s]) : t.request.to # s
    <2>1. Sound(raft'[s])  BY DEF TypeInv
    <2> QED BY <1>1, <2>1 DEF RequestVoteCalls, Sound
  <1> QED BY <1>3, <1>4 DEF Voters, Counted

\* While a candidacy or a leadership lasts, no voter is lost
LEMMA SameCounts ==
  ASSUME RecordVotes, NEW s \in Server, SameCandidacy(s)
  PROVE  Voters(s) \subseteq Voters(s)' /\ Counted(s) \subseteq Counted(s)'
  <1>1. raft'[s].currentTerm = raft[s].currentTerm /\ votes \subseteq votes'
    BY DEF SameCandidacy, RecordVotes
  <1>2. \A t \in RequestVoteCalls(raft'[s]) :
          \E u \in RequestVoteCalls(raft[s]) : u.request = t.request
    BY DEF SameCandidacy
  <1>3. Voters(s) \subseteq Voters(s)'  BY <1>1 DEF Voters
  <1>4. ASSUME NEW q \in Counted(s)  PROVE q \in Counted(s)'
    <2>1. q \in Voters(s)'  BY <1>3 DEF Counted
    <2>2. \A t \in RequestVoteCalls(raft'[s]) :
             t.request.term = raft'[s].currentTerm => t.request.to # q
      BY <1>1, <1>2 DEF Counted
    <2> QED BY <2>1, <2>2 DEF Counted
  <1> QED BY <1>3, <1>4

\* The vote that handleVoteReply counts was not counted before.
LEMMA GainCounts ==
  ASSUME VoteInv, RecordVotes, NEW s \in Server,
         NEW t \in RequestVoteCalls(raft[s]),
         t.reply # Nil, t.reply.granted, t.request.term = raft[s].currentTerm,
         raft'[s].currentTerm = raft[s].currentTerm,
         RequestVoteCalls(raft'[s]) \subseteq RequestVoteCalls(raft[s]) \ {t}
  PROVE  /\ Cardinality(Counted(s)') >= Cardinality(Counted(s)) + 1
         /\ Cardinality(Voters(s)') >= Cardinality(Counted(s)) + 1
  <1> DEFINE q == t.request.to
  <1>1. << raft[s].currentTerm, q, s >> \in votes /\ votes \subseteq votes'
    BY DEF VoteInv, GrantsRecorded, RecordVotes
  <1>2. q \in Server
    BY TaskTypes, FieldTypes DEF VoteInv, TypeInv, RequestVoteCalls
  <1>3. q \in Voters(s)'  BY <1>1, <1>2 DEF Voters
  <1>4. q \notin Counted(s)  BY DEF Counted
  <1>5. \A u \in RequestVoteCalls(raft'[s]) :
          u.request.term = raft'[s].currentTerm => u.request.to # q
    BY DEF VoteInv, OneCallEach
  <1>6. q \in Counted(s)'  BY <1>3, <1>5 DEF Counted
  <1>7. Counted(s) \subseteq Counted(s)'
    BY <1>1 DEF Counted, Voters
  <1>8. Counted(s)' \subseteq Voters(s)' /\ Voters(s)' \subseteq Server
    BY DEF Counted, Voters
  <1> HIDE DEF q
  <1>9. Cardinality(Counted(s)') >= Cardinality(Counted(s)) + 1
    BY <1>4, <1>6, <1>7, <1>8, OneMore
  <1>10. Cardinality(Voters(s)') >= Cardinality(Counted(s)) + 1
    BY <1>3, <1>4, <1>7, <1>8, OneMore
  <1> QED BY <1>9, <1>10

\* Two quorums outnumber the cluster.
LEMMA QuorumSizeType == QuorumSize \in Nat \ {0} /\ 2 * QuorumSize > Cardinality(Server)
  BY VotersFinite, ServerAssumption DEF QuorumSize

\* The counters of candidates never exceed the votes that were given.
LEMMA CountSteps ==
  ASSUME VoteInv, Moves, RecordVotes, TypeInv'
  PROVE  CandidateCount' /\ LeaderQuorum'
  <1> SUFFICES ASSUME NEW s \in Server
               PROVE  /\ raft'[s].status = Candidate =>
                           raft'[s].votesGranted <= Cardinality(Counted(s)')
                      /\ raft'[s].status = Leader => Cardinality(Voters(s)') >= QuorumSize
    BY DEF CandidateCount, LeaderQuorum
  <1>0. /\ RoleStep(s) /\ TypeInv
        /\ raft[s].votesGranted \in Nat /\ raft'[s].votesGranted \in Nat
    BY MoveVotes, FieldTypes DEF VoteInv, TypeInv
  <1>1. /\ Counted(s) \subseteq Server /\ Counted(s)' \subseteq Server
        /\ Voters(s) \subseteq Server /\ Voters(s)' \subseteq Server
    BY DEF Counted, Voters
  <1>2. /\ Cardinality(Counted(s)) \in Nat /\ Cardinality(Counted(s)') \in Nat
        /\ Cardinality(Voters(s)) \in Nat /\ Cardinality(Voters(s)') \in Nat
        /\ IsFiniteSet(Counted(s)') /\ IsFiniteSet(Voters(s)')
    BY <1>1, VotersFinite
  <1>3. /\ raft[s].status = Candidate => raft[s].votesGranted <= Cardinality(Counted(s))
        /\ raft[s].status = Leader => Cardinality(Voters(s)) >= QuorumSize
    BY DEF VoteInv, CandidateCount, LeaderQuorum
  <1>4. Candidate # Leader  BY DEF Candidate, Leader
  <1>5. CASE raft'[s].status \notin {Candidate, Leader}  BY <1>5
  <1>6. CASE SameCandidacy(s)
    <2>1. Voters(s) \subseteq Voters(s)' /\ Counted(s) \subseteq Counted(s)'
      BY <1>6, SameCounts
    <2>2. Cardinality(Voters(s)) <= Cardinality(Voters(s)')
          /\ Cardinality(Counted(s)) <= Cardinality(Counted(s)')
      BY <1>2, <2>1, FS_Subset
    <2>3. raft'[s].status = raft[s].status /\ raft'[s].votesGranted = raft[s].votesGranted
      BY <1>6 DEF SameCandidacy
    <2> QED BY <1>0, <1>2, <1>3, <2>2, <2>3, QuorumSizeType
  <1>7. CASE Stands(raft[s], raft'[s]) /\ raft'[s].status \in {Candidate, Leader}
    <2>1. s \in Voters(s)' /\ s \in Counted(s)'  BY <1>7, StandsCounts
    <2>2. Cardinality(Voters(s)') >= 1 /\ Cardinality(Counted(s)') >= 1
      BY <1>1, <2>1, SelfVote
    <2>3. /\ raft'[s].status = Candidate => raft'[s].votesGranted = 1
          /\ raft'[s].status = Leader => QuorumSize <= 1
      BY <1>7 DEF Stands
    <2> QED BY <1>2, <2>2, <2>3, QuorumSizeType
  <1>8. CASE GainsVote(raft[s], raft'[s]) /\ raft'[s].status \in {Candidate, Leader}
    <2>1. PICK t \in RequestVoteCalls(raft[s]) :
            /\ raft[s].status = Candidate
            /\ t.reply # Nil /\ t.reply.granted /\ t.request.term = raft[s].currentTerm
            /\ RequestVoteCalls(raft'[s]) \subseteq RequestVoteCalls(raft[s]) \ {t}
            /\ \/ /\ raft'[s].status = Candidate
                  /\ raft'[s].votesGranted = raft[s].votesGranted + 1
                  /\ raft'[s].currentTerm = raft[s].currentTerm
               \/ raft[s].votesGranted + 1 >= QuorumSize /\ Wins(raft[s], raft'[s])
      BY <1>8 DEF GainsVote
    <2>2. /\ raft'[s].currentTerm = raft[s].currentTerm
          /\ \/ raft'[s].status = Candidate /\ raft'[s].votesGranted = raft[s].votesGranted + 1
             \/ raft'[s].status = Leader /\ raft[s].votesGranted + 1 >= QuorumSize
      BY <1>8, <2>1 DEF Wins
    <2>3. /\ Cardinality(Counted(s)') >= Cardinality(Counted(s)) + 1
          /\ Cardinality(Voters(s)') >= Cardinality(Counted(s)) + 1
      BY <2>1, <2>2, GainCounts
    <2>4. raft[s].votesGranted <= Cardinality(Counted(s))  BY <1>3, <2>1
    <2> QED BY <1>0, <1>2, <1>4, <2>2, <2>3, <2>4, QuorumSizeType
  <1> QED BY <1>0, <1>5, <1>6, <1>7, <1>8 DEF RoleStep

\* Nobody voted in the initial state.
LEMMA VotesInit ==
  ASSUME Init
  PROVE  VoteInv
  <1>1. TypeInv  BY InitTypes
  <1>2. EmptyDisk \in Disk /\ EmptyDisk.votedFor = Nil  BY EmptySeq DEF EmptyDisk, Disk
  <1>3. \A s \in Server :
          /\ raft[s].votedFor = Nil /\ raft[s].threadPool = {} /\ raft[s].status = Follower
    BY <1>2, ConstructFacts DEF Init
  <1>4. VoteOnce /\ VotesKept  BY DEF Init, VoteOnce, VotesKept
  <1>5. VotesRecorded /\ GrantsRecorded /\ OneCallEach
    BY <1>3 DEF VotesRecorded, GrantsRecorded, OneCallEach, RequestVoteCalls
  <1>6. CandidateCount /\ LeaderQuorum
    BY <1>3 DEF CandidateCount, LeaderQuorum, Follower, Candidate, Leader
  <1> QED BY <1>1, <1>4, <1>5, <1>6 DEF VoteInv

\* Every step preserves the invariant of elections.
LEMMA VotesStep ==
  ASSUME VoteInv, [Next]_vars
  PROVE  VoteInv'
  <1>1. CASE Next
    <2>1. Moves /\ RecordVotes  BY <1>1, NextMoves DEF VoteInv
    <2>2. TypeInv'  BY <2>1, MovesKeepTypes DEF VoteInv
    <2> QED BY <2>1, <2>2, VotesSteps, GrantsSteps, OneCallSteps, CountSteps DEF VoteInv
  <1>2. CASE UNCHANGED vars
    <2>1. TypeInv'  BY <1>2, StepKeepsTypes DEF VoteInv
    <2> QED
      BY <1>2, <2>1
      DEF vars, VoteInv, VoteOnce, VotesKept, VotesRecorded, GrantsRecorded, OneCallEach,
          CandidateCount, LeaderQuorum, Counted, Voters
  <1> QED BY <1>1, <1>2

\* The invariant of elections always holds.
LEMMA VoteInvAlways == Spec => []VoteInv
  <1> QED BY VotesInit, VotesStep, PTL DEF Spec

\* No server ever votes for two candidates in one term, whatever is lost, late,
\* or restarted: handleRequestVote and beginElection write the vote before anyone
\* learns of it, and becomeFollower forgets it only with its term.
THEOREM NoSecondVote == Spec => []VoteOnce
  <1>1. VoteInv => VoteOnce  BY DEF VoteInv
  <1> QED BY <1>1, VoteInvAlways, PTL

\* Two quorums share a voter
LEMMA OneLeader ==
  ASSUME VoteInv
  PROVE  ElectionSafety
  <1> SUFFICES ASSUME NEW s \in Server, NEW r \in Server,
                      raft[s].status = Leader, raft[r].status = Leader,
                      raft[s].currentTerm = raft[r].currentTerm
               PROVE  s = r
    BY DEF ElectionSafety
  <1>1. /\ Cardinality(Voters(s)) >= QuorumSize /\ Cardinality(Voters(r)) >= QuorumSize
        /\ Voters(s) \subseteq Server /\ Voters(r) \subseteq Server
    BY DEF VoteInv, LeaderQuorum, Voters
  <1>2. /\ IsFiniteSet(Server) /\ Cardinality(Voters(s)) \in Nat /\ Cardinality(Voters(r)) \in Nat
        /\ Cardinality(Server) \in Nat
    BY <1>1, VotersFinite, ServerAssumption
  <1>3. Cardinality(Voters(s)) + Cardinality(Voters(r)) > Cardinality(Server)
    BY <1>1, <1>2, QuorumSizeType
  <1>4. PICK q \in Server : q \in Voters(s) /\ q \in Voters(r)
    BY <1>1, <1>2, <1>3, FS_MajoritiesIntersect
  <1>5. << raft[s].currentTerm, q, s >> \in votes /\ << raft[s].currentTerm, q, r >> \in votes
    BY <1>4 DEF Voters
  <1> QED BY <1>5 DEF VoteInv, VoteOnce

\* Two servers never lead the same term: handleVoteReply counts a grant only in
\* the election that asked for it and only once, and two quorums share a voter.
THEOREM OneLeaderPerTerm == Spec => []ElectionSafety
  <1> QED BY OneLeader, VoteInvAlways, PTL

-----------------------------------------------------------------------------
(* What handlers leave alone, and what they ask of other servers.          *)

\* n and m have the same log and the same snapshot.
SameLog(n, m) ==
  /\ m.logs = n.logs
  /\ m.lastIncludeSnapshotIndex = n.lastIncludeSnapshotIndex
  /\ m.lastIncludeSnapshotTerm = n.lastIncludeSnapshotTerm

\* n and m have committed and handed to the state machine the same.
SameCommit(n, m) ==
  m.commitIndex = n.commitIndex /\ m.lastApplied = n.lastApplied /\ m.applyQueue = n.applyQueue

\* m votes for nobody, for itself, or as n did in the same term.
NoNewVote(n, m) ==
  \/ m.votedFor \in { Nil, m.id }
  \/ m.votedFor = n.votedFor /\ m.currentTerm = n.currentTerm

\* m is n as far as log, commit index and the peers' progress go, and gave no vote.
SameProgress(n, m) ==
  /\ m.id = n.id /\ SameLog(n, m) /\ SameCommit(n, m) /\ m.matchIndex = n.matchIndex
  /\ NoNewVote(n, m)

\* A step of an object that makes no call and progress.
Idle(n, m) == SameProgress(n, m) /\ m.threadPool \subseteq n.threadPool

\* A request as n builds it, a request for a vote aside.
Built(n, q) ==
  /\ q.kind # "RequestVote"
  /\ q.kind \in StreamKind => n.status = Leader /\ q.term = n.currentTerm
  /\ q.kind = "AppendEntries" =>
       /\ IsLogIndex(n, q.prevLogIndex)
       /\ q.prevLogTerm = GetLogTermFromIndex(n, q.prevLogIndex)
       /\ q.entries = EntriesAfter(n, q.prevLogIndex)
       /\ q.leaderCommit = n.commitIndex
  /\ q.kind = "InstallSnapshot" =>
       /\ q.lastSnapshotIncludeIndex = n.lastIncludeSnapshotIndex
       /\ q.lastSnapshotIncludeTerm = n.lastIncludeSnapshotTerm
       /\ q.lastSnapshotIncludeIndex > 0
  /\ q.kind = "ReadHeartBeat" => q.readRound > 0

\* The calls m makes that n had not made are as m builds them.
CallsBuilt(n, m) ==
  \A t \in m.threadPool \ n.threadPool : t.reply = Nil /\ Built(m, t.request)

\* A step of an object that may make calls, but no progress.
Sends(n, m) == SameProgress(n, m) /\ CallsBuilt(n, m)

\* m leads only if n does, in the same term.
NoNewLeader(n, m) == m.status = Leader => n.status = Leader /\ m.currentTerm = n.currentTerm

\* Steps without progress compose.
LEMMA IdleTrans ==
  ASSUME NEW k, NEW n, NEW m, Idle(k, n)
  PROVE  /\ Idle(n, m) => Idle(k, m)
         /\ Sends(n, m) => Sends(k, m)
  BY DEF Idle, Sends, CallsBuilt, SameProgress, SameLog, SameCommit, NoNewVote

\* A step that makes no call makes none that is not as it should be.
LEMMA IdleSends ==
  ASSUME NEW n, NEW m, Idle(n, m)
  PROVE  Sends(n, m)
  BY DEF Idle, Sends, CallsBuilt

\* Doing nothing is idle.
LEMMA IdleRefl == ASSUME NEW n PROVE Idle(n, n) /\ Sends(n, n)
  BY DEF Idle, Sends, CallsBuilt, SameProgress, SameLog, SameCommit, NoNewVote

\* Reads come and go without progress.
LEMMA ReadsIdle ==
  ASSUME NEW n \in RaftObject
  PROVE  /\ Idle(n, ForgetActiveRead(n)) /\ Idle(n, FailAllPendingReadIndex(n))
         /\ Idle(n, CompleteActiveRead(n))
  <1> DEFINE pending == [ p \in Server |-> IF n.readIndexPending[p] = n.activeRead.round THEN 0
                                         ELSE n.readIndexPending[p] ]
             m == [ n EXCEPT !.activeRead = Nil, !.readIndexPending = pending ]
             answered == m.readsAnswered \cup { [ round |-> n.activeRead.round,
                                               readIndex |-> n.activeRead.readIndex ] }
             c == [ m EXCEPT !.readsAnswered = answered ]
  <1>1. ForgetActiveRead(n) = m  BY DEF ForgetActiveRead, RaftObject
  <1>2. CompleteActiveRead(n) = c  BY <1>1 DEF CompleteActiveRead
  <1> HIDE DEF pending, answered
  <1>3. Idle(n, m)
    BY DEF Idle, SameProgress, SameLog, SameCommit, NoNewVote, RaftObject
  <1>4. Idle(n, c)
    BY DEF Idle, SameProgress, SameLog, SameCommit, NoNewVote, RaftObject
  <1> QED BY <1>1, <1>2, <1>3, <1>4, IdleRefl DEF FailAllPendingReadIndex

\* So do aborting and saving to disk.
LEMMA AbortIdle == ASSUME NEW n \in RaftObject PROVE Idle(n, Abort(n))
  BY DEF Abort, Idle, SameProgress, SameLog, SameCommit, NoNewVote, RaftObject

\* persist() makes no progress.
LEMMA PersistIdle ==
  ASSUME NEW n \in RaftObject
  PROVE  /\ Idle(n, Persist(n)) /\ Persist(n).status = n.status
         /\ Persist(n).currentTerm = n.currentTerm /\ Persist(n).threadPool = n.threadPool
  <1> DEFINE d == PersistData(n)
  <1>1. Persist(n) = [ n EXCEPT !.persister = d ]  BY DEF Persist
  <1> HIDE DEF d
  <1> QED BY <1>1 DEF Idle, SameProgress, SameLog, SameCommit, NoNewVote, RaftObject

\* Losing a role is no progress.
LEMMA LoseRoleIdle ==
  ASSUME NEW n \in RaftObject
  PROVE  Idle(n, LoseRole(n))
  <1> DEFINE k == [ n EXCEPT !.status = Follower, !.votesGranted = 0, !.preVotesGranted = 0,
                             !.currentTermCommitted = FALSE ]
  <1>1. k \in RaftObject  BY ZenonT(30) DEF RaftObject, Status
  <1>2. Idle(n, k)  BY DEF Idle, SameProgress, SameLog, SameCommit, NoNewVote, RaftObject
  <1>3. LoseRole(n) = FailAllPendingReadIndex(k)  BY DEF LoseRole
  <1> HIDE DEF k
  <1> QED BY <1>1, <1>2, <1>3, ReadsIdle, IdleTrans

\* Nor is following a newer term.
LEMMA ObserveIdle ==
  ASSUME NEW n, Sound(n), NEW term \in Nat
  PROVE  Idle(n, BecomeFollower(n, term)) /\ Idle(n, Observe(n, term))
  <1>0. n \in RaftObject  BY DEF Sound
  <1> DEFINE k == [ n EXCEPT !.currentTerm = term, !.votedFor = Nil ]
  <1>1. k \in RaftObject /\ Idle(n, k)
    BY ZenonT(30), <1>0 DEF RaftObject, Idle, SameProgress, SameLog, SameCommit, NoNewVote
  <1>2. EnterTerm(n, term) = Persist(k)  BY DEF EnterTerm
  <1> HIDE DEF k
  <1>3. EnterTerm(n, term) \in RaftObject /\ Idle(n, EnterTerm(n, term))
    BY <1>1, <1>2, PersistIdle, PersistEffect, IdleTrans
  <1>4. Idle(n, LoseRole(n)) /\ Idle(n, LoseRole(EnterTerm(n, term)))
    BY <1>0, <1>3, LoseRoleIdle, IdleTrans
  <1> QED BY <1>4, IdleRefl DEF BecomeFollower, Observe

\* Nor is stepping down.
LEMMA StepDownIdle ==
  ASSUME NEW n \in RaftObject
  PROVE  Idle(n, StepDown(n))
  <1> DEFINE none == [ p \in Server |-> FALSE ]
             k == [ n EXCEPT !.replicationPending = none, !.replicationInFlight = none ]
  <1>1. none \in [ Server -> BOOLEAN ]  OBVIOUS
  <1>2. StepDown(n) = LoseRole(k)  BY DEF StepDown
  <1> HIDE DEF none
  <1>3. k \in RaftObject /\ Idle(n, k)
    BY ZenonT(30), <1>1 DEF RaftObject, Idle, SameProgress, SameLog, SameCommit, NoNewVote
  <1> HIDE DEF k
  <1> QED BY <1>2, <1>3, LoseRoleIdle, IdleTrans

\* Members that no log depends on may change.
LEMMA SmallIdle ==
  ASSUME NEW n \in RaftObject, NEW q, NEW p, NEW u
  PROVE  /\ Idle(n, FollowLeader(n))
         /\ Idle(n, NotInFlight(n, p)) /\ Idle(n, TransportFailed(n, q))
         /\ Idle(n, BackUp(n, p, u)) /\ Idle(n, End(n, u))
  <1>1. Idle(n, FollowLeader(n))
    BY DEF FollowLeader, RaftObject, Idle, SameProgress, SameLog, SameCommit, NoNewVote
  <1>3. \A c : Idle(n, NotInFlight(n, c))
    BY DEF NotInFlight, RaftObject, Idle, SameProgress, SameLog, SameCommit, NoNewVote
  <1>4. Idle(n, TransportFailed(n, q))  BY <1>3, IdleRefl DEF TransportFailed
  <1>5. Idle(n, BackUp(n, p, u))
    <2>1. PICK f : BackUp(n, p, u) = [ n EXCEPT !.nextIndex = f ]
      BY DEF BackUp, RaftObject
    <2> QED BY <2>1 DEF RaftObject, Idle, SameProgress, SameLog, SameCommit, NoNewVote
  <1>6. Idle(n, End(n, u))
    BY DEF End, RaftObject, Idle, SameProgress, SameLog, SameCommit, NoNewVote
  <1> QED BY <1>1, <1>3, <1>4, <1>5, <1>6

\* Counting an acknowledged read is no progress.
LEMMA AcknowledgeReadIdle ==
  ASSUME NEW n \in RaftObject, n.activeRead \in PendingReadIndex, NEW p \in Server
  PROVE  Idle(n, AcknowledgeRead(n, p))
  <1> DEFINE read == [ n.activeRead EXCEPT !.acks = @ \cup {p} ]
             m == [ n EXCEPT !.activeRead = read ]
  <1>1. read \in PendingReadIndex  BY DEF PendingReadIndex
  <1>2. AcknowledgeRead(n, p) \in { m, CompleteActiveRead(m) }
    BY DEF AcknowledgeRead
  <1> HIDE DEF read
  <1>3. m \in RaftObject /\ Idle(n, m)
    BY <1>1 DEF RaftObject, Idle, SameProgress, SameLog, SameCommit, NoNewVote
  <1> HIDE DEF m
  <1> QED BY <1>2, <1>3, ReadsIdle, IdleTrans

\* Handing requests to the pool: m differs from n in its pool alone.
LEMMA SubmitSends ==
  ASSUME NEW n \in RaftObject, NEW Q, \A q \in Q : Built(n, q)
  PROVE  /\ Sends(n, Submit(n, Q)) /\ Submit(n, Q).status = n.status
         /\ Submit(n, Q).currentTerm = n.currentTerm
  <1> DEFINE new == { [ request |-> q, reply |-> Nil ] : q \in Q }
             pool == n.threadPool \cup new
             m == [ n EXCEPT !.threadPool = pool ]
  <1>1. Submit(n, Q) = m  BY DEF Submit, RaftObject
  <1> HIDE DEF pool
  <1>2. SameProgress(n, m) /\ m.status = n.status /\ m.currentTerm = n.currentTerm
        /\ m.threadPool = pool
    BY DEF RaftObject, SameProgress, SameLog, SameCommit, NoNewVote
  <1> HIDE DEF m
  <1>3. \A t \in pool \ n.threadPool : t.reply = Nil /\ t.request \in Q  BY DEF pool
  <1>4. \A q \in Q : Built(m, q)
    BY <1>2 DEF Built, SameProgress, SameLog, SameCommit, NoNewVote, IsLogIndex, GetLastLogIndex,
                GetLogTermFromIndex, GetSlicesIndexFromLogIndex, EntriesAfter
  <1> QED BY <1>1, <1>2, <1>3, <1>4 DEF Sends, CallsBuilt

\* A request that n builds, m builds, if they differ in nothing it says.
LEMMA SameBuilt ==
  ASSUME NEW n, NEW m, SameProgress(n, m), m.status = n.status, m.currentTerm = n.currentTerm,
         NEW q, Built(n, q)
  PROVE  Built(m, q)
  BY DEF Built, SameProgress, SameLog, SameCommit, NoNewVote, IsLogIndex, GetLastLogIndex,
         GetLogTermFromIndex, GetSlicesIndexFromLogIndex, EntriesAfter

\* scheduleHeartBeatReadIndex calls with read heartbeats of the round.
LEMMA ScheduleHeartBeatSends ==
  ASSUME NEW n \in RaftObject, n.status = Leader, NEW peers, NEW round \in Nat \ {0}
  PROVE  Sends(n, ScheduleHeartBeat(n, peers, round))
  <1> DEFINE idle == { p \in peers : ~n.replicationInFlight[p] }
             pending == [ p \in Server |-> IF p \in peers \ idle THEN round ELSE n.readIndexPending[p] ]
             inFlight == [ p \in Server |-> n.replicationInFlight[p] \/ p \in idle ]
             m == [ n EXCEPT !.readIndexPending = pending, !.replicationInFlight = inFlight ]
             Q == { ReadHeartBeat(n, p, round) : p \in idle }
  <1>1. CASE \E p \in idle : ~IsLogIndex(n, n.nextIndex[p] - 1)
    BY <1>1, AbortIdle, IdleSends DEF ScheduleHeartBeat
  <1>2. CASE ~\E p \in idle : ~IsLogIndex(n, n.nextIndex[p] - 1)
    <2>1. ScheduleHeartBeat(n, peers, round) = Submit(m, Q)
      BY <1>2 DEF ScheduleHeartBeat, RaftObject
    <2>2. \A q \in Q : Built(n, q)  BY DEF ReadHeartBeat, Built
    <2> HIDE DEF Q
    <2>3. m \in RaftObject
      <3>1. pending \in [ Server -> Nat ] /\ inFlight \in [ Server -> BOOLEAN ]
        BY FieldTypes
      <3> HIDE DEF pending, inFlight
      <3> QED BY ZenonT(30), <3>1 DEF RaftObject
    <2> HIDE DEF pending, inFlight
    <2>4. Idle(n, m) /\ m.status = n.status /\ m.currentTerm = n.currentTerm
      BY DEF RaftObject, Idle, SameProgress, SameLog, SameCommit, NoNewVote
    <2> HIDE DEF m
    <2>5. \A q \in Q : Built(m, q)  BY <2>2, <2>4, SameBuilt DEF Idle
    <2> QED BY <2>1, <2>3, <2>4, <2>5, SubmitSends, IdleTrans
  <1> QED BY <1>1, <1>2

\* trySchedulePendingReadHeartBeat calls with a read heartbeat of the active round.
LEMMA TrySchedulePendingReadHeartBeatSends ==
  ASSUME NEW n \in RaftObject, n.status = Leader, NEW p \in Server
  PROVE  Sends(n, TrySchedulePendingReadHeartBeat(n, p))
  <1> DEFINE round == n.readIndexPending[p]
             pending == [ n.readIndexPending EXCEPT ![p] = 0 ]
             m == [ n EXCEPT !.readIndexPending = pending ]
  <1>1. \/ TrySchedulePendingReadHeartBeat(n, p) \in { n, m }
        \/ /\ TrySchedulePendingReadHeartBeat(n, p) = ScheduleHeartBeat(m, {p}, round)
           /\ n.activeRead # Nil /\ n.activeRead.round = round
    BY DEF TrySchedulePendingReadHeartBeat
  <1>2. pending \in [ Server -> Nat ]  BY FieldTypes
  <1> HIDE DEF pending
  <1>3. m \in RaftObject /\ Idle(n, m) /\ m.status = Leader
    BY ZenonT(30), <1>2 DEF RaftObject, Idle, SameProgress, SameLog, SameCommit, NoNewVote
  <1> HIDE DEF m, round
  <1>4. ASSUME n.activeRead # Nil, n.activeRead.round = round  PROVE round \in Nat \ {0}
    BY <1>4, FieldTypes DEF PendingReadIndex
  <1>5. ASSUME round \in Nat \ {0}  PROVE Sends(n, ScheduleHeartBeat(m, {p}, round))
    BY <1>3, <1>5, ScheduleHeartBeatSends, IdleTrans
  <1> QED BY <1>1, <1>3, <1>4, <1>5, IdleRefl, IdleSends

\* scheduleReplication calls with the entries after nextIndex or with the snapshot.
LEMMA ScheduleReplicationSends ==
  ASSUME NEW n, Sound(n), NEW peers, peers \subseteq PeersOf(n.id)
  PROVE  /\ Sends(n, ScheduleReplication(n, peers))
         /\ ScheduleReplication(n, peers).status = n.status
         /\ ScheduleReplication(n, peers).currentTerm = n.currentTerm
  <1> DEFINE idle == { p \in peers : ~n.replicationInFlight[p] }
             pending == [ p \in Server |-> IF p \in peers THEN p \notin idle ELSE n.replicationPending[p] ]
             inFlight == [ p \in Server |-> n.replicationInFlight[p] \/ p \in idle ]
             m == [ n EXCEPT !.replicationPending = pending, !.replicationInFlight = inFlight ]
             Q == { IF n.nextIndex[p] <= n.lastIncludeSnapshotIndex
                      THEN BuildInstallSnapshot(n, p) ELSE BuildAppendEntries(n, p) : p \in idle }
  <1>0. n \in RaftObject  BY DEF Sound
  <1>1. CASE n.status # Leader
    BY <1>1, IdleRefl DEF ScheduleReplication
  <1>2. CASE n.status = Leader
    <2>1. ScheduleReplication(n, peers) = Submit(m, Q)
      BY <1>0, <1>2 DEF ScheduleReplication, RaftObject
    <2>2. ASSUME NEW p \in idle
          PROVE  /\ n.nextIndex[p] <= n.lastIncludeSnapshotIndex => Built(n, BuildInstallSnapshot(n, p))
                 /\ n.nextIndex[p] > n.lastIncludeSnapshotIndex => Built(n, BuildAppendEntries(n, p))
      <3>1. /\ p \in Server /\ n.nextIndex[p] \in Nat \ {0}
            /\ n.nextIndex[p] <= GetLastLogIndex(n) + 1
            /\ GetLastLogIndex(n) \in Nat /\ n.lastIncludeSnapshotIndex \in Nat
        BY <1>0, <1>2, FieldTypes, LogTypes DEF Sound, PeersOf
      <3>2. n.nextIndex[p] <= n.lastIncludeSnapshotIndex => Built(n, BuildInstallSnapshot(n, p))
        BY <1>2, <3>1 DEF Built, BuildInstallSnapshot
      <3>3. n.nextIndex[p] > n.lastIncludeSnapshotIndex => IsLogIndex(n, n.nextIndex[p] - 1)
        BY <3>1 DEF IsLogIndex
      <3>4. n.nextIndex[p] > n.lastIncludeSnapshotIndex => Built(n, BuildAppendEntries(n, p))
        BY <1>2, <3>3 DEF Built, BuildAppendEntries
      <3> QED BY <3>2, <3>4
    <2>3. \A p \in idle : n.nextIndex[p] \in Nat /\ n.lastIncludeSnapshotIndex \in Nat
      BY <1>0, FieldTypes DEF PeersOf
    <2>4. \A q \in Q : Built(n, q)  BY <2>2, <2>3
    <2>5. m \in RaftObject
      <3>1. pending \in [ Server -> BOOLEAN ] /\ inFlight \in [ Server -> BOOLEAN ]
        BY <1>0, FieldTypes
      <3> HIDE DEF pending, inFlight
      <3> QED BY <1>0, <3>1 DEF RaftObject
    <2> HIDE DEF Q, pending, inFlight
    <2>6. Idle(n, m) /\ m.status = n.status /\ m.currentTerm = n.currentTerm
      BY <1>0 DEF RaftObject, Idle, SameProgress, SameLog, SameCommit, NoNewVote
    <2> HIDE DEF m
    <2>7. \A q \in Q : Built(m, q)  BY <2>4, <2>6, SameBuilt DEF Idle
    <2> QED BY <2>1, <2>5, <2>6, <2>7, SubmitSends, IdleTrans
  <1> QED BY <1>1, <1>2

\* What follows an answer that is no refusal.
LEMMA ContinueWithSends ==
  ASSUME NEW n, Sound(n), n.status = Leader, NEW p \in PeersOf(n.id)
  PROVE  Sends(n, ContinueWith(n, p))
  BY ScheduleReplicationSends, TrySchedulePendingReadHeartBeatSends
  DEF ContinueWith, PeersOf, Sound

-----------------------------------------------------------------------------
(* Steps that make progress.                                               *)

\* The command at index i of n's log as the state machine is handed it.
Command(n, i) == [ snapshot |-> FALSE, index |-> i, term |-> GetLogTermFromIndex(n, i) ]

\* m has handed over what n has, then the commands up to its commit index.
HandsOver(n, m) ==
  m.applyQueue =
    n.applyQueue \o [ k \in 1 .. m.commitIndex - n.lastApplied |-> Command(m, n.lastApplied + k) ]

\* n commits up to m's commit index and hands the state machine the commands it has not had.
Applies(n, m) ==
  /\ m.id = n.id /\ SameLog(n, m) /\ m.matchIndex = n.matchIndex
  /\ m.threadPool = n.threadPool /\ m.status = n.status
  /\ m.currentTerm = n.currentTerm /\ m.votedFor = n.votedFor
  /\ m.lastApplied = Larger(n.lastApplied, m.commitIndex)
  /\ \A k \in 1 .. Len(m.applyQueue) :
       \/ k <= Len(n.applyQueue) /\ m.applyQueue[k] = n.applyQueue[k]
       \/ \E i \in n.lastApplied + 1 .. m.commitIndex : m.applyQueue[k] = Command(n, i)
  /\ HandsOver(n, m)

\* The leader n counts the peer p as holding its log up to i.
Credits(n, m, p, i) ==
  /\ m.id = n.id /\ SameLog(n, m) /\ SameCommit(n, m)
  /\ m.threadPool = n.threadPool /\ m.status = n.status
  /\ m.currentTerm = n.currentTerm /\ m.votedFor = n.votedFor
  /\ m.matchIndex = [ n.matchIndex EXCEPT ![p] = Larger(n.matchIndex[p], i) ]

\* applyCommitted after the commit index has changed.
LEMMA ApplyCommittedApplies ==
  ASSUME NEW n, Sound(n), NEW commit \in Nat, commit <= GetLastLogIndex(n),
         NEW k, k \in RaftObject,
         k = [ n EXCEPT !.commitIndex = commit, !.currentTermCommitted = k.currentTermCommitted ]
  PROVE  Applies(n, ApplyCommitted(k)) /\ ApplyCommitted(k).commitIndex = commit
  <1> DEFINE new == commit - n.lastApplied
             msgs == [ i \in 1 .. new |-> Command(n, n.lastApplied + i) ]
             applied == Larger(n.lastApplied, commit)
             queue == n.applyQueue \o msgs
             m == [ k EXCEPT !.lastApplied = applied, !.applyQueue = queue ]
  <1>0. /\ n \in RaftObject /\ n.lastApplied \in Nat /\ n.lastIncludeSnapshotIndex \in Nat
        /\ n.applyQueue \in Seq(ApplyMsg) /\ n.lastIncludeSnapshotIndex <= n.lastApplied
    BY FieldTypes DEF Sound
  <1>1. /\ k.commitIndex = commit /\ k.lastApplied = n.lastApplied /\ k.applyQueue = n.applyQueue
        /\ k.id = n.id /\ SameLog(n, k) /\ k.matchIndex = n.matchIndex
        /\ k.threadPool = n.threadPool /\ k.status = n.status
        /\ k.currentTerm = n.currentTerm /\ k.votedFor = n.votedFor
    BY ZenonT(30), <1>0 DEF RaftObject, SameLog
  <1>2. ApplyCommitted(k) = m
    BY <1>1 DEF ApplyCommitted, RaftObject, Command, SameLog, GetLogTermFromIndex,
                GetSlicesIndexFromLogIndex
  <1>3. \A i \in 1 .. new : msgs[i] \in ApplyMsg
    <2> SUFFICES ASSUME NEW i \in 1 .. new PROVE Command(n, n.lastApplied + i) \in ApplyMsg
      OBVIOUS
    <2>1. IsLogIndex(n, n.lastApplied + i) /\ n.lastApplied + i \in Nat
      BY <1>0, LogTypes DEF IsLogIndex
    <2>2. GetLogTermFromIndex(n, n.lastApplied + i) \in Nat
      BY <1>0, <2>1, LogTermType
    <2> QED BY <2>1, <2>2 DEF Command, ApplyMsg
  <1>4. msgs \in Seq(ApplyMsg) /\ DOMAIN msgs = 1 .. new
    <2>1. msgs = [ i \in 1 .. new |-> msgs[i] ] /\ new \in Int /\ DOMAIN msgs = 1 .. new
      BY <1>0
    <2> HIDE DEF msgs, new
    <2> QED BY <1>3, <2>1, SeqOfApplied
  <1>5. \A j \in 1 .. Len(queue) :
          \/ j <= Len(n.applyQueue) /\ queue[j] = n.applyQueue[j]
          \/ \E i \in n.lastApplied + 1 .. commit : queue[j] = Command(n, i)
    <2> SUFFICES ASSUME NEW j \in 1 .. Len(queue)
                 PROVE  \/ j <= Len(n.applyQueue) /\ queue[j] = n.applyQueue[j]
                        \/ \E i \in n.lastApplied + 1 .. commit : queue[j] = Command(n, i)
      OBVIOUS
    <2>1. /\ Len(n.applyQueue) \in Nat /\ Len(msgs) \in Nat /\ 1 .. Len(msgs) = 1 .. new
          /\ Len(queue) = Len(n.applyQueue) + Len(msgs)
          /\ j <= Len(n.applyQueue) => queue[j] = n.applyQueue[j]
          /\ j > Len(n.applyQueue) => queue[j] = msgs[j - Len(n.applyQueue)]
      <3> HIDE DEF msgs
      <3> QED BY <1>0, <1>4, LenProperties, ConcatProperties
    <2> DEFINE d == j - Len(n.applyQueue)
    <2>2. CASE j > Len(n.applyQueue)
      <3>1. d \in 1 .. Len(msgs)
        <4> HIDE DEF msgs
        <4> QED BY <2>1, <2>2
      <3>2. d \in 1 .. new  BY <2>1, <3>1
      <3>3. msgs[d] = Command(n, n.lastApplied + d)  BY <3>2
      <3>4. n.lastApplied + d \in n.lastApplied + 1 .. commit  BY SMTT(30), <1>0, <3>2
      <3>5. queue[j] = msgs[d]  BY <2>1, <2>2
      <3> HIDE DEF d, queue, msgs
      <3> QED BY <3>3, <3>4, <3>5
    <2> HIDE DEF d, queue, msgs, new
    <2> QED BY <2>1, <2>2
  <1> HIDE DEF queue, applied
  <1>6. /\ m.id = n.id /\ SameLog(n, m) /\ m.matchIndex = n.matchIndex
        /\ m.threadPool = n.threadPool /\ m.status = n.status
        /\ m.currentTerm = n.currentTerm /\ m.votedFor = n.votedFor
        /\ m.lastApplied = applied /\ m.applyQueue = queue /\ m.commitIndex = commit
    BY <1>1 DEF RaftObject, SameLog
  <1> HIDE DEF m
  <1>7. \A i : Command(m, i) = Command(n, i)
    BY <1>6 DEF Command, SameLog, GetLogTermFromIndex, GetSlicesIndexFromLogIndex
  <1>8. HandsOver(n, m)
    BY <1>6, <1>7 DEF HandsOver, queue
  <1> QED BY <1>2, <1>5, <1>6, <1>8 DEF Applies, applied

\* updateCommitIndex commits an entry of the term that a quorum is counted to hold.
LEMMA UpdateCommitIndexApplies ==
  ASSUME NEW n, Sound(n)
  PROVE  \/ UpdateCommitIndex(n) = n
         \/ /\ Applies(n, UpdateCommitIndex(n))
            /\ UpdateCommitIndex(n).commitIndex \in Committable(n)
  <1> DEFINE C == Committable(n)
             newest == CHOOSE i \in C : \A j \in C : j <= i
             m == [ n EXCEPT !.commitIndex = newest, !.currentTermCommitted = TRUE ]
  <1>0. n \in RaftObject /\ n.commitIndex \in Nat /\ GetLastLogIndex(n) \in Nat
    BY FieldTypes, LogTypes DEF Sound
  <1>1. CASE C = {}  BY <1>1 DEF UpdateCommitIndex
  <1>2. CASE C # {}
    <2>1. UpdateCommitIndex(n) = ApplyCommitted(m)  BY <1>2 DEF UpdateCommitIndex
    <2>2. C \subseteq 0 .. GetLastLogIndex(n)  BY <1>0 DEF Committable
    <2> HIDE DEF C
    <2>3. \E i \in C : \A j \in C : j <= i  BY <1>0, <1>2, <2>2, Largest
    <2>4. newest \in C  BY <2>3
    <2> HIDE DEF newest
    <2>5. newest \in Nat /\ newest <= GetLastLogIndex(n)  BY <1>0, <2>2, <2>4
    <2>6. m \in RaftObject /\ m.currentTermCommitted = TRUE
      BY ZenonT(30), <1>0, <2>5 DEF RaftObject
    <2>7. m = [ n EXCEPT !.commitIndex = newest, !.currentTermCommitted = m.currentTermCommitted ]
      BY <2>6
    <2> HIDE DEF m
    <2>8. Applies(n, ApplyCommitted(m)) /\ ApplyCommitted(m).commitIndex = newest
      BY <2>5, <2>6, <2>7, ApplyCommittedApplies
    <2> QED BY <2>1, <2>4, <2>8 DEF C
  <1> QED BY <1>1, <1>2

\* A follower's commit index follows the leader's as far as its log goes.
LEMMA LearnCommitIndexApplies ==
  ASSUME NEW n, Sound(n), NEW leaderCommit \in Nat
  PROVE  \/ LearnCommitIndex(n, leaderCommit) = n
         \/ /\ leaderCommit > n.commitIndex
            /\ Applies(n, LearnCommitIndex(n, leaderCommit))
            /\ LearnCommitIndex(n, leaderCommit).commitIndex = Smaller(GetLastLogIndex(n), leaderCommit)
  <1> DEFINE commit == Smaller(GetLastLogIndex(n), leaderCommit)
             k == [ n EXCEPT !.commitIndex = commit ]
  <1>0. n \in RaftObject /\ GetLastLogIndex(n) \in Nat  BY LogTypes DEF Sound
  <1>1. commit \in Nat /\ commit <= GetLastLogIndex(n)  BY <1>0 DEF Smaller
  <1>2. LearnCommitIndex(n, leaderCommit) = IF leaderCommit > n.commitIndex THEN ApplyCommitted(k) ELSE n
    BY DEF LearnCommitIndex
  <1> HIDE DEF commit
  <1>3. k \in RaftObject /\ k.currentTermCommitted = n.currentTermCommitted
    BY <1>0, <1>1 DEF RaftObject
  <1>4. k = [ n EXCEPT !.commitIndex = commit, !.currentTermCommitted = k.currentTermCommitted ]
    BY <1>0, <1>3 DEF RaftObject
  <1> HIDE DEF k
  <1>5. Applies(n, ApplyCommitted(k)) /\ ApplyCommitted(k).commitIndex = commit
    BY <1>1, <1>3, <1>4, ApplyCommittedApplies
  <1> QED BY <1>2, <1>5 DEF commit

\* Crediting an acknowledgement.
LEMMA AcknowledgeCredits ==
  ASSUME NEW n \in RaftObject, NEW p \in Server, NEW i
  PROVE  Credits(n, Acknowledge(n, p, i), p, i)
  <1> DEFINE match == Larger(n.matchIndex[p], i)
             nextIndex == [ n.nextIndex EXCEPT ![p] = match + 1 ]
             matchIndex == [ n.matchIndex EXCEPT ![p] = match ]
             m == [ n EXCEPT !.matchIndex = matchIndex, !.nextIndex = nextIndex ]
  <1>1. Acknowledge(n, p, i) = m
    BY FieldTypes DEF Acknowledge, RaftObject
  <1> HIDE DEF nextIndex, matchIndex
  <1>2. Credits(n, m, p, i) <=> matchIndex = [ n.matchIndex EXCEPT ![p] = Larger(n.matchIndex[p], i) ]
    BY DEF RaftObject, Credits, SameLog, SameCommit
  <1> QED BY <1>1, <1>2 DEF matchIndex

\* What start and becomeLeader do to the log: an entry of n's term at its end.
Appends(n, m) ==
  /\ m.id = n.id /\ SameCommit(n, m) /\ NoNewVote(n, m)
  /\ m.logs = Append(n.logs, n.currentTerm) /\ m.currentTerm = n.currentTerm
  /\ m.lastIncludeSnapshotIndex = n.lastIncludeSnapshotIndex
  /\ m.lastIncludeSnapshotTerm = n.lastIncludeSnapshotTerm
  /\ m.status = Leader

\* A leader's own entry.
LEMMA AppendOwnAppends ==
  ASSUME NEW n \in RaftObject, n.status = Leader
  PROVE  /\ Appends(n, AppendOwn(n)) /\ AppendOwn(n).matchIndex = n.matchIndex
         /\ AppendOwn(n).threadPool = n.threadPool
  <1> DEFINE logs == Append(n.logs, n.currentTerm)
             k == [ n EXCEPT !.logs = logs ]
  <1>1. AppendOwn(n) = Persist(k)  BY DEF AppendOwn, RaftObject
  <1>2. logs \in Seq(Nat)  BY FieldTypes, AppendProperties
  <1> HIDE DEF logs
  <1>3. /\ k \in RaftObject /\ k.id = n.id /\ SameCommit(n, k) /\ k.logs = logs
        /\ k.currentTerm = n.currentTerm /\ k.status = Leader /\ k.votedFor = n.votedFor
        /\ k.lastIncludeSnapshotIndex = n.lastIncludeSnapshotIndex
        /\ k.lastIncludeSnapshotTerm = n.lastIncludeSnapshotTerm
        /\ k.threadPool = n.threadPool /\ k.matchIndex = n.matchIndex
    BY <1>2 DEF RaftObject, SameCommit
  <1> HIDE DEF k
  <1>4. Idle(k, Persist(k)) /\ Persist(k).status = k.status /\ Persist(k).currentTerm = k.currentTerm
        /\ Persist(k).threadPool = k.threadPool
    BY <1>3, PersistIdle
  <1> DEFINE m == Persist(k)
  <1> HIDE DEF m
  <1>5. Idle(k, m) /\ m.status = k.status /\ m.currentTerm = k.currentTerm /\ m.threadPool = k.threadPool
    BY <1>4 DEF m
  <1>6. Appends(n, m) /\ m.matchIndex = n.matchIndex /\ m.threadPool = n.threadPool
    BY <1>3, <1>5 DEF Idle, SameProgress, SameLog, SameCommit, NoNewVote, Appends, logs
  <1> QED BY <1>1, <1>6 DEF m

\* Every call is made by n or is as m builds it, calls for votes included.
Asked(n, q) ==
  /\ q.kind = "RequestVote" /\ q.term = n.currentTerm
  /\ n.status = Candidate =>
       q.lastLogIndex = GetLastLogIndex(n) /\ q.lastLogTerm = GetLastLogTerm(n)

CallsMade(n, m) ==
  \A t \in m.threadPool \ n.threadPool :
    t.reply = Nil /\ (Built(m, t.request) \/ Asked(m, t.request))

\* A candidate that wins appends its no-op and replicates it.
LEMMA BecomeLeaderAppends ==
  ASSUME NEW n, Sound(n), n.status = Candidate
  PROVE  LET m == BecomeLeader(n)
         IN  /\ Appends(n, m) /\ CallsBuilt(n, m)
             /\ m.matchIndex = [ p \in Server |-> 0 ]
  <1> DEFINE k == ElectedLeader(n)
             a == AppendOwn(k)
             m == BecomeLeader(n)
  <1>1. m = ScheduleReplication(a, PeersOf(a.id))
    BY DEF BecomeLeader, ElectedLeader, ScheduleAllReplication
  <1>2. /\ Sound(k) /\ k.status = Leader /\ SameDisk(n, k) /\ k.id = n.id
        /\ k.threadPool = n.threadPool /\ SameCommit(n, k)
        /\ k.matchIndex = [ p \in Server |-> 0 ]
    BY ElectedLeaderSound DEF SameCommit
  <1> HIDE DEF k, m
  <1>3. /\ Sound(a) /\ Appends(k, a) /\ a.matchIndex = k.matchIndex
        /\ a.threadPool = k.threadPool
    BY <1>2, AppendOwnAppends, AppendOwnKeeps DEF Sound, Keeps
  <1> HIDE DEF a
  <1>4. Sends(a, m) /\ m.status = a.status /\ m.currentTerm = a.currentTerm
    BY <1>1, <1>3, ScheduleReplicationSends
  <1>5. Appends(n, m)
    BY <1>2, <1>3, <1>4 DEF Appends, Sends, SameProgress, SameLog, SameCommit, NoNewVote, SameDisk
  <1>6. CallsBuilt(n, m) /\ m.matchIndex = k.matchIndex
    BY <1>2, <1>3, <1>4 DEF Sends, SameProgress, CallsBuilt
  <1> QED BY <1>2, <1>5, <1>6 DEF m

\* n becomes a candidate of the next term, or in a cluster of one its leader.
Runs(n, m) ==
  /\ m.id = n.id /\ SameCommit(n, m) /\ m.votedFor \in { Nil, m.id }
  /\ CallsMade(n, m)
  /\ \/ SameLog(n, m) /\ m.status = Candidate /\ m.matchIndex = n.matchIndex
     \/ /\ QuorumSize <= 1 /\ m.matchIndex = [ p \in Server |-> 0 ]
        /\ \E k : /\ Appends(k, m) /\ SameLog(n, k) /\ k.currentTerm = n.currentTerm + 1
                   /\ k.votedFor = n.id

\* beginElection
LEMMA BeginElectionRuns ==
  ASSUME NEW n, Sound(n)
  PROVE  Runs(n, BeginElection(n))
  <1> DEFINE c == NewCandidate(n)
             a == Asking(n)
             m == BecomeLeader(a)
  <1>0. n \in RaftObject /\ n.id \in Server  BY FieldTypes DEF Sound
  <1>1. BeginElection(n) = IF QuorumSize <= 1 THEN m ELSE a
    BY <1>0 DEF BeginElection, Asking, NewCandidate, RaftObject
  <1>2. /\ Sound(a) /\ a.id = n.id /\ SameDisk(c, a)
        /\ a.status = Candidate /\ a.currentTerm = n.currentTerm + 1
        /\ a.votedFor = n.id /\ SameLog(n, a) /\ SameCommit(n, a)
        /\ a.matchIndex = n.matchIndex
        /\ \A t \in a.threadPool \ n.threadPool :
             \E p \in PeersOf(n.id) : t = Unanswered(RequestVote(c, p))
    BY AskingSound DEF SameLog, SameCommit
  <1> HIDE DEF c, a
  <1>3. \A p : /\ Unanswered(RequestVote(c, p)).reply = Nil
              /\ Asked(a, Unanswered(RequestVote(c, p)).request)
              /\ RequestVote(c, p).kind = "RequestVote"
              /\ RequestVote(c, p).term = n.currentTerm + 1
    BY <1>2 DEF Asked, RequestVote, Unanswered, SameDisk, GetLastLogIndex, GetLastLogTerm
  <1>4. CASE ~(QuorumSize <= 1)
    <2>1. CallsMade(n, a)  BY <1>2, <1>3 DEF CallsMade
    <2> QED BY <1>1, <1>2, <1>4, <2>1 DEF Runs
  <1>5. CASE QuorumSize <= 1
    <2>1. Appends(a, m) /\ CallsBuilt(a, m) /\ m.matchIndex = [ p \in Server |-> 0 ]
      BY <1>2, BecomeLeaderAppends
    <2> HIDE DEF m
    <2>2. m.status # Candidate /\ m.currentTerm = n.currentTerm + 1
      BY <1>2, <2>1 DEF Appends, Leader, Candidate
    <2>3. ASSUME NEW t \in m.threadPool \ n.threadPool
          PROVE  t.reply = Nil /\ (Built(m, t.request) \/ Asked(m, t.request))
      <3>1. CASE t \in a.threadPool
        <4>1. PICK p : t = Unanswered(RequestVote(c, p))  BY <1>2, <2>3, <3>1
        <4> QED BY <1>3, <2>2, <4>1 DEF Asked, Unanswered
      <3>2. CASE t \notin a.threadPool  BY <2>1, <2>3, <3>2 DEF CallsBuilt
      <3> QED BY <3>1, <3>2
    <2>4. SameCommit(n, m) /\ m.id = n.id /\ m.votedFor \in { Nil, m.id }
      BY <1>2, <2>1 DEF Appends, SameCommit, NoNewVote
    <2>5. CallsMade(n, m)  BY <2>3 DEF CallsMade
    <2> QED BY <1>1, <1>2, <1>5, <2>1, <2>4, <2>5 DEF Runs
  <1> QED BY <1>4, <1>5

-----------------------------------------------------------------------------
(* Handlers.                                                               *)

\* beginPreVote asks, or in a cluster of one runs at once.
LEMMA BeginPreVoteRuns ==
  ASSUME NEW n, Sound(n)
  PROVE  \/ Sends(n, BeginPreVote(n)) /\ NoNewLeader(n, BeginPreVote(n))
         \/ Runs(n, BeginPreVote(n))
  <1> DEFINE term == n.currentTerm + 1
             round == n.preVoteRound + 1
             m == [ n EXCEPT !.status = PreCandidate, !.preVoteTerm = term,
                             !.preVotesGranted = 1, !.preVoteRound = round ]
             Q == { PreVote(m, p) : p \in PeersOf(n.id) }
             asked == Submit(m, Q)
  <1>0. /\ n \in RaftObject /\ n.currentTerm \in Nat /\ term \in Nat /\ round \in Nat
        /\ n.id \in Server
    BY FieldTypes DEF Sound
  <1>1. BeginPreVote(n) = IF QuorumSize <= 1 THEN BeginElection(asked) ELSE asked
    BY <1>0 DEF BeginPreVote, RaftObject
  <1>2. CASE ~(QuorumSize <= 1)
    <2>1. \A q \in Q : Built(m, q)  BY DEF PreVote, Built, StreamKind
    <2> HIDE DEF Q, term, round
    <2>2. m \in RaftObject /\ Idle(n, m) /\ m.status = PreCandidate
      BY ZenonT(30), <1>0 DEF RaftObject, Status, Idle, SameProgress, SameLog, SameCommit, NoNewVote
    <2> HIDE DEF m
    <2>3. Sends(n, asked) /\ asked.status = PreCandidate
      BY <2>1, <2>2, SubmitSends, IdleTrans
    <2> QED BY <1>1, <1>2, <2>3 DEF NoNewLeader, PreCandidate, Leader
  <1>3. CASE QuorumSize <= 1
    <2>1. Sound(asked) /\ Sends(n, asked) /\ asked.currentTerm = n.currentTerm
      <3>1. \A q \in Q : Built(m, q) /\ SoundRequest(m, q) /\ q.kind # "RequestVote"
        <4> SUFFICES ASSUME NEW p \in PeersOf(n.id)
                     PROVE  /\ Built(m, PreVote(m, p)) /\ SoundRequest(m, PreVote(m, p))
                            /\ PreVote(m, p).kind # "RequestVote"
          OBVIOUS
        <4>1. m \in RaftObject /\ m.id = n.id /\ m.preVoteTerm = term /\ m.preVoteRound = round
          <5> HIDE DEF term, round
          <5> QED BY ZenonT(30), <1>0 DEF RaftObject, Status
        <4> DEFINE q == PreVote(m, p)
        <4> HIDE DEF m
        <4>2. /\ q.kind = "PreVote" /\ q.from = m.id /\ q.to = p /\ p \in Server /\ p # m.id
          BY <4>1, PeersFacts DEF PreVote, PeersOf
        <4>3. q \in PreVoteArgs
          BY <1>0, <4>1, <4>2, LogTypes DEF PreVote, PreVoteArgs
        <4>4. Unanswered(q) \in Task  BY <4>3 DEF Unanswered, Task
        <4> QED BY <4>2, <4>4 DEF SoundRequest, Built, StreamKind
      <3> HIDE DEF Q, term, round
      <3>2. /\ m \in RaftObject /\ Idle(n, m) /\ SameDisk(n, m) /\ m.persister = n.persister
            /\ m.threadPool = n.threadPool /\ m.status = PreCandidate
            /\ m.lastApplied = n.lastApplied /\ m.id = n.id
        BY ZenonT(30), <1>0 DEF RaftObject, Status, Idle, SameProgress, SameLog, SameCommit,
                                NoNewVote, SameDisk
      <3> HIDE DEF m
      <3>3. Keeps(n, m)  BY <3>2, NoRoleKeeps DEF PreCandidate, Candidate, Leader
      <3>4. Keeps(m, asked)  BY <3>1, <3>3, SubmitKeeps DEF Keeps
      <3>5. Sends(n, asked) /\ asked.currentTerm = m.currentTerm
        BY <3>1, <3>2, SubmitSends, IdleTrans
      <3> QED BY <3>2, <3>4, <3>5 DEF Keeps, SameDisk
    <2> DEFINE r == BeginElection(asked)
    <2>2. \A t \in asked.threadPool \ n.threadPool :
            t.reply = Nil /\ t.request.kind = "PreVote"
      <3>1. m.threadPool = n.threadPool /\ DOMAIN m = DOMAIN n
        <4> HIDE DEF term, round
        <4> QED BY <1>0 DEF RaftObject
      <3>2. \A p : PreVote(m, p).kind = "PreVote"  BY DEF PreVote
      <3>3. asked.threadPool = m.threadPool \cup { [ request |-> q, reply |-> Nil ] : q \in Q }
        <4> HIDE DEF m, Q
        <4> QED BY <1>0, <3>1 DEF Submit, RaftObject
      <3> HIDE DEF m, asked
      <3> QED BY <3>1, <3>2, <3>3
    <2> HIDE DEF asked
    <2>3. Runs(asked, r)  BY <2>1, BeginElectionRuns
    <2> HIDE DEF r
    <2>4. CallsMade(n, r)
      BY <2>2, <2>3 DEF CallsMade, Runs, Built, StreamKind
    <2>5. Runs(n, r)
      <3>1. SameCommit(n, r) /\ r.id = n.id /\ SameLog(n, asked) /\ asked.id = n.id
            /\ asked.matchIndex = n.matchIndex
        BY <2>1, <2>3 DEF Runs, Sends, SameProgress, SameCommit
      <3>2. CASE SameLog(asked, r) /\ r.status = Candidate /\ r.matchIndex = asked.matchIndex
        BY <2>3, <2>4, <3>1, <3>2 DEF Runs, SameLog
      <3>3. ASSUME NEW k, Appends(k, r), SameLog(asked, k),
                   k.currentTerm = asked.currentTerm + 1, k.votedFor = asked.id
            PROVE  /\ Appends(k, r) /\ SameLog(n, k) /\ k.currentTerm = n.currentTerm + 1
                   /\ k.votedFor = n.id
        BY <2>1, <3>1, <3>3 DEF SameLog
      <3> QED BY <2>3, <2>4, <3>1, <3>2, <3>3 DEF Runs
    <2> QED BY <1>1, <1>3, <2>5 DEF r
  <1> QED BY <1>2, <1>3

\* handlePreVoteReply
LEMMA HandlePreVoteReplyRuns ==
  ASSUME NEW n, Sound(n), NEW q, NEW reply \in VoteReply
  PROVE  LET h == HandlePreVoteReply(n, q, reply)
         IN  (Idle(n, h) /\ NoNewLeader(n, h)) \/ Runs(n, h)
  <1> DEFINE count == n.preVotesGranted + 1
             m == [ n EXCEPT !.preVotesGranted = count ]
             h == HandlePreVoteReply(n, q, reply)
  <1>0. n \in RaftObject /\ count \in Nat /\ reply.term \in Nat
    BY FieldTypes DEF Sound, VoteReply
  <1>1. h \in { BecomeFollower(n, reply.term), BeginElection(m), m, n }
    BY <1>0 DEF HandlePreVoteReply, RaftObject
  <1> HIDE DEF h, count
  <1>2. /\ m \in RaftObject /\ SameObject(n, m) /\ Idle(n, m) /\ m.currentTerm = n.currentTerm
        /\ m.threadPool = n.threadPool
    BY ZenonT(30), <1>0 DEF RaftObject, SameObject, SameDisk, SameRole, SamePeers,
                Idle, SameProgress, SameLog, SameCommit, NoNewVote
  <1> HIDE DEF m
  <1>3. Keeps(n, m) /\ Sound(m)  BY <1>2, SameKeeps DEF Keeps
  <1> DEFINE r == BeginElection(m)
  <1>4. Runs(m, r)  BY <1>3, BeginElectionRuns
  <1> HIDE DEF r
  <1>5. Runs(n, r)
    <2>1. SameLog(n, m) /\ SameCommit(n, m) /\ m.matchIndex = n.matchIndex /\ m.id = n.id
      BY <1>2 DEF Idle, SameProgress
    <2>2. SameCommit(n, r) /\ CallsMade(n, r) /\ r.id = n.id /\ r.votedFor \in { Nil, r.id }
      BY <1>2, <1>4, <2>1 DEF Runs, SameCommit, CallsMade
    <2>3. CASE SameLog(m, r) /\ r.status = Candidate /\ r.matchIndex = m.matchIndex
      BY <2>1, <2>2, <2>3 DEF Runs, SameLog
    <2>4. ASSUME NEW k, Appends(k, r), SameLog(m, k), k.currentTerm = m.currentTerm + 1,
                 k.votedFor = m.id
          PROVE  /\ Appends(k, r) /\ SameLog(n, k) /\ k.currentTerm = n.currentTerm + 1
                 /\ k.votedFor = n.id
      BY <1>2, <2>1, <2>4 DEF SameLog
    <2> QED BY <1>4, <2>2, <2>3, <2>4 DEF Runs
  <1>6. Idle(n, BecomeFollower(n, reply.term)) /\ Idle(n, n)
    BY <1>0, ObserveIdle, IdleRefl
  <1>7. Keeps(n, BecomeFollower(n, reply.term)) /\ Keeps(n, n)
    BY <1>0, BecomeFollowerKeeps, KeepsRefl
  <1>8. NoNewLeader(n, BecomeFollower(n, reply.term)) /\ NoNewLeader(n, n) /\ NoNewLeader(n, m)
    BY <1>3, <1>7 DEF Keeps, Quiet, NoNewLeader
  <1> QED BY <1>1, <1>2, <1>5, <1>6, <1>8 DEF h, r

\* handleVoteReply
LEMMA HandleVoteReplyAppends ==
  ASSUME NEW n, Sound(n), NEW q, NEW reply \in VoteReply
  PROVE  LET h == HandleVoteReply(n, q, reply)
         IN  \/ Idle(n, h) /\ NoNewLeader(n, h)
             \/ Appends(n, h) /\ CallsBuilt(n, h) /\ h.matchIndex = [ p \in Server |-> 0 ]
  <1> DEFINE count == n.votesGranted + 1
             m == [ n EXCEPT !.votesGranted = count ]
             h == HandleVoteReply(n, q, reply)
  <1>0. n \in RaftObject /\ count \in Nat /\ reply.term \in Nat
    BY FieldTypes DEF Sound, VoteReply
  <1>1. \/ h \in { BecomeFollower(n, reply.term), m, n }
        \/ n.status = Candidate /\ h = BecomeLeader(m)
    BY <1>0 DEF HandleVoteReply, RaftObject
  <1> HIDE DEF h, count
  <1>2. /\ m \in RaftObject /\ SameDisk(n, m) /\ Idle(n, m) /\ SamePeers(n, m)
        /\ m.persister = n.persister /\ m.threadPool = n.threadPool /\ m.status = n.status
    BY ZenonT(30), <1>0 DEF RaftObject, SameDisk, SamePeers,
                Idle, SameProgress, SameLog, SameCommit, NoNewVote
  <1> HIDE DEF m
  <1>3. Sound(m)
    BY <1>2 DEF Sound, SameDisk, SamePeers, Idle, SameProgress, SameCommit, GetLastLogIndex, PersistData
  <1> DEFINE w == BecomeLeader(m)
  <1>4. ASSUME n.status = Candidate
        PROVE  Appends(n, w) /\ CallsBuilt(n, w) /\ w.matchIndex = [ p \in Server |-> 0 ]
    <2>1. Appends(m, w) /\ CallsBuilt(m, w) /\ w.matchIndex = [ p \in Server |-> 0 ]
      BY <1>2, <1>3, <1>4, BecomeLeaderAppends
    <2> HIDE DEF w
    <2> QED BY <1>2, <2>1 DEF Appends, CallsBuilt, SameDisk, Idle, SameProgress, SameLog, SameCommit,
                              NoNewVote
  <1>5. Idle(n, BecomeFollower(n, reply.term)) /\ Idle(n, n)
    BY <1>0, ObserveIdle, IdleRefl
  <1>6. Keeps(n, BecomeFollower(n, reply.term)) /\ Keeps(n, n)
    BY <1>0, BecomeFollowerKeeps, KeepsRefl
  <1>7. NoNewLeader(n, BecomeFollower(n, reply.term)) /\ NoNewLeader(n, n) /\ NoNewLeader(n, m)
    BY <1>2, <1>6 DEF Keeps, Quiet, NoNewLeader, SameDisk
  <1> QED BY <1>1, <1>2, <1>4, <1>5, <1>7 DEF h, w

\* A leader credits the peer p with its log up to i, commits what that lets it
\* commit, and goes on replicating.
Advances(n, m, p, i) ==
  \E a, u \in RaftObject :
    /\ Sound(a) /\ n.status = Leader /\ Credits(n, a, p, i)
    /\ \/ u = a
       \/ Applies(a, u) /\ u.commitIndex \in Committable(a)
    /\ Sends(u, m)

\* The step neither changes the log nor gives a vote, and calls with what the log has.
LogStays(n, m) == m.id = n.id /\ SameLog(n, m) /\ NoNewVote(n, m) /\ CallsBuilt(n, m)

\* Idle steps, calls and credits are such steps.
LEMMA StepsLogStays ==
  ASSUME NEW n, NEW m
  PROVE  /\ Idle(n, m) => LogStays(n, m)
         /\ Sends(n, m) => LogStays(n, m)
         /\ \A p, i : Advances(n, m, p, i) => LogStays(n, m)
  <1>1. Idle(n, m) => Sends(n, m)  BY IdleSends
  <1>2. Sends(n, m) => LogStays(n, m)  BY DEF Sends, SameProgress, LogStays
  <1>3. ASSUME NEW p, NEW i, Advances(n, m, p, i)  PROVE LogStays(n, m)
    <2>1. PICK a, u \in RaftObject :
            /\ Credits(n, a, p, i)
            /\ u = a \/ Applies(a, u)
            /\ Sends(u, m)
      BY <1>3 DEF Advances
    <2>2. /\ u.id = n.id /\ SameLog(n, u) /\ u.threadPool = n.threadPool
          /\ u.currentTerm = n.currentTerm /\ u.votedFor = n.votedFor
      BY <2>1 DEF Credits, Applies, SameLog
    <2> QED BY <2>1, <2>2 DEF Sends, SameProgress, LogStays, SameLog, NoNewVote, CallsBuilt
  <1> QED BY <1>1, <1>2, <1>3

\* handleAppendReply: only a success that is no answer to a read heartbeat is progress.
LEMMA HandleAppendReplyAdvances ==
  ASSUME NEW n, Sound(n), NEW q \in AppendEntriesArgs \cup ReadHeartBeatArgs,
         q.to \in PeersOf(n.id), NEW reply \in AppendEntriesReply,
         LastEntryOf(q) \in Nat, StillLeads(n, q) => LastEntryOf(q) <= GetLastLogIndex(n)
  PROVE  LET h == HandleAppendReply(n, q, reply)
         IN  \/ Sends(n, h)
             \/ /\ StillLeads(n, q) /\ reply.term = n.currentTerm
                /\ reply.success /\ reply.readRound = 0
                /\ Advances(n, h, q.to, LastEntryOf(q))
  <1> DEFINE p == q.to
             m == NotInFlight(n, p)
             a == Acknowledge(m, p, LastEntryOf(q))
             u == UpdateCommitIndex(a)
             r == AcknowledgeRead(m, p)
             b == BackUp(m, p, reply.updateNextIndex)
             h == HandleAppendReply(n, q, reply)
  <1>0. /\ n \in RaftObject /\ n.currentTerm \in Nat /\ p \in Server /\ p \in PeersOf(n.id)
        /\ reply.term \in Nat /\ reply.updateNextIndex \in Int /\ reply.readRound \in Nat
        /\ reply.success \in BOOLEAN
    BY FieldTypes DEF Sound, AppendEntriesReply, PeersOf
  <1>1. Keeps(n, m) /\ SameObject(n, m) /\ Idle(n, m)  BY <1>0, NotInFlightKeeps, SmallIdle
  <1>2. \/ h = n
        \/ h = BecomeFollower(m, reply.term)
        \/ StillLeads(n, q) /\ h = ScheduleReplication(b, {p})
        \/ /\ StillLeads(n, q) /\ reply.term = n.currentTerm
           /\ reply.success /\ reply.readRound = 0
           /\ h = ContinueWith(u, p)
        \/ StillLeads(n, q) /\ m.activeRead # Nil /\ h = ContinueWith(r, p)
        \/ h = m
    BY <1>0 DEF HandleAppendReply
  <1> HIDE DEF m, h
  <1>3. /\ Sound(m) /\ m.id = n.id /\ m.status = n.status /\ m \in RaftObject
        /\ GetLastLogIndex(m) = GetLastLogIndex(n)
    BY <1>1 DEF Keeps, Sound, SameObject, SameDisk, SameRole, GetLastLogIndex
  <1>4. Sends(n, BecomeFollower(m, reply.term))
    BY <1>0, <1>1, <1>3, ObserveIdle, IdleTrans, IdleSends
  <1>5. Sends(n, ScheduleReplication(b, {p}))
    <2>1. Keeps(m, b) /\ b.id = n.id /\ Idle(m, b)  BY <1>0, <1>3, BackUpKeeps, SmallIdle
    <2> HIDE DEF b
    <2>2. Idle(n, b)  BY <1>1, <2>1, IdleTrans
    <2>3. Sends(b, ScheduleReplication(b, {p}))
      BY <1>0, <2>1, ScheduleReplicationSends DEF Keeps
    <2> QED BY <2>2, <2>3, IdleTrans
  <1>6. ASSUME StillLeads(n, q)  PROVE Advances(n, ContinueWith(u, p), p, LastEntryOf(q))
    <2> DEFINE i == LastEntryOf(q)
    <2>1. Keeps(m, a) /\ a.id = n.id /\ a.status = Leader /\ Credits(m, a, p, i)
      BY <1>0, <1>3, <1>6, AcknowledgeKeeps, AcknowledgeCredits DEF StillLeads, SameRole
    <2> HIDE DEF a, i
    <2>2. Sound(a) /\ a \in RaftObject  BY <2>1 DEF Keeps, Sound
    <2>3. Credits(n, a, p, i)
      <3>1. /\ m.threadPool = n.threadPool /\ m.status = n.status /\ m.currentTerm = n.currentTerm
            /\ m.votedFor = n.votedFor
        BY <1>1 DEF SameObject, SameDisk, SameRole
      <3> QED BY <1>1, <2>1, <3>1 DEF Idle, SameProgress, SameLog, SameCommit, Credits
    <2>4. Keeps(a, u) /\ u.status = Leader /\ u.id = n.id /\ u \in RaftObject
      BY <2>1, UpdateCommitIndexKeeps DEF Keeps, SameRole, Quiet, Sound
    <2>5. u = a \/ (Applies(a, u) /\ u.commitIndex \in Committable(a))
      BY <2>2, UpdateCommitIndexApplies
    <2> HIDE DEF u
    <2>6. Sends(u, ContinueWith(u, p))
      BY <1>0, <2>4, ContinueWithSends DEF Keeps
    <2> QED BY <1>6, <2>2, <2>3, <2>4, <2>5, <2>6 DEF Advances, StillLeads, i
  <1>7. ASSUME StillLeads(n, q), m.activeRead # Nil  PROVE Sends(n, ContinueWith(r, p))
    <2>1. /\ Keeps(m, r) /\ r.id = n.id /\ r.status = Leader
      BY <1>0, <1>3, <1>7, AcknowledgeReadKeeps DEF StillLeads, SameRole
    <2>2. Idle(n, r)
      <3>1. m.activeRead \in PendingReadIndex  BY <1>3, <1>7, FieldTypes
      <3> QED BY <1>0, <1>1, <1>3, <3>1, AcknowledgeReadIdle, IdleTrans
    <2> HIDE DEF r
    <2>3. Sends(r, ContinueWith(r, p))
      BY <1>0, <2>1, ContinueWithSends DEF Keeps
    <2> QED BY <2>2, <2>3, IdleTrans
  <1> HIDE DEF u, r, b, p
  <1>8. Sends(n, n) /\ Sends(n, m)  BY <1>1, IdleRefl, IdleSends
  <1>9. \/ Sends(n, h)
        \/ /\ StillLeads(n, q) /\ reply.term = n.currentTerm
           /\ reply.success /\ reply.readRound = 0 /\ Advances(n, h, p, LastEntryOf(q))
    BY <1>2, <1>4, <1>5, <1>6, <1>7, <1>8
  <1> QED BY <1>9 DEF h, p

\* handleSnapshotReply: the peer is credited with the snapshot that n has now.
LEMMA HandleSnapshotReplyAdvances ==
  ASSUME NEW n, Sound(n), NEW q, q.to \in PeersOf(n.id), NEW reply \in InstallSnapshotReply
  PROVE  LET h == HandleSnapshotReply(n, q, reply)
         IN  Sends(n, h) \/ Advances(n, h, q.to, n.lastIncludeSnapshotIndex)
  <1> DEFINE p == q.to
             i == n.lastIncludeSnapshotIndex
             m == NotInFlight(n, p)
             a == Acknowledge(m, p, i)
             h == HandleSnapshotReply(n, q, reply)
  <1>0. /\ n \in RaftObject /\ n.currentTerm \in Nat /\ p \in Server /\ p \in PeersOf(n.id)
        /\ reply.term \in Nat /\ n.lastIncludeSnapshotIndex \in Nat
        /\ n.lastIncludeSnapshotIndex <= GetLastLogIndex(n)
    BY FieldTypes, LogTypes DEF Sound, InstallSnapshotReply, PeersOf
  <1>1. Keeps(n, m) /\ SameObject(n, m) /\ Idle(n, m)  BY <1>0, NotInFlightKeeps, SmallIdle
  <1>2. \/ h \in { n, BecomeFollower(m, reply.term), m }
        \/ n.status = Leader /\ h \in { ScheduleReplication(a, {p}), a }
    BY <1>0 DEF HandleSnapshotReply, StillLeads
  <1> HIDE DEF m, h
  <1>3. Sound(m) /\ m.id = n.id /\ GetLastLogIndex(m) = GetLastLogIndex(n) /\ m \in RaftObject
    BY <1>1 DEF Keeps, Sound, SameObject, SameDisk, GetLastLogIndex
  <1>4. Sends(n, BecomeFollower(m, reply.term))
    BY <1>0, <1>1, <1>3, ObserveIdle, IdleTrans, IdleSends
  <1>5. Keeps(m, a) /\ a.id = n.id /\ Credits(m, a, p, i)
    BY <1>0, <1>3, AcknowledgeKeeps, AcknowledgeCredits
  <1> HIDE DEF a, i
  <1>6. Sound(a) /\ a \in RaftObject  BY <1>5 DEF Keeps, Sound
  <1>7. Credits(n, a, p, i)
    <2>1. /\ m.threadPool = n.threadPool /\ m.status = n.status /\ m.currentTerm = n.currentTerm
          /\ m.votedFor = n.votedFor
      BY <1>1 DEF SameObject, SameDisk, SameRole
    <2> QED BY <1>1, <1>5, <2>1 DEF Idle, SameProgress, SameLog, SameCommit, Credits
  <1>8. Sends(a, a) /\ Sends(a, ScheduleReplication(a, {p}))
    BY <1>0, <1>5, <1>6, ScheduleReplicationSends, IdleRefl
  <1>9. n.status = Leader =>
          Advances(n, a, p, i) /\ Advances(n, ScheduleReplication(a, {p}), p, i)
    BY <1>6, <1>7, <1>8 DEF Advances
  <1> HIDE DEF p
  <1>10. Sends(n, n) /\ Sends(n, m)  BY <1>1, IdleRefl, IdleSends
  <1> QED BY <1>2, <1>4, <1>9, <1>10 DEF h, p, i

\* start: the command's entry, what it commits, its replication.
Starts(n, m) ==
  \E a, u \in RaftObject :
    /\ Sound(a) /\ n.status = Leader /\ Appends(n, a)
    /\ a.matchIndex = n.matchIndex /\ a.threadPool = n.threadPool
    /\ \/ u = a
       \/ Applies(a, u) /\ u.commitIndex \in Committable(a)
    /\ Sends(u, m) /\ m.status = Leader /\ m.currentTerm = n.currentTerm

\* start() on a leader.
LEMMA StartStarts ==
  ASSUME NEW n, Sound(n), n.status = Leader
  PROVE  Starts(n, ScheduleAllReplication(UpdateCommitIndex(AppendOwn(n))))
  <1> DEFINE a == AppendOwn(n)
             u == UpdateCommitIndex(a)
             m == ScheduleReplication(u, PeersOf(u.id))
  <1>1. /\ Sound(a) /\ a \in RaftObject /\ Appends(n, a)
        /\ a.matchIndex = n.matchIndex /\ a.threadPool = n.threadPool
    BY AppendOwnAppends, AppendOwnKeeps DEF Keeps, Sound
  <1> HIDE DEF a
  <1>2. /\ Sound(u) /\ u \in RaftObject /\ u.status = a.status /\ u.currentTerm = a.currentTerm
        /\ u = a \/ (Applies(a, u) /\ u.commitIndex \in Committable(a))
    BY <1>1, UpdateCommitIndexKeeps, UpdateCommitIndexApplies DEF Keeps, Sound, SameRole, SameDisk
  <1> HIDE DEF u
  <1>3. Sends(u, m) /\ m.status = u.status /\ m.currentTerm = u.currentTerm
    BY <1>2, ScheduleReplicationSends
  <1> HIDE DEF m
  <1>4. Starts(n, m)  BY <1>1, <1>2, <1>3 DEF Starts, Appends
  <1> QED BY <1>4 DEF m, u, a, ScheduleAllReplication

\* readIndex that opens a round.
LEMMA OpenReadSends ==
  ASSUME NEW n, Sound(n), MayOpenRead(n), NEW round \in Nat \ {0}
  PROVE  Sends(n, OpenRead(n, round))
  <1> DEFINE read == [ round |-> round, term |-> n.currentTerm,
                       readIndex |-> n.commitIndex, acks |-> {n.id} ]
             m == [ n EXCEPT !.activeRead = read ]
  <1>0. n \in RaftObject /\ n.status = Leader  BY DEF Sound, MayOpenRead
  <1>1. OpenRead(n, round) = ScheduleHeartBeat(m, PeersOf(n.id), round)
    BY DEF OpenRead
  <1>2. read \in PendingReadIndex  BY <1>0, FieldTypes DEF PendingReadIndex
  <1> HIDE DEF read
  <1>3. m \in RaftObject /\ Idle(n, m) /\ m.status = Leader
    BY ZenonT(30), <1>0, <1>2 DEF RaftObject, Idle, SameProgress, SameLog, SameCommit, NoNewVote
  <1> HIDE DEF m
  <1> QED BY <1>1, <1>3, ScheduleHeartBeatSends, IdleTrans

-----------------------------------------------------------------------------
(* Requests handled.                                                       *)

\* n gives its vote to the sender of q, whose log is up to date enough.
GivesVote(n, m, q) ==
  /\ m.id = n.id /\ SameLog(n, m) /\ SameCommit(n, m) /\ m.matchIndex = n.matchIndex
  /\ m.threadPool \subseteq n.threadPool
  /\ m.votedFor = q.from /\ m.currentTerm = q.term
  /\ WhetherVoteFor(n, q.lastLogIndex, q.lastLogTerm)

\* n follows the sender of q and makes no call.
Follows(n, m, q) ==
  /\ m.id = n.id /\ NoNewVote(n, m) /\ m.matchIndex = n.matchIndex
  /\ m.threadPool \subseteq n.threadPool
  /\ m.status = Follower /\ m.currentTerm = q.term

\* n commits up to where the leader has, as far as its log goes.
Learns(n, m, leaderCommit) ==
  \/ SameCommit(n, m)
  \/ /\ leaderCommit > n.commitIndex
     /\ m.commitIndex = Smaller(GetLastLogIndex(m), leaderCommit)
     /\ m.lastApplied = Larger(n.lastApplied, m.commitIndex)
     /\ \A k \in 1 .. Len(m.applyQueue) :
          \/ k <= Len(n.applyQueue) /\ m.applyQueue[k] = n.applyQueue[k]
          \/ \E i \in n.lastApplied + 1 .. m.commitIndex : m.applyQueue[k] = Command(m, i)
     /\ HandsOver(n, m)

\* n takes over the entries of q where they contradict its log or lie beyond it.
Stores(n, m, q) ==
  /\ Follows(n, m, q) /\ MatchLog(n, q.prevLogIndex, q.prevLogTerm)
  /\ m.lastIncludeSnapshotIndex = n.lastIncludeSnapshotIndex
  /\ m.lastIncludeSnapshotTerm = n.lastIncludeSnapshotTerm
  /\ m.logs = IF ExtendsLog(n, q.prevLogIndex, q.entries)
                THEN MergeEntries(n, q.prevLogIndex, q.entries) ELSE n.logs
  /\ Learns(n, m, q.leaderCommit)

\* n replaces the beginning of its log, or all of it, with the snapshot of q.
Installs(n, m, q) ==
  LET index == q.lastSnapshotIncludeIndex
      term  == q.lastSnapshotIncludeTerm
  IN  /\ Follows(n, m, q) /\ index > n.lastIncludeSnapshotIndex
      /\ m.logs = LogAfterSnapshot(n, index, term)
      /\ m.lastIncludeSnapshotIndex = index /\ m.lastIncludeSnapshotTerm = term
      /\ m.commitIndex = Larger(n.commitIndex, index)
      /\ m.lastApplied = Larger(n.lastApplied, index)
      /\ m.applyQueue = Append(n.applyQueue, [ snapshot |-> TRUE, index |-> index, term |-> term ])

\* n replaces the beginning of its log, up to i, with a snapshot.
Compacts(n, m, i) ==
  /\ m.id = n.id /\ m.currentTerm = n.currentTerm /\ m.votedFor = n.votedFor
  /\ m.status = n.status /\ m.threadPool = n.threadPool /\ m.matchIndex = n.matchIndex
  /\ IsLogIndex(n, i) /\ m.logs = EntriesAfter(n, i)
  /\ m.lastIncludeSnapshotIndex = i /\ m.lastIncludeSnapshotTerm = GetLogTermFromIndex(n, i)
  /\ m.commitIndex = n.commitIndex /\ m.applyQueue = n.applyQueue
  /\ m.lastApplied = Larger(n.lastApplied, i)

\* m is n after a restart.
Restarts(n, m) ==
  /\ m.id = n.id /\ SameLog(n, m) /\ m.currentTerm = n.currentTerm /\ m.votedFor = n.votedFor
  /\ m.status = Follower /\ m.threadPool = {} /\ m.applyQueue = << >>
  /\ m.commitIndex = n.lastIncludeSnapshotIndex /\ m.lastApplied = n.lastIncludeSnapshotIndex

\* An object after an idle step stands for the one before it.
LEMMA IdleLog ==
  ASSUME NEW n, NEW k, SameLog(n, k)
  PROVE  /\ GetLastLogIndex(k) = GetLastLogIndex(n) /\ GetLastLogTerm(k) = GetLastLogTerm(n)
         /\ \A i : /\ GetLogTermFromIndex(k, i) = GetLogTermFromIndex(n, i)
                   /\ IsLogIndex(k, i) = IsLogIndex(n, i)
                   /\ EntriesAfter(k, i) = EntriesAfter(n, i)
         /\ \A i, t : MatchLog(k, i, t) = MatchLog(n, i, t)
         /\ \A i, t : WhetherVoteFor(k, i, t) = WhetherVoteFor(n, i, t)
         /\ \A i, es : /\ MergeEntries(k, i, es) = MergeEntries(n, i, es)
                       /\ ExtendsLog(k, i, es) = ExtendsLog(n, i, es)
         /\ \A i, t : LogAfterSnapshot(k, i, t) = LogAfterSnapshot(n, i, t)
  BY DEF SameLog, GetLastLogIndex, GetLastLogTerm, GetLogTermFromIndex, IsLogIndex, EntriesAfter,
         MatchLog, WhetherVoteFor, MergeEntries, ExtendsLog, LogAfterSnapshot, EntriesUpTo,
         GetSlicesIndexFromLogIndex

\* handleRequestVote
LEMMA HandleRequestVoteGives ==
  ASSUME NEW n, Sound(n), NEW q \in RequestVoteArgs
  PROVE  LET h == HandleRequestVote(n, q)
         IN  Idle(n, h.object) \/ GivesVote(n, h.object, q)
  <1> DEFINE k == Observe(n, q.term)
             v == [ k EXCEPT !.votedFor = q.from ]
             h == HandleRequestVote(n, q)
  <1>1. Idle(n, k) /\ k \in RaftObject
    BY ObserveIdle, ObserveKeeps DEF RequestVoteArgs, Keeps, Sound
  <1>2. h.object = IF GrantsVote(k, q) THEN Persist(v) ELSE k
    BY DEF HandleRequestVote, Handled, CastVote
  <1> HIDE DEF k, h
  <1>3. ASSUME GrantsVote(k, q)  PROVE GivesVote(n, Persist(v), q)
    <2>1. q.from \in Server  BY DEF RequestVoteArgs
    <2>2. /\ v \in RaftObject /\ v.id = k.id /\ SameLog(k, v) /\ SameCommit(k, v)
          /\ v.matchIndex = k.matchIndex /\ v.threadPool = k.threadPool
          /\ v.votedFor = q.from /\ v.currentTerm = k.currentTerm
      BY <1>1, <2>1 DEF RaftObject, SameLog, SameCommit
    <2> HIDE DEF v
    <2>3. Idle(v, Persist(v)) /\ Persist(v).currentTerm = v.currentTerm
          /\ Persist(v).threadPool = v.threadPool /\ Persist(v).votedFor = v.votedFor
      BY <2>2, PersistIdle, PersistEffect DEF SameDisk
    <2>4. q.term = k.currentTerm /\ WhetherVoteFor(k, q.lastLogIndex, q.lastLogTerm)
      BY <1>3 DEF GrantsVote
    <2>5. SameLog(n, k)  BY <1>1 DEF Idle, SameProgress
    <2>6. WhetherVoteFor(n, q.lastLogIndex, q.lastLogTerm)  BY <2>4, <2>5, IdleLog
    <2> QED BY <1>1, <2>2, <2>3, <2>4, <2>6 DEF GivesVote, Idle, SameProgress, SameLog, SameCommit
  <1> QED BY <1>1, <1>2, <1>3 DEF h

\* What following the sender of a request of n's term comes to.
LEMMA FollowsSender ==
  ASSUME NEW n, Sound(n), NEW term \in Nat
  PROVE  LET k == Observe(n, term)
             f == FollowLeader(k)
         IN  /\ Idle(n, k) /\ Idle(n, f) /\ Sound(f) /\ f \in RaftObject
             /\ f.status = Follower /\ f.currentTerm = k.currentTerm
  <1> DEFINE k == Observe(n, term)
             f == FollowLeader(k)
  <1>1. Idle(n, k) /\ Sound(k) /\ k \in RaftObject
    BY ObserveIdle, ObserveKeeps DEF Keeps, Sound
  <1> HIDE DEF k
  <1>2. /\ Idle(k, f) /\ Sound(f) /\ f \in RaftObject
        /\ f.status = Follower /\ f.currentTerm = k.currentTerm
    BY <1>1, SmallIdle, FollowLeaderKeeps DEF Keeps, Sound
  <1> HIDE DEF f
  <1> QED BY <1>1, <1>2, IdleTrans DEF k, f

\* handleReadHeartBeat
LEMMA HandleReadHeartBeatIdle ==
  ASSUME NEW n, Sound(n), NEW q \in ReadHeartBeatArgs
  PROVE  LET h == HandleReadHeartBeat(n, q)
         IN  /\ Idle(n, h.object) /\ h.reply.readRound = q.readRound
             /\ h.reply.success => h.object.currentTerm = q.term
  <1> DEFINE k == Observe(n, q.term)
             h == HandleReadHeartBeat(n, q)
  <1>1. /\ Idle(n, k) /\ Idle(n, FollowLeader(k)) /\ FollowLeader(k).currentTerm = k.currentTerm
    BY FollowsSender DEF ReadHeartBeatArgs
  <1>2. /\ h.object = IF q.term = k.currentTerm THEN FollowLeader(k) ELSE k
        /\ h.reply.readRound = q.readRound
        /\ h.reply.success = (q.term = k.currentTerm)
    BY DEF HandleReadHeartBeat, Handled
  <1> HIDE DEF k, h
  <1> QED BY <1>1, <1>2 DEF h

\* handleAppendEntries: only what it answers with success changes the log.
LEMMA HandleAppendEntriesStores ==
  ASSUME NEW n, Sound(n), NEW q \in AppendEntriesArgs
  PROVE  LET h == HandleAppendEntries(n, q)
         IN  /\ h.reply.readRound = 0
             /\ \/ Idle(n, h.object) /\ ~h.reply.success
                \/ Stores(n, h.object, q) /\ h.reply.success
  <1> DEFINE k == Observe(n, q.term)
             f == FollowLeader(k)
             logs == MergeEntries(f, q.prevLogIndex, q.entries)
             l == [ f EXCEPT !.logs = logs ]
             s == StoreEntries(f, q)
             m == LearnCommitIndex(s, q.leaderCommit)
             h == HandleAppendEntries(n, q)
  <1>0. q.term \in Nat /\ q.leaderCommit \in Nat /\ q.prevLogIndex \in Nat /\ q.entries \in Seq(Nat)
    BY DEF AppendEntriesArgs
  <1>1. /\ Idle(n, k) /\ Idle(n, f) /\ Sound(f) /\ f \in RaftObject
        /\ f.status = Follower /\ f.currentTerm = k.currentTerm
        /\ n.currentTerm \in Nat /\ k.currentTerm = Larger(q.term, n.currentTerm)
    <2>1. n.currentTerm \in Nat  BY FieldTypes DEF Sound
    <2>2. k.currentTerm = Larger(q.term, n.currentTerm)  BY <1>0, ObserveKeeps
    <2> QED BY <1>0, <2>1, <2>2, FollowsSender
  <1>2. /\ h.reply.readRound = 0
        /\ \/ h.object \in { k, f } /\ ~h.reply.success
           \/ /\ q.term = k.currentTerm /\ MatchLog(f, q.prevLogIndex, q.prevLogTerm)
              /\ h.object = m /\ h.reply.success
    <2>1. \/ q.term < k.currentTerm
          \/ q.term = k.currentTerm /\ ~MatchLog(f, q.prevLogIndex, q.prevLogTerm)
          \/ q.term = k.currentTerm /\ MatchLog(f, q.prevLogIndex, q.prevLogTerm)
      BY <1>0, <1>1 DEF Larger
    <2>2. CASE q.term < k.currentTerm
      BY <1>0, <1>1, <2>2 DEF HandleAppendEntries, Handled
    <2>3. CASE q.term = k.currentTerm /\ ~MatchLog(f, q.prevLogIndex, q.prevLogTerm)
      BY <1>0, <1>1, <2>3 DEF HandleAppendEntries, Handled
    <2>4. CASE q.term = k.currentTerm /\ MatchLog(f, q.prevLogIndex, q.prevLogTerm)
      BY <1>0, <1>1, <2>4 DEF HandleAppendEntries, Handled, Accept
    <2> QED BY <2>1, <2>2, <2>3, <2>4
  <1> HIDE DEF k, f, h
  <1>3. ASSUME q.term = k.currentTerm, MatchLog(f, q.prevLogIndex, q.prevLogTerm)
        PROVE  Stores(n, m, q)
    <2>1. Sound(s) /\ s \in RaftObject
      BY <1>1, <1>3, StoreEntriesKeeps DEF Keeps, Sound, MatchLog
    <2>2. /\ s.id = f.id /\ s.currentTerm = f.currentTerm /\ s.votedFor = f.votedFor
          /\ s.threadPool = f.threadPool /\ s.matchIndex = f.matchIndex /\ s.status = f.status
          /\ SameCommit(f, s)
          /\ s.lastIncludeSnapshotIndex = f.lastIncludeSnapshotIndex
          /\ s.lastIncludeSnapshotTerm = f.lastIncludeSnapshotTerm
          /\ s.logs = IF ExtendsLog(f, q.prevLogIndex, q.entries) THEN logs ELSE f.logs
      <3>1. CASE ~ExtendsLog(f, q.prevLogIndex, q.entries)
        BY <3>1 DEF StoreEntries, SameCommit
      <3>2. CASE ExtendsLog(f, q.prevLogIndex, q.entries)
        <4>1. s = Persist(l)  BY <3>2 DEF StoreEntries
        <4>2. logs \in Seq(Nat)
          BY <1>0, <1>1, <1>3, EntriesTypes, ConcatProperties DEF MergeEntries, MatchLog
        <4> HIDE DEF s, logs
        <4>3. /\ l \in RaftObject /\ l.logs = logs
              /\ l.id = f.id /\ l.currentTerm = f.currentTerm /\ l.votedFor = f.votedFor
              /\ l.threadPool = f.threadPool /\ l.matchIndex = f.matchIndex /\ l.status = f.status
              /\ SameCommit(f, l)
              /\ l.lastIncludeSnapshotIndex = f.lastIncludeSnapshotIndex
              /\ l.lastIncludeSnapshotTerm = f.lastIncludeSnapshotTerm
          BY <1>1, <4>2 DEF RaftObject, SameCommit
        <4> HIDE DEF l
        <4>4. /\ Idle(l, s) /\ s.status = l.status /\ s.currentTerm = l.currentTerm
              /\ s.threadPool = l.threadPool /\ s.votedFor = l.votedFor
          BY <4>1, <4>3, PersistIdle, PersistEffect DEF SameDisk
        <4> QED BY <3>2, <4>3, <4>4 DEF Idle, SameProgress, SameCommit, SameLog
      <3> QED BY <3>1, <3>2
    <2> HIDE DEF s
    <2>3. \/ m = s
          \/ /\ q.leaderCommit > s.commitIndex
             /\ Applies(s, m) /\ m.commitIndex = Smaller(GetLastLogIndex(s), q.leaderCommit)
      BY <1>0, <2>1, LearnCommitIndexApplies
    <2> HIDE DEF m, logs
    <2>4. /\ m.id = s.id /\ m.currentTerm = s.currentTerm /\ m.votedFor = s.votedFor
          /\ m.threadPool = s.threadPool /\ m.matchIndex = s.matchIndex /\ m.status = s.status
          /\ SameLog(s, m)
      BY <2>3 DEF Applies, SameLog
    <2>5. /\ m.id = n.id /\ NoNewVote(n, m) /\ m.matchIndex = n.matchIndex
          /\ m.threadPool \subseteq n.threadPool /\ m.status = Follower /\ m.currentTerm = q.term
      BY <1>1, <1>3, <2>2, <2>4 DEF Idle, SameProgress, NoNewVote
    <2>6. /\ m.lastIncludeSnapshotIndex = n.lastIncludeSnapshotIndex
          /\ m.lastIncludeSnapshotTerm = n.lastIncludeSnapshotTerm
      BY <1>1, <2>2, <2>4 DEF Idle, SameProgress, SameLog
    <2>7. SameLog(n, f)  BY <1>1 DEF Idle, SameProgress
    <2>8. /\ MatchLog(n, q.prevLogIndex, q.prevLogTerm)
          /\ m.logs = IF ExtendsLog(n, q.prevLogIndex, q.entries)
                        THEN MergeEntries(n, q.prevLogIndex, q.entries) ELSE n.logs
      <3>1. f.logs = n.logs  BY <2>7 DEF SameLog
      <3>2. m.logs = s.logs  BY <2>4 DEF SameLog
      <3> QED BY <1>3, <2>2, <2>7, <3>1, <3>2, IdleLog DEF logs
    <2>9. Learns(n, m, q.leaderCommit)
      <3>1. SameCommit(n, s)  BY <1>1, <2>2 DEF Idle, SameProgress, SameCommit
      <3>2. \A i : Command(m, i) = Command(s, i)  BY <2>4, IdleLog DEF Command
      <3>3. GetLastLogIndex(m) = GetLastLogIndex(s)  BY <2>4, IdleLog
      <3>4. CASE m = s  BY <3>1, <3>4 DEF Learns
      <3>5. CASE /\ q.leaderCommit > s.commitIndex
                 /\ Applies(s, m) /\ m.commitIndex = Smaller(GetLastLogIndex(s), q.leaderCommit)
        <4>1. HandsOver(n, m)  BY <3>1, <3>5 DEF Applies, HandsOver, SameCommit
        <4> QED BY <3>1, <3>2, <3>3, <3>5, <4>1 DEF Learns, Applies, SameCommit
      <3> QED BY <2>3, <3>4, <3>5
    <2> QED BY <2>5, <2>6, <2>8, <2>9 DEF Stores, Follows
  <1> HIDE DEF m
  <1> QED BY <1>1, <1>2, <1>3 DEF h

\* handleInstallSnapshot
LEMMA HandleInstallSnapshotInstalls ==
  ASSUME NEW n, Sound(n), NEW q \in InstallSnapshotArgs
  PROVE  LET h == HandleInstallSnapshot(n, q)
         IN  Idle(n, h.object) \/ Installs(n, h.object, q)
  <1> DEFINE k == Observe(n, q.term)
             f == FollowLeader(k)
             index == q.lastSnapshotIncludeIndex
             term == q.lastSnapshotIncludeTerm
             logs == LogAfterSnapshot(f, index, term)
             commit == Larger(f.commitIndex, index)
             applied == Larger(f.lastApplied, index)
             l == [ f EXCEPT !.logs = logs, !.lastIncludeSnapshotIndex = index,
                             !.lastIncludeSnapshotTerm = term,
                             !.commitIndex = commit, !.lastApplied = applied ]
             p == Persist(l)
             queue == Append(p.applyQueue, [ snapshot |-> TRUE, index |-> index, term |-> term ])
             m == [ p EXCEPT !.applyQueue = queue ]
             h == HandleInstallSnapshot(n, q)
  <1>0. q.term \in Nat /\ index \in Nat /\ term \in Nat  BY DEF InstallSnapshotArgs
  <1>1. /\ Idle(n, k) /\ Idle(n, f) /\ f \in RaftObject
        /\ f.status = Follower /\ f.currentTerm = k.currentTerm
        /\ k.currentTerm \in Nat /\ k.lastIncludeSnapshotIndex = f.lastIncludeSnapshotIndex
    <2>1. Sound(k) /\ k \in RaftObject  BY <1>0, ObserveKeeps DEF Keeps, Sound
    <2>2. Idle(n, k) /\ Idle(n, f)  BY <1>0, FollowsSender
    <2>3. k.lastIncludeSnapshotIndex = f.lastIncludeSnapshotIndex
      BY <2>2 DEF Idle, SameProgress, SameLog
    <2> QED BY <1>0, <2>1, <2>2, <2>3, FollowsSender, FieldTypes
  <1>2. \/ h.object \in { k, f }
        \/ /\ q.term = k.currentTerm /\ index > k.lastIncludeSnapshotIndex
           /\ h.object = InstallNewer(f, index, term)
    BY <1>0, <1>1 DEF HandleInstallSnapshot, Handled
  <1> HIDE DEF k, f, h
  <1>3. InstallNewer(f, index, term) = m  BY <1>1 DEF InstallNewer, RaftObject
  <1>4. ASSUME q.term = k.currentTerm, index > k.lastIncludeSnapshotIndex
        PROVE  Installs(n, m, q)
    <2>1. logs \in Seq(Nat)
      BY <1>0, <1>1, EntriesTypes, EmptySeq DEF LogAfterSnapshot, MatchLog
    <2>2. commit \in Nat /\ applied \in Nat  BY <1>0, <1>1, FieldTypes DEF Larger
    <2> HIDE DEF logs, commit, applied
    <2>3. /\ l \in RaftObject /\ l.id = f.id /\ l.currentTerm = f.currentTerm
          /\ l.votedFor = f.votedFor /\ l.threadPool = f.threadPool
          /\ l.matchIndex = f.matchIndex /\ l.status = f.status
          /\ l.logs = logs /\ l.lastIncludeSnapshotIndex = index
          /\ l.lastIncludeSnapshotTerm = term /\ l.commitIndex = commit
          /\ l.lastApplied = applied /\ l.applyQueue = f.applyQueue
      BY ZenonT(30), <1>0, <1>1, <2>1, <2>2 DEF RaftObject
    <2> HIDE DEF l
    <2>4. /\ p \in RaftObject /\ Idle(l, p) /\ p.status = l.status
          /\ p.currentTerm = l.currentTerm /\ p.threadPool = l.threadPool
          /\ p.votedFor = l.votedFor
      BY <2>3, PersistIdle, PersistEffect DEF SameDisk
    <2> HIDE DEF p, queue
    <2>5. /\ m.id = p.id /\ m.currentTerm = p.currentTerm
          /\ m.votedFor = p.votedFor /\ m.threadPool = p.threadPool
          /\ m.matchIndex = p.matchIndex /\ m.status = p.status
          /\ SameLog(p, m) /\ m.commitIndex = p.commitIndex
          /\ m.lastApplied = p.lastApplied /\ m.applyQueue = queue
      BY <2>4 DEF RaftObject, SameLog
    <2> HIDE DEF m
    <2>6. Follows(n, m, q)
      BY <1>1, <1>4, <2>3, <2>4, <2>5 DEF Follows, Idle, SameProgress, NoNewVote
    <2>7. SameLog(n, f) /\ SameCommit(n, f)  BY <1>1 DEF Idle, SameProgress
    <2>8. SameLog(l, p) /\ SameCommit(l, p)  BY <2>4 DEF Idle, SameProgress
    <2>9. logs = LogAfterSnapshot(n, index, term)  BY <2>7, IdleLog DEF logs
    <2>10. index > n.lastIncludeSnapshotIndex  BY <1>1, <1>4, <2>7 DEF SameLog
    <2>11. queue = Append(n.applyQueue, [ snapshot |-> TRUE, index |-> index, term |-> term ])
      BY <2>3, <2>7, <2>8 DEF queue, SameCommit
    <2>12. commit = Larger(n.commitIndex, index) /\ applied = Larger(n.lastApplied, index)
      BY <2>7 DEF commit, applied, SameCommit
    <2>13. /\ m.logs = logs /\ m.lastIncludeSnapshotIndex = index
           /\ m.lastIncludeSnapshotTerm = term
           /\ m.commitIndex = commit /\ m.lastApplied = applied
      BY <2>3, <2>5, <2>8 DEF SameLog, SameCommit
    <2> HIDE DEF index, term
    <2>14. Installs(n, m, q)
      BY <2>5, <2>6, <2>9, <2>10, <2>11, <2>12, <2>13 DEF Installs, index, term
    <2> QED BY <2>14
  <1> HIDE DEF m
  <1> QED BY <1>1, <1>2, <1>3, <1>4 DEF h

\* snapshot() by the state machine.
LEMMA DoSnapshotCompacts ==
  ASSUME NEW n, Sound(n), NEW i \in Nat
  PROVE  Idle(n, DoSnapshot(n, i)) \/ Compacts(n, DoSnapshot(n, i), i)
  <1> DEFINE logs == EntriesAfter(n, i)
             term == GetLogTermFromIndex(n, i)
             applied == Larger(n.lastApplied, i)
             k == [ n EXCEPT !.logs = logs, !.lastIncludeSnapshotIndex = i,
                             !.lastIncludeSnapshotTerm = term, !.lastApplied = applied ]
             m == Persist(k)
  <1>0. n \in RaftObject  BY DEF Sound
  <1>1. CASE ~IsLogIndex(n, i)
    BY <1>0, <1>1, AbortIdle DEF DoSnapshot
  <1>2. CASE IsLogIndex(n, i)
    <2>1. DoSnapshot(n, i) = m  BY <1>0, <1>2 DEF DoSnapshot, RaftObject
    <2>2. logs \in Seq(Nat) /\ term \in Nat  BY <1>0, <1>2, EntriesTypes, LogTermType
    <2>3. applied \in Nat  BY <1>0, FieldTypes DEF Larger
    <2> HIDE DEF logs, term, applied
    <2>4. /\ k \in RaftObject /\ k.id = n.id /\ k.currentTerm = n.currentTerm
          /\ k.votedFor = n.votedFor /\ k.status = n.status /\ k.threadPool = n.threadPool
          /\ k.matchIndex = n.matchIndex /\ k.logs = logs /\ k.lastIncludeSnapshotIndex = i
          /\ k.lastIncludeSnapshotTerm = term /\ k.commitIndex = n.commitIndex
          /\ k.applyQueue = n.applyQueue /\ k.lastApplied = applied
      BY ZenonT(30), <1>0, <2>2, <2>3 DEF RaftObject
    <2> HIDE DEF k
    <2>5. /\ Idle(k, m) /\ m.status = k.status /\ m.currentTerm = k.currentTerm
          /\ m.threadPool = k.threadPool /\ m.votedFor = k.votedFor
      BY <2>4, PersistIdle, PersistEffect DEF SameDisk
    <2> HIDE DEF m
    <2>6. Compacts(n, m, i)
      BY <1>2, <2>4, <2>5 DEF Compacts, Idle, SameProgress, SameLog, SameCommit, logs, term, applied
    <2> QED BY <2>1, <2>6
  <1> QED BY <1>1, <1>2

\* A restart.
LEMMA ConstructRestarts ==
  ASSUME NEW n, Sound(n)
  PROVE  Restarts(n, Construct(n.id, n.persister))
  <1>1. n.persister = PersistData(n)  BY DEF Sound
  <1> QED BY <1>1 DEF Construct, PersistData, Restarts, SameLog

-----------------------------------------------------------------------------
(* Steps of the cluster.                                                   *)

\* n is what s starts from: itself, less a call that has ended.
Settled(s, n) == Sound(n) /\ Idle(raft[s], n) /\ SameDisk(raft[s], n) /\ SameRole(raft[s], n)

\* The leader n has reason to think that p holds its log up to i: p has taken
\* a request that ends there, or i is where the snapshot of n ends.
Told(s, n, p, i) ==
  \/ i = n.lastIncludeSnapshotIndex
  \/ \E t \in raft[s].threadPool :
       /\ t.request.kind \in { "AppendEntries", "ReadHeartBeat" } /\ t.request.to = p
       /\ t.reply # Nil /\ t.reply.success /\ t.reply.readRound = 0
       /\ StillLeads(n, t.request) /\ i = LastEntryOf(t.request)

\* What s does in a step that takes it from n to m.
Deed(s, n, m) ==
  \/ Sends(n, m) /\ NoNewLeader(n, m)
  \/ \E q \in Requests("RequestVote", s) : GivesVote(n, m, q) /\ NoNewLeader(n, m)
  \/ \E p \in PeersOf(s) : \E i \in Nat :
       Told(s, n, p, i) /\ Advances(n, m, p, i) /\ NoNewLeader(n, m)
  \/ Appends(n, m) /\ CallsBuilt(n, m) /\ m.matchIndex = [ p \in Server |-> 0 ]
  \/ Runs(n, m)
  \/ Starts(n, m)
  \/ \E i \in n.lastIncludeSnapshotIndex + 1 .. n.commitIndex : Compacts(n, m, i)
  \/ Restarts(n, m)
  \/ \E q \in Requests("AppendEntries", s) : Stores(n, m, q)
  \/ \E q \in Requests("InstallSnapshot", s) : Installs(n, m, q)

\* Unless streams overtake each other, a reply that says so means that s has
\* taken the request.
Truthful(s, t, reply) ==
  /\ Overtaken = {} /\ t.request.kind \in { "AppendEntries", "ReadHeartBeat" }
  /\ reply.success /\ reply.readRound = 0
  => \/ t.request.kind = "ReadHeartBeat" /\ t.request.readRound = 0
     \/ /\ t.request.kind = "AppendEntries" /\ t.request.to = s
        /\ Stores(raft[s], raft'[s], t.request)

\* x has at most the reply of s to one of its calls from a step of s.
Waits(s, x) ==
  \/ raft'[x] = raft[x]
  \/ \E t \in raft[x].threadPool : \E reply \in ReplyType(t.request.kind) :
       /\ t.reply = Nil /\ Truthful(s, t, reply)
       /\ raft'[x] = [ raft[x] EXCEPT !.threadPool =
                         (@ \ {t}) \cup { [ request |-> t.request, reply |-> reply ] } ]

\* A late request was a call before.
LateCalls ==
  \A q \in late' :
    \/ q \in late
    \/ q.kind # "PreVote" /\ \E x \in Server : \E t \in raft[x].threadPool : t.request = q

\* A step of the cluster in which s does something.
StepOf(s) ==
  /\ \E n : Settled(s, n) /\ Deed(s, n, raft'[s])
  /\ \A x \in Server \ {s} : Waits(s, x)
  /\ LateCalls

\* An object is settled as it is.
LEMMA SettledRefl ==
  ASSUME NEW s, Sound(raft[s])
  PROVE  Settled(s, raft[s])
  BY IdleRefl DEF Settled, SameDisk, SameRole

\* And when a call ends.
LEMMA SettledEnd ==
  ASSUME NEW s, Sound(raft[s]), NEW t
  PROVE  Settled(s, End(raft[s], t))
  <1>1. raft[s] \in RaftObject  BY DEF Sound
  <1>2. Idle(raft[s], End(raft[s], t))  BY <1>1, SmallIdle
  <1> QED BY <1>2, EndKeeps DEF Settled, Keeps

\* A step of s alone that makes nothing late.
LEMMA OwnSteps ==
  ASSUME TypeInv, NEW s \in Server, NEW n, NEW m, Settled(s, n), Deed(s, n, m),
         raft' = [ raft EXCEPT ![s] = m ], LateCalls
  PROVE  StepOf(s)
  <1>1. raft \in [ Server -> RaftObject ]  BY DEF TypeInv
  <1>2. raft'[s] = m /\ \A x \in Server \ {s} : raft'[x] = raft[x]  BY <1>1
  <1> QED BY <1>2 DEF StepOf, Waits

\* Handling a request is a step of its receiver, answered in time, late or overtaken.
LEMMA AnswerSteps ==
  ASSUME TypeInv, NEW kind, NEW s \in Server, NEW q \in Requests(kind, s), NEW h,
         Deed(s, raft[s], h.object), h.reply \in ReplyType(kind),
         kind = "AppendEntries" =>
           h.reply.readRound = 0 /\ (h.reply.success => Stores(raft[s], h.object, q)),
         kind = "ReadHeartBeat" => h.reply.readRound = q.readRound,
         Answer(q, h)
  PROVE  StepOf(s)
  <1>0. /\ q \in Request /\ q.to = s /\ q.kind = kind /\ q.from \in Server
        /\ Unanswered(q) \in raft[q.from].threadPool => q.from # s
    BY RequestFacts
  <1>1. raft \in [ Server -> RaftObject ] /\ Settled(s, raft[s])
    BY SettledRefl DEF TypeInv
  <1>2. CASE /\ Unanswered(q) \in raft[q.from].threadPool
             /\ raft' = [ raft EXCEPT
                            ![q.to] = h.object,
                            ![q.from].threadPool =
                              (@ \ { Unanswered(q) })
                                \cup { [ request |-> q, reply |-> h.reply ] } ]
             /\ UNCHANGED late
    <2> DEFINE t == Unanswered(q)
               c == q.from
               k == [ raft[c] EXCEPT !.threadPool =
                        (@ \ {t}) \cup { [ request |-> t.request, reply |-> h.reply ] } ]
    <2>1. t.request = q /\ t.reply = Nil /\ t \in raft[c].threadPool /\ c # s
      BY <1>0, <1>2 DEF Unanswered
    <2>2. raft' = [ raft EXCEPT ![s] = h.object, ![c] = k ]
      <3>1. k = [ raft[c] EXCEPT !.threadPool =
                    (@ \ { Unanswered(q) }) \cup { [ request |-> q, reply |-> h.reply ] } ]
        BY <2>1
      <3> HIDE DEF t, k
      <3> QED BY <1>0, <1>1, <1>2, <2>1, <3>1
    <2>3. /\ raft'[s] = h.object /\ raft'[c] = k
          /\ \A x \in Server \ {s, c} : raft'[x] = raft[x]
      <3> HIDE DEF k
      <3> QED BY <1>0, <1>1, <2>1, <2>2
    <2> HIDE DEF t
    <2>4. Truthful(s, t, h.reply)
      BY <1>0, <2>1, <2>3 DEF Truthful
    <2>5. Waits(s, c)
      <3>1. h.reply \in ReplyType(t.request.kind)  BY <1>0, <2>1
      <3> QED BY <2>1, <2>3, <2>4, <3>1 DEF Waits
    <2>6. \A x \in Server \ {s} : Waits(s, x)
      <3>1. \A x \in Server \ {s, c} : Waits(s, x)  BY <2>3 DEF Waits
      <3> QED BY <2>5, <3>1
    <2>7. LateCalls  BY <1>2 DEF LateCalls
    <2> QED BY <1>1, <2>3, <2>6, <2>7 DEF StepOf
  <1>3. CASE /\ q \in late
             /\ raft' = [ raft EXCEPT ![q.to] = h.object ]
             /\ late' = late \ {q}
    <2>1. LateCalls  BY <1>3 DEF LateCalls
    <2> QED BY <1>0, <1>1, <1>3, <2>1, OwnSteps
  <1>4. ASSUME q \in late, NEW t \in NextOnStream(q),
               raft' = [ raft EXCEPT
                           ![q.to] = h.object,
                           ![q.from].threadPool =
                             (@ \ {t}) \cup { [ request |-> t.request, reply |-> h.reply ] } ],
               late' = (late \ {q}) \cup { t.request }
        PROVE  StepOf(s)
    <2> DEFINE c == q.from
               k == [ raft[c] EXCEPT !.threadPool =
                        (@ \ {t}) \cup { [ request |-> t.request, reply |-> h.reply ] } ]
    <2>1. /\ t \in raft[c].threadPool /\ t.reply = Nil /\ t.request.to = s
          /\ Stream(t.request.kind) = Stream(kind) /\ Stream(kind) # Nil
          /\ Overtaken # {}
      BY <1>0, <1>4 DEF NextOnStream
    <2>2. Sound(raft[c]) /\ raft[c].id = c  BY <1>0 DEF TypeInv
    <2>3. t \in Task /\ c # s
      BY <2>1, <2>2, FieldTypes DEF Sound
    <2>4. t.request.kind # "PreVote" /\ ReplyType(t.request.kind) = ReplyType(kind)
      <3>1. kind \in { "PreVote", "RequestVote", "AppendEntries", "ReadHeartBeat", "InstallSnapshot" }
        BY <1>0 DEF Request, PreVoteArgs, RequestVoteArgs, AppendEntriesArgs,
                    ReadHeartBeatArgs, InstallSnapshotArgs
      <3>2. t.request.kind \in { "PreVote", "RequestVote", "AppendEntries", "ReadHeartBeat",
                                 "InstallSnapshot" }
        BY <2>3 DEF Task, PreVoteArgs, RequestVoteArgs, AppendEntriesArgs,
                    ReadHeartBeatArgs, InstallSnapshotArgs
      <3> QED BY <2>1, <3>1, <3>2 DEF Stream, ReplyType
    <2>5. /\ raft'[s] = h.object /\ raft'[c] = k
          /\ \A x \in Server \ {s, c} : raft'[x] = raft[x]
      <3>1. raft' = [ raft EXCEPT ![s] = h.object, ![c] = k ]  BY <1>0, <1>1, <1>4, <2>3
      <3> HIDE DEF k
      <3> QED BY <1>0, <1>1, <2>3, <3>1
    <2>6. Waits(s, c)
      BY <2>1, <2>4, <2>5 DEF Waits, Truthful
    <2>7. \A x \in Server \ {s} : Waits(s, x)
      <3>1. \A x \in Server \ {s, c} : Waits(s, x)  BY <2>5 DEF Waits
      <3> QED BY <2>6, <3>1
    <2>8. LateCalls  BY <1>0, <1>4, <2>1, <2>4 DEF LateCalls
    <2> QED BY <1>1, <2>5, <2>7, <2>8 DEF StepOf
  <1> QED BY <1>2, <1>3, <1>4 DEF Answer

\* A quiet step makes no leader.
LEMMA KeepsNoNewLeader ==
  ASSUME NEW n, NEW m, Keeps(n, m)
  PROVE  NoNewLeader(n, m)
  BY DEF Keeps, Quiet, NoNewLeader

\* Every request handler is such a step.
LEMMA ReceivesSteps ==
  ASSUME TypeInv, NEW s \in Server, Receives(s)
  PROVE  StepOf(s)
  <1> DEFINE n == raft[s]
  <1>0. Sound(n) /\ n \in RaftObject /\ n.hasLeaderContact \in BOOLEAN
    BY DEF TypeInv, RaftObject
  <1> HIDE DEF n
  <1>1. CASE OnPreVote(s)
    <2>1. PICK q \in Requests("PreVote", s) : \E recent \in BOOLEAN :
            Answer(q, HandlePreVote(n, q, recent))
      BY <1>0, <1>1 DEF OnPreVote, n
    <2>2. PICK recent \in BOOLEAN : Answer(q, HandlePreVote(n, q, recent))  BY <2>1
    <2> DEFINE h == HandlePreVote(n, q, recent)
    <2>3. q \in PreVoteArgs  BY RequestFacts, RequestTypes
    <2>4. h.object = n /\ h.reply \in ReplyType("PreVote")
      BY <1>0, <2>3, HandlePreVoteTypes DEF ReplyType
    <2>5. Answer(q, h)  BY <2>2
    <2> HIDE DEF h
    <2>6. Deed(s, n, h.object)  BY <1>0, <2>4, IdleRefl, KeepsRefl, KeepsNoNewLeader DEF Deed
    <2> QED BY <2>4, <2>5, <2>6, AnswerSteps DEF n
  <1>2. CASE OnRequestVote(s)
    <2>1. PICK q \in Requests("RequestVote", s) : Answer(q, HandleRequestVote(n, q))
      BY <1>2 DEF OnRequestVote, n
    <2> DEFINE h == HandleRequestVote(n, q)
    <2>2. q \in RequestVoteArgs  BY RequestFacts, RequestTypes
    <2>3. /\ NoNewLeader(n, h.object) /\ h.reply \in ReplyType("RequestVote")
          /\ Idle(n, h.object) \/ GivesVote(n, h.object, q)
      BY <1>0, <2>2, HandleRequestVoteKeeps, HandleRequestVoteGives, KeepsNoNewLeader DEF ReplyType
    <2>4. Answer(q, h)  BY <2>1
    <2> HIDE DEF h
    <2>5. Deed(s, n, h.object)  BY <2>3, IdleSends DEF Deed
    <2> QED BY <2>3, <2>4, <2>5, AnswerSteps DEF n
  <1>3. CASE OnAppendEntries(s)
    <2>1. PICK q \in Requests("AppendEntries", s) : Answer(q, HandleAppendEntries(n, q))
      BY <1>3 DEF OnAppendEntries, n
    <2> DEFINE h == HandleAppendEntries(n, q)
    <2>2. q \in AppendEntriesArgs  BY RequestFacts, RequestTypes
    <2>3. /\ NoNewLeader(n, h.object) /\ h.reply \in ReplyType("AppendEntries")
      BY <1>0, <2>2, HandleAppendEntriesKeeps, KeepsNoNewLeader DEF ReplyType
    <2>4. /\ h.reply.readRound = 0
          /\ \/ Idle(n, h.object) /\ ~h.reply.success
             \/ Stores(n, h.object, q) /\ h.reply.success
      BY <1>0, <2>2, HandleAppendEntriesStores
    <2>5. Answer(q, h)  BY <2>1
    <2> HIDE DEF h
    <2>6. Deed(s, n, h.object)  BY <2>3, <2>4, IdleSends DEF Deed
    <2> QED BY <2>3, <2>4, <2>5, <2>6, AnswerSteps DEF n
  <1>4. CASE OnReadHeartBeat(s)
    <2>1. PICK q \in Requests("ReadHeartBeat", s) : Answer(q, HandleReadHeartBeat(n, q))
      BY <1>4 DEF OnReadHeartBeat, n
    <2> DEFINE h == HandleReadHeartBeat(n, q)
    <2>2. q \in ReadHeartBeatArgs  BY RequestFacts, RequestTypes
    <2>3. /\ NoNewLeader(n, h.object) /\ h.reply \in ReplyType("ReadHeartBeat")
          /\ Idle(n, h.object) /\ h.reply.readRound = q.readRound
      BY <1>0, <2>2, HandleReadHeartBeatKeeps, HandleReadHeartBeatIdle, KeepsNoNewLeader
      DEF ReplyType
    <2>4. Answer(q, h)  BY <2>1
    <2> HIDE DEF h
    <2>5. Deed(s, n, h.object)  BY <2>3, IdleSends DEF Deed
    <2> QED BY <2>3, <2>4, <2>5, AnswerSteps DEF n
  <1>5. CASE OnInstallSnapshot(s)
    <2>1. PICK q \in Requests("InstallSnapshot", s) : Answer(q, HandleInstallSnapshot(n, q))
      BY <1>5 DEF OnInstallSnapshot, n
    <2> DEFINE h == HandleInstallSnapshot(n, q)
    <2>2. q \in InstallSnapshotArgs  BY RequestFacts, RequestTypes
    <2>3. /\ NoNewLeader(n, h.object) /\ h.reply \in ReplyType("InstallSnapshot")
          /\ Idle(n, h.object) \/ Installs(n, h.object, q)
      BY <1>0, <2>2, HandleInstallSnapshotKeeps, HandleInstallSnapshotInstalls, KeepsNoNewLeader
      DEF ReplyType
    <2>4. Answer(q, h)  BY <2>1
    <2> HIDE DEF h
    <2>5. Deed(s, n, h.object)  BY <2>3, IdleSends DEF Deed
    <2> QED BY <2>3, <2>4, <2>5, AnswerSteps DEF n
  <1> QED BY <1>1, <1>2, <1>3, <1>4, <1>5 DEF Receives

\* And every reply handler, of the caller.
LEMMA ReturnsSteps ==
  ASSUME TypeInv, NEW s \in Server, NEW p \in PeersOf(s),
         \/ PreVoteReturns(s, p) \/ RequestVoteReturns(s, p)
         \/ AppendEntriesReturns(s, p) \/ InstallSnapshotReturns(s, p)
  PROVE  StepOf(s)
  <1>0. Sound(raft[s]) /\ raft[s] \in RaftObject /\ raft[s].id = s
    BY DEF TypeInv
  <1>1. late' = late => LateCalls  BY DEF LateCalls
  <1>2. CASE PreVoteReturns(s, p)
    <2>1. PICK t \in Answered(s, p, {"PreVote"}) :
            /\ Step(s, HandlePreVoteReply(End(raft[s], t), t.request, t.reply))
            /\ UNCHANGED << late, readFloor >>
      BY <1>2 DEF PreVoteReturns
    <2>2. t \in raft[s].threadPool /\ t.request.kind = "PreVote" /\ t.reply # Nil
      BY DEF Answered
    <2> DEFINE n == End(raft[s], t)
               h == HandlePreVoteReply(n, t.request, t.reply)
    <2>3. t \in Task /\ Settled(s, n)  BY <1>0, <2>2, TaskEnds, SettledEnd
    <2>4. raft' = [ raft EXCEPT ![s] = h ]  BY <2>1 DEF Step
    <2> HIDE DEF n
    <2>5. (Idle(n, h) /\ NoNewLeader(n, h)) \/ Runs(n, h)
      BY <2>2, <2>3, TaskTypes, HandlePreVoteReplyRuns DEF Settled
    <2> HIDE DEF h
    <2>6. Deed(s, n, h)  BY <2>5, IdleSends DEF Deed
    <2> QED BY <1>1, <2>1, <2>3, <2>4, <2>6, OwnSteps
  <1>3. CASE RequestVoteReturns(s, p)
    <2>1. PICK t \in Answered(s, p, {"RequestVote"}) :
            /\ Step(s, HandleVoteReply(End(raft[s], t), t.request, t.reply))
            /\ UNCHANGED << late, readFloor >>
      BY <1>3 DEF RequestVoteReturns
    <2>2. t \in raft[s].threadPool /\ t.request.kind = "RequestVote" /\ t.reply # Nil
      BY DEF Answered
    <2> DEFINE n == End(raft[s], t)
               h == HandleVoteReply(n, t.request, t.reply)
    <2>3. t \in Task /\ Settled(s, n)  BY <1>0, <2>2, TaskEnds, SettledEnd
    <2>4. raft' = [ raft EXCEPT ![s] = h ]  BY <2>1 DEF Step
    <2> HIDE DEF n
    <2>5. \/ Idle(n, h) /\ NoNewLeader(n, h)
          \/ Appends(n, h) /\ CallsBuilt(n, h) /\ h.matchIndex = [ x \in Server |-> 0 ]
      BY <2>2, <2>3, TaskTypes, HandleVoteReplyAppends DEF Settled
    <2> HIDE DEF h
    <2>6. Deed(s, n, h)  BY <2>5, IdleSends DEF Deed
    <2> QED BY <1>1, <2>1, <2>3, <2>4, <2>6, OwnSteps
  <1>4. CASE AppendEntriesReturns(s, p)
    <2>1. PICK t \in Answered(s, p, {"AppendEntries", "ReadHeartBeat"}) :
            /\ Step(s, HandleAppendReply(End(raft[s], t), t.request, t.reply))
            /\ UNCHANGED << late, readFloor >>
      BY <1>4 DEF AppendEntriesReturns
    <2>2. /\ t \in raft[s].threadPool /\ t.reply # Nil
          /\ t.request.kind \in { "AppendEntries", "ReadHeartBeat" }
      BY DEF Answered
    <2> DEFINE n == End(raft[s], t)
               h == HandleAppendReply(n, t.request, t.reply)
    <2>3. t \in Task /\ Settled(s, n) /\ n.id = s /\ t.request.to \in PeersOf(s)
      BY <1>0, <2>2, TaskEnds, SettledEnd
    <2>4. raft' = [ raft EXCEPT ![s] = h ]  BY <2>1 DEF Step
    <2> HIDE DEF n
    <2>5. LastEntryOf(t.request) \in Nat  BY <2>2, <2>3, TaskTypes, LastEntryOfType
    <2>6. StillLeads(n, t.request) => LastEntryOf(t.request) <= GetLastLogIndex(n)
      <3>1. /\ n.status = raft[s].status /\ n.currentTerm = raft[s].currentTerm
            /\ GetLastLogIndex(n) = GetLastLogIndex(raft[s])
        BY <2>3 DEF Settled, SameRole, SameDisk, GetLastLogIndex
      <3> QED BY <1>0, <2>2, <3>1 DEF Sound, StillLeads
    <2>7. /\ t.request \in AppendEntriesArgs \cup ReadHeartBeatArgs
          /\ t.reply \in AppendEntriesReply
      BY <2>2, <2>3, TaskTypes
    <2>8. NoNewLeader(n, h)
      BY <2>3, <2>5, <2>6, <2>7, HandleAppendReplyKeeps, KeepsNoNewLeader DEF Settled
    <2>9. \/ Sends(n, h)
          \/ /\ StillLeads(n, t.request) /\ t.reply.success /\ t.reply.readRound = 0
             /\ Advances(n, h, t.request.to, LastEntryOf(t.request))
      BY <2>3, <2>5, <2>6, <2>7, HandleAppendReplyAdvances DEF Settled
    <2> HIDE DEF h
    <2>10. Deed(s, n, h)
      <3>1. CASE Sends(n, h)  BY <2>8, <3>1 DEF Deed
      <3>2. CASE /\ StillLeads(n, t.request) /\ t.reply.success /\ t.reply.readRound = 0
                 /\ Advances(n, h, t.request.to, LastEntryOf(t.request))
        <4>1. Told(s, n, t.request.to, LastEntryOf(t.request))  BY <2>2, <3>2 DEF Told
        <4> QED BY <2>3, <2>5, <2>8, <3>2, <4>1 DEF Deed
      <3> QED BY <2>9, <3>1, <3>2
    <2> QED BY <1>1, <2>1, <2>3, <2>4, <2>10, OwnSteps
  <1>5. CASE InstallSnapshotReturns(s, p)
    <2>1. PICK t \in Answered(s, p, {"InstallSnapshot"}) :
            /\ Step(s, HandleSnapshotReply(End(raft[s], t), t.request, t.reply))
            /\ UNCHANGED << late, readFloor >>
      BY <1>5 DEF InstallSnapshotReturns
    <2>2. t \in raft[s].threadPool /\ t.request.kind = "InstallSnapshot" /\ t.reply # Nil
      BY DEF Answered
    <2> DEFINE n == End(raft[s], t)
               h == HandleSnapshotReply(n, t.request, t.reply)
    <2>3. t \in Task /\ Settled(s, n) /\ n.id = s /\ t.request.to \in PeersOf(s)
      BY <1>0, <2>2, TaskEnds, SettledEnd
    <2>4. raft' = [ raft EXCEPT ![s] = h ]  BY <2>1 DEF Step
    <2> HIDE DEF n
    <2>5. t.reply \in InstallSnapshotReply  BY <2>2, <2>3, TaskTypes
    <2>6. NoNewLeader(n, h)
      BY <2>3, <2>5, HandleSnapshotReplyKeeps, KeepsNoNewLeader DEF Settled
    <2>7. Sends(n, h) \/ Advances(n, h, t.request.to, n.lastIncludeSnapshotIndex)
      BY <2>3, <2>5, HandleSnapshotReplyAdvances DEF Settled
    <2> HIDE DEF h
    <2>8. n.lastIncludeSnapshotIndex \in Nat  BY <2>3, FieldTypes DEF Settled, Sound
    <2>9. Told(s, n, t.request.to, n.lastIncludeSnapshotIndex)  BY DEF Told
    <2>10. Deed(s, n, h)  BY <2>3, <2>6, <2>7, <2>8, <2>9 DEF Deed
    <2> QED BY <1>1, <2>1, <2>3, <2>4, <2>10, OwnSteps
  <1> QED BY <1>2, <1>3, <1>4, <1>5

\* And a call that fails or times out.
LEMMA CallFailsSteps ==
  ASSUME TypeInv, NEW s \in Server, CallFails(s)
  PROVE  StepOf(s)
  <1>1. PICK t \in raft[s].threadPool :
          /\ Step(s, TransportFailed(End(raft[s], t), t.request))
          /\ \/ UNCHANGED late
             \/ MayBeLate(t) /\ late' = late \cup { t.request }
    BY DEF CallFails
  <1> DEFINE n == End(raft[s], t)
             h == TransportFailed(n, t.request)
  <1>2. Sound(raft[s]) /\ raft[s].id = s  BY DEF TypeInv
  <1>3. t \in Task /\ t.request.to \in Server /\ Settled(s, n)
    BY <1>2, TaskEnds, SettledEnd
  <1>4. raft' = [ raft EXCEPT ![s] = h ]  BY <1>1 DEF Step
  <1> HIDE DEF n
  <1>5. Idle(n, h) /\ NoNewLeader(n, h)
    BY <1>3, SmallIdle, TransportFailedKeeps, KeepsNoNewLeader DEF Settled, Sound
  <1> HIDE DEF h
  <1>6. Deed(s, n, h)  BY <1>5, IdleSends DEF Deed
  <1>7. LateCalls  BY <1>1 DEF LateCalls, MayBeLate
  <1> QED BY <1>3, <1>4, <1>6, <1>7, OwnSteps

\* And timeouts, client calls, snapshots and restarts.
LEMMA ActsSteps ==
  ASSUME TypeInv, NEW s \in Server, Acts(s)
  PROVE  StepOf(s)
  <1> DEFINE n == raft[s]
  <1>0. Sound(n) /\ n \in RaftObject /\ n.id = s /\ Settled(s, n)
    BY SettledRefl DEF TypeInv
  <1>1. late' = late => LateCalls  BY DEF LateCalls
  <1>2. ASSUME NEW h, Deed(s, n, h), raft' = [ raft EXCEPT ![s] = h ], LateCalls
        PROVE  StepOf(s)
    BY <1>0, <1>2, OwnSteps
  <1>3. CASE ElectionTimeout(s)
    <2>1. raft' = [ raft EXCEPT ![s] = BeginPreVote(n) ] /\ late' = late
      BY <1>3 DEF ElectionTimeout, Step
    <2>2. Deed(s, n, BeginPreVote(n))  BY <1>0, BeginPreVoteRuns DEF Deed
    <2> QED BY <1>1, <1>2, <2>1, <2>2
  <1>4. CASE HeartbeatTimeout(s)
    <2> DEFINE h == ScheduleReplication(n, PeersOf(n.id))
    <2>1. raft' = [ raft EXCEPT ![s] = h ] /\ late' = late
      BY <1>4 DEF HeartbeatTimeout, Step, ScheduleAllReplication
    <2>2. Sends(n, h) /\ NoNewLeader(n, h)
      BY <1>0, ScheduleReplicationSends, ScheduleReplicationKeeps, KeepsNoNewLeader
    <2> HIDE DEF h, n
    <2>3. Deed(s, n, h)  BY <2>2 DEF Deed
    <2> QED BY <1>1, <1>2, <2>1, <2>3
  <1>5. CASE QuorumTimeout(s)
    <2>1. raft' = [ raft EXCEPT ![s] = StepDown(n) ] /\ late' = late
      BY <1>5 DEF QuorumTimeout, Step
    <2>2. Deed(s, n, StepDown(n))
      BY <1>0, StepDownIdle, StepDownKeeps, IdleSends, KeepsNoNewLeader DEF Deed
    <2> QED BY <1>1, <1>2, <2>1, <2>2
  <1>6. CASE Start(s)
    <2> DEFINE h == ScheduleAllReplication(UpdateCommitIndex(AppendOwn(n)))
    <2>1. raft' = [ raft EXCEPT ![s] = h ] /\ late' = late /\ n.status = Leader
      BY <1>6 DEF Start, Step
    <2>2. Starts(n, h)  BY <1>0, <2>1, StartStarts
    <2> HIDE DEF h, n
    <2>3. Deed(s, n, h)  BY <2>2 DEF Deed
    <2> QED BY <1>1, <1>2, <2>1, <2>3
  <1>7. CASE ReadIndex(s)
    <2> DEFINE round == Len(readFloor) + 1
    <2>1. /\ raft' = [ raft EXCEPT ![s] = OpenRead(n, round) ] /\ late' = late
          /\ MayOpenRead(n)
      BY <1>7 DEF ReadIndex, Step
    <2>2. round \in Nat \ {0}
      <3>1. Len(readFloor) \in Nat  BY LenProperties DEF TypeInv
      <3> QED BY <3>1
    <2> HIDE DEF round, n
    <2>3. Sends(n, OpenRead(n, round)) /\ n.status = Leader
      BY <1>0, <2>1, <2>2, OpenReadSends DEF MayOpenRead
    <2>4. Deed(s, n, OpenRead(n, round))
      BY <1>0, <2>2, <2>3, OpenReadKeeps, KeepsNoNewLeader DEF Deed
    <2> QED BY <1>1, <1>2, <2>1, <2>4
  <1>8. CASE JoinRead(s)
    <2>1. raft' = [ raft EXCEPT ![s] = n ] /\ late' = late
      BY <1>8 DEF JoinRead, Step
    <2>2. Deed(s, n, n)  BY <1>0, IdleRefl, KeepsRefl, KeepsNoNewLeader DEF Deed
    <2> QED BY <1>1, <1>2, <2>1, <2>2
  <1>9. CASE Snapshot(s)
    <2>1. PICK i \in n.lastIncludeSnapshotIndex + 1 .. n.commitIndex :
            Step(s, DoSnapshot(n, i))
      BY <1>9 DEF Snapshot
    <2>2. raft' = [ raft EXCEPT ![s] = DoSnapshot(n, i) ] /\ late' = late
      BY <1>9, <2>1 DEF Snapshot, Step
    <2>3. i \in Nat  BY <1>0, FieldTypes
    <2> HIDE DEF n
    <2>4. Deed(s, n, DoSnapshot(n, i))
      BY <1>0, <2>3, DoSnapshotCompacts, DoSnapshotKeeps, IdleSends, KeepsNoNewLeader DEF Deed
    <2> QED BY <1>1, <1>2, <2>2, <2>4
  <1>10. CASE Restart(s)
    <2>1. raft' = [ raft EXCEPT ![s] = Construct(s, n.persister) ]
      BY <1>10 DEF Restart
    <2>2. PICK sent \in SUBSET { t.request : t \in { u \in n.threadPool : MayBeLate(u) } } :
            late' = late \cup sent
      BY <1>10 DEF Restart
    <2>3. LateCalls
      <3>1. \A q \in sent : \E t \in n.threadPool : t.request = q /\ q.kind # "PreVote"
        BY DEF MayBeLate
      <3> QED BY <2>2, <3>1 DEF LateCalls
    <2>4. Deed(s, n, Construct(s, n.persister))
      BY <1>0, ConstructRestarts DEF Deed
    <2> QED BY <1>2, <2>1, <2>3, <2>4
  <1> QED BY <1>3, <1>4, <1>5, <1>6, <1>7, <1>8, <1>9, <1>10 DEF Acts

\* Every step of Next is a step of one server.
LEMMA NextSteps ==
  ASSUME TypeInv, Next
  PROVE  \E s \in Server : StepOf(s)
  <1>1. PICK s \in Server : Receives(s) \/ Returns(s) \/ CallFails(s) \/ Acts(s)
    BY DEF Next
  <1> QED BY <1>1, ReceivesSteps, ReturnsSteps, CallFailsSteps, ActsSteps DEF Returns
=============================================================================
