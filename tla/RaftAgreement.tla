--------------------------- MODULE RaftAgreement ----------------------------
(*****************************************************************************)
(* Why the logs of a cluster agree: the inductive invariant of module Raft's *)
(* logs, over two histories that no variable keeps.                          *)
(*   led[T]   the log of the leader of term T as far as it grew while it led *)
(*            (a log is the sequence of its entries' terms, snapshot and all)*)
(*   held     << T, v, i >>: while in term T, server v held entry i of led[T]*)
(*            and that entry is of term T.                                   *)
(* Both only grow.  The invariant says that suitable ones exist.             *)
(*****************************************************************************)
EXTENDS RaftSafety

\* Entry i of the log of U's leader is of term T.
In(led, U, i, T) == i \in 1 .. Len(led[U]) /\ led[U][i] = T

\* The term at an index of a log, the one before the first entry included.
TermAt(log, i) == IF i = 0 THEN 0 ELSE log[i]

\* The terms of a leader's log never fall and never exceed its own.  Up to an
\* entry of term T it is the log of T's leader.
Tree(led) ==
  /\ led \in [ Nat -> Seq(Nat) ]
  /\ \A U, T \in Nat : \A i \in Nat : In(led, U, i, T) =>
       /\ 1 <= T /\ T <= U
       /\ i <= Len(led[T])
       /\ \A j \in 1 .. i : led[U][j] <= T /\ led[T][j] = led[U][j]

-----------------------------------------------------------------------------
(* One Raft object.                                                        *)

\* The whole log of n is a beginning of the log of the leader of its last term.
FromLed(led, n) ==
  /\ GetLastLogTerm(n) <= n.currentTerm
  /\ GetLastLogIndex(n) <= Len(led[GetLastLogTerm(n)])
  /\ \A i \in n.lastIncludeSnapshotIndex .. GetLastLogIndex(n) :
       GetLogTermFromIndex(n, i) = TermAt(led[GetLastLogTerm(n)], i)

\* A leader's own log is the longest of its term.
OwnLog(led, n) ==
  n.status = Leader =>
    /\ GetLastLogIndex(n) > 0
    /\ GetLastLogTerm(n) = n.currentTerm
    /\ GetLastLogIndex(n) = Len(led[n.currentTerm])

\* n holds entry i of term T, in its log or in the snapshot.
Has(led, n, i, T) == i \in 1 .. GetLastLogIndex(n) /\ led[GetLastLogTerm(n)][i] = T

\* What a request says of entries is so in the log of its term's leader, and an
\* AppendEntries reaches to an entry of that term.
Fits(led, q) ==
  /\ q.kind = "AppendEntries" =>
       /\ In(led, q.term, q.prevLogIndex + Len(q.entries), q.term)
       /\ q.prevLogTerm = TermAt(led[q.term], q.prevLogIndex)
       /\ \A k \in 1 .. Len(q.entries) : q.entries[k] = led[q.term][q.prevLogIndex + k]
  /\ q.kind = "InstallSnapshot" =>
       In(led, q.term, q.lastSnapshotIncludeIndex, q.lastSnapshotIncludeTerm)

-----------------------------------------------------------------------------
(* The cluster.                                                            *)

Quorums == { Q \in SUBSET Server : Cardinality(Q) >= QuorumSize }

\* Those who voted for c in term U.
VotersIn(U, c) == { v \in Server : << U, v, c >> \in votes }

\* Entry i of term T is not, and will never be, held by a quorum in its term.
Never(held, T, i) ==
  \E Q \in Quorums : \A v \in Q : raft[v].currentTerm > T /\ << T, v, i >> \notin held

\* A term with a log had a leader: a quorum voted for a server that is no longer
\* a candidate in that term.
Elected(led) ==
  \A U \in Nat : led[U] # << >> =>
    \E l \in Server :
      /\ VotersIn(U, l) \in Quorums
      /\ raft[l].currentTerm >= U
      /\ raft[l].currentTerm = U => raft[l].status # Candidate

\* What is held is in the log of its term's leader, with all of that term before it.
HeldSound(led, held) ==
  /\ held \subseteq Nat \X Server \X Nat
  /\ \A T \in Nat : \A v \in Server : \A i \in Nat : << T, v, i >> \in held =>
       /\ T <= raft[v].currentTerm
       /\ In(led, T, i, T)
       /\ \A j \in 1 .. i : In(led, T, j, T) => << T, v, j >> \in held

\* Every entry of a server's term that the server has is held.
HeldRecorded(led, held) ==
  \A v \in Server : \A i \in Nat :
    Has(led, raft[v], i, raft[v].currentTerm) => << raft[v].currentTerm, v, i >> \in held

\* What a server held it still has, unless a newer term's leader took it away,
\* which happens only to entries that no quorum will ever have held.
HeldKept(led, held) ==
  \A T \in Nat : \A v \in Server : \A i \in Nat : << T, v, i >> \in held =>
    \/ Has(led, raft[v], i, T)
    \/ raft[v].currentTerm > T /\ Never(held, T, i)

\* A leader's log has every entry of an older term that a quorum may have held.
LeadersComplete(led, held) ==
  \A T, U \in Nat : \A i \in Nat :
    T < U /\ led[U] # << >> /\ In(led, T, i, T) =>
      In(led, U, i, T) \/ Never(held, T, i)

\* A candidate's log has every such entry that one of its voters held.
CandidatesComplete(led, held) ==
  \A c, v \in Server : \A T, i \in Nat :
    /\ raft[c].status = Candidate
    /\ << raft[c].currentTerm, v, c >> \in votes
    /\ T < raft[c].currentTerm /\ << T, v, i >> \in held
    => Has(led, raft[c], i, T) \/ Never(held, T, i)

\* A request for a vote, as long as its sender is a candidate in that term,
\* says how long the sender's log is.
AsksFor(q) ==
  q.kind = "RequestVote" /\ raft[q.from].status = Candidate
    /\ raft[q.from].currentTerm = q.term =>
      /\ q.lastLogIndex = GetLastLogIndex(raft[q.from])
      /\ q.lastLogTerm = GetLastLogTerm(raft[q.from])

\* The requests that wait for an answer or are late fit the leaders' logs.
RequestsFit(led) ==
  /\ \A s \in Server : \A t \in raft[s].threadPool : Fits(led, t.request) /\ AsksFor(t.request)
  /\ \A q \in late : Fits(led, q) /\ AsksFor(q) /\ q.term <= raft[q.from].currentTerm

\* No vote is for a term its candidate has not reached.
VotesReached == \A T \in Nat : \A v, c \in Server : << T, v, c >> \in votes => T <= raft[c].currentTerm

\* Nobody runs for term 0.
TermsBegin == \A s \in Server : raft[s].status \in { Candidate, Leader } => raft[s].currentTerm > 0

\* The inductive invariant of the logs, given the histories.
LogInv(led, held) ==
  /\ Tree(led) /\ TermsBegin
  /\ \A s \in Server : FromLed(led, raft[s]) /\ OwnLog(led, raft[s])
  /\ RequestsFit(led) /\ VotesReached
  /\ Elected(led)
  /\ HeldSound(led, held) /\ HeldRecorded(led, held) /\ HeldKept(led, held)
  /\ LeadersComplete(led, held) /\ CandidatesComplete(led, held)

-----------------------------------------------------------------------------
(* What is committed.                                                      *)

\* A quorum held entry i of term T while it was in that term.
Committed(led, held, T, i) ==
  In(led, T, i, T) /\ \E Q \in Quorums : \A v \in Q : << T, v, i >> \in held

\* Entry k, of term t, is committed by a term up to U: it is that entry, or before it.
CommittedAt(led, held, U, k, t) ==
  \E T, i \in Nat :
    T <= U /\ k \in 1 .. i /\ Committed(led, held, T, i) /\ In(led, T, k, t)

\* n has every entry up to c, and they are committed in its term or before.
Kept(led, held, c, n) ==
  c > 0 => \E t \in Nat : Has(led, n, c, t) /\ CommittedAt(led, held, n.currentTerm, c, t)

\* All that was handed to a state machine is committed by a term up to U.
QueueAt(led, held, U, queue) ==
  \A k \in 1 .. Len(queue) : CommittedAt(led, held, U, queue[k].index, queue[k].term)

\* The commit index is within the log, and what it covers is applied.
Within(n) ==
  /\ n.lastIncludeSnapshotIndex <= n.commitIndex /\ n.commitIndex <= GetLastLogIndex(n)
  /\ n.lastApplied = n.commitIndex

\* What n has committed and applied is committed.
Shape(led, held, n) ==
  /\ Within(n) /\ Kept(led, held, n.commitIndex, n)
  /\ QueueAt(led, held, n.currentTerm, n.applyQueue)

\* A leader counts a peer as holding, beyond its own snapshot, what the peer held.
Credited(held, n) ==
  n.status = Leader =>
    \A p \in PeersOf(n.id) :
      n.matchIndex[p] > n.lastIncludeSnapshotIndex =>
        << n.currentTerm, p, n.matchIndex[p] >> \in held

\* What a request says of commits is so; a read heartbeat is of a round.
CommitFits(led, held, q) ==
  /\ q.kind = "AppendEntries" /\ q.leaderCommit > 0 =>
       /\ q.leaderCommit <= LastEntryOf(q)
       /\ CommittedAt(led, held, q.term, q.leaderCommit, led[q.term][q.leaderCommit])
  /\ q.kind = "InstallSnapshot" =>
       CommittedAt(led, held, q.term, q.lastSnapshotIncludeIndex, q.lastSnapshotIncludeTerm)
  /\ q.kind = "ReadHeartBeat" => q.readRound > 0

\* A reply that reports success for no read round answers entries, and the peer
\* held the last of them.
AnswerFits(held, t) ==
  /\ t.request.kind \in { "AppendEntries", "ReadHeartBeat" } /\ t.reply # Nil
  /\ t.reply.success /\ t.reply.readRound = 0
  => /\ t.request.kind = "AppendEntries"
     /\ << t.request.term, t.request.to, LastEntryOf(t.request) >> \in held

\* The inductive invariant of commits, given the histories; it needs replies to be
\* those of their requests (Overtaken = {}).
CommitInv(led, held) ==
  /\ \A s \in Server : Shape(led, held, raft[s]) /\ Credited(held, raft[s])
  /\ \A s \in Server : \A t \in raft[s].threadPool :
       CommitFits(led, held, t.request) /\ AnswerFits(held, t)
  /\ \A q \in late : CommitFits(led, held, q)
=============================================================================
