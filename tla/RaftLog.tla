------------------------------ MODULE RaftLog ------------------------------
(***************************************************************************)
(* The log of one Raft object and the helpers that read and change it.     *)
(*                                                                         *)
(* A log is what a snapshot left of it: every operator takes a record n    *)
(* with the members                                                        *)
(*   logs                      the entries after the snapshot, oldest first*)
(*   lastIncludeSnapshotIndex  the index of the last entry the snapshot has*)
(*   lastIncludeSnapshotTerm   and its term.                               *)
(* An entry is represented by its term: a term has one leader and a leader *)
(* never rewrites its own log, so index and term name the entry.  The index*)
(* the code stores in an entry is its position, which is how every entry is*)
(* created (getNewCommandIndex) and copied (buildAppendEntries).           *)
(***************************************************************************)
EXTENDS Integers, Sequences

Larger(a, b)  == IF a >= b THEN a ELSE b
Smaller(a, b) == IF a <= b THEN a ELSE b

GetLastLogIndex(n) == n.lastIncludeSnapshotIndex + Len(n.logs)

GetLastLogTerm(n) ==
  IF n.logs = << >> THEN n.lastIncludeSnapshotTerm ELSE n.logs[Len(n.logs)]

\* The code counts positions from 0, a sequence from 1.
GetSlicesIndexFromLogIndex(n, i) == i - n.lastIncludeSnapshotIndex

\* What the assertions of getLogTermFromIndex ask of an index.
IsLogIndex(n, i) == i >= n.lastIncludeSnapshotIndex /\ i <= GetLastLogIndex(n)

GetLogTermFromIndex(n, i) ==
  IF i = n.lastIncludeSnapshotIndex
    THEN n.lastIncludeSnapshotTerm
    ELSE n.logs[GetSlicesIndexFromLogIndex(n, i)]

MatchLog(n, i, term) == IsLogIndex(n, i) /\ GetLogTermFromIndex(n, i) = term

\* Mutant: only the terms are compared.
WhetherVoteFor_TermOnly(n, lastIndex, lastTerm) == lastTerm >= GetLastLogTerm(n)

\* The candidate's log is at least as up to date as this one.
WhetherVoteFor(n, lastIndex, lastTerm) ==
  \/ lastTerm > GetLastLogTerm(n)
  \/ lastTerm = GetLastLogTerm(n) /\ lastIndex >= GetLastLogIndex(n)

\* The entries after index i, which the log or its snapshot holds.
EntriesAfter(n, i) == SubSeq(n.logs, GetSlicesIndexFromLogIndex(n, i) + 1, Len(n.logs))

\* Mutant: one entry too many survives the truncation.
EntriesUpTo_OneMore(n, i) ==
  SubSeq(n.logs, 1, Smaller(GetSlicesIndexFromLogIndex(n, i) + 1, Len(n.logs)))

\* The entries up to and including index i.
EntriesUpTo(n, i) == SubSeq(n.logs, 1, GetSlicesIndexFromLogIndex(n, i))

\* Where a follower asks the leader to continue after a mismatch at prevIndex:
\* the first entry of the term it has there, within what it still holds.
ConflictIndex(n, prevIndex) ==
  LET first == n.lastIncludeSnapshotIndex + 1
      start == Smaller(prevIndex, GetLastLogIndex(n))
      ofTerm == { i \in first .. start :
                    \A j \in i .. start :
                      GetLogTermFromIndex(n, j) = GetLogTermFromIndex(n, start) }
  IN  IF start < first
        THEN first
        ELSE CHOOSE i \in ofTerm : \A j \in ofTerm : i <= j

\* Some entry of the request contradicts, or lies beyond, the log.
ExtendsLog(n, prevIndex, entries) ==
  \E k \in 1 .. Len(entries) :
    \/ prevIndex + k > GetLastLogIndex(n)
    \/ GetLogTermFromIndex(n, prevIndex + k) # entries[k]

\* The log after the loop over the entries of a request that extends it: the
\* first entry that contradicts the log truncates it there.
MergeEntries(n, prevIndex, entries) == EntriesUpTo(n, prevIndex) \o entries

\* The log a follower keeps when it installs a snapshot.
LogAfterSnapshot(n, snapshotIndex, snapshotTerm) ==
  IF MatchLog(n, snapshotIndex, snapshotTerm)
    THEN EntriesAfter(n, snapshotIndex)
    ELSE << >>
=============================================================================
