--------------------------- MODULE StorageSafety ----------------------------
(***************************************************************************)
(* What the skip lists and the files promise to the servers.               *)
(***************************************************************************)
EXTENDS Storage

\* A value of two words, which operator>> cuts.
FirstWord == [ v \in Value |-> IF v = "b c" THEN "b" ELSE v ]

\* The second of the keys is the first and another word.
FirstKeyWord == [ k \in Key |-> IF k = 2 THEN 1 ELSE k ]

Content(l) == [k \in Key |-> Get(l, k)]

\* Whatever the levels that were drawn, get() finds what the commands wrote and
\* nothing that they erased: insert and erase change the one key they are given
\* (SkipList::insert, erase, get).
ListIsMap == Content(list) = pairs

\* The lists that were never restored while they held pairs.
SoundLists == {list} \cup (IF follower.inPlace THEN {} ELSE {follower.list})

\* The sublists are ascending and each is a part of the one below, curLevel_ and
\* elementCount_ are exact, and no link leads to a node that erase freed, except
\* in a list that was restored while it held pairs.
ListIsWellFormed == \A l \in SoundLists : NoDanglingLink(l) /\ WellFormed(l)

\* A list that was restored while it held pairs has a link to a node that clear()
\* freed: loadFromJson does not reset the links of the header, nor the counts
\* (SkipLists.h:373).
InPlaceDangles == follower.inPlace => ~NoDanglingLink(follower.list)

\* operator== tells apart sound lists with different pairs, and only them:
\* neither the heights nor the order of insertion count.
EqualityIsExact ==
  \A l \in SoundLists : Equal(list, l) <=> Content(list) = Content(l)

\* The pairs as >> leaves them: under each key the value of the last of the keys
\* that it is the first word of.
Restored(saved) ==
  [k \in Key |->
     LET from == { j \in DOMAIN saved : KeyWord[j] = k }
     IN IF from = {} THEN Nil ELSE Word[saved[Max(from)]]]

\* What a follower whose store was empty restores from the leader's snapshot is
\* what the leader held at its index, each key and each value up to its first
\* space (loadFromJson).
SnapshotIsRestored == ~follower.inPlace => Content(follower.list) = Restored(follower.sent.pairs)

\* Whenever no save is under way, the files hold the state that Raft has and,
\* if that names a snapshot, the snapshot taken at its index; before the first
\* save they are empty.
DiskIsSaved ==
  saving = << >> =>
    /\ ReadRaftState(disk) =
         IF raft.currentTerm = 0 /\ raft.lastIncludeSnapshotIndex = 0 THEN NoFile ELSE raft
    /\ raft.lastIncludeSnapshotIndex > 0 =>
         /\ ReadSnapShot(disk) = taken.pairs
         /\ taken.index = raft.lastIncludeSnapshotIndex

\* A follower holds what the leader held at the snapshot's index.
FollowerHoldsSnapshot ==
  ~follower.inPlace => DumpToJson(follower.list) = follower.sent.pairs

\* Also after a restore over pairs.
FollowerIsSound == NoDanglingLink(follower.list)

\* A server never goes back to a term it has left.
TermIsKept == [][raft'.currentTerm >= raft.currentTerm]_storageVars
=============================================================================
