------------------------------ MODULE Storage -------------------------------
(***************************************************************************)
(* Where the pairs of the store go: the skip list of a leader that applies *)
(* commands, its Persister, to which Raft saves its state and the dump of  *)
(* the list, and the skip list of a follower that is sent the snapshot.    *)
(*                                                                         *)
(* The apply thread inserts and erases, and waits while the event loop     *)
(* takes the snapshot it asked for (doSnapshot); the event loop also saves *)
(* the state alone (persist) and reads the snapshot for a peer that is     *)
(* behind it (scheduleReplication).                                        *)
(***************************************************************************)
EXTENDS SkipList, Persister

CONSTANTS
  Value,
  Written,    \* those that commands write
  Word,       \* what operator>> extracts from a value: up to the first space
  KeyWord,    \* and from a key, which json keeps as the name of its pair
  MaxIndex,   \* bound: commands applied
  MaxTerm     \* bound: terms

ASSUME StorageAssumption ==
  /\ Written \subseteq Value /\ Word \in [Value -> Value] /\ Nil \notin Value
  /\ KeyWord \in [Key -> Key]
  /\ NoFile = Nil
  /\ MaxIndex \in Nat /\ MaxTerm \in Nat

VARIABLES
  list,         \* stateMachine_.kv_ of the leader
  index,        \* lastApplied_
  raft,         \* currentTerm_ and lastIncludeSnapshotIndex_
  disk,         \* *persister_
  saving,       \* what save() or saveRaftState() has left to do
  follower,     \* a follower's kv_; history: the snapshot it was sent, and whether
                \* one was restored over pairs since it started
  pairs,        \* history: what the commands applied so far have written
  taken         \* history: index and pairs of the leader's last snapshot

storageVars == << list, index, raft, disk, saving, follower, pairs, taken >>

NoPairs == [k \in Key |-> Nil]

NoSnapshot == [ index |-> 0, pairs |-> << >> ]

NewFollower == [ list |-> NewList, sent |-> NoSnapshot, inPlace |-> FALSE ]

Init ==
  /\ list = NewList /\ index = 0 /\ pairs = NoPairs
  /\ raft = [ currentTerm |-> 0, lastIncludeSnapshotIndex |-> 0 ]
  /\ disk = NewPersister /\ saving = << >>
  /\ follower = NewFollower
  /\ taken = NoSnapshot

----------------------------------------------------------------------------
(* The apply thread                                                        *)

\* It waits for doSnapshot, whose save() ends with the snapshot's flush.
ApplyThreadWaits == saving # << >> /\ Last(saving).file = SnapShot

Apply ==
  /\ ~ApplyThreadWaits /\ index < MaxIndex
  /\ index' = index + 1
  /\ \E k \in Key :
       \/ /\ list' = Erase(list, k)
          /\ pairs' = [pairs EXCEPT ![k] = Nil]
       \/ \E v \in Written, random \in Level :
            /\ list' = Insert(list, k, v, random)
            /\ pairs' = [pairs EXCEPT ![k] = v]
  /\ UNCHANGED << raft, disk, saving, follower, taken >>

----------------------------------------------------------------------------
(* The event loop                                                          *)

\* doSnapshot() at the index that the apply thread has reached.
Snapshot ==
  /\ saving = << >> /\ index > raft.lastIncludeSnapshotIndex
  /\ raft' = [raft EXCEPT !.lastIncludeSnapshotIndex = index]
  /\ taken' = [ index |-> index, pairs |-> DumpToJson(list) ]
  /\ saving' = Save(raft', taken'.pairs)
  /\ UNCHANGED << list, index, pairs, disk, follower >>

\* persist() after a change of term.
Persist ==
  /\ saving = << >> /\ raft.currentTerm < MaxTerm
  /\ raft' = [raft EXCEPT !.currentTerm = @ + 1]
  /\ saving' = SaveRaftState(raft')
  /\ UNCHANGED << list, index, pairs, disk, follower, taken >>

SaveStep ==
  /\ saving # << >>
  /\ disk' = Do(disk, Head(saving))
  /\ saving' = Tail(saving)
  /\ UNCHANGED << list, index, pairs, raft, follower, taken >>

\* scheduleReplication() reads the snapshot, and the follower's apply thread
\* restores it, whatever its store holds.
SendSnapshot ==
  /\ saving = << >> /\ raft.lastIncludeSnapshotIndex > follower.sent.index
  /\ disk' = Reopened(disk)
  /\ LET json == ReadSnapShot(disk) IN
       \E random \in [DOMAIN json -> Level] :
         follower' =
           [ list    |-> LoadFromJson(follower.list, json, KeyWord, Word, random),
             sent    |-> taken,
             inPlace |-> follower.inPlace \/ follower.list.elementCount > 0 ]
  /\ UNCHANGED << list, index, pairs, raft, saving, taken >>

----------------------------------------------------------------------------
(* The processes die, at any step, and start again                         *)

\* Bound: only while the follower has been sent nothing.
LeaderRestarts ==
  /\ follower.sent = NoSnapshot
  /\ list' = NewList /\ index' = 0 /\ pairs' = NoPairs
  /\ raft' = [ currentTerm |-> 0, lastIncludeSnapshotIndex |-> 0 ]
  /\ disk' = NewPersister /\ saving' = << >>
  /\ taken' = NoSnapshot
  /\ UNCHANGED follower

FollowerRestarts ==
  /\ follower' = NewFollower
  /\ UNCHANGED << list, index, pairs, raft, disk, saving, taken >>

Next ==
  \/ Apply \/ Snapshot \/ Persist \/ SaveStep \/ SendSnapshot
  \/ LeaderRestarts \/ FollowerRestarts

StorageSpec == Init /\ [][Next]_storageVars
=============================================================================
