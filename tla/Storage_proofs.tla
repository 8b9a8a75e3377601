--------------------------- MODULE Storage_proofs ---------------------------
(***************************************************************************)
(* Proofs, for every set of keys and values and every bound, that          *)
(*  - the two files hold what Raft last saved whenever no save is under    *)
(*    way, whatever step the process died in, and however often the        *)
(*    snapshot was read for a follower in between;                         *)
(*  - the skip list is the map that the commands wrote, stays well formed, *)
(*    and is compared exactly by operator==;                               *)
(*  - a follower that holds nothing restores what the leader dumped, as >>  *)
(*    cuts it, and one that holds something is left with a dangling link.  *)
(*                                                                         *)
(* DiskInv says of every point of save() and saveRaftState() what is in    *)
(* the files, what is in the buffers and what is left to be done.  Linked  *)
(* says of a list that every link leads to the next node of its level:     *)
(* from it follow what the search finds (PredecessorsAreLast), what insert *)
(* and erase change (InsertLinked, EraseLinked) and what a walk along a    *)
(* level passes (ChainAscends).                                            *)
(***************************************************************************)
EXTENDS StorageSafety, FiniteSetTheorems, NaturalsInduction, WellFoundedInduction, TLAPS

\* The two files and the two buffers, raft state first.
Both(state, snapshot) == [ f \in Files |-> IF f = RaftState THEN state ELSE snapshot ]

Disk(state, snapshot, stateWriter, snapshotWriter) ==
  [ file |-> Both(state, snapshot), writer |-> Both(stateWriter, snapshotWriter) ]

\* What each file holds when it has been saved.
StateFile(r) ==
  IF r.currentTerm = 0 /\ r.lastIncludeSnapshotIndex = 0 THEN << >> ELSE << r >>

SnapshotFile(r, t) == IF r.lastIncludeSnapshotIndex = 0 THEN << >> ELSE << t.pairs >>

\* No save is under way.
Idle(d, s, r, t) ==
  /\ s = << >>
  /\ d = Disk(StateFile(r), SnapshotFile(r, t), << >>, << >>)

\* saveRaftState() is under way: the snapshot is not touched.
SavingState(d, s, r, t) ==
  \/ /\ s = SaveRaftState(r)
     /\ \E old : d = Disk(old, SnapshotFile(r, t), << >>, << >>)
  \/ /\ s = << Write(RaftState, r), Flush(RaftState) >>
     /\ d = Disk(<< >>, SnapshotFile(r, t), << >>, << >>)
  \/ /\ s = << Flush(RaftState) >>
     /\ d = Disk(<< >>, SnapshotFile(r, t), << r >>, << >>)

\* save() is under way.
SavingBoth(d, s, r, t) ==
  \/ /\ s = Save(r, t.pairs)
     /\ \E old, last : d = Disk(old, last, << >>, << >>)
  \/ /\ s = << Truncate(SnapShot), Write(RaftState, r), Write(SnapShot, t.pairs),
               Flush(RaftState), Flush(SnapShot) >>
     /\ \E last : d = Disk(<< >>, last, << >>, << >>)
  \/ /\ s = << Write(RaftState, r), Write(SnapShot, t.pairs),
               Flush(RaftState), Flush(SnapShot) >>
     /\ d = Disk(<< >>, << >>, << >>, << >>)
  \/ /\ s = << Write(SnapShot, t.pairs), Flush(RaftState), Flush(SnapShot) >>
     /\ d = Disk(<< >>, << >>, << r >>, << >>)
  \/ /\ s = << Flush(RaftState), Flush(SnapShot) >>
     /\ d = Disk(<< >>, << >>, << r >>, << t.pairs >>)
  \/ /\ s = << Flush(SnapShot) >>
     /\ d = Disk(<< r >>, << >>, << >>, << t.pairs >>)

StateOK(i, r, t) ==
  /\ i \in Nat
  /\ r.currentTerm \in Nat /\ r.lastIncludeSnapshotIndex \in Nat
  /\ r = [ currentTerm |-> r.currentTerm,
           lastIncludeSnapshotIndex |-> r.lastIncludeSnapshotIndex ]
  /\ r.lastIncludeSnapshotIndex > 0 => t.index = r.lastIncludeSnapshotIndex

DiskOK(d, s, r, t) ==
  \/ Idle(d, s, r, t)
  \/ SavingState(d, s, r, t) /\ r.currentTerm > 0
  \/ SavingBoth(d, s, r, t) /\ r.lastIncludeSnapshotIndex > 0

DiskInv == StateOK(index, raft, taken) /\ DiskOK(disk, saving, raft, taken)

----------------------------------------------------------------------------
(* Steps on the files                                                      *)

\* Adding to nothing, and adding nothing: what a flush does to a file.
LEMMA Adding ==
  ASSUME NEW x
  PROVE  /\ << >> \o << x >> = << x >>
         /\ << >> \o << >> = << >>
         /\ << x >> \o << >> = << x >>
<1>1. << x >> \in Seq({x}) /\ << >> \in Seq({x})
  OBVIOUS
<1>2. QED
  BY <1>1

\* The two files, one by one.
LEMMA BothAt ==
  ASSUME NEW a, NEW b
  PROVE  /\ Both(a, b)[RaftState] = a
         /\ Both(a, b)[SnapShot] = b
         /\ \A c : [Both(a, b) EXCEPT ![RaftState] = c] = Both(c, b)
         /\ \A c : [Both(a, b) EXCEPT ![SnapShot] = c] = Both(a, c)
  BY DEF Both, Files, RaftState, SnapShot

\* Each step on each file (Persister.cc:15).
LEMMA Truncates ==
  ASSUME NEW a, NEW b, NEW c, NEW e
  PROVE  /\ Do(Disk(a, b, c, e), Truncate(RaftState)) = Disk(<< >>, b, << >>, e)
         /\ Do(Disk(a, b, c, e), Truncate(SnapShot)) = Disk(a, << >>, c, << >>)
<1> DEFINE p == Disk(a, b, c, e)
<1>1. p.file = Both(a, b) /\ p.writer = Both(c, e)
  BY DEF Disk
<1>2. ASSUME NEW f \in Files
      PROVE  Do(p, Truncate(f)) = [ file   |-> [Both(a, b) EXCEPT ![f] = << >>],
                                    writer |-> [Both(c, e) EXCEPT ![f] = << >>] ]
  BY DEF Do, Truncate, Disk
<1>3. QED
  BY <1>2, BothAt DEF Disk, Files

\* What is written goes to the buffer.
LEMMA Writes ==
  ASSUME NEW a, NEW b, NEW c, NEW e, NEW x
  PROVE  /\ Do(Disk(a, b, << >>, e), Write(RaftState, x)) = Disk(a, b, << x >>, e)
         /\ Do(Disk(a, b, c, << >>), Write(SnapShot, x)) = Disk(a, b, c, << x >>)
<1>1. ASSUME NEW y, NEW z, NEW f \in Files
      PROVE  Do(Disk(a, b, y, z), Write(f, x)) =
               [ file   |-> Both(a, b),
                 writer |-> [Both(y, z) EXCEPT ![f] = Both(y, z)[f] \o << x >>] ]
  BY DEF Do, Write, Disk
<1>2. Do(Disk(a, b, << >>, e), Write(RaftState, x)) = Disk(a, b, << x >>, e)
  <2>1. Both(<< >>, e)[RaftState] \o << x >> = << x >>
    BY Adding DEF Both, Files, RaftState, SnapShot
  <2>2. [Both(<< >>, e) EXCEPT ![RaftState] = << x >>] = Both(<< x >>, e)
    BY DEF Both, Files, RaftState, SnapShot
  <2>3. Do(Disk(a, b, << >>, e), Write(RaftState, x)) =
          [ file |-> Both(a, b),
            writer |-> [Both(<< >>, e) EXCEPT ![RaftState] = Both(<< >>, e)[RaftState] \o << x >>] ]
    BY <1>1 DEF Files
  <2>4. QED
    BY <2>1, <2>2, <2>3 DEF Disk
<1>3. Do(Disk(a, b, c, << >>), Write(SnapShot, x)) = Disk(a, b, c, << x >>)
  <2>1. Both(c, << >>)[SnapShot] \o << x >> = << x >>
    BY Adding DEF Both, Files, RaftState, SnapShot
  <2>2. [Both(c, << >>) EXCEPT ![SnapShot] = << x >>] = Both(c, << x >>)
    BY DEF Both, Files, RaftState, SnapShot
  <2>3. Do(Disk(a, b, c, << >>), Write(SnapShot, x)) =
          [ file |-> Both(a, b),
            writer |-> [Both(c, << >>) EXCEPT ![SnapShot] = Both(c, << >>)[SnapShot] \o << x >>] ]
    BY <1>1 DEF Files
  <2>4. QED
    BY <2>1, <2>2, <2>3 DEF Disk
<1>4. QED
  BY <1>2, <1>3

\* What is flushed goes from the buffer to the end of the file.
LEMMA Flushes ==
  ASSUME NEW a, NEW b, NEW c, NEW e
  PROVE  /\ Do(Disk(a, b, c, e), Flush(RaftState)) = Disk(a \o c, b, << >>, e)
         /\ Do(Disk(a, b, c, e), Flush(SnapShot)) = Disk(a, b \o e, c, << >>)
<1>1. ASSUME NEW f \in Files
      PROVE  Do(Disk(a, b, c, e), Flush(f)) =
               [ file   |-> [Both(a, b) EXCEPT ![f] = Both(a, b)[f] \o Both(c, e)[f]],
                 writer |-> [Both(c, e) EXCEPT ![f] = << >>] ]
  BY DEF Do, Flush, Disk
<1>2. Do(Disk(a, b, c, e), Flush(RaftState)) = Disk(a \o c, b, << >>, e)
  <2>1. /\ Both(a, b)[RaftState] = a /\ Both(c, e)[RaftState] = c
        /\ [Both(a, b) EXCEPT ![RaftState] = a \o c] = Both(a \o c, b)
        /\ [Both(c, e) EXCEPT ![RaftState] = << >>] = Both(<< >>, e)
    BY DEF Both, Files, RaftState, SnapShot
  <2>2. QED
    BY <1>1, <2>1 DEF Disk, Files
<1>3. Do(Disk(a, b, c, e), Flush(SnapShot)) = Disk(a, b \o e, c, << >>)
  <2>1. /\ Both(a, b)[SnapShot] = b /\ Both(c, e)[SnapShot] = e
        /\ [Both(a, b) EXCEPT ![SnapShot] = b \o e] = Both(a, b \o e)
        /\ [Both(c, e) EXCEPT ![SnapShot] = << >>] = Both(c, << >>)
    BY DEF Both, Files, RaftState, SnapShot
  <2>2. QED
    BY <1>1, <2>1 DEF Disk, Files
<1>4. QED
  BY <1>2, <1>3

\* A file that is empty gets what the buffer holds; nothing is added to a file
\* by an empty buffer.
LEMMA FlushesAll ==
  ASSUME NEW a, NEW b, NEW c, NEW e, NEW x
  PROVE  /\ Do(Disk(<< >>, b, << x >>, e), Flush(RaftState)) = Disk(<< x >>, b, << >>, e)
         /\ Do(Disk(a, << >>, c, << x >>), Flush(SnapShot)) = Disk(a, << x >>, c, << >>)
         /\ b \o << >> = b => Do(Disk(a, b, c, << >>), Flush(SnapShot)) = Disk(a, b, c, << >>)
<1>1. PICK none, one : none = << >> /\ one = << x >>
  OBVIOUS
<1>2. none \o one = one
  BY <1>1, Adding
<1>3. Do(Disk(none, b, one, e), Flush(RaftState)) = Disk(none \o one, b, << >>, e)
  BY Flushes
<1>4. Do(Disk(a, none, c, one), Flush(SnapShot)) = Disk(a, none \o one, c, << >>)
  BY Flushes
<1>5. Do(Disk(a, b, c, none), Flush(SnapShot)) = Disk(a, b \o none, c, << >>)
  BY Flushes
<1>6. QED
  BY <1>1, <1>2, <1>3, <1>4, <1>5

\* The reader of the snapshot leaves the files as they are, since a save ends
\* with a flush.
LEMMA ReadingKeeps ==
  ASSUME NEW r, NEW t, NEW a, NEW c
  PROVE  Reopened(Disk(a, SnapshotFile(r, t), c, << >>)) = Disk(a, SnapshotFile(r, t), c, << >>)
<1>1. PICK b : b = SnapshotFile(r, t)
  OBVIOUS
<1>2. b \o << >> = b
  BY <1>1, Adding DEF SnapshotFile
<1>3. Do(Disk(a, b, c, << >>), Flush(SnapShot)) = Disk(a, b, c, << >>)
  BY <1>2, FlushesAll
<1>4. QED
  BY <1>1, <1>3 DEF Reopened

----------------------------------------------------------------------------
(* What is left of a save                                                  *)

\* The first of what is left is done, and the rest is left.
LEMMA HeadsAndTails ==
  ASSUME NEW a, NEW b, NEW c, NEW e, NEW f, NEW g
  PROVE  /\ Head(<< a >>) = a /\ Tail(<< a >>) = << >> /\ << a >> # << >>
         /\ Head(<< a, b >>) = a /\ Tail(<< a, b >>) = << b >>
         /\ Head(<< a, b, c >>) = a /\ Tail(<< a, b, c >>) = << b, c >>
         /\ Head(<< a, b, c, e >>) = a /\ Tail(<< a, b, c, e >>) = << b, c, e >>
         /\ Head(<< a, b, c, e, f >>) = a /\ Tail(<< a, b, c, e, f >>) = << b, c, e, f >>
         /\ Head(<< a, b, c, e, f, g >>) = a
         /\ Tail(<< a, b, c, e, f, g >>) = << b, c, e, f, g >>
  OBVIOUS

\* saveRaftState() ends with the state in its file (Persister.cc:26).
LEMMA SavingStateKeeps ==
  ASSUME NEW d, NEW s, NEW r, NEW t,
         SavingState(d, s, r, t), r.currentTerm > 0, r.currentTerm \in Nat
  PROVE  \/ SavingState(Do(d, Head(s)), Tail(s), r, t)
         \/ Idle(Do(d, Head(s)), Tail(s), r, t)
<1>1. PICK b : b = SnapshotFile(r, t)
  OBVIOUS
<1>2. StateFile(r) = << r >>
  BY DEF StateFile
<1>3. CASE s = SaveRaftState(r) /\ \E old : d = Disk(old, b, << >>, << >>)
  <2>1. PICK old : d = Disk(old, b, << >>, << >>)
    BY <1>3
  <2>2. /\ Head(s) = Truncate(RaftState)
        /\ Tail(s) = << Write(RaftState, r), Flush(RaftState) >>
    BY <1>3, HeadsAndTails DEF SaveRaftState
  <2>3. Do(d, Truncate(RaftState)) = Disk(<< >>, b, << >>, << >>)
    BY <2>1, Truncates
  <2>4. QED
    BY <1>1, <2>2, <2>3 DEF SavingState
<1>4. CASE s = << Write(RaftState, r), Flush(RaftState) >> /\ d = Disk(<< >>, b, << >>, << >>)
  <2>1. Head(s) = Write(RaftState, r) /\ Tail(s) = << Flush(RaftState) >>
    BY <1>4, HeadsAndTails
  <2>2. Do(d, Write(RaftState, r)) = Disk(<< >>, b, << r >>, << >>)
    BY SMTT(30), <1>4, Writes
  <2>3. QED
    BY <1>1, <2>1, <2>2 DEF SavingState
<1>5. CASE s = << Flush(RaftState) >> /\ d = Disk(<< >>, b, << r >>, << >>)
  <2>1. Head(s) = Flush(RaftState) /\ Tail(s) = << >>
    BY <1>5, HeadsAndTails
  <2>2. Do(d, Flush(RaftState)) = Disk(<< r >>, b, << >>, << >>)
    BY <1>5, FlushesAll
  <2>3. QED
    BY <1>1, <1>2, <2>1, <2>2 DEF Idle
<1>6. QED
  BY <1>1, <1>3, <1>4, <1>5 DEF SavingState

\* save() ends with the state and the snapshot in their files (Persister.cc:10).
LEMMA SavingBothKeeps ==
  ASSUME NEW d, NEW s, NEW r, NEW t,
         SavingBoth(d, s, r, t),
         r.lastIncludeSnapshotIndex > 0, r.lastIncludeSnapshotIndex \in Nat
  PROVE  \/ SavingBoth(Do(d, Head(s)), Tail(s), r, t)
         \/ Idle(Do(d, Head(s)), Tail(s), r, t)
<1> DEFINE w == Write(SnapShot, t.pairs)
           rest == << Write(RaftState, r), w, Flush(RaftState), Flush(SnapShot) >>
<1>1. CASE s = Save(r, t.pairs) /\ \E old, last : d = Disk(old, last, << >>, << >>)
  <2>1. PICK old, last : d = Disk(old, last, << >>, << >>)
    BY <1>1
  <2>2. /\ Head(s) = Truncate(RaftState)
        /\ Tail(s) = << Truncate(SnapShot), Write(RaftState, r), w,
                        Flush(RaftState), Flush(SnapShot) >>
    BY <1>1, HeadsAndTails DEF Save
  <2>3. Do(d, Truncate(RaftState)) = Disk(<< >>, last, << >>, << >>)
    BY <2>1, Truncates
  <2>4. QED
    BY <2>2, <2>3 DEF SavingBoth
<1>2. CASE /\ s = << Truncate(SnapShot), Write(RaftState, r), w,
                     Flush(RaftState), Flush(SnapShot) >>
           /\ \E last : d = Disk(<< >>, last, << >>, << >>)
  <2>1. PICK last : d = Disk(<< >>, last, << >>, << >>)
    BY <1>2
  <2>2. Head(s) = Truncate(SnapShot) /\ Tail(s) = rest
    BY <1>2, HeadsAndTails
  <2>3. Do(d, Truncate(SnapShot)) = Disk(<< >>, << >>, << >>, << >>)
    BY <2>1, Truncates
  <2>4. QED
    BY <2>2, <2>3 DEF SavingBoth
<1>3. CASE s = rest /\ d = Disk(<< >>, << >>, << >>, << >>)
  <2>1. /\ Head(s) = Write(RaftState, r)
        /\ Tail(s) = << w, Flush(RaftState), Flush(SnapShot) >>
    BY <1>3, HeadsAndTails
  <2>2. Do(d, Write(RaftState, r)) = Disk(<< >>, << >>, << r >>, << >>)
    BY <1>3, Writes
  <2>3. QED
    BY <2>1, <2>2 DEF SavingBoth
<1>4. CASE /\ s = << w, Flush(RaftState), Flush(SnapShot) >>
           /\ d = Disk(<< >>, << >>, << r >>, << >>)
  <2>1. Head(s) = w /\ Tail(s) = << Flush(RaftState), Flush(SnapShot) >>
    BY <1>4, HeadsAndTails
  <2>2. PICK x : x = t.pairs
    OBVIOUS
  <2>3. Do(Disk(<< >>, << >>, << r >>, << >>), Write(SnapShot, x)) =
          Disk(<< >>, << >>, << r >>, << x >>)
    BY SMTT(30), Writes
  <2>4. QED
    BY <1>4, <2>1, <2>2, <2>3 DEF SavingBoth
<1>5. CASE /\ s = << Flush(RaftState), Flush(SnapShot) >>
           /\ d = Disk(<< >>, << >>, << r >>, << t.pairs >>)
  <2>1. Head(s) = Flush(RaftState) /\ Tail(s) = << Flush(SnapShot) >>
    BY <1>5, HeadsAndTails
  <2>2. PICK x : x = << t.pairs >>
    OBVIOUS
  <2>3. Do(Disk(<< >>, << >>, << r >>, x), Flush(RaftState)) = Disk(<< r >>, << >>, << >>, x)
    BY FlushesAll
  <2>4. QED
    BY <1>5, <2>1, <2>2, <2>3 DEF SavingBoth
<1>6. CASE s = << Flush(SnapShot) >> /\ d = Disk(<< r >>, << >>, << >>, << t.pairs >>)
  <2>1. Head(s) = Flush(SnapShot) /\ Tail(s) = << >>
    BY <1>6, HeadsAndTails
  <2>2. PICK x : x = t.pairs
    OBVIOUS
  <2>3. Do(Disk(<< r >>, << >>, << >>, << x >>), Flush(SnapShot)) =
          Disk(<< r >>, << x >>, << >>, << >>)
    BY FlushesAll
  <2>4. StateFile(r) = << r >> /\ SnapshotFile(r, t) = << t.pairs >>
    BY DEF StateFile, SnapshotFile
  <2>5. QED
    BY <1>6, <2>1, <2>2, <2>3, <2>4 DEF Idle
<1>7. QED
  BY <1>1, <1>2, <1>3, <1>4, <1>5, <1>6 DEF SavingBoth

----------------------------------------------------------------------------
(* The invariant                                                           *)

\* Both files are empty before the first save.
LEMMA InitDisk == Init => DiskInv
<1> SUFFICES ASSUME Init PROVE DiskInv
  OBVIOUS
<1>1. raft = [ currentTerm |-> 0, lastIncludeSnapshotIndex |-> 0 ] /\ index = 0
  BY DEF Init
<1>2. disk = Disk(<< >>, << >>, << >>, << >>)
  BY DEF Init, NewPersister, Disk, Both
<1>3. StateOK(index, raft, taken)
  BY <1>1 DEF StateOK
<1>4. Idle(disk, saving, raft, taken)
  BY <1>1, <1>2 DEF Init, Idle, StateFile, SnapshotFile
<1>5. QED
  BY <1>3, <1>4 DEF DiskInv, DiskOK

\* A save begins only when the last one is done.
LEMMA SavingIsNotIdle ==
  ASSUME NEW d, NEW s, NEW r, NEW t, DiskOK(d, s, r, t), s = << >>
  PROVE  Idle(d, s, r, t)
<1>1. ~SavingState(d, s, r, t)
  BY DEF SavingState, SaveRaftState
<1>2. ~SavingBoth(d, s, r, t)
  BY DEF SavingBoth, Save
<1>3. QED
  BY <1>1, <1>2 DEF DiskOK

\* Every step of the leader and of the follower keeps DiskInv.
LEMMA NextDisk == DiskInv /\ [Next]_storageVars => DiskInv'
<1> SUFFICES ASSUME DiskInv, [Next]_storageVars PROVE DiskInv'
  OBVIOUS
<1>1. PICK i, r, t, d, s : i = index /\ r = raft /\ t = taken /\ d = disk /\ s = saving
  OBVIOUS
<1>2. StateOK(i, r, t) /\ DiskOK(d, s, r, t)
  BY <1>1 DEF DiskInv
<1>3. CASE Apply
  <2>1. index' = i + 1 /\ UNCHANGED << raft, disk, saving, taken >>
    BY <1>1, <1>3 DEF Apply
  <2>2. StateOK(i + 1, r, t)
    BY <1>2 DEF StateOK
  <2>3. QED
    BY <1>1, <1>2, <2>1, <2>2 DEF DiskInv
<1>4. CASE Snapshot
  <2>1. PICK m, u : /\ m = [r EXCEPT !.lastIncludeSnapshotIndex = i] /\ m = raft'
                    /\ u = [ index |-> i, pairs |-> DumpToJson(list) ] /\ u = taken'
    BY <1>1, <1>4 DEF Snapshot
  <2>2. /\ s = << >> /\ i > r.lastIncludeSnapshotIndex
        /\ saving' = Save(m, u.pairs) /\ index' = i /\ disk' = d
    BY <1>1, <1>4, <2>1 DEF Snapshot
  <2>3. i \in Nat /\ i > 0
    BY <1>2, <2>2 DEF StateOK
  <2>4. m = [ currentTerm |-> r.currentTerm, lastIncludeSnapshotIndex |-> i ]
    BY <1>2, <2>1 DEF StateOK
  <2>5. StateOK(i, m, u)
    BY <1>2, <2>1, <2>3, <2>4 DEF StateOK
  <2>6. Idle(d, s, r, t)
    BY <1>2, <2>2, SavingIsNotIdle
  <2>7. SavingBoth(d, Save(m, u.pairs), m, u)
    BY <2>6 DEF Idle, SavingBoth
  <2>8. QED
    BY <2>1, <2>2, <2>3, <2>4, <2>5, <2>7 DEF DiskInv, DiskOK
<1>5. CASE Persist
  <2>1. PICK m : m = [r EXCEPT !.currentTerm = r.currentTerm + 1] /\ m = raft'
    BY <1>1, <1>5 DEF Persist
  <2>2. /\ s = << >> /\ saving' = SaveRaftState(m)
        /\ index' = i /\ disk' = d /\ taken' = t
    BY <1>1, <1>5, <2>1 DEF Persist
  <2>3. m = [ currentTerm |-> r.currentTerm + 1,
              lastIncludeSnapshotIndex |-> r.lastIncludeSnapshotIndex ]
    BY <1>2, <2>1 DEF StateOK
  <2>4. StateOK(i, m, t) /\ m.currentTerm > 0
    BY <1>2, <2>3 DEF StateOK
  <2>5. Idle(d, s, r, t)
    BY <1>2, <2>2, SavingIsNotIdle
  <2>6. SnapshotFile(m, t) = SnapshotFile(r, t)
    BY <2>3 DEF SnapshotFile
  <2>7. SavingState(d, SaveRaftState(m), m, t)
    BY <2>5, <2>6 DEF Idle, SavingState
  <2>8. QED
    BY <2>1, <2>2, <2>4, <2>7 DEF DiskInv, DiskOK
<1>6. CASE SaveStep
  <2>1. /\ s # << >> /\ disk' = Do(d, Head(s)) /\ saving' = Tail(s)
        /\ index' = i /\ raft' = r /\ taken' = t
    BY <1>1, <1>6 DEF SaveStep
  <2>2. r.currentTerm \in Nat /\ r.lastIncludeSnapshotIndex \in Nat
    BY <1>2 DEF StateOK
  <2>3. ~Idle(d, s, r, t)
    BY <2>1 DEF Idle
  <2>4. DiskOK(Do(d, Head(s)), Tail(s), r, t)
    <3>1. CASE SavingState(d, s, r, t) /\ r.currentTerm > 0
      BY <2>2, <3>1, SavingStateKeeps DEF DiskOK
    <3>2. CASE SavingBoth(d, s, r, t) /\ r.lastIncludeSnapshotIndex > 0
      BY <2>2, <3>2, SavingBothKeeps DEF DiskOK
    <3>3. QED
      BY <1>2, <2>3, <3>1, <3>2 DEF DiskOK
  <2>5. QED
    BY <1>2, <2>1, <2>4 DEF DiskInv
<1>7. CASE SendSnapshot
  <2>1. /\ s = << >> /\ disk' = Reopened(d)
        /\ index' = i /\ raft' = r /\ taken' = t /\ saving' = s
    BY <1>1, <1>7 DEF SendSnapshot
  <2>2. Idle(d, s, r, t)
    BY <1>2, <2>1, SavingIsNotIdle
  <2>3. Reopened(d) = d
    BY <2>2, ReadingKeeps DEF Idle
  <2>4. QED
    BY <1>2, <2>1, <2>3 DEF DiskInv
<1>8. CASE LeaderRestarts
  <2>1. PICK m : m = [ currentTerm |-> 0, lastIncludeSnapshotIndex |-> 0 ] /\ m = raft'
    BY <1>8 DEF LeaderRestarts
  <2>2. /\ index' = 0 /\ disk' = NewPersister /\ saving' = << >> /\ taken' = NoSnapshot
    BY <1>8 DEF LeaderRestarts
  <2>3. NewPersister = Disk(<< >>, << >>, << >>, << >>)
    BY DEF NewPersister, Disk, Both
  <2>4. StateOK(0, m, NoSnapshot)
    BY <2>1 DEF StateOK
  <2>5. Idle(NewPersister, << >>, m, NoSnapshot)
    BY <2>1, <2>3 DEF Idle, StateFile, SnapshotFile
  <2>6. QED
    BY <2>1, <2>2, <2>4, <2>5 DEF DiskInv, DiskOK
<1>9. CASE FollowerRestarts
  BY <1>9 DEF FollowerRestarts, DiskInv
<1>10. CASE UNCHANGED storageVars
  BY <1>10 DEF storageVars, DiskInv
<1>11. QED
  BY <1>3, <1>4, <1>5, <1>6, <1>7, <1>8, <1>9, <1>10 DEF Next

\* What the readers get when the files hold what was saved.
LEMMA DiskIsRead == DiskInv => DiskIsSaved
<1> SUFFICES ASSUME DiskInv, saving = << >> PROVE DiskIsSaved
  BY DEF DiskIsSaved
<1>1. PICK r, t, d : r = raft /\ t = taken /\ d = disk
  OBVIOUS
<1>2. StateOK(index, r, t) /\ Idle(d, << >>, r, t)
  BY <1>1, SavingIsNotIdle DEF DiskInv
<1>3. PICK a, b : a = StateFile(r) /\ b = SnapshotFile(r, t)
  OBVIOUS
<1>4. d = Disk(a, b, << >>, << >>)
  BY <1>2, <1>3 DEF Idle
<1>5. d.file[RaftState] = a /\ d.file[SnapShot] = b
  BY <1>4 DEF Disk, Both, Files, RaftState, SnapShot
<1>6. Reopened(d).file[SnapShot] = b
  <2>1. Reopened(d) = d
    BY <1>3, <1>4, ReadingKeeps
  <2>2. QED
    BY <1>5, <2>1
<1>7. ReadRaftState(d) =
        IF r.currentTerm = 0 /\ r.lastIncludeSnapshotIndex = 0 THEN NoFile ELSE r
  BY <1>3, <1>5, HeadsAndTails DEF ReadRaftState, FirstIn, StateFile
<1>8. ASSUME r.lastIncludeSnapshotIndex > 0
      PROVE  ReadSnapShot(d) = t.pairs /\ t.index = r.lastIncludeSnapshotIndex
  <2>1. b = << t.pairs >>
    BY <1>2, <1>3, <1>8 DEF SnapshotFile, StateOK
  <2>2. ReadSnapShot(d) = t.pairs
    BY <1>6, <2>1, HeadsAndTails DEF ReadSnapShot, FirstIn
  <2>3. QED
    BY <1>2, <1>8, <2>2 DEF StateOK
<1>9. QED
  BY <1>1, <1>7, <1>8 DEF DiskIsSaved

\* Whenever no save is under way, the raft state file holds the term and the
\* snapshot's index that Raft has, and the snapshot file the pairs that were
\* dumped at that index: whatever was written, read or cut short by the death
\* of the process before (Persister::save, saveRaftState, readSnapShot).
THEOREM DiskAlwaysSaved == StorageSpec => []DiskIsSaved
<1>1. QED
  BY InitDisk, NextDisk, DiskIsRead, PTL DEF StorageSpec

----------------------------------------------------------------------------
(* The links of a skip list                                                *)

\* x is the next node of S after n, or Nil.
IsNext(S, n, x) ==
  \/ x = Nil /\ \A m \in S : m <= n
  \/ x \in S /\ n < x /\ \A m \in S : m <= n \/ x <= m

\* g is the last node of S below k.
IsLast(S, k, g) == g \in S /\ g < k /\ \A m \in S : m < k => m <= g

\* A node has the levels up to its height.
HasHeight(links) == \E h \in Level : DOMAIN links = 0 .. h /\ links = [i \in 0 .. h |-> links[i]]

\* Every link leads to the next node of its level; curLevel_ is the last level
\* with a node on it.
Linked(l) ==
  /\ l = [ forward |-> l.forward, value |-> l.value,
           curLevel |-> l.curLevel, elementCount |-> l.elementCount ]
  /\ Header \in Nodes(l) /\ Nodes(l) \subseteq Key \cup {Header} /\ IsFiniteSet(Nodes(l))
  /\ l.forward = [n \in Nodes(l) |-> l.forward[n]]
  /\ DOMAIN l.forward[Header] = Level
  /\ \A n \in Nodes(l) : HasHeight(l.forward[n])
  /\ \A i \in Level : \A n \in NodesOn(l, i) : IsNext(NodesOn(l, i), n, Forward(l, n, i))
  /\ l.curLevel \in Level
  /\ \A i \in Level : i > l.curLevel => NodesOn(l, i) = {Header}
  /\ l.curLevel > 0 => NodesOn(l, l.curLevel) # {Header}
  /\ l.value = [n \in Nodes(l) \ {Header} |-> l.value[n]]
  /\ \A n \in Nodes(l) \ {Header} : l.value[n] \in Value
  /\ l.elementCount = Cardinality(Nodes(l) \ {Header})

\* A set of numbers that is not empty has a smallest.
LEMMA SmallestOf ==
  ASSUME NEW S, S \subseteq Nat, S # {}
  PROVE  \E i \in S : \A j \in S : i <= j
  <1>1. PICK x \in S : \A y \in S : ~ (<< y, x >> \in OpToRel(<, Nat))
    BY NatLessThanWellFounded, WFMin
  <1>2. \A y \in S : ~(y < x)
    BY <1>1 DEF OpToRel
  <1> QED BY <1>2

\* And a largest, when it is bounded.
LEMMA LargestOf ==
  ASSUME NEW S, NEW b \in Nat, S \subseteq 0 .. b, S # {}
  PROVE  \E i \in S : \A j \in S : j <= i
  <1> DEFINE T == { i \in Nat : \A j \in S : j <= i }
  <1>1. b \in T  OBVIOUS
  <1>2. T \subseteq Nat /\ T # {}  BY <1>1
  <1> HIDE DEF T
  <1>3. PICK t \in T : \A u \in T : t <= u  BY <1>2, SmallestOf
  <1>4. t \in Nat /\ \A j \in S : j <= t  BY <1>3 DEF T
  <1>5. t \in S
    <2>1. SUFFICES ASSUME t \notin S PROVE FALSE  OBVIOUS
    <2>2. PICK i \in S : TRUE  OBVIOUS
    <2>3. i \in Nat /\ i < t  BY <1>4, <2>1, <2>2
    <2>4. \A j \in S : j \in Nat /\ j <= t /\ j # t  BY <1>4, <2>1
    <2>5. \A j \in S : j <= t - 1  BY <1>4, <2>4
    <2>6. t - 1 \in T  BY <1>4, <2>3, <2>5 DEF T
    <2> QED BY <1>3, <1>4, <2>6
  <1> QED BY <1>4, <1>5

\* The nodes of a level are some of those of the level below.
LEMMA OnLevels ==
  ASSUME NEW l, Linked(l), NEW i \in Level
  PROVE  /\ NodesOn(l, i) \subseteq Nodes(l) /\ NodesOn(l, i) \subseteq Nat
         /\ Header \in NodesOn(l, i) /\ Header \in Nat /\ Nodes(l) \subseteq Nat
         /\ \A j \in 0 .. i : j \in Level /\ NodesOn(l, i) \subseteq NodesOn(l, j)
         /\ NodesOn(l, 0) = Nodes(l) /\ 0 \in Level /\ i \in Nat
  <1>1. Nodes(l) \subseteq Nat /\ Header \in Nodes(l)
    BY SkipListAssumption DEF Linked, Header
  <1>2. 0 \in Level /\ i \in Nat /\ \A j \in 0 .. i : j \in Level
    BY SkipListAssumption DEF Level
  <1>3. ASSUME NEW n \in Nodes(l)
        PROVE  0 \in DOMAIN l.forward[n]
               /\ (i \in DOMAIN l.forward[n] => \A j \in 0 .. i : j \in DOMAIN l.forward[n])
    <2>1. PICK h \in Level : DOMAIN l.forward[n] = 0 .. h  BY DEF Linked, HasHeight
    <2>2. h \in Nat  BY SkipListAssumption DEF Level
    <2> QED BY <1>2, <2>1, <2>2
  <1>4. Header \in NodesOn(l, i)  BY <1>1 DEF NodesOn, Linked
  <1>5. Header \in Nat  BY DEF Header
  <1> QED BY <1>1, <1>2, <1>3, <1>4, <1>5 DEF NodesOn

\* Below a key there is a node, if only the header.
LEMMA LastExists ==
  ASSUME NEW l, Linked(l), NEW i \in Level, NEW k \in Nat, k # 0
  PROVE  \E g : IsLast(NodesOn(l, i), k, g)
  <1> DEFINE S == { n \in NodesOn(l, i) : n < k }
  <1>1. NodesOn(l, i) \subseteq Nat /\ Header \in S  BY OnLevels DEF Header
  <1>2. S \subseteq 0 .. k  BY <1>1
  <1>3. PICK g \in S : \A j \in S : j <= g
    <2> HIDE DEF S
    <2> QED BY <1>1, <1>2, LargestOf
  <1> QED BY <1>3 DEF IsLast

\* The walk along a level ends at the last node below the key.
LEMMA Advanced ==
  ASSUME NEW l, Linked(l), NEW i \in Level, NEW k \in Nat,
         NEW n \in NodesOn(l, i), n < k
  PROVE  IsLast(NodesOn(l, i), k, Advance(l, n, i, k))
  <1> DEFINE S == NodesOn(l, i)
             F(m) == Forward(l, m, i)
             Walk(f) == f = [m \in S |-> IF F(m) # Nil /\ F(m) < k THEN f[F(m)] ELSE m]
  <1>1. S \subseteq Nat /\ k # 0  BY OnLevels
  <1>2. PICK g : IsLast(S, k, g)  BY <1>1, LastExists
  <1>3. \A m \in S : IsNext(S, m, F(m))  BY DEF Linked
  <1>4. Nil \notin Nat  BY SkipListAssumption
  <1> HIDE DEF S, F
  <1>5. \A m \in S : F(m) # Nil => F(m) \in S /\ m < F(m)  BY <1>3 DEF IsNext
  <1>6. \A m \in S : m < k /\ ~(F(m) # Nil /\ F(m) < k) => m = g
    <2> TAKE m \in S
    <2>1. ASSUME m < k, ~(F(m) # Nil /\ F(m) < k)  PROVE m = g
      <3>1. g \in S /\ g < k /\ m <= g /\ m \in Nat /\ g \in Nat  BY <1>1, <1>2, <2>1 DEF IsLast
      <3>2. IsNext(S, m, F(m))  BY <1>3
      <3>3. CASE F(m) = Nil
        <4>1. F(m) \notin S  BY <1>1, <1>4, <3>3
        <4>2. g <= m  BY <3>1, <3>2, <4>1 DEF IsNext
        <4> QED BY <3>1, <4>2
      <3>4. CASE F(m) # Nil /\ ~(F(m) < k)
        <4>1. F(m) \in Nat /\ (g <= m \/ F(m) <= g)  BY <1>1, <3>1, <3>2, <3>4 DEF IsNext
        <4> QED BY <3>1, <3>4, <4>1
      <3> QED BY <2>1, <3>3, <3>4
    <2> QED BY <2>1
  <1>7. \E f : Walk(f)
    <2> DEFINE f == [m \in S |-> IF m < k THEN g ELSE m]
    <2>1. ASSUME NEW m \in S
          PROVE  f[m] = IF F(m) # Nil /\ F(m) < k THEN f[F(m)] ELSE m
      <3>1. m \in Nat  BY <1>1
      <3>2. CASE F(m) # Nil /\ F(m) < k
        <4>1. F(m) \in S /\ m < F(m) /\ F(m) \in Nat  BY <1>1, <1>5, <3>2
        <4>2. m < k  BY <3>1, <3>2, <4>1
        <4> QED BY <3>2, <4>1, <4>2
      <3>3. CASE ~(F(m) # Nil /\ F(m) < k)
        <4>1. m < k => m = g  BY <1>6, <3>3
        <4> QED BY <3>3, <4>1
      <3> QED BY <3>2, <3>3
    <2>2. f = [m \in S |-> f[m]]  OBVIOUS
    <2> HIDE DEF f
    <2>3. Walk(f)  BY <2>1, <2>2
    <2> QED BY <2>3
  <1> DEFINE f == CHOOSE f : Walk(f)
  <1>8. Walk(f)  BY <1>7
  <1>9. Advance(l, n, i, k) = f[n]  BY DEF Advance, S, F
  <1> HIDE DEF f
  <1> DEFINE Bad == { m \in S : m < k /\ f[m] # g }
  <1>10. Bad = {}
    <2>1. SUFFICES ASSUME Bad # {} PROVE FALSE  OBVIOUS
    <2>2. Bad \subseteq 0 .. k
      <3>1. \A m \in Bad : m \in S /\ m < k  OBVIOUS
      <3> HIDE DEF Bad
      <3>2. \A m \in Bad : m \in Nat /\ m < k  BY <1>1, <3>1
      <3> QED BY <3>2
    <2>3. PICK m \in Bad : \A j \in Bad : j <= m
      <3> HIDE DEF Bad
      <3> QED BY <2>1, <2>2, LargestOf
    <2>4. m \in S /\ m < k /\ f[m] # g /\ m \in Nat  BY <1>1
    <2>5. F(m) # Nil /\ F(m) < k
      <3>1. SUFFICES ASSUME ~(F(m) # Nil /\ F(m) < k) PROVE FALSE  OBVIOUS
      <3>2. f[m] = m  BY <1>8, <2>4, <3>1
      <3> QED BY <1>6, <2>4, <3>1, <3>2
    <2>6. f[m] = f[F(m)] /\ F(m) \in S /\ m < F(m)  BY <1>5, <1>8, <2>4, <2>5
    <2>7. F(m) \in Bad  BY <2>4, <2>5, <2>6
    <2> HIDE DEF Bad
    <2>8. F(m) \in Nat /\ F(m) <= m  BY <1>1, <2>3, <2>6, <2>7
    <2> QED BY <2>4, <2>6, <2>8
  <1>11. f[n] = g  BY <1>10 DEF S
  <1> QED BY <1>2, <1>9, <1>11 DEF S

\* update[] holds the last node below the key on every level.
LEMMA PredecessorsAreLast ==
  ASSUME NEW l, Linked(l), NEW k \in Nat, k # 0
  PROVE  \A i \in 0 .. l.curLevel : IsLast(NodesOn(l, i), k, Predecessors(l, k)[i])
  <1> DEFINE c == l.curLevel
             From(u, i) == IF i = c THEN Header ELSE u[i + 1]
             Search(u) == u = [i \in 0 .. c |-> Advance(l, From(u, i), i, k)]
  <1>1. c \in Nat /\ \A i \in 0 .. c : i \in Level /\ i \in Nat
    BY SkipListAssumption DEF Linked, Level
  <1> HIDE DEF c
  <1>2. ASSUME NEW u, NEW i \in 0 .. c, i # c => IsLast(NodesOn(l, i + 1), k, u[i + 1])
        PROVE  IsLast(NodesOn(l, i), k, Advance(l, From(u, i), i, k))
    <2>1. i \in Level  BY <1>1
    <2>2. From(u, i) \in NodesOn(l, i) /\ From(u, i) < k
      <3>1. CASE i = c
        <4>1. Header \in NodesOn(l, i)  BY <2>1, OnLevels
        <4> QED BY <3>1, <4>1 DEF Header
      <3>2. CASE i # c
        <4>1. i + 1 \in 0 .. c /\ i \in 0 .. i + 1  BY <1>1, <3>2
        <4>2. i + 1 \in Level  BY <1>1, <4>1
        <4>3. NodesOn(l, i + 1) \subseteq NodesOn(l, i)  BY <4>1, <4>2, OnLevels
        <4> QED BY <1>2, <3>2, <4>3 DEF IsLast
      <3> QED BY <3>1, <3>2
    <2> HIDE DEF From
    <2> QED BY <2>1, <2>2, Advanced
  <1>3. \A i \in 0 .. c : \E g : IsLast(NodesOn(l, i), k, g)  BY <1>1, LastExists
  <1>4. \A i \in 0 .. c : \A g, h :
          IsLast(NodesOn(l, i), k, g) /\ IsLast(NodesOn(l, i), k, h) => g = h
    <2> TAKE i \in 0 .. c
    <2>1. NodesOn(l, i) \subseteq Nat  BY <1>1, OnLevels
    <2> QED BY <2>1 DEF IsLast
  <1>5. \E u : Search(u)
    <2> DEFINE u == [i \in 0 .. c |-> CHOOSE g : IsLast(NodesOn(l, i), k, g)]
    <2>1. \A i \in 0 .. c : IsLast(NodesOn(l, i), k, u[i])  BY <1>3
    <2>2. u = [i \in 0 .. c |-> u[i]]  OBVIOUS
    <2> HIDE DEF u
    <2>3. ASSUME NEW i \in 0 .. c  PROVE u[i] = Advance(l, From(u, i), i, k)
      <3>1. i # c => i + 1 \in 0 .. c  BY <1>1
      <3>2. i # c => IsLast(NodesOn(l, i + 1), k, u[i + 1])  BY <2>1, <3>1
      <3>3. IsLast(NodesOn(l, i), k, Advance(l, From(u, i), i, k))
        <4> HIDE DEF From
        <4> QED BY <1>2, <3>2
      <3> HIDE DEF From
      <3> QED BY <1>4, <2>1, <3>3
    <2> HIDE DEF From
    <2>4. Search(u)  BY <2>2, <2>3
    <2> QED BY <2>4
  <1> DEFINE u == CHOOSE u : Search(u)
  <1>6. Search(u)
    <2> HIDE DEF From
    <2> QED BY <1>5
  <1>7. Predecessors(l, k) = u  BY DEF Predecessors, c
  <1> HIDE DEF u
  <1> DEFINE Bad == { i \in 0 .. c : ~IsLast(NodesOn(l, i), k, u[i]) }
  <1>8. Bad = {}
    <2>1. SUFFICES ASSUME Bad # {} PROVE FALSE  OBVIOUS
    <2>2. Bad \subseteq 0 .. c  OBVIOUS
    <2>3. PICK i \in Bad : \A j \in Bad : j <= i
      <3> HIDE DEF Bad
      <3> QED BY <1>1, <2>1, <2>2, LargestOf
    <2>4. i \in 0 .. c /\ ~IsLast(NodesOn(l, i), k, u[i])  OBVIOUS
    <2>5. i # c => i + 1 \in 0 .. c /\ i + 1 \notin Bad
      <3> HIDE DEF Bad
      <3> QED BY <1>1, <2>3, <2>4
    <2>6. i # c => IsLast(NodesOn(l, i + 1), k, u[i + 1])  BY <2>5
    <2> HIDE DEF Bad
    <2>7. u[i] = Advance(l, From(u, i), i, k)
      <3> HIDE DEF From
      <3> QED BY <1>6, <2>4
    <2> HIDE DEF From
    <2> QED BY <1>2, <2>4, <2>6, <2>7
  <1>9. \A i \in 0 .. c : IsLast(NodesOn(l, i), k, u[i])  BY <1>8
  <1> QED BY <1>7, <1>9 DEF c

\* find() tells whether the key is there, and get() gives its value.
LEMMA Found ==
  ASSUME NEW l, Linked(l), NEW k \in Key
  PROVE  /\ k \in Nat /\ k # 0 /\ k # Header
         /\ Find(l, k) <=> k \in Nodes(l)
         /\ Get(l, k) = IF k \in Nodes(l) THEN l.value[k] ELSE Nil
  <1>1. k \in Nat /\ k # 0 /\ k # Header  BY SkipListAssumption DEF Header
  <1>2. MaxLevel \in Nat /\ l.curLevel \in Level  BY SkipListAssumption DEF Linked
  <1>3. 0 \in 0 .. l.curLevel /\ 0 \in Level  BY <1>2 DEF Level
  <1> DEFINE S == Nodes(l)
  <1>4. S \subseteq Nat /\ NodesOn(l, 0) = S  BY <1>3, OnLevels
  <1>5. PICK g : g = Predecessors(l, k)[0]  OBVIOUS
  <1>6. IsLast(S, k, g)  BY <1>1, <1>3, <1>4, <1>5, PredecessorsAreLast
  <1>7. PICK x : x = Position(l, k)  OBVIOUS
  <1>8. IsNext(S, g, x)
    <2>1. x = Forward(l, g, 0)  BY <1>5, <1>7 DEF Position
    <2>2. g \in NodesOn(l, 0)  BY <1>4, <1>6 DEF IsLast
    <2> HIDE DEF S
    <2>3. IsNext(NodesOn(l, 0), g, Forward(l, g, 0))  BY <1>3, <2>2 DEF Linked
    <2> QED BY <1>4, <2>1, <2>3
  <1>9. Find(l, k) <=> k \in S
    <2>1. Find(l, k) <=> x = k  BY <1>7 DEF Find
    <2>2. Nil \notin Nat  BY SkipListAssumption
    <2> HIDE DEF S
    <2>3. x = k => k \in S  BY <1>1, <1>8, <2>2 DEF IsNext
    <2>4. ASSUME k \in S  PROVE x = k
      <3>1. g \in Nat /\ g < k /\ \A m \in S : m < k => m <= g  BY <1>4, <1>6 DEF IsLast
      <3>2. x \in S /\ g < x /\ (k <= g \/ x <= k)
        BY <1>1, <1>8, <2>4, <3>1 DEF IsNext
      <3>3. x \in Nat /\ x <= k  BY <1>1, <1>4, <3>1, <3>2
      <3>4. ~(x < k)  BY <3>1, <3>2, <3>3
      <3> QED BY <1>1, <3>3, <3>4
    <2> QED BY <2>1, <2>3, <2>4
  <1> QED BY <1>1, <1>9 DEF Get
----------------------------------------------------------------------------
(* insert() and erase()                                                    *)

\* A new list is linked.
LEMMA NewListLinked ==
  /\ Linked(NewList) /\ Nodes(NewList) = {Header} /\ NewList.elementCount = 0
  <1> DEFINE l == NewList
  <1>1. /\ l = [ forward |-> l.forward, value |-> l.value,
                 curLevel |-> l.curLevel, elementCount |-> l.elementCount ]
        /\ l.forward = [n \in {Header} |-> [i \in Level |-> Nil]]
        /\ l.value = [n \in {} |-> Nil] /\ l.curLevel = 0 /\ l.elementCount = 0
    BY DEF NewList
  <1> HIDE DEF l
  <1>2. Nodes(l) = {Header} /\ Nodes(l) \ {Header} = {}  BY <1>1 DEF Nodes
  <1>3. MaxLevel \in Nat /\ Level = 0 .. MaxLevel /\ 0 \in Level /\ MaxLevel \in Level
    BY SkipListAssumption DEF Level
  <1>4. DOMAIN l.forward[Header] = Level /\ l.forward[Header] = [i \in Level |-> Nil]  BY <1>1
  <1>5. HasHeight(l.forward[Header])  BY <1>3, <1>4 DEF HasHeight
  <1>6. \A i \in Level : NodesOn(l, i) = {Header} /\ Forward(l, Header, i) = Nil
    BY <1>1, <1>2, <1>4 DEF NodesOn, Forward
  <1>7. \A i \in Level : \A n \in NodesOn(l, i) : IsNext(NodesOn(l, i), n, Forward(l, n, i))
    BY <1>6 DEF IsNext, Header
  <1>8. l.forward = [n \in Nodes(l) |-> l.forward[n]]  BY <1>1, <1>2
  <1>9. l.value = [n \in Nodes(l) \ {Header} |-> l.value[n]]  BY <1>1, <1>2
  <1>10. IsFiniteSet(Nodes(l)) /\ Cardinality({}) = 0
    <2>1. IsFiniteSet({Header})  BY FS_Singleton
    <2> QED BY <1>2, <2>1, FS_EmptySet
  <1>11. Linked(l)
    BY <1>1, <1>2, <1>3, <1>4, <1>5, <1>6, <1>7, <1>8, <1>9, <1>10 DEF Linked
  <1> QED BY <1>1, <1>2, <1>11 DEF l

\* In a set of numbers, the next after a node that gets a new neighbour.
LEMMA NextAfterInsert ==
  ASSUME NEW S, S \subseteq Nat, NEW k \in Nat, k \notin S, NEW g, IsLast(S, k, g), Nil \notin Nat,
         NEW F, \A n \in S : IsNext(S, n, F[n])
  PROVE  /\ IsNext(S \cup {k}, k, F[g]) /\ IsNext(S \cup {k}, g, k)
         /\ \A n \in S : n # g => IsNext(S \cup {k}, n, F[n])
  <1>1. g \in S /\ g \in Nat /\ g < k /\ \A m \in S : m < k => m <= g  BY DEF IsLast
  <1>2. IsNext(S, g, F[g])  BY <1>1
  <1>3. IsNext(S \cup {k}, k, F[g])
    <2>1. CASE F[g] = Nil
      <3>1. F[g] \notin S  BY <2>1
      <3>2. \A m \in S : m <= g  BY <1>2, <3>1 DEF IsNext
      <3>3. \A m \in S \cup {k} : m <= k
        <4> TAKE m \in S \cup {k}
        <4>1. CASE m = k  BY <4>1
        <4>2. CASE m \in S
          <5>1. m \in Nat /\ m <= g  BY <3>2, <4>2
          <5> QED BY <1>1, <5>1
        <4> QED BY <4>1, <4>2
      <3> QED BY <2>1, <3>3 DEF IsNext
    <2>2. CASE F[g] # Nil
      <3>1. F[g] \in S /\ F[g] \in Nat /\ g < F[g] /\ \A m \in S : m <= g \/ F[g] <= m
        BY <1>2, <2>2 DEF IsNext
      <3>2. k < F[g]
        <4>1. ~(F[g] < k)  BY <1>1, <3>1
        <4>2. F[g] # k  BY <3>1
        <4> QED BY <3>1, <4>1, <4>2
      <3>3. \A m \in S \cup {k} : m <= k \/ F[g] <= m
        <4> TAKE m \in S \cup {k}
        <4>1. CASE m = k  BY <4>1
        <4>2. CASE m \in S
          <5>1. m \in Nat /\ (m <= g \/ F[g] <= m)  BY <3>1, <4>2
          <5> QED BY <1>1, <5>1
        <4> QED BY <4>1, <4>2
      <3> QED BY <3>1, <3>2, <3>3 DEF IsNext
    <2> QED BY <2>1, <2>2
  <1>4. IsNext(S \cup {k}, g, k)
    <2>1. \A m \in S \cup {k} : m <= g \/ k <= m
      <3> TAKE m \in S \cup {k}
      <3>1. CASE m = k  BY <3>1
      <3>2. CASE m \in S
        <4>1. m \in Nat /\ (m < k => m <= g)  BY <1>1, <3>2
        <4> QED BY <4>1
      <3> QED BY <3>1, <3>2
    <2> QED BY <1>1, <2>1 DEF IsNext
  <1>5. ASSUME NEW n \in S, n # g  PROVE IsNext(S \cup {k}, n, F[n])
    <2>1. IsNext(S, n, F[n]) /\ n \in Nat /\ n # k  BY <1>5
    <2>2. CASE F[n] = Nil
      <3>1. \A m \in S : m <= n  BY <2>1, <2>2 DEF IsNext
      <3>2. g <= n /\ ~(n < k)
        <4>1. g <= n  BY <1>1, <3>1
        <4>2. n < k => n <= g  BY <1>1, <1>5
        <4> QED BY <1>1, <1>5, <2>1, <4>1, <4>2
      <3>3. \A m \in S \cup {k} : m <= n  BY <2>1, <3>1, <3>2
      <3> QED BY <2>2, <3>3 DEF IsNext
    <2>3. CASE F[n] # Nil
      <3>1. F[n] \in S /\ F[n] \in Nat /\ n < F[n] /\ \A m \in S : m <= n \/ F[n] <= m
        BY <2>1, <2>3 DEF IsNext
      <3>2. k <= n \/ F[n] <= k
        <4>1. CASE n < k
          <5>1. n <= g /\ ~(g <= n)  BY <1>1, <1>5, <2>1, <4>1
          <5>2. F[n] <= g  BY <1>1, <3>1, <5>1
          <5> QED BY <1>1, <3>1, <5>2
        <4>2. CASE ~(n < k)  BY <2>1, <4>2
        <4> QED BY <4>1, <4>2
      <3>3. \A m \in S \cup {k} : m <= n \/ F[n] <= m  BY <3>1, <3>2
      <3> QED BY <3>1, <3>3 DEF IsNext
    <2> QED BY <2>2, <2>3
  <1> QED BY <1>3, <1>4, <1>5

\* The links of a level, F, once k is unlinked from the node before it.
Erases(S, k, g, F) ==
  /\ IsNext(S \ {k}, g, F[k]) /\ F[g] = k
  /\ \A n \in S \ {k} : n # g => IsNext(S \ {k}, n, F[n]) /\ F[n] # k

\* And the next after a node that loses its neighbour.
LEMMA NextAfterErase ==
  ASSUME NEW S, S \subseteq Nat, NEW k \in S, NEW g, IsLast(S, k, g), Nil \notin Nat,
         NEW F, \A n \in S : IsNext(S, n, F[n])
  PROVE  Erases(S, k, g, F)
  <1>1. /\ g \in S /\ g \in Nat /\ k \in Nat /\ g < k
        /\ \A m \in S : m \in Nat /\ (m < k => m <= g)
    BY DEF IsLast
  <1>2. IsNext(S, k, F[k]) /\ IsNext(S, g, F[g])  BY <1>1
  <1>3. F[g] = k
    <2>1. F[g] \in S /\ g < F[g] /\ (k <= g \/ F[g] <= k)
      <3>1. ~(k <= g)  BY <1>1
      <3> QED BY <1>1, <1>2, <3>1 DEF IsNext
    <2>2. F[g] \in Nat /\ F[g] <= k
      <3>1. PICK x : x = F[g]  OBVIOUS
      <3>2. x \in Nat /\ g < x /\ (k <= g \/ x <= k)  BY <1>1, <2>1, <3>1
      <3> QED BY <1>1, <3>1, <3>2
    <2>3. ~(F[g] < k)  BY <1>1, <2>1, <2>2
    <2> QED BY <1>1, <2>2, <2>3
  <1>4. IsNext(S \ {k}, g, F[k])
    <2>1. CASE F[k] = Nil
      <3>1. F[k] \notin S  BY <2>1
      <3>2. \A m \in S \ {k} : m <= g
        <4> TAKE m \in S \ {k}
        <4>1. m \in Nat /\ m <= k /\ m # k  BY <1>1, <1>2, <3>1 DEF IsNext
        <4> QED BY <1>1, <4>1
      <3> QED BY <2>1, <3>2 DEF IsNext
    <2>2. CASE F[k] # Nil
      <3>1. F[k] \in S /\ k < F[k] /\ \A m \in S : m <= k \/ F[k] <= m
        BY <1>2, <2>2 DEF IsNext
      <3>2. F[k] \in Nat /\ F[k] # k /\ g < F[k]
        <4>1. PICK x : x = F[k]  OBVIOUS
        <4>2. x \in Nat /\ k < x  BY <1>1, <3>1, <4>1
        <4> QED BY <1>1, <4>1, <4>2
      <3>3. \A m \in S \ {k} : m <= g \/ F[k] <= m
        <4> TAKE m \in S \ {k}
        <4>1. m \in Nat /\ m # k /\ (m <= k \/ F[k] <= m) /\ (m < k => m <= g)
          BY <1>1, <3>1
        <4> QED BY <1>1, <4>1
      <3> QED BY <3>1, <3>2, <3>3 DEF IsNext
    <2> QED BY <2>1, <2>2
  <1>5. ASSUME NEW n \in S \ {k}, n # g  PROVE IsNext(S \ {k}, n, F[n]) /\ F[n] # k
    <2>1. IsNext(S, n, F[n]) /\ n \in Nat /\ n # k /\ (n < k => n <= g)  BY <1>1, <1>5
    <2>2. CASE F[n] = Nil  BY <1>1, <2>1, <2>2 DEF IsNext
    <2>3. CASE F[n] # Nil
      <3>1. F[n] \in S /\ F[n] \in Nat /\ n < F[n] /\ \A m \in S : m <= n \/ F[n] <= m
        BY <1>1, <2>1, <2>3 DEF IsNext
      <3>2. F[n] # k
        <4>1. SUFFICES ASSUME F[n] = k PROVE FALSE  OBVIOUS
        <4>2. n < g  BY <1>1, <1>5, <2>1, <3>1, <4>1
        <4>3. g <= n \/ k <= g  BY <1>1, <3>1, <4>1
        <4> QED BY <1>1, <2>1, <4>2, <4>3
      <3> QED BY <3>1, <3>2 DEF IsNext
    <2> QED BY <2>2, <2>3
  <1> QED BY <1>3, <1>4, <1>5 DEF Erases
\* insert() keeps the links, adds the key and sets its value.
LEMMA InsertLinked ==
  ASSUME NEW l, Linked(l), NEW k \in Key, NEW v \in Value, NEW random \in Level
  PROVE  LET m == Insert(l, k, v, random)
         IN /\ Linked(m) /\ Nodes(m) = Nodes(l) \cup {k}
            /\ \A n \in Nodes(m) \ {Header} : m.value[n] = IF n = k THEN v ELSE l.value[n]
  <1>1. k \in Nat /\ k # 0 /\ k # Header /\ (Find(l, k) <=> k \in Nodes(l))  BY Found
  <1>2. CASE Find(l, k)
    <2>1. PICK m : m = [l EXCEPT !.value[k] = v]  OBVIOUS
    <2>2. Insert(l, k, v, random) = m  BY <1>2, <2>1 DEF Insert
    <2>3. /\ l = [ forward |-> l.forward, value |-> l.value,
                   curLevel |-> l.curLevel, elementCount |-> l.elementCount ]
          /\ l.value = [n \in Nodes(l) \ {Header} |-> l.value[n]]
          /\ \A n \in Nodes(l) \ {Header} : l.value[n] \in Value
      BY DEF Linked
    <2>4. PICK w : w = [l.value EXCEPT ![k] = v]  OBVIOUS
    <2>5. /\ m = [ forward |-> m.forward, value |-> m.value,
                   curLevel |-> m.curLevel, elementCount |-> m.elementCount ]
          /\ m.forward = l.forward /\ m.curLevel = l.curLevel
          /\ m.elementCount = l.elementCount /\ m.value = w
      BY <2>1, <2>3, <2>4
    <2>6. /\ w = [n \in Nodes(l) \ {Header} |-> w[n]]
          /\ \A n \in Nodes(l) \ {Header} : w[n] = IF n = k THEN v ELSE l.value[n]
      BY <2>3, <2>4
    <2>7. /\ Nodes(m) = Nodes(l) /\ \A i : NodesOn(m, i) = NodesOn(l, i)
          /\ \A n, i : Forward(m, n, i) = Forward(l, n, i)
      BY <2>5 DEF Nodes, NodesOn, Forward
    <2>8. Linked(m)
      <3>1. \A n \in Nodes(m) \ {Header} : m.value[n] \in Value  BY <2>3, <2>5, <2>6, <2>7
      <3> QED BY <2>5, <2>6, <2>7, <3>1 DEF Linked
    <2>9. Nodes(m) = Nodes(l) \cup {k}  BY <1>1, <1>2, <2>7
    <2> QED BY <2>2, <2>5, <2>6, <2>7, <2>8, <2>9
  <1>3. CASE ~Find(l, k)
    <2> DEFINE u == Predecessors(l, k)
               before(i) == IF i <= l.curLevel THEN u[i] ELSE Header
    <2>1. PICK b : b = [i \in Level |-> before(i)]  OBVIOUS
    <2>2. k \notin Nodes(l)  BY <1>1, <1>3
    <2>3. MaxLevel \in Nat /\ random \in 0 .. MaxLevel /\ l.curLevel \in 0 .. MaxLevel
          /\ Level = 0 .. MaxLevel /\ Nil \notin Nat
      BY SkipListAssumption DEF Linked, Level
    <2>4. \A i \in Level : IsLast(NodesOn(l, i), k, b[i])
      <3> TAKE i \in Level
      <3>1. CASE i <= l.curLevel
        <4>1. i \in 0 .. l.curLevel  BY <2>3, <3>1
        <4> QED BY <1>1, <2>1, <3>1, <4>1, PredecessorsAreLast
      <3>2. CASE ~(i <= l.curLevel)
        <4>1. NodesOn(l, i) = {Header}  BY <2>3, <3>2 DEF Linked
        <4> QED BY <1>1, <2>1, <3>2, <4>1 DEF IsLast, Header
      <3> QED BY <3>1, <3>2
    <2>5. PICK f : f = LinkNode(l, k, random)  OBVIOUS
    <2>6. /\ f = [n \in Nodes(l) \cup {k} |-> f[n]]
          /\ f[k] = [i \in 0 .. random |-> Forward(l, b[i], i)]
          /\ \A n \in Nodes(l) :
               f[n] = [i \in DOMAIN l.forward[n] |->
                         IF i <= random /\ b[i] = n THEN k ELSE Forward(l, n, i)]
      <3>1. \A i \in 0 .. random : b[i] = before(i)  BY <2>1, <2>3
      <3>2. \A n \in Nodes(l) : DOMAIN l.forward[n] \subseteq Level
        <4>1. \A n \in Nodes(l) : \E h \in Level : DOMAIN l.forward[n] = 0 .. h
          BY DEF Linked, HasHeight
        <4> QED BY <2>3, <4>1
      <3>3. \A n \in Nodes(l) : \A i \in DOMAIN l.forward[n] : b[i] = before(i)
        BY <2>1, <3>2
      <3>4. f = [ n \in Nodes(l) \cup {k} |->
                    IF n = k THEN [i \in 0 .. random |-> Forward(l, before(i), i)]
                    ELSE [i \in DOMAIN l.forward[n] |->
                            IF i <= random /\ before(i) = n THEN k ELSE Forward(l, n, i)] ]
        BY <2>5 DEF LinkNode
      <3> HIDE DEF before
      <3> QED BY <2>2, <3>1, <3>3, <3>4
    <2> HIDE DEF before, u
    <2>7. PICK m : m = [ forward |-> f,
             value |-> [ n \in DOMAIN l.value \cup {k} |-> IF n = k THEN v ELSE l.value[n] ],
             curLevel |-> IF random > l.curLevel THEN random ELSE l.curLevel,
             elementCount |-> l.elementCount + 1 ]
      OBVIOUS
    <2>8. Insert(l, k, v, random) = m  BY <1>3, <2>5, <2>7 DEF Insert
    <2>9. /\ m = [ forward |-> m.forward, value |-> m.value,
                   curLevel |-> m.curLevel, elementCount |-> m.elementCount ]
          /\ m.forward = f
          /\ m.value = [ n \in DOMAIN l.value \cup {k} |-> IF n = k THEN v ELSE l.value[n] ]
          /\ m.curLevel = (IF random > l.curLevel THEN random ELSE l.curLevel)
          /\ m.elementCount = l.elementCount + 1
      BY <2>7
    <2>10. Nodes(m) = Nodes(l) \cup {k}  BY <2>6, <2>9 DEF Nodes
    <2>11. \A i \in Level :
             NodesOn(m, i) = IF i <= random THEN NodesOn(l, i) \cup {k} ELSE NodesOn(l, i)
      <3> TAKE i \in Level
      <3>1. \A n \in Nodes(l) : n # k /\ DOMAIN m.forward[n] = DOMAIN l.forward[n]
        BY <2>2, <2>6, <2>9
      <3>2. DOMAIN m.forward[k] = 0 .. random  BY <2>6, <2>9
      <3>3. i \in 0 .. random <=> i <= random  BY <2>3
      <3> QED BY <2>2, <2>10, <3>1, <3>2, <3>3 DEF NodesOn
    <2>12. \A i \in Level : \A n \in NodesOn(m, i) :
             IsNext(NodesOn(m, i), n, Forward(m, n, i))
      <3> TAKE i \in Level
      <3>1. PICK S : S = NodesOn(l, i)  OBVIOUS
      <3>2. PICK F : F = [n \in S |-> Forward(l, n, i)]  OBVIOUS
      <3>3. S \subseteq Nat /\ S \subseteq Nodes(l) /\ IsLast(S, k, b[i])
            /\ \A n \in S : i \in DOMAIN l.forward[n]
        BY <2>4, <3>1, OnLevels DEF NodesOn
      <3>4. k \notin S /\ b[i] \in S  BY <2>2, <3>3 DEF IsLast
      <3>5. \A n \in S : IsNext(S, n, F[n])  BY <3>1, <3>2 DEF Linked
      <3>6. \A n \in S : Forward(m, n, i) = IF i <= random /\ b[i] = n THEN k ELSE F[n]
        <4> TAKE n \in S
        <4>1. m.forward[n] = [j \in DOMAIN l.forward[n] |->
                                IF j <= random /\ b[j] = n THEN k ELSE Forward(l, n, j)]
          BY <2>6, <2>9, <3>3
        <4>2. m.forward[n][i] = IF i <= random /\ b[i] = n THEN k ELSE Forward(l, n, i)
          BY <3>3, <4>1
        <4> QED BY <3>2, <4>2 DEF Forward
      <3>7. CASE i <= random
        <4>1. i \in 0 .. random  BY <2>3, <3>7
        <4>2. Forward(m, k, i) = F[b[i]]
          <5>1. m.forward[k][i] = Forward(l, b[i], i)  BY <2>6, <2>9, <4>1
          <5> QED BY <3>2, <3>4, <5>1 DEF Forward
        <4>3. PICK g : g = b[i]  OBVIOUS
        <4>4. /\ IsNext(S \cup {k}, k, F[g]) /\ IsNext(S \cup {k}, g, k)
              /\ \A n \in S : n # g => IsNext(S \cup {k}, n, F[n])
          BY <1>1, <2>3, <3>3, <3>4, <3>5, <4>3, NextAfterInsert
        <4>5. NodesOn(m, i) = S \cup {k}  BY <2>11, <3>1, <3>7
        <4>6. \A n \in S \cup {k} : IsNext(S \cup {k}, n, Forward(m, n, i))
          BY <3>6, <3>7, <4>2, <4>3, <4>4
        <4> QED BY <4>5, <4>6
      <3>8. CASE ~(i <= random)
        <4>1. NodesOn(m, i) = S  BY <2>11, <3>1, <3>8
        <4> QED BY <3>5, <3>6, <3>8, <4>1
      <3> QED BY <3>7, <3>8
    <2>13. \A n \in Nodes(m) : HasHeight(m.forward[n])
      <3> TAKE n \in Nodes(m)
      <3>1. CASE n = k
        <4>1. m.forward[k] = [i \in 0 .. random |-> Forward(l, b[i], i)]  BY <2>6, <2>9
        <4> QED BY <3>1, <4>1 DEF HasHeight
      <3>2. CASE n \in Nodes(l)
        <4>1. PICK h \in Level : DOMAIN l.forward[n] = 0 .. h  BY <3>2 DEF Linked, HasHeight
        <4>2. m.forward[n] = [i \in 0 .. h |-> IF i <= random /\ b[i] = n THEN k
                                               ELSE Forward(l, n, i)]
          BY <2>6, <2>9, <3>2, <4>1
        <4> QED BY <4>2 DEF HasHeight
      <3> QED BY <2>10, <3>1, <3>2
    <2>14. Header \in Nodes(m) /\ Nodes(m) \subseteq Key \cup {Header} /\ IsFiniteSet(Nodes(m))
      <3>1. IsFiniteSet(Nodes(l)) /\ Header \in Nodes(l) /\ Nodes(l) \subseteq Key \cup {Header}
        BY DEF Linked
      <3>2. IsFiniteSet(Nodes(l) \cup {k})  BY <3>1, FS_AddElement
      <3> QED BY <2>10, <3>1, <3>2
    <2>15. DOMAIN m.forward[Header] = Level
      <3>1. Header \in Nodes(l) /\ DOMAIN l.forward[Header] = Level  BY DEF Linked
      <3> QED BY <2>6, <2>9, <3>1
    <2>16. m.forward = [n \in Nodes(m) |-> m.forward[n]]  BY <2>6, <2>9, <2>10
    <2>17. m.curLevel \in Level  BY <2>3, <2>9
    <2>18. /\ \A i \in Level : i > m.curLevel => NodesOn(m, i) = {Header}
           /\ m.curLevel > 0 => NodesOn(m, m.curLevel) # {Header}
      <3>1. ASSUME NEW i \in Level, i > m.curLevel  PROVE NodesOn(m, i) = {Header}
        <4>1. i > l.curLevel /\ ~(i <= random)  BY <2>3, <2>9, <3>1
        <4> QED BY <2>11, <4>1 DEF Linked
      <3>2. ASSUME m.curLevel > 0  PROVE NodesOn(m, m.curLevel) # {Header}
        <4>1. CASE m.curLevel <= random
          BY <1>1, <2>11, <2>17, <4>1
        <4>2. CASE ~(m.curLevel <= random)
          <5>1. m.curLevel = l.curLevel  BY <2>3, <2>9, <4>2
          <5> QED BY <2>11, <2>17, <3>2, <4>2, <5>1 DEF Linked
        <4> QED BY <4>1, <4>2
      <3> QED BY <3>1, <3>2
    <2>19. /\ m.value = [n \in Nodes(m) \ {Header} |-> m.value[n]]
           /\ \A n \in Nodes(m) \ {Header} : m.value[n] = IF n = k THEN v ELSE l.value[n]
           /\ \A n \in Nodes(m) \ {Header} : m.value[n] \in Value
      <3>1. DOMAIN l.value = Nodes(l) \ {Header}  BY DEF Linked
      <3>2. DOMAIN l.value \cup {k} = Nodes(m) \ {Header}  BY <1>1, <2>10, <3>1
      <3>3. \A n \in Nodes(l) \ {Header} : l.value[n] \in Value  BY DEF Linked
      <3> QED BY <2>9, <2>10, <3>2, <3>3
    <2>20. m.elementCount = Cardinality(Nodes(m) \ {Header})
      <3>1. l.elementCount = Cardinality(Nodes(l) \ {Header}) /\ IsFiniteSet(Nodes(l))  BY DEF Linked
      <3>2. IsFiniteSet(Nodes(l) \ {Header})  BY <3>1, FS_RemoveElement, FS_Subset
      <3>3. PICK S : S = Nodes(l) \ {Header}  OBVIOUS
      <3>4. k \notin S /\ IsFiniteSet(S) /\ Nodes(m) \ {Header} = S \cup {k}
        BY <1>1, <2>2, <2>10, <3>2, <3>3
      <3>5. Cardinality(S \cup {k}) = Cardinality(S) + 1  BY <3>4, FS_AddElement
      <3> QED BY <2>9, <3>1, <3>3, <3>4, <3>5
    <2>21. Linked(m)
      BY <2>9, <2>12, <2>13, <2>14, <2>15, <2>16, <2>17, <2>18, <2>19, <2>20 DEF Linked
    <2> QED BY <2>8, <2>10, <2>19, <2>21
  <1> QED BY <1>2, <1>3
\* erase() keeps the links, and takes the key and its value away.
LEMMA RemovedLinked ==
  ASSUME NEW l, Linked(l), NEW k \in Key, k \in Nodes(l)
  PROVE  LET m == Removed(l, k)
         IN /\ Linked(m) /\ Nodes(m) = Nodes(l) \ {k}
            /\ \A n \in Nodes(m) \ {Header} : m.value[n] = l.value[n]
  <1>1. k \in Nat /\ k # 0 /\ k # Header  BY Found
  <1> DEFINE u == Predecessors(l, k)
             linked(i) == \A j \in 0 .. i : Forward(l, u[j], j) = k
  <1>2. MaxLevel \in Nat /\ l.curLevel \in 0 .. MaxLevel /\ l.curLevel \in Nat
        /\ Level = 0 .. MaxLevel /\ Nil \notin Nat
    BY SkipListAssumption DEF Linked, Level
  <1>3. PICK h \in Level : DOMAIN l.forward[k] = 0 .. h  BY DEF Linked, HasHeight
  <1>4. h \in Nat /\ h <= l.curLevel /\ \A i \in Level : k \in NodesOn(l, i) <=> i <= h
    <2>1. \A i \in Level : k \in NodesOn(l, i) <=> i <= h  BY <1>2, <1>3 DEF NodesOn
    <2>2. h \in Nat  BY <1>2
    <2>3. k \in NodesOn(l, h)  BY <2>1, <2>2
    <2>4. ~(h > l.curLevel)  BY <1>1, <2>3 DEF Linked
    <2> QED BY <1>2, <2>1, <2>2, <2>4
  <1>5. \A i \in 0 .. l.curLevel : i \in Level /\ IsLast(NodesOn(l, i), k, u[i])
    BY <1>1, <1>2, PredecessorsAreLast
  <1>6. ASSUME NEW i \in 0 .. l.curLevel
        PROVE  /\ i <= h =>
                    /\ Forward(l, u[i], i) = k
                    /\ IsNext(NodesOn(l, i) \ {k}, u[i], Forward(l, k, i))
                    /\ \A n \in NodesOn(l, i) \ {k} : n # u[i] =>
                         IsNext(NodesOn(l, i) \ {k}, n, Forward(l, n, i))
               /\ ~(i <= h) => Forward(l, u[i], i) # k
    <2>1. PICK S : S = NodesOn(l, i)  OBVIOUS
    <2>2. PICK F : F = [n \in S |-> Forward(l, n, i)]  OBVIOUS
    <2>3. PICK g : g = u[i]  OBVIOUS
    <2>4. S \subseteq Nat /\ IsLast(S, k, g) /\ g \in S /\ (k \in S <=> i <= h)
      BY <1>4, <1>5, <2>1, <2>3, OnLevels DEF IsLast
    <2>5. \A n \in S : IsNext(S, n, F[n]) /\ F[n] = Forward(l, n, i)
      BY <1>5, <2>1, <2>2 DEF Linked
    <2>6. CASE i <= h
      <3>1. /\ IsNext(S \ {k}, g, F[k]) /\ F[g] = k
            /\ \A n \in S \ {k} : n # g => IsNext(S \ {k}, n, F[n]) /\ F[n] # k
        <4>1. S \subseteq Nat /\ k \in S /\ IsLast(S, k, g) /\ Nil \notin Nat
          BY <1>2, <2>4, <2>6
        <4>2. \A n \in S : IsNext(S, n, F[n])  BY <2>5
        <4>3. Erases(S, k, g, F)  BY ONLY <4>1, <4>2, NextAfterErase
        <4> QED BY <4>3 DEF Erases
      <3> HIDE DEF u
      <3> QED BY <2>1, <2>3, <2>4, <2>5, <2>6, <3>1
    <2>7. CASE ~(i <= h)
      <3>1. F[g] # k  BY <1>1, <1>2, <2>4, <2>5, <2>7 DEF IsNext
      <3> HIDE DEF u
      <3> QED BY <2>3, <2>4, <2>5, <2>7, <3>1
    <2> QED BY <2>6, <2>7
  <1> HIDE DEF u
  <1>7. \A i \in 0 .. l.curLevel : linked(i) <=> i <= h
    <2> TAKE i \in 0 .. l.curLevel
    <2>1. \A j \in 0 .. i : j \in 0 .. l.curLevel  BY <1>2
    <2>2. i \in 0 .. i /\ i \in Nat  BY <1>2
    <2>3. i <= h => \A j \in 0 .. i : j <= h  BY <1>4, <2>2
    <2> QED BY <1>6, <2>1, <2>2, <2>3
  <1>8. PICK f : f = UnlinkNode(l, k)  OBVIOUS
  <1>9. /\ f = [n \in Nodes(l) \ {k} |-> f[n]]
        /\ \A n \in Nodes(l) \ {k} :
             f[n] = [i \in DOMAIN l.forward[n] |->
                       IF i <= l.curLevel /\ u[i] = n /\ linked(i)
                       THEN Forward(l, k, i) ELSE Forward(l, n, i)]
    BY <1>8 DEF UnlinkNode, u
  <1> DEFINE unused == { i \in 1 .. l.curLevel : \A j \in i .. l.curLevel : f[Header][j] = Nil }
  <1>10. PICK m : m = [ forward |-> f,
                        value |-> [ n \in DOMAIN l.value \ {k} |-> l.value[n] ],
                        curLevel |-> l.curLevel - Cardinality(unused),
                        elementCount |-> l.elementCount - 1 ]
    OBVIOUS
  <1>11. Removed(l, k) = m  BY <1>8, <1>10 DEF Removed
  <1>12. /\ m = [ forward |-> m.forward, value |-> m.value,
                  curLevel |-> m.curLevel, elementCount |-> m.elementCount ]
         /\ m.forward = f
         /\ m.value = [ n \in DOMAIN l.value \ {k} |-> l.value[n] ]
         /\ m.curLevel = l.curLevel - Cardinality(unused)
         /\ m.elementCount = l.elementCount - 1
    BY <1>10
  <1>13. Nodes(m) = Nodes(l) \ {k}  BY <1>9, <1>12 DEF Nodes
  <1>14. \A i \in Level : NodesOn(m, i) = NodesOn(l, i) \ {k}
    <2>1. \A n \in Nodes(l) \ {k} : DOMAIN m.forward[n] = DOMAIN l.forward[n]
      BY <1>9, <1>12
    <2> QED BY <1>13, <2>1 DEF NodesOn
  <1>15. \A i \in Level : \A n \in NodesOn(m, i) : IsNext(NodesOn(m, i), n, Forward(m, n, i))
    <2> TAKE i \in Level
    <2> TAKE n \in NodesOn(m, i)
    <2>1. NodesOn(m, i) = NodesOn(l, i) \ {k} /\ n \in NodesOn(l, i) /\ n # k
      BY <1>14
    <2>2. n \in Nodes(l) \ {k} /\ i \in DOMAIN l.forward[n]  BY <2>1 DEF NodesOn
    <2>3. Forward(m, n, i) = IF i <= l.curLevel /\ u[i] = n /\ linked(i)
                             THEN Forward(l, k, i) ELSE Forward(l, n, i)
      <3>1. m.forward[n][i] = IF i <= l.curLevel /\ u[i] = n /\ linked(i)
                              THEN Forward(l, k, i) ELSE Forward(l, n, i)
        <4> HIDE DEF linked
        <4> QED BY <1>9, <1>12, <2>2
      <3> HIDE DEF linked
      <3> QED BY <3>1 DEF Forward
    <2>4. IsNext(NodesOn(l, i), n, Forward(l, n, i))  BY <2>1 DEF Linked
    <2> HIDE DEF linked
    <2>5. CASE i <= h
      <3>1. i \in 0 .. l.curLevel  BY <1>2, <1>4, <2>5
      <3> QED BY <1>6, <1>7, <2>1, <2>3, <2>5, <3>1
    <2>6. CASE ~(i <= h)
      <3>1. NodesOn(m, i) = NodesOn(l, i)  BY <1>4, <2>1, <2>6
      <3>2. i <= l.curLevel => i \in 0 .. l.curLevel  BY <1>2
      <3>3. ~(i <= l.curLevel /\ linked(i))  BY <1>7, <2>6, <3>2
      <3> QED BY <2>3, <2>4, <3>1, <3>3
    <2> QED BY <2>5, <2>6
  <1>16. \A n \in Nodes(m) : HasHeight(m.forward[n])
    <2> TAKE n \in Nodes(m)
    <2>1. n \in Nodes(l) \ {k}  BY <1>13
    <2>2. PICK g \in Level : DOMAIN l.forward[n] = 0 .. g  BY <2>1 DEF Linked, HasHeight
    <2>3. DOMAIN m.forward[n] = 0 .. g /\ m.forward[n] = [i \in 0 .. g |-> m.forward[n][i]]
      <3> HIDE DEF linked
      <3> QED BY <1>9, <1>12, <2>1, <2>2
    <2> QED BY <2>3 DEF HasHeight
  <1>17. /\ Header \in Nodes(m) /\ Nodes(m) \subseteq Key \cup {Header} /\ IsFiniteSet(Nodes(m))
         /\ DOMAIN m.forward[Header] = Level /\ m.forward = [n \in Nodes(m) |-> m.forward[n]]
    <2>1. /\ IsFiniteSet(Nodes(l)) /\ Header \in Nodes(l) /\ Nodes(l) \subseteq Key \cup {Header}
          /\ DOMAIN l.forward[Header] = Level
      BY DEF Linked
    <2>2. IsFiniteSet(Nodes(l) \ {k})  BY <2>1, FS_RemoveElement
    <2>3. Header \in Nodes(l) \ {k}  BY <1>1, <2>1
    <2>4. DOMAIN m.forward[Header] = Level
      <3> HIDE DEF linked
      <3> QED BY <1>9, <1>12, <2>1, <2>3
    <2> QED BY <1>9, <1>12, <1>13, <2>1, <2>2, <2>3, <2>4
  <1>18. /\ m.curLevel \in Level
         /\ \A i \in Level : i > m.curLevel => NodesOn(m, i) = {Header}
         /\ m.curLevel > 0 => NodesOn(m, m.curLevel) # {Header}
    <2>1. \A i \in Level : /\ NodesOn(m, i) \subseteq Nat /\ Header \in NodesOn(m, i)
                           /\ i \in Nat /\ Header = 0
                           /\ i > l.curLevel => NodesOn(m, i) = {Header}
      <3> TAKE i \in Level
      <3>1. NodesOn(l, i) \subseteq Nat /\ Header \in NodesOn(l, i) /\ i \in Nat
        BY OnLevels
      <3>2. i > l.curLevel => NodesOn(l, i) = {Header}  BY DEF Linked
      <3> QED BY <1>1, <1>14, <3>1, <3>2 DEF Header
    <2>2. \A i \in Level : f[Header][i] = Nil <=> NodesOn(m, i) = {Header}
      <3> TAKE i \in Level
      <3>1. IsNext(NodesOn(m, i), Header, f[Header][i])
        BY <1>12, <1>15, <2>1 DEF Forward
      <3>2. f[Header][i] = Nil => f[Header][i] \notin NodesOn(m, i)  BY <1>2, <2>1
      <3>3. ASSUME f[Header][i] = Nil  PROVE NodesOn(m, i) = {Header}
        <4>1. \A n \in NodesOn(m, i) : n <= Header  BY <3>1, <3>2, <3>3 DEF IsNext
        <4>2. \A n \in NodesOn(m, i) : n \in Nat /\ n <= 0  BY <2>1, <4>1
        <4>3. \A n \in NodesOn(m, i) : n = Header  BY <2>1, <4>2
        <4> QED BY <2>1, <4>3
      <3>4. ASSUME NodesOn(m, i) = {Header}, f[Header][i] # Nil  PROVE FALSE
        BY <2>1, <3>1, <3>4 DEF IsNext
      <3> QED BY <3>3, <3>4
    <2> DEFINE T == { i \in 0 .. l.curLevel : i = 0 \/ NodesOn(m, i) # {Header} }
    <2>3. T \subseteq 0 .. l.curLevel /\ 0 \in T  BY <1>2
    <2>4. PICK c \in T : \A j \in T : j <= c
      <3> HIDE DEF T
      <3> QED BY <1>2, <2>3, LargestOf
    <2>5. c \in 0 .. l.curLevel /\ c \in Nat /\ (c > 0 => NodesOn(m, c) # {Header})  OBVIOUS
    <2>6. \A i \in 0 .. l.curLevel : i > c => NodesOn(m, i) = {Header}
      <3> TAKE i \in 0 .. l.curLevel
      <3>1. i \in T => i <= c
        <4> HIDE DEF T
        <4> QED BY <2>4
      <3>2. i > c => i \notin T
        <4> HIDE DEF T
        <4> QED BY <2>5, <3>1
      <3> QED BY <3>2
    <2> HIDE DEF T
    <2>7. unused = c + 1 .. l.curLevel
      <3>1. ASSUME NEW i \in 1 .. l.curLevel
            PROVE  (\A j \in i .. l.curLevel : f[Header][j] = Nil) <=> i > c
        <4>1. \A j \in i .. l.curLevel : j \in Level /\ j \in 0 .. l.curLevel  BY <1>2
        <4>2. ASSUME i > c  PROVE \A j \in i .. l.curLevel : f[Header][j] = Nil
          <5> TAKE j \in i .. l.curLevel
          <5>1. j > c  BY <2>5, <4>2
          <5> QED BY <2>2, <2>6, <4>1, <5>1
        <4>3. ASSUME ~(i > c)  PROVE \E j \in i .. l.curLevel : f[Header][j] # Nil
          <5>1. c \in i .. l.curLevel /\ c > 0  BY <2>5, <4>3
          <5>2. f[Header][c] # Nil  BY <2>2, <2>5, <4>1, <5>1
          <5> QED BY <5>1, <5>2
        <4> QED BY <4>2, <4>3
      <3>2. \A i \in 1 .. l.curLevel : i \in unused <=> i \in c + 1 .. l.curLevel
        BY <2>5, <3>1
      <3>3. c + 1 .. l.curLevel \subseteq 1 .. l.curLevel /\ unused \subseteq 1 .. l.curLevel
        BY <2>5
      <3> HIDE DEF unused
      <3> QED BY <3>2, <3>3
    <2> HIDE DEF unused
    <2>8. Cardinality(unused) = l.curLevel - c
      <3>1. c + 1 \in Int /\ l.curLevel \in Int  BY <1>2, <2>5
      <3>2. Cardinality(c + 1 .. l.curLevel) =
              IF c + 1 > l.curLevel THEN 0 ELSE l.curLevel - (c + 1) + 1
        BY <3>1, FS_Interval
      <3> QED BY <1>2, <2>5, <2>7, <3>2
    <2>9. m.curLevel = c  BY <1>2, <1>12, <2>5, <2>8
    <2>10. c \in Level  BY <1>2, <2>5
    <2>11. \A i \in Level : i > c => NodesOn(m, i) = {Header}
      <3> TAKE i \in Level
      <3>1. i \in 0 .. l.curLevel \/ i > l.curLevel  BY <1>2, <2>1
      <3> QED BY <2>1, <2>6, <3>1
    <2> QED BY <2>5, <2>9, <2>10, <2>11
  <1>19. /\ m.value = [n \in Nodes(m) \ {Header} |-> m.value[n]]
         /\ \A n \in Nodes(m) \ {Header} : m.value[n] = l.value[n] /\ m.value[n] \in Value
    <2>1. DOMAIN l.value = Nodes(l) \ {Header}  BY DEF Linked
    <2>2. DOMAIN l.value \ {k} = Nodes(m) \ {Header}  BY <1>1, <1>13, <2>1
    <2>3. \A n \in Nodes(l) \ {Header} : l.value[n] \in Value  BY DEF Linked
    <2> QED BY <1>12, <1>13, <2>2, <2>3
  <1>20. m.elementCount = Cardinality(Nodes(m) \ {Header})
    <2>1. l.elementCount = Cardinality(Nodes(l) \ {Header}) /\ IsFiniteSet(Nodes(l))  BY DEF Linked
    <2>2. PICK S : S = Nodes(l) \ {Header}  OBVIOUS
    <2>3. IsFiniteSet(S) /\ k \in S /\ Nodes(m) \ {Header} = S \ {k}
      BY <1>1, <1>13, <2>1, <2>2, FS_RemoveElement
    <2>4. Cardinality(S \ {k}) = Cardinality(S) - 1  BY <2>3, FS_RemoveElement
    <2> QED BY <1>12, <2>1, <2>2, <2>3, <2>4
  <1>21. Linked(m)
    BY <1>12, <1>15, <1>16, <1>17, <1>18, <1>19, <1>20 DEF Linked
  <1> QED BY <1>11, <1>13, <1>19, <1>21

\* erase() of any key: what is not there stays so.
LEMMA EraseLinked ==
  ASSUME NEW l, Linked(l), NEW k \in Key
  PROVE  LET m == Erase(l, k)
         IN /\ Linked(m) /\ Nodes(m) = Nodes(l) \ {k}
            /\ \A n \in Nodes(m) \ {Header} : m.value[n] = l.value[n]
  <1>1. Find(l, k) <=> k \in Nodes(l)  BY Found
  <1>2. CASE k \in Nodes(l)  BY <1>1, <1>2, RemovedLinked DEF Erase
  <1>3. CASE k \notin Nodes(l)
    <2>1. Erase(l, k) = l /\ Nodes(l) \ {k} = Nodes(l)  BY <1>1, <1>3 DEF Erase
    <2> QED BY <2>1
  <1> QED BY <1>2, <1>3
----------------------------------------------------------------------------
(* The list is the map that the commands wrote                             *)

\* The list is linked and holds what the commands wrote.
ListInv == Linked(list) /\ ListIsMap

\* What a list holds, by key.
LEMMA ContentOf ==
  ASSUME NEW l, Linked(l)
  PROVE  /\ Content(l) = [k \in Key |-> IF k \in Nodes(l) THEN l.value[k] ELSE Nil]
         /\ \A k \in Key : k # Header
         /\ Nodes(l) \ {Header} = { k \in Key : Content(l)[k] # Nil }
         /\ \A k \in Nodes(l) \ {Header} : l.value[k] = Content(l)[k]
  <1>1. \A k \in Key : k # Header /\ Get(l, k) = IF k \in Nodes(l) THEN l.value[k] ELSE Nil
    BY Found
  <1>2. Content(l) = [k \in Key |-> IF k \in Nodes(l) THEN l.value[k] ELSE Nil]
    BY <1>1 DEF Content
  <1>3. Nodes(l) \subseteq Key \cup {Header} /\ \A n \in Nodes(l) \ {Header} : l.value[n] # Nil
    BY StorageAssumption DEF Linked
  <1>4. \A k \in Key : k \in Nodes(l) <=> Content(l)[k] # Nil
    <2> TAKE k \in Key
    <2>1. k # Header  BY <1>1
    <2> QED BY <1>2, <1>3, <2>1
  <1>5. Nodes(l) \ {Header} = { k \in Key : Content(l)[k] # Nil }
    BY <1>1, <1>3, <1>4
  <1>6. \A k \in Nodes(l) \ {Header} : l.value[k] = Content(l)[k]
    BY <1>2, <1>3
  <1> QED BY <1>1, <1>2, <1>5, <1>6

\* A new list holds nothing.
LEMMA NewListHoldsNothing == Content(NewList) = NoPairs
  <1>1. Linked(NewList) /\ Nodes(NewList) = {Header}  BY NewListLinked
  <1>2. \A k \in Key : k # Header /\ k \notin Nodes(NewList)  BY <1>1, ContentOf
  <1> QED BY <1>1, <1>2, ContentOf DEF NoPairs

\* insert() changes the key it is given.
LEMMA InsertChangesOne ==
  ASSUME NEW l, Linked(l), NEW k \in Key, NEW v \in Value, NEW random \in Level
  PROVE  /\ Linked(Insert(l, k, v, random))
         /\ Content(Insert(l, k, v, random)) = [Content(l) EXCEPT ![k] = v]
  <1>1. PICK m : m = Insert(l, k, v, random)  OBVIOUS
  <1>2. /\ Linked(m) /\ Nodes(m) = Nodes(l) \cup {k}
        /\ \A n \in Nodes(m) \ {Header} : m.value[n] = IF n = k THEN v ELSE l.value[n]
    BY <1>1, InsertLinked
  <1>3. \A n \in Key : n # Header  BY ContentOf
  <1>4. ASSUME NEW n \in Key
        PROVE  (IF n \in Nodes(m) THEN m.value[n] ELSE Nil) =
               IF n = k THEN v ELSE IF n \in Nodes(l) THEN l.value[n] ELSE Nil
    BY <1>2, <1>3
  <1>5. PICK c, d : c = Content(l) /\ d = Content(m)  OBVIOUS
  <1>6. /\ c = [n \in Key |-> IF n \in Nodes(l) THEN l.value[n] ELSE Nil]
        /\ d = [n \in Key |-> IF n \in Nodes(m) THEN m.value[n] ELSE Nil]
    BY <1>2, <1>5, ContentOf
  <1>7. d = [n \in Key |-> IF n = k THEN v ELSE c[n]]  BY <1>4, <1>6
  <1>8. d = [c EXCEPT ![k] = v]  BY <1>6, <1>7
  <1> QED BY <1>1, <1>2, <1>5, <1>8

\* erase() takes away the key it is given.
LEMMA EraseChangesOne ==
  ASSUME NEW l, Linked(l), NEW k \in Key
  PROVE  Linked(Erase(l, k)) /\ Content(Erase(l, k)) = [Content(l) EXCEPT ![k] = Nil]
  <1>1. PICK m : m = Erase(l, k)  OBVIOUS
  <1>2. /\ Linked(m) /\ Nodes(m) = Nodes(l) \ {k}
        /\ \A n \in Nodes(m) \ {Header} : m.value[n] = l.value[n]
    BY <1>1, EraseLinked
  <1>3. \A n \in Key : n # Header  BY ContentOf
  <1>4. ASSUME NEW n \in Key
        PROVE  (IF n \in Nodes(m) THEN m.value[n] ELSE Nil) =
               IF n = k THEN Nil ELSE IF n \in Nodes(l) THEN l.value[n] ELSE Nil
    BY <1>2, <1>3
  <1>5. PICK c, d : c = Content(l) /\ d = Content(m)  OBVIOUS
  <1>6. /\ c = [n \in Key |-> IF n \in Nodes(l) THEN l.value[n] ELSE Nil]
        /\ d = [n \in Key |-> IF n \in Nodes(m) THEN m.value[n] ELSE Nil]
    BY <1>2, <1>5, ContentOf
  <1>7. d = [n \in Key |-> IF n = k THEN Nil ELSE c[n]]  BY <1>4, <1>6
  <1>8. d = [c EXCEPT ![k] = Nil]  BY <1>6, <1>7
  <1> QED BY <1>1, <1>2, <1>5, <1>8

\* The first state.
LEMMA InitList == Init => ListInv
  <1> SUFFICES ASSUME Init PROVE ListInv  OBVIOUS
  <1>1. list = NewList /\ pairs = NoPairs  BY DEF Init
  <1> QED BY <1>1, NewListLinked, NewListHoldsNothing DEF ListInv, ListIsMap

\* Only the apply thread and the end of the process change the list.
LEMMA NextList == ListInv /\ [Next]_storageVars => ListInv'
  <1> SUFFICES ASSUME ListInv, [Next]_storageVars PROVE ListInv'  OBVIOUS
  <1>1. PICK l, p, l2, p2 : l = list /\ p = pairs /\ l2 = list' /\ p2 = pairs'  OBVIOUS
  <1>2. Linked(l) /\ Content(l) = p  BY <1>1 DEF ListInv, ListIsMap
  <1>3. SUFFICES Linked(l2) /\ Content(l2) = p2
    BY <1>1 DEF ListInv, ListIsMap
  <1>4. CASE Apply
    <2>1. PICK k \in Key :
            \/ l2 = Erase(l, k) /\ p2 = [p EXCEPT ![k] = Nil]
            \/ \E v \in Written, random \in Level :
                 l2 = Insert(l, k, v, random) /\ p2 = [p EXCEPT ![k] = v]
      BY <1>1, <1>4 DEF Apply
    <2>2. Written \subseteq Value  BY StorageAssumption
    <2> QED BY <1>2, <2>1, <2>2, InsertChangesOne, EraseChangesOne
  <1>5. CASE LeaderRestarts
    <2>1. l2 = NewList /\ p2 = NoPairs  BY <1>1, <1>5 DEF LeaderRestarts
    <2> QED BY <2>1, NewListLinked, NewListHoldsNothing
  <1>6. CASE UNCHANGED << list, pairs >>
    BY <1>1, <1>2, <1>6
  <1>7. Apply \/ LeaderRestarts \/ UNCHANGED << list, pairs >>
    BY DEF Next, Snapshot, Persist, SaveStep, SendSnapshot, FollowerRestarts, storageVars
  <1> QED BY <1>4, <1>5, <1>6, <1>7

\* Whatever the levels that were drawn, get() finds what the commands wrote, and
\* nothing that they erased (SkipList::insert, erase, get).
THEOREM ListAlwaysMap == StorageSpec => []ListIsMap
  <1>1. ListInv => ListIsMap  BY DEF ListInv
  <1> QED BY <1>1, InitList, NextList, PTL DEF StorageSpec
----------------------------------------------------------------------------
(* Walks along a level                                                     *)

\* A finite set of numbers that is not empty has a largest.
LEMMA FiniteHasLargest ==
  ASSUME NEW S, S \subseteq Nat, IsFiniteSet(S), S # {}
  PROVE  /\ \E b \in S : \A j \in S : j <= b
         /\ Max(S) \in S /\ \A j \in S : j <= Max(S)
  <1> DEFINE Above(n) == { m \in S : m > n }
             C == { Cardinality(Above(n)) : n \in S }
  <1>1. \A n \in S : IsFiniteSet(Above(n)) /\ Cardinality(Above(n)) \in Nat
    <2> TAKE n \in S
    <2>1. Above(n) \subseteq S  OBVIOUS
    <2> HIDE DEF Above
    <2> QED BY <2>1, FS_Subset, FS_CardinalityType
  <1>2. PICK c \in C : \A d \in C : c <= d
    <2>1. C \subseteq Nat /\ C # {}  BY <1>1
    <2> HIDE DEF C
    <2> QED BY <2>1, SmallestOf
  <1>3. PICK b \in S : Cardinality(Above(b)) = c  OBVIOUS
  <1>4. \A m \in S : m <= b
    <2> SUFFICES ASSUME NEW m \in S, m > b PROVE FALSE  OBVIOUS
    <2>1. m \in Nat /\ b \in Nat  OBVIOUS
    <2>2. Above(m) \subseteq Above(b) /\ m \in Above(b) /\ m \notin Above(m)
      <3>1. \A j \in S : (j \in Above(m) <=> j > m) /\ (j \in Above(b) <=> j > b) /\ j \in Nat
        OBVIOUS
      <3>2. Above(m) \subseteq S  OBVIOUS
      <3> HIDE DEF Above
      <3>3. \A j \in S : j > m => j > b
        BY <2>1
      <3>4. ~(m > m) /\ m > b  BY <2>1
      <3>5. m \in Above(b) /\ m \notin Above(m)  BY <3>1, <3>4
      <3>6. \A j \in S : j \in Above(m) => j \in Above(b)  BY <3>1, <3>3
      <3> QED BY <3>2, <3>5, <3>6
    <2>3. PICK s, t : s = Above(m) /\ t = Above(b)  OBVIOUS
    <2>4. Cardinality(s) < Cardinality(t)
      <3>1. IsFiniteSet(t) /\ s \in SUBSET t /\ s # t  BY <1>1, <2>2, <2>3
      <3>2. Cardinality(s) <= Cardinality(t) /\ Cardinality(s) # Cardinality(t)
        BY <3>1, FS_Subset
      <3>3. Cardinality(s) \in Nat /\ Cardinality(t) \in Nat  BY <1>1, <2>3
      <3> QED BY <3>2, <3>3
    <2>5. Cardinality(s) \in C  BY <2>3
    <2>6. Cardinality(s) \in Nat /\ Cardinality(t) \in Nat  BY <1>1, <2>3
    <2> HIDE DEF C, Above
    <2> QED BY <1>2, <1>3, <2>3, <2>4, <2>5, <2>6
  <1>5. \A x \in S : (\A y \in S : x >= y) => x = b  BY <1>4
  <1>6. \A y \in S : b >= y  BY <1>4
  <1>7. Max(S) = b  BY <1>5, <1>6 DEF Max
  <1> QED BY <1>4, <1>7

\* A sequence of numbers, ascending, with the members of a set.
Ascends(q, T) ==
  /\ q \in Seq(Nat) /\ ToSet(q) = T
  /\ \A x, y \in 1 .. Len(q) : x < y => q[x] < q[y]

\* What is below all of an ascending sequence can go before it.
LEMMA AscendsAfter ==
  ASSUME NEW q, NEW T, Ascends(q, T), NEW n \in Nat, \A m \in T : n < m
  PROVE  Ascends(<< n >> \o q, {n} \cup T)
  <1>1. PICK c : c = Len(q)  OBVIOUS
  <1>2. q \in Seq(Nat) /\ c \in Nat /\ DOMAIN q = 1 .. c /\ T = { q[i] : i \in 1 .. c }
    BY <1>1 DEF Ascends, ToSet
  <1>3. \A i \in 1 .. c : q[i] \in Nat /\ q[i] \in T  BY <1>2
  <1>4. PICK p : p = << n >> \o q  OBVIOUS
  <1>5. p \in Seq(Nat) /\ Len(p) = c + 1 /\ p[1] = n /\ DOMAIN p = 1 .. c + 1
        /\ \A i \in 2 .. c + 1 : p[i] = q[i - 1] /\ i - 1 \in 1 .. c
    BY <1>1, <1>2, <1>4
  <1>6. ToSet(p) = {n} \cup T
    <2>1. \A i \in 1 .. c + 1 : p[i] \in {n} \cup T
      <3> TAKE i \in 1 .. c + 1
      <3>1. i = 1 \/ i \in 2 .. c + 1  BY <1>2
      <3> QED BY <1>3, <1>5, <3>1
    <2>2. \A x \in {n} \cup T : \E i \in 1 .. c + 1 : p[i] = x
      <3> TAKE x \in {n} \cup T
      <3>1. CASE x = n  BY <1>2, <1>5, <3>1
      <3>2. CASE x \in T
        <4>1. PICK i \in 1 .. c : q[i] = x  BY <1>2, <3>2
        <4>2. i + 1 \in 2 .. c + 1 /\ (i + 1) - 1 = i /\ i + 1 \in 1 .. c + 1  BY <1>2
        <4>3. p[i + 1] = q[(i + 1) - 1]  BY <1>5, <4>2
        <4> QED BY <4>1, <4>2, <4>3
      <3> QED BY <3>1, <3>2
    <2>3. ToSet(p) = { p[i] : i \in 1 .. c + 1 }  BY <1>5 DEF ToSet
    <2>4. \A x : x \in ToSet(p) <=> x \in {n} \cup T
      <3> TAKE x
      <3>1. x \in ToSet(p) <=> \E i \in 1 .. c + 1 : p[i] = x  BY <2>3
      <3> QED BY <2>1, <2>2, <3>1
    <2> QED BY <2>4
  <1>7. ASSUME NEW x \in 1 .. c + 1, NEW y \in 1 .. c + 1, x < y  PROVE p[x] < p[y]
    <2>1. y \in 2 .. c + 1 /\ (x = 1 \/ x \in 2 .. c + 1)  BY <1>2, <1>7
    <2>2. p[y] = q[y - 1] /\ y - 1 \in 1 .. c  BY <1>5, <2>1
    <2>3. CASE x = 1  BY <1>3, <1>5, <2>2, <2>3
    <2>4. CASE x \in 2 .. c + 1
      <3>1. p[x] = q[x - 1] /\ x - 1 \in 1 .. c /\ x - 1 < y - 1  BY <1>2, <1>5, <1>7, <2>4
      <3>2. q[x - 1] < q[y - 1]  BY <1>1, <2>2, <3>1 DEF Ascends
      <3> QED BY <2>2, <3>1, <3>2
    <2> QED BY <2>1, <2>3, <2>4
  <1> QED BY <1>4, <1>5, <1>6, <1>7 DEF Ascends

\* What is left of a walk at a node, when it is known at the next.
WalkStep(l, i, f, n) ==
  IF Forward(l, n, i) = Nil THEN << >>
  ELSE << Forward(l, n, i) >> \o f[Forward(l, n, i)]

\* The walk along a level can be made from every node.
LEMMA WalkExists ==
  ASSUME NEW l, Linked(l), NEW i \in Level
  PROVE  \E f : f = [n \in NodesOn(l, i) |-> WalkStep(l, i, f, n)]
  <1>1. PICK S : S = NodesOn(l, i)  OBVIOUS
  <1>2. S \subseteq Nat /\ IsFiniteSet(S) /\ S # {}
    <2>1. S \subseteq Nodes(l) /\ S \subseteq Nat /\ Header \in S  BY <1>1, OnLevels
    <2> QED BY <2>1, FS_Subset DEF Linked
  <1>3. PICK b \in S : \A j \in S : j <= b  BY <1>2, FiniteHasLargest
  <1>4. \A n \in S : Forward(l, n, i) # Nil => Forward(l, n, i) \in S /\ n < Forward(l, n, i)
    <2> TAKE n \in S
    <2>1. IsNext(S, n, Forward(l, n, i))  BY <1>1 DEF Linked
    <2> QED BY <2>1 DEF IsNext
  <1> DEFINE From(t) == { n \in S : n >= t }
             Walks(t) == \E f : f = [n \in From(t) |-> WalkStep(l, i, f, n)]
             Good == { t \in Nat : Walks(t) }
  <1>11. \A t \in Nat : From(t) \subseteq S /\ \A n \in S : n \in From(t) <=> n >= t
    OBVIOUS
  <1>5. Walks(b + 1)
    <2>1. From(b + 1) = {}
      <3> HIDE DEF From
      <3>1. b + 1 \in Nat /\ \A n \in S : ~(n >= b + 1)  BY <1>2, <1>3
      <3> QED BY <1>11, <3>1
    <2>2. \A f : [n \in {} |-> WalkStep(l, i, f, n)] = [n \in {} |-> Nil]  OBVIOUS
    <2> HIDE DEF From
    <2> QED BY <2>1, <2>2
  <1>6. ASSUME NEW t \in Nat, Walks(t + 1)  PROVE Walks(t)
    <2>1. PICK f : f = [n \in From(t + 1) |-> WalkStep(l, i, f, n)]  BY <1>6
    <2>2. PICK g : g = [n \in From(t) |-> IF n \in From(t + 1) THEN f[n] ELSE WalkStep(l, i, f, n)]
      OBVIOUS
    <2>3. From(t + 1) \subseteq From(t)
      <3> HIDE DEF From
      <3>1. \A n \in S : n >= t + 1 => n >= t  BY <1>2
      <3> QED BY <1>11, <3>1
    <2>4. \A n \in From(t) : Forward(l, n, i) # Nil => Forward(l, n, i) \in From(t + 1)
      <3> TAKE n \in From(t)
      <3>1. n \in S /\ n >= t /\ n \in Nat  BY <1>2
      <3> HIDE DEF From
      <3>2. PICK x : x = Forward(l, n, i)  OBVIOUS
      <3>3. x # Nil => x \in S /\ x \in Nat /\ n < x  BY <1>2, <1>4, <3>1, <3>2
      <3>4. x # Nil => x >= t + 1  BY <3>1, <3>3
      <3> QED BY <1>11, <3>2, <3>3, <3>4
    <2> HIDE DEF From
    <2>5. \A n \in From(t + 1) : g[n] = f[n] /\ f[n] = WalkStep(l, i, f, n)  BY <2>1, <2>2, <2>3
    <2>6. \A n \in From(t) : WalkStep(l, i, g, n) = WalkStep(l, i, f, n)
      BY <2>4, <2>5 DEF WalkStep
    <2>7. \A n \in From(t) : g[n] = WalkStep(l, i, g, n)  BY <2>2, <2>5, <2>6
    <2>8. g = [n \in From(t) |-> WalkStep(l, i, g, n)]
      <3>1. g = [n \in From(t) |-> g[n]]  BY <2>2
      <3> QED BY <2>7, <3>1
    <2> QED BY <2>8
  <1> HIDE DEF Walks
  <1>7. PICK t \in Good : \A u \in Good : t <= u
    <2>1. Good \subseteq Nat /\ b + 1 \in Good  BY <1>2, <1>5
    <2> HIDE DEF Good
    <2> QED BY <2>1, SmallestOf
  <1>8. t = 0
    <2>1. SUFFICES ASSUME t # 0 PROVE FALSE  OBVIOUS
    <2>2. t \in Nat /\ Walks(t)  OBVIOUS
    <2>3. t - 1 \in Nat /\ (t - 1) + 1 = t  BY <2>1, <2>2
    <2>4. Walks(t - 1)  BY <1>6, <2>2, <2>3
    <2>5. t - 1 \in Good  BY <2>3, <2>4
    <2> HIDE DEF Good
    <2> QED BY <1>7, <2>2, <2>5
  <1>9. Walks(0)  BY <1>8
  <1>10. From(0) = S
    <2> HIDE DEF From
    <2>1. \A n \in S : n >= 0  BY <1>2
    <2> QED BY <1>11, <2>1
  <1> QED BY <1>1, <1>9, <1>10 DEF Walks

\* The walk along a level passes its nodes in the order of their keys.
LEMMA ChainAscends ==
  ASSUME NEW l, Linked(l), NEW i \in Level
  PROVE  Ascends(Chain(l, i), NodesOn(l, i) \ {Header})
  <1>1. PICK S : S = NodesOn(l, i)  OBVIOUS
  <1>2. S \subseteq Nat /\ IsFiniteSet(S) /\ Header \in S
    <2>1. S \subseteq Nodes(l) /\ S \subseteq Nat /\ Header \in S  BY <1>1, OnLevels
    <2> QED BY <2>1, FS_Subset DEF Linked
  <1> DEFINE rest == CHOOSE rest : rest = [n \in NodesOn(l, i) |-> WalkStep(l, i, rest, n)]
  <1>3. rest = [n \in S |-> WalkStep(l, i, rest, n)]  BY <1>1, WalkExists
  <1>4. Chain(l, i) = rest[Header]  BY DEF Chain, WalkStep
  <1> HIDE DEF rest
  <1> DEFINE Above(n) == { m \in S : m > n }
             Bad == { n \in S : ~Ascends(rest[n], Above(n)) }
  <1>8. \A n \in S : Above(n) \subseteq S /\ \A m \in S : m \in Above(n) <=> m > n
    OBVIOUS
  <1>5. Bad = {}
    <2>1. SUFFICES ASSUME Bad # {} PROVE FALSE  OBVIOUS
    <2>2. PICK n \in Bad : \A j \in Bad : j <= n
      <3>1. Bad \subseteq S  OBVIOUS
      <3> HIDE DEF Bad
      <3>2. Bad \subseteq Nat /\ IsFiniteSet(Bad)  BY <1>2, <3>1, FS_Subset
      <3> QED BY <2>1, <3>2, FiniteHasLargest
    <2>3. n \in S /\ n \in Nat /\ ~Ascends(rest[n], Above(n))  BY <1>2
    <2>4. PICK x : x = Forward(l, n, i)  OBVIOUS
    <2>5. IsNext(S, n, x) /\ rest[n] = IF x = Nil THEN << >> ELSE << x >> \o rest[x]
      BY <1>1, <1>3, <2>3, <2>4 DEF Linked, WalkStep
    <2>6. CASE x = Nil
      <3>1. x \notin S  BY <1>2, <2>6, SkipListAssumption
      <3> HIDE DEF Above
      <3>2. Above(n) = {}
        <4>1. \A m \in S : m <= n  BY <2>5, <3>1 DEF IsNext
        <4>2. \A m \in S : ~(m > n)  BY <1>2, <2>3, <4>1
        <4> QED BY <1>8, <2>3, <4>2
      <3>3. Ascends(<< >>, {})  BY DEF Ascends, ToSet
      <3> QED BY <2>3, <2>5, <2>6, <3>2, <3>3
    <2>7. CASE x # Nil
      <3>1. x \in S /\ x \in Nat /\ n < x /\ \A m \in S : m <= n \/ x <= m
        BY <1>2, <2>5, <2>7 DEF IsNext
      <3>2. x \notin Bad
        <4> HIDE DEF Bad
        <4> QED BY <2>2, <2>3, <3>1
      <3>3. Ascends(rest[x], Above(x)) /\ \A m \in Above(x) : x < m  BY <1>2, <3>1, <3>2
      <3> HIDE DEF Above
      <3>4. Above(n) = {x} \cup Above(x)
        <4>1. \A m \in S : m > n <=> m = x \/ m > x  BY <1>2, <2>3, <3>1
        <4>2. \A m \in S : m \in Above(n) <=> m = x \/ m \in Above(x)  BY <1>8, <2>3, <3>1, <4>1
        <4>3. Above(n) \subseteq S /\ Above(x) \subseteq S  BY <1>8, <2>3, <3>1
        <4> QED BY <3>1, <4>2, <4>3
      <3> QED BY <2>3, <2>5, <2>7, <3>1, <3>3, <3>4, AscendsAfter
    <2> QED BY <2>6, <2>7
  <1>6. Above(Header) = S \ {Header}
    <2> HIDE DEF Above
    <2>1. \A m \in S : m > Header <=> m # Header  BY <1>2 DEF Header
    <2>2. \A m \in S : m \in Above(Header) <=> m # Header  BY <1>2, <1>8, <2>1
    <2>3. Above(Header) \subseteq S  BY <1>2, <1>8
    <2> QED BY <2>2, <2>3
  <1>7. Ascends(rest[Header], Above(Header))  BY <1>2, <1>5
  <1> QED BY <1>1, <1>4, <1>6, <1>7
\* A linked list is well formed, and no link leads to a node that was freed.
LEMMA LinkedIsWellFormed ==
  ASSUME NEW l, Linked(l)
  PROVE  NoDanglingLink(l) /\ WellFormed(l)
  <1>1. NoDanglingLink(l)
    <2> SUFFICES ASSUME NEW n \in Nodes(l), NEW i \in DOMAIN l.forward[n]
                 PROVE  l.forward[n][i] \in Nodes(l) \cup {Nil}
      BY DEF NoDanglingLink
    <2>1. PICK h \in Level : DOMAIN l.forward[n] = 0 .. h  BY DEF Linked, HasHeight
    <2>2. h \in Nat /\ h <= MaxLevel /\ MaxLevel \in Nat  BY SkipListAssumption DEF Level
    <2>3. i \in Level  BY <2>1, <2>2 DEF Level
    <2>4. n \in NodesOn(l, i)  BY DEF NodesOn
    <2>5. IsNext(NodesOn(l, i), n, l.forward[n][i])  BY <2>3, <2>4 DEF Linked, Forward
    <2>6. NodesOn(l, i) \subseteq Nodes(l)  BY DEF NodesOn
    <2> QED BY <2>5, <2>6 DEF IsNext
  <1>2. ASSUME NEW i \in Level
        PROVE  LET keys == Chain(l, i) IN
               /\ ToSet(keys) = NodesOn(l, i) \ {Header}
               /\ \A x, y \in DOMAIN keys : x < y => keys[x] < keys[y]
    <2>1. PICK q : q = Chain(l, i)  OBVIOUS
    <2>2. Ascends(q, NodesOn(l, i) \ {Header})  BY <2>1, ChainAscends
    <2>3. q \in Seq(Nat) /\ DOMAIN q = 1 .. Len(q)  BY <2>2 DEF Ascends
    <2> QED BY <2>1, <2>2, <2>3 DEF Ascends
  <1>3. l.curLevel = Cardinality({ i \in 1 .. MaxLevel : Forward(l, Header, i) # Nil })
    <2>1. MaxLevel \in Nat /\ Level = 0 .. MaxLevel /\ Nil \notin Nat /\ l.curLevel \in 0 .. MaxLevel
          /\ l.curLevel \in Nat
      BY SkipListAssumption DEF Linked, Level
    <2>2. \A i \in Level : Forward(l, Header, i) # Nil <=> NodesOn(l, i) # {Header}
      <3> TAKE i \in Level
      <3>1. /\ NodesOn(l, i) \subseteq Nat /\ Header \in NodesOn(l, i)
            /\ \A n \in NodesOn(l, i) : n >= Header
        BY OnLevels DEF Header
      <3>2. IsNext(NodesOn(l, i), Header, Forward(l, Header, i))  BY <3>1 DEF Linked
      <3>3. ASSUME Forward(l, Header, i) = Nil  PROVE NodesOn(l, i) = {Header}
        <4>1. Forward(l, Header, i) \notin NodesOn(l, i)  BY <2>1, <3>1, <3>3
        <4>2. \A n \in NodesOn(l, i) : n <= Header  BY <3>2, <4>1 DEF IsNext
        <4>3. \A n \in NodesOn(l, i) : n \in Nat /\ n <= 0  BY <3>1, <4>2 DEF Header
        <4>4. \A n \in NodesOn(l, i) : n = Header  BY <4>3 DEF Header
        <4> QED BY <3>1, <4>4
      <3>4. ASSUME NodesOn(l, i) = {Header}, Forward(l, Header, i) # Nil  PROVE FALSE
        <4>1. Header < Header  BY <3>2, <3>4 DEF IsNext
        <4> QED BY <4>1 DEF Header
      <3> QED BY <3>3, <3>4
    <2>3. \A i \in 1 .. MaxLevel : NodesOn(l, i) # {Header} <=> i <= l.curLevel
      <3> TAKE i \in 1 .. MaxLevel
      <3>1. i \in Level /\ i \in Nat /\ i > 0  BY <2>1
      <3>2. i > l.curLevel => NodesOn(l, i) = {Header}  BY <3>1 DEF Linked
      <3>3. ASSUME i <= l.curLevel  PROVE NodesOn(l, i) # {Header}
        <4>1. NodesOn(l, l.curLevel) # {Header} /\ l.curLevel \in Level /\ i \in 0 .. l.curLevel
          BY <2>1, <3>1, <3>3 DEF Linked
        <4>2. Header \in NodesOn(l, l.curLevel) /\ NodesOn(l, l.curLevel) \subseteq NodesOn(l, i)
          BY <4>1, OnLevels
        <4> QED BY <4>1, <4>2
      <3> QED BY <2>1, <3>1, <3>2, <3>3
    <2>4. { i \in 1 .. MaxLevel : Forward(l, Header, i) # Nil } = 1 .. l.curLevel
      <3>1. \A i \in 1 .. MaxLevel : Forward(l, Header, i) # Nil <=> i \in 1 .. l.curLevel
        <4> TAKE i \in 1 .. MaxLevel
        <4>1. i \in Level /\ (i \in 1 .. l.curLevel <=> i <= l.curLevel)  BY <2>1
        <4> QED BY <2>2, <2>3, <4>1
      <3>2. 1 .. l.curLevel \subseteq 1 .. MaxLevel  BY <2>1
      <3> QED BY <3>1, <3>2
    <2>5. Cardinality(1 .. l.curLevel) = l.curLevel
      <3>1. PICK c : c = l.curLevel  OBVIOUS
      <3>3. 1 \in Int /\ c \in Int  BY <2>1, <3>1
      <3>2. Cardinality(1 .. c) = IF 1 > c THEN 0 ELSE c - 1 + 1  BY <3>3, FS_Interval
      <3> QED BY <2>1, <3>1, <3>2
    <2> QED BY <2>4, <2>5
  <1>4. /\ l.elementCount = Cardinality(Nodes(l) \ {Header})
        /\ DOMAIN l.value = Nodes(l) \ {Header}
    BY DEF Linked
  <1> QED BY <1>1, <1>2, <1>3, <1>4 DEF WellFormed

----------------------------------------------------------------------------
(* The follower's list                                                     *)

\* A list that counts nothing has only its header.
LEMMA CountsNothing ==
  ASSUME NEW l, Linked(l), l.elementCount = 0
  PROVE  Nodes(l) = {Header}
  <1>1. PICK S : S = Nodes(l) \ {Header}  OBVIOUS
  <1>2. IsFiniteSet(S) /\ Cardinality(S) = 0 /\ Header \in Nodes(l)
    <2>1. IsFiniteSet(Nodes(l)) /\ S \in SUBSET Nodes(l)  BY <1>1 DEF Linked
    <2>2. IsFiniteSet(S)  BY <2>1, FS_Subset
    <2> QED BY <1>1, <2>2 DEF Linked
  <1>3. S = {}  BY <1>2, FS_EmptySet
  <1> QED BY <1>1, <1>2, <1>3

\* What loadFromJson() has for a set of keys, when it knows what it has for
\* those without the last.
LoadStep(g, l, json, random, s) ==
  IF s = {} THEN l
  ELSE Insert(g[s \ {Max(s)}], KeyWord[Max(s)], Word[json[Max(s)]], random[Max(s)])

\* The fold over the keys has a value for each set of them.
LEMMA LoadExists ==
  ASSUME NEW l, NEW json, NEW random, NEW D, D \subseteq Nat, IsFiniteSet(D)
  PROVE  \E g : g = [s \in SUBSET D |-> LoadStep(g, l, json, random, s)]
  <1> DEFINE First(m) == { n \in D : n < m }
             Loads(m) == \E g : g = [s \in SUBSET First(m) |-> LoadStep(g, l, json, random, s)]
             Bad == { m \in Nat : ~Loads(m) }
  <1>1. \A m \in Nat : First(m) \subseteq D /\ \A n \in D : n \in First(m) <=> n < m
    OBVIOUS
  <1>2. 0 \notin Bad
    <2>1. SUBSET First(0) = {{}}
      <3> HIDE DEF First
      <3>1. \A n \in D : ~(n < 0)  OBVIOUS
      <3>2. First(0) = {}  BY <1>1, <3>1
      <3> QED BY <3>2
    <2> DEFINE g == [s \in {{}} |-> l]
    <2>2. g = [s \in {{}} |-> LoadStep(g, l, json, random, s)]  BY DEF LoadStep
    <2> HIDE DEF g, First
    <2> QED BY <2>1, <2>2
  <1>3. ASSUME NEW m \in Nat, Loads(m)  PROVE Loads(m + 1)
    <2>1. PICK g : g = [s \in SUBSET First(m) |-> LoadStep(g, l, json, random, s)]  BY <1>3
    <2>2. PICK h : h = [s \in SUBSET First(m + 1) |->
                          IF m \in s
                          THEN Insert(g[s \ {m}], KeyWord[m], Word[json[m]], random[m])
                          ELSE g[s]]
      OBVIOUS
    <2> HIDE DEF First, Loads, Bad
    <2>3. /\ SUBSET First(m) \subseteq SUBSET First(m + 1)
          /\ \A s \in SUBSET First(m) : m \notin s
          /\ \A s \in SUBSET First(m + 1) :
               /\ s \ {m} \in SUBSET First(m)
               /\ m \in s => Max(s) = m
               /\ m \notin s => s \in SUBSET First(m)
      <3>1. \A n \in D : /\ n < m + 1 <=> n < m \/ n = m
                         /\ ~(n < m /\ n = m) /\ n \in Nat
        OBVIOUS
      <3>2. /\ First(m) \subseteq D /\ First(m + 1) \subseteq D
            /\ \A n \in D : /\ n \in First(m + 1) <=> n \in First(m) \/ n = m
                            /\ ~(n \in First(m) /\ n = m)
        BY <1>1, <3>1
      <3>3. ASSUME NEW s \in SUBSET First(m + 1), m \in s  PROVE Max(s) = m
        <4>1. \A n \in s : n \in Nat /\ n <= m
          <5> TAKE n \in s
          <5>1. n \in D /\ n \in First(m + 1)  BY <3>2
          <5>2. n < m + 1 /\ n \in Nat  BY <1>1, <5>1
          <5> QED BY <5>2
        <4>2. \A n \in s : m >= n  BY <4>1
        <4>3. \A x \in s : (\A y \in s : x >= y) => x = m  BY <3>3, <4>1
        <4> QED BY <3>3, <4>2, <4>3 DEF Max
      <3> QED BY <3>2, <3>3
    <2>4. \A s \in SUBSET First(m) : h[s] = g[s] /\ g[s] = LoadStep(g, l, json, random, s)
      BY <2>1, <2>2, <2>3
    <2>5. ASSUME NEW s \in SUBSET First(m + 1)  PROVE h[s] = LoadStep(h, l, json, random, s)
      <3>1. CASE m \in s
        <4>1. Max(s) = m /\ s \ {m} \in SUBSET First(m) /\ s # {}  BY <2>3, <3>1
        <4>2. h[s] = Insert(g[s \ {m}], KeyWord[m], Word[json[m]], random[m])  BY <2>2, <3>1
        <4>3. h[s \ {m}] = g[s \ {m}]  BY <2>4, <4>1
        <4> QED BY <4>1, <4>2, <4>3 DEF LoadStep
      <3>2. CASE m \notin s
        <4>1. s \in SUBSET First(m) /\ s \ {Max(s)} \in SUBSET First(m)  BY <2>3, <3>2
        <4>2. h[s \ {Max(s)}] = g[s \ {Max(s)}]  BY <2>4, <4>1
        <4> QED BY <2>4, <4>1, <4>2 DEF LoadStep
      <3> QED BY <3>1, <3>2
    <2>6. h = [s \in SUBSET First(m + 1) |-> LoadStep(h, l, json, random, s)]
      <3>1. h = [s \in SUBSET First(m + 1) |-> h[s]]  BY <2>2
      <3> QED BY <2>5, <3>1
    <2> QED BY <2>6 DEF Loads
  <1>4. \A m \in Nat : m \in Bad <=> ~Loads(m)  OBVIOUS
  <1>5. Bad = {}
    <2>1. SUFFICES ASSUME Bad # {} PROVE FALSE  OBVIOUS
    <2>2. Bad \subseteq Nat  OBVIOUS
    <2> HIDE DEF Bad, Loads
    <2>3. PICK i \in Bad : \A j \in Bad : i <= j  BY <2>1, <2>2, SmallestOf
    <2>4. i \in Nat /\ i # 0  BY <1>2, <2>2
    <2>5. i - 1 \in Nat /\ (i - 1) + 1 = i /\ i - 1 \notin Bad  BY <2>3, <2>4
    <2> QED BY <1>3, <1>4, <2>5
  <1>6. PICK b \in Nat : \A n \in D : n < b
    <2>1. CASE D = {}  BY <2>1
    <2>2. CASE D # {}
      <3>1. PICK c \in D : \A n \in D : n <= c  BY <2>2, FiniteHasLargest
      <3>2. c + 1 \in Nat /\ \A n \in D : n < c + 1  BY <3>1
      <3> QED BY <3>2
    <2> QED BY <2>1, <2>2
  <1>7. First(b) = D
    <2> HIDE DEF First
    <2> QED BY <1>1, <1>6
  <1>8. Loads(b)
    <2> HIDE DEF Loads, Bad
    <2> QED BY <1>4, <1>5
  <1> QED BY <1>7, <1>8

\* The keys of a set that extraction makes k of.
From(s, k) == { j \in s : KeyWord[j] = k }

\* The largest key of a set is the last of those it falls together with, and
\* says nothing of the others.
LEMMA LastOfThem ==
  ASSUME NEW s, s \subseteq Nat, IsFiniteSet(s), s # {}, NEW k
  PROVE  LET x == Max(s) IN
         /\ KeyWord[x] = k => Max(From(s, k)) = x
         /\ KeyWord[x] # k => From(s, k) = From(s \ {x}, k)
  <1>1. PICK x : x = Max(s)  OBVIOUS
  <1>2. x \in s /\ \A j \in s : j <= x  BY <1>1, FiniteHasLargest
  <1>3. ASSUME KeyWord[x] = k  PROVE Max(From(s, k)) = x
    <2>1. x \in From(s, k) /\ \A j \in From(s, k) : x >= j /\ j \in Nat  BY <1>2, <1>3 DEF From
    <2>2. \A y \in From(s, k) : (\A j \in From(s, k) : y >= j) => y = x
      <3> TAKE y \in From(s, k)
      <3> HAVE \A j \in From(s, k) : y >= j
      <3> QED BY <2>1
    <2> QED BY <2>1, <2>2 DEF Max
  <1>4. ASSUME KeyWord[x] # k  PROVE From(s, k) = From(s \ {x}, k)
    BY <1>4 DEF From
  <1> QED BY <1>1, <1>3, <1>4

\* loadFromJson() into a list that holds nothing: of each key and of each value
\* what the extraction leaves, the last of the keys that fall together.
LEMMA LoadedFromJson ==
  ASSUME NEW l, Linked(l), l.elementCount = 0,
         NEW D, D \subseteq Key, IsFiniteSet(D), NEW json \in [D -> Value],
         NEW random \in [D -> Level]
  PROVE  LET m == LoadFromJson(l, json, KeyWord, Word, random)
         IN Linked(m) /\ Content(m) = Restored(json)
  <1>1. DOMAIN json = D /\ D \subseteq Nat /\ Nodes(l) = {Header}
    BY SkipListAssumption, CountsNothing
  <1> DEFINE g == CHOOSE g : g = [s \in SUBSET D |-> LoadStep(g, l, json, random, s)]
  <1>2. g = [s \in SUBSET D |-> LoadStep(g, l, json, random, s)]  BY <1>1, LoadExists
  <1>3. LoadFromJson(l, json, KeyWord, Word, random) = g[D]
    <2>1. ~(l.elementCount > 0)  OBVIOUS
    <2> QED BY <1>1, <2>1 DEF LoadFromJson, MapThenFoldSet, LoadStep
  <1> HIDE DEF g
  <1> DEFINE Loaded(s) ==
               /\ Linked(g[s])
               /\ \A k \in Key : k \in Nodes(g[s]) <=> From(s, k) # {}
               /\ \A k \in Key : From(s, k) # {} =>
                    g[s].value[k] = Word[json[Max(From(s, k))]]
             Bad == { Cardinality(s) : s \in { t \in SUBSET D : ~Loaded(t) } }
  <1>4. \A s \in SUBSET D : IsFiniteSet(s) /\ Cardinality(s) \in Nat
    BY FS_Subset, FS_CardinalityType
  <1>5. Bad = {}
    <2>1. SUFFICES ASSUME Bad # {} PROVE FALSE  OBVIOUS
    <2>2. Bad \subseteq Nat  BY <1>4
    <2>3. PICK c \in Bad : \A d \in Bad : c <= d
      <3> HIDE DEF Bad
      <3> QED BY <2>1, <2>2, SmallestOf
    <2>4. PICK s \in SUBSET D : ~Loaded(s) /\ c = Cardinality(s)  OBVIOUS
    <2>5. \A t \in SUBSET D : ~Loaded(t) => Cardinality(t) \in Bad  OBVIOUS
    <2> HIDE DEF Bad
    <2>6. g[s] = LoadStep(g, l, json, random, s)  BY <1>2
    <2>7. s # {}
      <3>1. SUFFICES ASSUME s = {} PROVE FALSE  OBVIOUS
      <3>2. g[s] = l  BY <2>6, <3>1 DEF LoadStep
      <3>3. \A k \in Key : From(s, k) = {} /\ k \notin Nodes(l)
        BY <1>1, <3>1, ContentOf DEF From
      <3> QED BY <2>4, <3>2, <3>3
    <2>8. PICK x : x = Max(s)  OBVIOUS
    <2>9. x \in s /\ x \in D /\ s \subseteq Nat /\ IsFiniteSet(s)
      <3>1. s \subseteq Nat /\ IsFiniteSet(s)  BY <1>1, <1>4
      <3> QED BY <2>7, <2>8, <3>1, FiniteHasLargest
    <2>10. PICK t : t = s \ {x}  OBVIOUS
    <2>11. t \in SUBSET D /\ s = t \cup {x} /\ x \notin t  BY <2>9, <2>10
    <2>12. Cardinality(t) = c - 1 /\ c \in Nat /\ Cardinality(t) \in Nat
      <3>1. IsFiniteSet(s)  BY <1>4
      <3>2. Cardinality(s \ {x}) = Cardinality(s) - 1  BY <2>9, <3>1, FS_RemoveElement
      <3> QED BY <1>4, <2>4, <2>10, <2>11, <3>2
    <2>13. Loaded(t)
      <3>1. ~(c <= Cardinality(t))  BY <2>12
      <3> HIDE DEF Loaded
      <3> QED BY <2>3, <2>5, <2>11, <3>1
    <2>14. g[s] = Insert(g[t], KeyWord[x], Word[json[x]], random[x])
      BY <2>6, <2>7, <2>8, <2>10 DEF LoadStep
    <2>15. Linked(g[t]) /\ KeyWord[x] \in Key /\ Word[json[x]] \in Value /\ random[x] \in Level
      BY <2>9, <2>13, StorageAssumption
    <2>16. PICK m, n, v, y : m = g[s] /\ n = g[t] /\ v = Word[json[x]] /\ y = KeyWord[x]
      OBVIOUS
    <2>17. /\ Linked(m) /\ Nodes(m) = Nodes(n) \cup {y} /\ y \in Key
           /\ \A k \in Nodes(m) \ {Header} : m.value[k] = IF k = y THEN v ELSE n.value[k]
      BY <2>14, <2>15, <2>16, InsertLinked
    <2>18. /\ \A k \in Key : k \in Nodes(n) <=> From(t, k) # {}
           /\ \A k \in Key : From(t, k) # {} => n.value[k] = Word[json[Max(From(t, k))]]
      BY <2>13, <2>16
    <2>19. \A k \in Key : k # Header  BY <2>17, ContentOf
    <2>20. \A k \in Key : /\ k = y => Max(From(s, k)) = x /\ From(s, k) # {}
                          /\ k # y => From(s, k) = From(t, k)
      <3> TAKE k \in Key
      <3>1. /\ k = y => Max(From(s, k)) = x
            /\ k # y => From(s, k) = From(t, k)
        BY <2>7, <2>8, <2>9, <2>10, <2>16, LastOfThem
      <3>2. k = y => x \in From(s, k)  BY <2>9, <2>16 DEF From
      <3> QED BY <3>1, <3>2
    <2>21. ASSUME NEW k \in Key
           PROVE  /\ k \in Nodes(m) <=> From(s, k) # {}
                  /\ From(s, k) # {} => m.value[k] = Word[json[Max(From(s, k))]]
      <3>1. CASE k = y
        <4>1. Max(From(s, k)) = x /\ From(s, k) # {}  BY <2>20, <3>1
        <4>2. k \in Nodes(m) \ {Header}  BY <2>17, <2>19, <3>1
        <4>3. m.value[k] = v  BY <2>17, <3>1, <4>2
        <4> QED BY <2>16, <4>1, <4>2, <4>3
      <3>2. CASE k # y
        <4>1. From(s, k) = From(t, k)  BY <2>20, <3>2
        <4>2. k \in Nodes(m) <=> k \in Nodes(n)  BY <2>17, <3>2
        <4>3. k \in Nodes(m) => m.value[k] = n.value[k]  BY <2>17, <2>19, <3>2
        <4> QED BY <2>18, <4>1, <4>2, <4>3
      <3> QED BY <3>1, <3>2
    <2> QED BY <2>4, <2>16, <2>17, <2>21
  <1>6. Loaded(D)
    <2>1. D \in SUBSET D  OBVIOUS
    <2> HIDE DEF Loaded
    <2> QED BY <1>5, <2>1
  <1>7. PICK m : m = g[D]  OBVIOUS
  <1>8. /\ Linked(m)
        /\ \A k \in Key : k \in Nodes(m) <=> From(D, k) # {}
        /\ \A k \in Key : From(D, k) # {} => m.value[k] = Word[json[Max(From(D, k))]]
    BY <1>6, <1>7
  <1>9. Content(m) = [k \in Key |-> IF k \in Nodes(m) THEN m.value[k] ELSE Nil]
    BY <1>8, ContentOf
  <1>10. Restored(json) = [k \in Key |-> IF From(D, k) = {} THEN Nil
                                         ELSE Word[json[Max(From(D, k))]]]
    BY <1>1 DEF Restored, From
  <1>11. \A k \in Key : (IF k \in Nodes(m) THEN m.value[k] ELSE Nil) =
                        (IF From(D, k) = {} THEN Nil ELSE Word[json[Max(From(D, k))]])
    BY <1>8
  <1> QED BY <1>3, <1>7, <1>8, <1>9, <1>10, <1>11

\* A dump of a store: values of some of the keys.
Dump(p) == \E D : D \subseteq Key /\ IsFiniteSet(D) /\ p \in [D -> Value]

\* dumpToJson() gives such a dump.
LEMMA DumpOf ==
  ASSUME NEW l, Linked(l)
  PROVE  Dump(DumpToJson(l))
  <1> DEFINE D == IF l.elementCount = 0 THEN {} ELSE ToSet(Chain(l, 0))
  <1>1. \A k \in Key : k # Header  BY ContentOf
  <1>2. ToSet(Chain(l, 0)) = Nodes(l) \ {Header}
    <2>1. 0 \in Level  BY SkipListAssumption DEF Level
    <2>2. NodesOn(l, 0) = Nodes(l)  BY <2>1, OnLevels
    <2> QED BY <2>1, <2>2, ChainAscends DEF Ascends
  <1>3. D \subseteq Nodes(l) \ {Header}  BY <1>2
  <1> HIDE DEF D
  <1>4. D \subseteq Key /\ IsFiniteSet(D) /\ \A k \in D : l.value[k] \in Value
    <2>1. D \in SUBSET Nodes(l) /\ IsFiniteSet(Nodes(l))  BY <1>3 DEF Linked
    <2>2. IsFiniteSet(D)  BY <2>1, FS_Subset
    <2> QED BY <1>3, <2>2 DEF Linked
  <1>5. DumpToJson(l) = [k \in D |-> l.value[k]]  BY DEF DumpToJson, D
  <1>6. [k \in D |-> l.value[k]] \in [D -> Value]  BY <1>4
  <1> QED BY <1>4, <1>5, <1>6 DEF Dump

\* The header of a list links to a node that is not there.
HeadDangles(l) ==
  /\ l = [ forward |-> l.forward, value |-> l.value,
           curLevel |-> l.curLevel, elementCount |-> l.elementCount ]
  /\ l.elementCount > 0 /\ Header \in Nodes(l) /\ 0 \in DOMAIN l.forward[Header]
  /\ Forward(l, Header, 0) \notin Nodes(l) \cup {Nil}

\* What clear() leaves of a list that holds something.
LEMMA ClearDangles ==
  ASSUME NEW l, l.elementCount > 0, Linked(l) \/ HeadDangles(l)
  PROVE  HeadDangles(Clear(l))
  <1>1. PICK m, links : m = Clear(l) /\ links = l.forward[Header]  OBVIOUS
  <1>2. /\ Header \in Nodes(l) /\ 0 \in DOMAIN links
        /\ links[0] \notin {Header, Nil}
    <2>1. CASE HeadDangles(l)  BY <1>1, <2>1 DEF HeadDangles, Forward
    <2>2. CASE Linked(l)
      <3>1. 0 \in Level /\ \A n \in Nodes(l) \ {Header} : n \in Nat /\ n > Header
        BY <2>2, SkipListAssumption DEF Level, Linked, Header
      <3>2. Header \in Nodes(l) /\ DOMAIN links = Level  BY <1>1, <2>2 DEF Linked
      <3>3. Nodes(l) # {Header}
        <4>1. Cardinality(Nodes(l) \ {Header}) # 0  BY <2>2 DEF Linked
        <4> QED BY <4>1, FS_EmptySet
      <3>4. IsNext(Nodes(l), Header, links[0])
        <4>1. NodesOn(l, 0) = Nodes(l)  BY <2>2, <3>1, OnLevels
        <4>2. \A i \in Level : \A n \in NodesOn(l, i) : IsNext(NodesOn(l, i), n, Forward(l, n, i))
          BY <2>2 DEF Linked
        <4>3. Forward(l, Header, 0) = links[0]  BY <1>1 DEF Forward
        <4> QED BY <3>1, <3>2, <4>1, <4>2, <4>3
      <3>5. PICK n \in Nodes(l) : n # Header  BY <3>2, <3>3
      <3>6. ~(n <= Header) /\ ~(Header < Header)  BY <3>1, <3>5 DEF Header
      <3>7. Nil \notin Nodes(l)
        BY <2>2, SkipListAssumption DEF Linked, Header
      <3> QED BY <3>1, <3>2, <3>4, <3>5, <3>6, <3>7 DEF IsNext
    <2> QED BY <2>1, <2>2
  <1>3. l = [ forward |-> l.forward, value |-> l.value,
              curLevel |-> l.curLevel, elementCount |-> l.elementCount ]
    BY DEF HeadDangles, Linked
  <1>4. PICK forward, value : /\ forward = [n \in {Header} |-> links]
                              /\ value = [n \in {} |-> Nil]
    OBVIOUS
  <1>5. m = [ forward |-> forward, value |-> value,
              curLevel |-> l.curLevel, elementCount |-> l.elementCount ]
    BY <1>1, <1>3, <1>4 DEF Clear
  <1>6. /\ m.forward = forward /\ m.value = value
        /\ m.curLevel = l.curLevel /\ m.elementCount = l.elementCount
    BY <1>5
  <1>7. DOMAIN forward = {Header} /\ forward[Header] = links  BY <1>4
  <1>8. l.elementCount > 0  OBVIOUS
  <1>9. HeadDangles(m)  BY ONLY <1>2, <1>5, <1>6, <1>7, <1>8 DEF HeadDangles, Nodes, Forward
  <1> QED BY <1>1, <1>9

\* The follower's list is linked and holds what the dump it was sent restores,
\* as long as none was restored over pairs; from then on it dangles.
FollowerOK(f, t) ==
  /\ f.inPlace \in BOOLEAN
  /\ ~f.inPlace => Linked(f.list) /\ Content(f.list) = Restored(f.sent.pairs)
  /\ f.inPlace => HeadDangles(f.list)
  /\ f.sent.index \in Nat /\ t.index \in Nat /\ Dump(t.pairs)

FollowerInv == FollowerOK(follower, taken)

\* Nothing is sent by a leader without a snapshot.
LEMMA NothingSent ==
  NoSnapshot.index = 0 /\ Dump(NoSnapshot.pairs) /\ Restored(NoSnapshot.pairs) = NoPairs
  <1>1. PICK p : p = << >>  OBVIOUS
  <1>2. NoSnapshot.index = 0 /\ NoSnapshot.pairs = p  BY <1>1 DEF NoSnapshot
  <1>3. p \in [{} -> Value] /\ IsFiniteSet({}) /\ DOMAIN p = {}  BY <1>1, FS_EmptySet
  <1>4. Dump(p)  BY <1>3 DEF Dump
  <1>5. Restored(p) = NoPairs  BY <1>3 DEF Restored, NoPairs
  <1> QED BY <1>2, <1>4, <1>5

\* A follower that starts holds nothing.
LEMMA FollowerStarts ==
  ASSUME NEW t, t.index \in Nat, Dump(t.pairs)
  PROVE  FollowerOK(NewFollower, t)
  <1>1. PICK f : f = NewFollower  OBVIOUS
  <1>2. f.list = NewList /\ f.sent = NoSnapshot /\ f.inPlace = FALSE  BY <1>1 DEF NewFollower
  <1>3. Linked(NewList) /\ Content(NewList) = NoPairs  BY NewListLinked, NewListHoldsNothing
  <1>4. Restored(NoSnapshot.pairs) = NoPairs /\ NoSnapshot.index \in Nat  BY NothingSent
  <1> QED BY <1>1, <1>2, <1>3, <1>4 DEF FollowerOK

\* The first state.
LEMMA InitFollower == Init => FollowerInv
  <1> SUFFICES ASSUME Init PROVE FollowerInv  OBVIOUS
  <1>1. taken.index \in Nat /\ Dump(taken.pairs)  BY NothingSent DEF Init
  <1>2. follower = NewFollower  BY DEF Init
  <1> QED BY <1>1, <1>2, FollowerStarts DEF FollowerInv

\* The follower that is sent the dump of the leader's list holds nothing, and
\* restores it, or holds something, and dangles.
LEMMA RestoreKeeps ==
  ASSUME NEW f, NEW t, FollowerOK(f, t), NEW random \in [DOMAIN t.pairs -> Level]
  PROVE  FollowerOK([ list    |-> LoadFromJson(f.list, t.pairs, KeyWord, Word, random),
                      sent    |-> t,
                      inPlace |-> f.inPlace \/ f.list.elementCount > 0 ], t)
  <1>1. PICK p, m : p = t.pairs /\ m = LoadFromJson(f.list, p, KeyWord, Word, random)
    OBVIOUS
  <1>2. PICK f2 : f2 = [ list |-> m, sent |-> t,
                         inPlace |-> f.inPlace \/ f.list.elementCount > 0 ]
    OBVIOUS
  <1>3. /\ f2.list = m /\ f2.sent = t /\ f2.inPlace \in BOOLEAN
        /\ f2.inPlace <=> f.inPlace \/ f.list.elementCount > 0
    BY <1>2
  <1>4. SUFFICES FollowerOK(f2, t)  BY <1>1, <1>2
  <1>5. t.index \in Nat /\ Dump(p)  BY <1>1 DEF FollowerOK
  <1>6. CASE f2.inPlace
    <2>1. f.list.elementCount > 0 /\ (Linked(f.list) \/ HeadDangles(f.list))
      BY <1>3, <1>6 DEF FollowerOK, HeadDangles
    <2>2. m = Clear(f.list)  BY <1>1, <2>1 DEF LoadFromJson
    <2>3. HeadDangles(m)  BY <2>1, <2>2, ClearDangles
    <2> QED BY <1>1, <1>3, <1>5, <1>6, <2>3 DEF FollowerOK
  <1>7. CASE ~f2.inPlace
    <2>1. Linked(f.list) /\ ~(f.list.elementCount > 0)  BY <1>3, <1>7 DEF FollowerOK
    <2>2. f.list.elementCount = 0
      <3>1. IsFiniteSet(Nodes(f.list) \ {Header})  BY <2>1, FS_Subset DEF Linked
      <3>2. f.list.elementCount \in Nat  BY <2>1, <3>1, FS_CardinalityType DEF Linked
      <3> QED BY <2>1, <3>2
    <2>3. PICK D : D \subseteq Key /\ IsFiniteSet(D) /\ p \in [D -> Value]  BY <1>5 DEF Dump
    <2>4. random \in [D -> Level]  BY <1>1, <2>3
    <2>5. Linked(m) /\ Content(m) = Restored(p)
      BY <1>1, <2>1, <2>2, <2>3, <2>4, LoadedFromJson
    <2> QED BY <1>1, <1>3, <1>5, <1>7, <2>5 DEF FollowerOK
  <1> QED BY <1>6, <1>7

\* The dump is of the list as it is, and read from the disk as it was taken.
LEMMA NextFollower == DiskInv /\ ListInv /\ FollowerInv /\ [Next]_storageVars => FollowerInv'
  <1> SUFFICES ASSUME DiskInv, ListInv, FollowerInv, [Next]_storageVars PROVE FollowerInv'
    OBVIOUS
  <1>1. PICK f, t, f2, t2 : f = follower /\ t = taken /\ f2 = follower' /\ t2 = taken'
    OBVIOUS
  <1>2. FollowerOK(f, t)  BY <1>1 DEF FollowerInv
  <1>3. SUFFICES FollowerOK(f2, t2)  BY <1>1 DEF FollowerInv
  <1>4. CASE Snapshot
    <2>1. /\ t2 = [ index |-> index, pairs |-> DumpToJson(list) ] /\ f2 = f
      BY <1>1, <1>4 DEF Snapshot
    <2>2. t2.index = index /\ t2.pairs = DumpToJson(list)  BY <2>1
    <2>3. index \in Nat /\ Linked(list)  BY DEF DiskInv, StateOK, ListInv
    <2> QED BY <1>2, <2>1, <2>2, <2>3, DumpOf DEF FollowerOK
  <1>5. CASE SendSnapshot
    <2>1. /\ saving = << >> /\ raft.lastIncludeSnapshotIndex > f.sent.index /\ t2 = t
          /\ \E random \in [DOMAIN ReadSnapShot(disk) -> Level] :
               f2 = [ list |-> LoadFromJson(f.list, ReadSnapShot(disk), KeyWord, Word, random),
                      sent |-> t, inPlace |-> f.inPlace \/ f.list.elementCount > 0 ]
      BY <1>1, <1>5 DEF SendSnapshot
    <2>2. raft.lastIncludeSnapshotIndex \in Nat  BY DEF DiskInv, StateOK
    <2>3. f.sent.index \in Nat  BY <1>2 DEF FollowerOK
    <2>4. raft.lastIncludeSnapshotIndex > 0  BY <2>1, <2>2, <2>3
    <2>5. ReadSnapShot(disk) = t.pairs  BY <1>1, <2>1, <2>4, DiskIsRead DEF DiskIsSaved
    <2>6. PICK random \in [DOMAIN t.pairs -> Level] :
            f2 = [ list |-> LoadFromJson(f.list, t.pairs, KeyWord, Word, random),
                   sent |-> t, inPlace |-> f.inPlace \/ f.list.elementCount > 0 ]
      BY <2>1, <2>5
    <2> QED BY <1>2, <2>1, <2>6, RestoreKeeps
  <1>6. CASE LeaderRestarts
    <2>1. t2 = NoSnapshot /\ f2 = f  BY <1>1, <1>6 DEF LeaderRestarts
    <2>2. t2.index \in Nat /\ Dump(t2.pairs)  BY <2>1, NothingSent
    <2> QED BY <1>2, <2>1, <2>2 DEF FollowerOK
  <1>7. CASE FollowerRestarts
    <2>1. t2 = t /\ f2 = NewFollower  BY <1>1, <1>7 DEF FollowerRestarts
    <2> QED BY <1>2, <2>1, FollowerStarts DEF FollowerOK
  <1>8. CASE UNCHANGED << follower, taken >>  BY <1>1, <1>2, <1>8
  <1>9. \/ Snapshot \/ SendSnapshot \/ LeaderRestarts \/ FollowerRestarts
        \/ UNCHANGED << follower, taken >>
    BY DEF Next, Apply, Persist, SaveStep, storageVars
  <1> QED BY <1>4, <1>5, <1>6, <1>7, <1>8, <1>9

\* The disk, the leader's list and the follower's, together.
StorageInv == DiskInv /\ ListInv /\ FollowerInv

\* They hold in every state.
LEMMA StorageAlways == StorageSpec => []StorageInv
  <1>1. Init => StorageInv  BY InitDisk, InitList, InitFollower DEF StorageInv
  <1>2. StorageInv /\ [Next]_storageVars => StorageInv'
    BY NextDisk, NextList, NextFollower DEF StorageInv
  <1> QED BY <1>1, <1>2, PTL DEF StorageSpec

\* The sound lists are linked.
LEMMA SoundIsLinked == StorageInv => \A l \in SoundLists : Linked(l)
  BY DEF StorageInv, ListInv, FollowerInv, FollowerOK, SoundLists

\* On every level of a list that was never restored while it held pairs, the keys
\* are ascending and each level is a part of the one below, curLevel_ and
\* elementCount_ are exact, and no link leads to a node that erase freed
\* (SkipList::insert, erase, loadFromJson).
THEOREM ListsAlwaysWellFormed == StorageSpec => []ListIsWellFormed
  <1>1. StorageInv => ListIsWellFormed
    BY SoundIsLinked, LinkedIsWellFormed DEF ListIsWellFormed
  <1> QED BY <1>1, StorageAlways, PTL

\* A list that was restored while it held pairs has a link to a node that clear()
\* freed: what the other theorems except does go wrong, whatever the pairs, the
\* levels and the number of restores (KVServer.cc:299, SkipLists.h:373).
THEOREM RestoredInPlaceDangles == StorageSpec => []InPlaceDangles
  <1>1. StorageInv => InPlaceDangles
    <2>1. ASSUME HeadDangles(follower.list)  PROVE ~NoDanglingLink(follower.list)
      BY <2>1 DEF HeadDangles, NoDanglingLink, Forward
    <2> QED BY <2>1 DEF StorageInv, FollowerInv, FollowerOK, InPlaceDangles
  <1> QED BY <1>1, StorageAlways, PTL

\* What a follower whose store is empty restores from the leader's snapshot, read
\* back from the leader's disk, is what the leader's list held when it was
\* dumped, each key and each value up to its first space (doSnapshot,
\* readSnapShot, loadFromJson).
THEOREM EmptyStoreIsRestored == StorageSpec => []SnapshotIsRestored
  <1>1. StorageInv => SnapshotIsRestored
    BY DEF StorageInv, FollowerInv, FollowerOK, SnapshotIsRestored
  <1> QED BY <1>1, StorageAlways, PTL

----------------------------------------------------------------------------
(* operator==                                                              *)

\* Ascending sequences with the same members agree as far as both go.
LEMMA AscendsOneWay ==
  ASSUME NEW p, NEW q, NEW T, Ascends(p, T), Ascends(q, T)
  PROVE  \A i \in DOMAIN p \cap DOMAIN q : p[i] = q[i]
  <1>1. PICK a, b : a = Len(p) /\ b = Len(q)  OBVIOUS
  <1>2. /\ a \in Nat /\ DOMAIN p = 1 .. a /\ \A i \in 1 .. a : p[i] \in Nat /\ p[i] \in T
        /\ \A x \in T : \E i \in 1 .. a : p[i] = x
        /\ \A x, y \in 1 .. a : x < y => p[x] < p[y]
    <2>1. p \in Seq(Nat) /\ a \in Nat /\ DOMAIN p = 1 .. a  BY <1>1 DEF Ascends
    <2>2. T = { p[i] : i \in 1 .. a }  BY <2>1 DEF Ascends, ToSet
    <2>3. \A x, y \in 1 .. a : x < y => p[x] < p[y]  BY <1>1 DEF Ascends
    <2> QED BY <2>1, <2>2, <2>3
  <1>3. /\ b \in Nat /\ DOMAIN q = 1 .. b /\ \A i \in 1 .. b : q[i] \in Nat /\ q[i] \in T
        /\ \A x \in T : \E i \in 1 .. b : q[i] = x
        /\ \A x, y \in 1 .. b : x < y => q[x] < q[y]
    BY <1>1 DEF Ascends, ToSet
  <1> DEFINE Bad == { i \in 1 .. a : i \in 1 .. b /\ p[i] # q[i] }
  <1>4. Bad \subseteq Nat  BY <1>2
  <1>5. Bad = {}
    <2>1. SUFFICES ASSUME Bad # {} PROVE FALSE  OBVIOUS
    <2>2. PICK i \in Bad : \A j \in Bad : i <= j
      <3> HIDE DEF Bad
      <3> QED BY <1>4, <2>1, SmallestOf
    <2>3. i \in 1 .. a /\ i \in 1 .. b /\ i \in Nat /\ p[i] # q[i]  BY <1>4
    <2>4. \A j \in 1 .. a : j \in 1 .. b /\ ~(i <= j) => p[j] = q[j]  BY <2>2
    <2> HIDE DEF Bad
    <2>5. p[i] \in Nat /\ q[i] \in Nat /\ p[i] \in T /\ q[i] \in T  BY <1>2, <1>3, <2>3
    <2>6. CASE p[i] < q[i]
      <3>1. PICK j \in 1 .. b : q[j] = p[i]  BY <1>3, <2>5
      <3>2. j \in Nat /\ j # i  BY <1>3, <2>3, <3>1
      <3>3. CASE j < i
        <4>1. j \in 1 .. a /\ p[j] = q[j]  BY <1>2, <2>3, <2>4, <3>2, <3>3
        <4>2. p[j] < p[i]  BY <1>2, <2>3, <3>3, <4>1
        <4> QED BY <2>5, <3>1, <4>1, <4>2
      <3>4. CASE i < j
        <4>1. q[i] < q[j]  BY <1>3, <2>3, <3>1, <3>4
        <4> QED BY <2>5, <2>6, <3>1, <4>1
      <3> QED BY <2>3, <3>2, <3>3, <3>4
    <2>7. CASE q[i] < p[i]
      <3>1. PICK j \in 1 .. a : p[j] = q[i]  BY <1>2, <2>5
      <3>2. j \in Nat /\ j # i  BY <1>2, <2>3, <3>1
      <3>3. CASE j < i
        <4>1. j \in 1 .. b /\ p[j] = q[j]  BY <1>3, <2>3, <2>4, <3>1, <3>2, <3>3
        <4>2. q[j] < q[i]  BY <1>3, <2>3, <3>3, <4>1
        <4> QED BY <2>5, <3>1, <4>1, <4>2
      <3>4. CASE i < j
        <4>1. p[i] < p[j]  BY <1>2, <2>3, <3>1, <3>4
        <4> QED BY <2>5, <2>7, <3>1, <4>1
      <3> QED BY <2>3, <3>2, <3>3, <3>4
    <2> QED BY <2>3, <2>5, <2>6, <2>7
  <1>6. \A i \in 1 .. a : i \in 1 .. b => p[i] = q[i]  BY <1>5
  <1> QED BY <1>2, <1>3, <1>6

\* An ascending sequence is as long as its set is large.
LEMMA AscendsLength ==
  ASSUME NEW p, NEW T, Ascends(p, T)
  PROVE  Len(p) \in Nat /\ Len(p) = Cardinality(T)
  <1>1. PICK a : a = Len(p)  OBVIOUS
  <1>2. /\ a \in Nat /\ DOMAIN p = 1 .. a /\ \A i \in 1 .. a : p[i] \in Nat /\ p[i] \in T
        /\ p = [i \in 1 .. a |-> p[i]]
        /\ \A x \in T : \E i \in 1 .. a : p[i] = x
        /\ \A x, y \in 1 .. a : x < y => p[x] < p[y]
    BY <1>1 DEF Ascends, ToSet
  <1>3. \A x, y \in 1 .. a : p[x] = p[y] => x = y
    <2> TAKE x, y \in 1 .. a
    <2>1. x < y \/ x = y \/ y < x  BY <1>2
    <2>2. p[x] \in Nat /\ p[y] \in Nat  BY <1>2
    <2>3. x < y => p[x] < p[y]  BY <1>2
    <2>4. y < x => p[y] < p[x]  BY <1>2
    <2> QED BY <2>1, <2>2, <2>3, <2>4
  <1>4. p \in [1 .. a -> T]  BY <1>2
  <1>5. p \in Bijection(1 .. a, T)  BY <1>2, <1>3, <1>4 DEF Bijection, Injection, Surjection, IsInjective
  <1>6. ExistsBijection(1 .. a, T)  BY <1>5 DEF ExistsBijection
  <1>7. Cardinality(T) = a  BY <1>2, <1>6, FS_CountingElements
  <1> QED BY <1>1, <1>2, <1>7

\* operator== compares what the lists hold.
LEMMA EqualIsExact ==
  ASSUME NEW l, NEW m, Linked(l), Linked(m)
  PROVE  Equal(l, m) <=> Content(l) = Content(m)
  <1>1. PICK p, q : p = Chain(l, 0) /\ q = Chain(m, 0)  OBVIOUS
  <1>2. PICK S, T : S = Nodes(l) \ {Header} /\ T = Nodes(m) \ {Header}  OBVIOUS
  <1>3. Ascends(p, S) /\ Ascends(q, T)
    <2>1. 0 \in Level  BY SkipListAssumption DEF Level
    <2>2. NodesOn(l, 0) = Nodes(l) /\ NodesOn(m, 0) = Nodes(m)  BY <2>1, OnLevels
    <2> QED BY <1>1, <1>2, <2>1, <2>2, ChainAscends
  <1>4. Equal(l, m) <=>
          /\ Size(l) = Size(m)
          /\ \A i \in DOMAIN p \cap DOMAIN q :
               << p[i], l.value[p[i]] >> = << q[i], m.value[q[i]] >>
    <2>1. PICK a, b : /\ a = [i \in DOMAIN p |-> << p[i], l.value[p[i]] >>]
                      /\ b = [i \in DOMAIN q |-> << q[i], m.value[q[i]] >>]
      OBVIOUS
    <2>2. Equal(l, m) <=> Size(l) = Size(m) /\ \A i \in DOMAIN a \cap DOMAIN b : a[i] = b[i]
      BY <1>1, <2>1 DEF Equal
    <2> QED BY <2>1, <2>2
  <1>5. Size(l) = Cardinality(S) /\ Size(m) = Cardinality(T)  BY <1>2 DEF Size, Linked
  <1>6. PICK c, d : c = Content(l) /\ d = Content(m)  OBVIOUS
  <1>7. /\ c = [k \in Key |-> IF k \in Nodes(l) THEN l.value[k] ELSE Nil]
        /\ d = [k \in Key |-> IF k \in Nodes(m) THEN m.value[k] ELSE Nil]
        /\ S = { k \in Key : c[k] # Nil } /\ T = { k \in Key : d[k] # Nil }
        /\ \A k \in S : l.value[k] = c[k]
        /\ \A k \in T : m.value[k] = d[k]
    BY <1>2, <1>6, ContentOf
  <1>8. /\ DOMAIN p = 1 .. Len(p) /\ DOMAIN q = 1 .. Len(q)
        /\ S = { p[i] : i \in DOMAIN p } /\ T = { q[i] : i \in DOMAIN q }
    BY <1>3 DEF Ascends, ToSet
  <1>9. ASSUME c = d  PROVE Equal(l, m)
    <2>1. S = T  BY <1>7, <1>9
    <2>2. \A i \in DOMAIN p \cap DOMAIN q : p[i] = q[i]  BY <1>3, <2>1, AscendsOneWay
    <2>3. \A i \in DOMAIN p \cap DOMAIN q : l.value[p[i]] = m.value[q[i]]
      <3> TAKE i \in DOMAIN p \cap DOMAIN q
      <3>1. p[i] = q[i] /\ p[i] \in S  BY <1>8, <2>2
      <3> QED BY <1>7, <1>9, <2>1, <3>1
    <2> QED BY <1>4, <1>5, <2>1, <2>2, <2>3
  <1>10. ASSUME Equal(l, m)  PROVE c = d
    <2>1. Len(p) = Len(q)  BY <1>3, <1>4, <1>5, <1>10, AscendsLength
    <2>2. \A i \in DOMAIN p : i \in DOMAIN q /\ p[i] = q[i] /\ l.value[p[i]] = m.value[q[i]]
      BY <1>4, <1>8, <1>10, <2>1
    <2>3. S = T  BY <1>8, <2>1, <2>2
    <2>4. \A k \in S : l.value[k] = m.value[k]
      <3> TAKE k \in S
      <3>1. PICK i \in DOMAIN p : p[i] = k  BY <1>8
      <3> QED BY <2>2, <3>1
    <2>5. \A k \in Key : c[k] = d[k]
      <3> TAKE k \in Key
      <3>1. CASE k \in S  BY <1>7, <2>3, <2>4, <3>1
      <3>2. CASE k \notin S  BY <1>7, <2>3, <3>2
      <3> QED BY <3>1, <3>2
    <2>6. c = [k \in Key |-> c[k]] /\ d = [k \in Key |-> d[k]]  BY <1>7
    <2> QED BY <2>5, <2>6
  <1> QED BY <1>6, <1>9, <1>10

\* operator== is true of the leader's list and a sound one exactly when they hold
\* the same pairs, whatever the heights of their nodes (SkipList::operator==).
THEOREM EqualityAlwaysExact == StorageSpec => []EqualityIsExact
  <1>1. StorageInv => EqualityIsExact
    BY SoundIsLinked, EqualIsExact DEF StorageInv, ListInv, EqualityIsExact
  <1> QED BY <1>1, StorageAlways, PTL
=============================================================================
