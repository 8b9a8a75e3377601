------------------------ MODULE RaftAgreement_proofs ------------------------
(***************************************************************************)
(* The logs of the cluster agree: LogInv is kept by every step.  What is   *)
(* committed stays: CommitInv is kept by every step, as long as no late    *)
(* request meets the next stream (Overtaken = {}).  So the apply queues are*)
(* those of one log that only grows, which is module ReplicatedLog.        *)
(***************************************************************************)
EXTENDS Raft_proofs, RaftAgreement, RaftHistory

-----------------------------------------------------------------------------
(* The logs of leaders.                                                    *)

\* The log of a term's leader is a sequence of terms.
LEMMA LedTypes ==
  ASSUME NEW led, Tree(led), NEW U \in Nat
  PROVE  /\ led[U] \in Seq(Nat) /\ Len(led[U]) \in Nat
         /\ \A i \in 1 .. Len(led[U]) : led[U][i] \in Nat
         /\ led[U] = << >> <=> Len(led[U]) = 0
  <1>1. led[U] \in Seq(Nat)  BY DEF Tree
  <1> QED BY <1>1, LenProperties, EmptySeq, ElementOfSeq

\* What Tree says of one entry.
LEMMA InLed ==
  ASSUME NEW led, Tree(led), NEW U \in Nat, NEW i, NEW T, In(led, U, i, T)
  PROVE  /\ i \in Nat /\ T \in Nat /\ 1 <= i /\ 1 <= T /\ T <= U
         /\ i <= Len(led[U]) /\ i <= Len(led[T]) /\ led[U][i] = T /\ led[T][i] = T
         /\ In(led, T, i, T)
         /\ \A j \in 1 .. i : led[U][j] <= T /\ led[T][j] = led[U][j]
  <1>1. /\ Len(led[U]) \in Nat /\ \A j \in 1 .. Len(led[U]) : led[U][j] \in Nat
    BY LedTypes
  <1>2. i \in Nat /\ 1 <= i /\ i <= Len(led[U]) /\ T \in Nat /\ led[U][i] = T
    BY <1>1 DEF In
  <1>3. /\ 1 <= T /\ T <= U /\ i <= Len(led[T])
        /\ \A j \in 1 .. i : led[U][j] <= T /\ led[T][j] = led[U][j]
    BY <1>2 DEF Tree
  <1>4. Len(led[T]) \in Nat  BY <1>2, LedTypes
  <1>5. led[T][i] = T  BY <1>2, <1>3
  <1> QED BY <1>2, <1>3, <1>4, <1>5 DEF In

\* Two leaders' logs that share an entry are the same up to it.
LEMMA LedAgree ==
  ASSUME NEW led, Tree(led), NEW U \in Nat, NEW W \in Nat, NEW i, NEW T,
         In(led, U, i, T), In(led, W, i, T), NEW j \in 1 .. i
  PROVE  led[U][j] = led[W][j] /\ j <= Len(led[U]) /\ j <= Len(led[W])
  <1>1. led[T][j] = led[U][j] /\ i <= Len(led[U]) /\ i \in Nat  BY InLed
  <1>2. led[T][j] = led[W][j] /\ i <= Len(led[W])  BY InLed
  <1>3. Len(led[U]) \in Nat /\ Len(led[W]) \in Nat  BY LedTypes
  <1> QED BY <1>1, <1>2, <1>3

\* An entry before one that two leaders' logs share is in both.
LEMMA InAgree ==
  ASSUME NEW led, Tree(led), NEW U \in Nat, NEW W \in Nat, NEW i, NEW T,
         In(led, U, i, T), In(led, W, i, T), NEW j \in 1 .. i, NEW t, In(led, U, j, t)
  PROVE  In(led, W, j, t)
  <1>1. led[U][j] = led[W][j] /\ j <= Len(led[W])  BY LedAgree
  <1>2. i \in Nat /\ Len(led[W]) \in Nat  BY InLed, LedTypes
  <1> QED BY <1>1, <1>2 DEF In

-----------------------------------------------------------------------------
(* The log of an object.                                                   *)

\* The last term of a log is the term at its last index.
LEMMA LastTermAt ==
  ASSUME NEW n \in RaftObject
  PROVE  GetLogTermFromIndex(n, GetLastLogIndex(n)) = GetLastLogTerm(n)
  <1>1. /\ n.logs \in Seq(Nat) /\ Len(n.logs) \in Nat /\ n.lastIncludeSnapshotIndex \in Nat
        /\ GetLastLogIndex(n) = n.lastIncludeSnapshotIndex + Len(n.logs)
    BY FieldTypes, LogTypes
  <1>2. CASE n.logs = << >>
    BY <1>1, <1>2 DEF GetLogTermFromIndex, GetLastLogTerm
  <1>3. CASE n.logs # << >>
    <2>1. Len(n.logs) # 0  BY <1>1, <1>3, EmptySeq
    <2>2. /\ GetLastLogIndex(n) # n.lastIncludeSnapshotIndex
          /\ GetLastLogIndex(n) - n.lastIncludeSnapshotIndex = Len(n.logs)
      BY <1>1, <2>1
    <2> QED BY <1>3, <2>2 DEF GetLogTermFromIndex, GetLastLogTerm, GetSlicesIndexFromLogIndex
  <1> QED BY <1>2, <1>3

\* Numbers that the lemmas about an object's log need again and again.
LEMMA FromLedTypes ==
  ASSUME NEW led, Tree(led), NEW n \in RaftObject, FromLed(led, n)
  PROVE  /\ GetLastLogTerm(n) \in Nat /\ GetLastLogIndex(n) \in Nat /\ n.currentTerm \in Nat
         /\ n.lastIncludeSnapshotIndex \in Nat
         /\ n.lastIncludeSnapshotIndex <= GetLastLogIndex(n)
         /\ GetLastLogTerm(n) <= n.currentTerm
         /\ GetLastLogIndex(n) <= Len(led[GetLastLogTerm(n)])
         /\ Len(led[GetLastLogTerm(n)]) \in Nat
         /\ GetLastLogIndex(n) > 0 => In(led, GetLastLogTerm(n), GetLastLogIndex(n), GetLastLogTerm(n))
         /\ GetLastLogIndex(n) = 0 => GetLastLogTerm(n) = 0
  <1> DEFINE W == GetLastLogTerm(n)
             last == GetLastLogIndex(n)
  <1>1. /\ W \in Nat /\ last \in Nat /\ n.currentTerm \in Nat /\ n.lastIncludeSnapshotIndex \in Nat
        /\ n.lastIncludeSnapshotIndex <= last
    BY LogTypes, FieldTypes
  <1>2. W <= n.currentTerm /\ last <= Len(led[W])  BY DEF FromLed
  <1>3. Len(led[W]) \in Nat  BY <1>1, LedTypes
  <1>4. GetLogTermFromIndex(n, last) = TermAt(led[W], last)  BY <1>1 DEF FromLed
  <1>5. W = TermAt(led[W], last)  BY <1>4, LastTermAt
  <1>6. last > 0 => In(led, W, last, W)  BY <1>1, <1>2, <1>3, <1>5 DEF In, TermAt
  <1>7. last = 0 => W = 0  BY <1>5 DEF TermAt
  <1> QED BY <1>1, <1>2, <1>3, <1>6, <1>7

\* What an object has is in the log its own comes from.
LEMMA HasIn ==
  ASSUME NEW led, Tree(led), NEW n \in RaftObject, FromLed(led, n), NEW i, NEW T
  PROVE  Has(led, n, i, T) <=> In(led, GetLastLogTerm(n), i, T) /\ i <= GetLastLogIndex(n)
  <1>1. /\ GetLastLogTerm(n) \in Nat /\ GetLastLogIndex(n) \in Nat
        /\ GetLastLogIndex(n) <= Len(led[GetLastLogTerm(n)]) /\ Len(led[GetLastLogTerm(n)]) \in Nat
    BY FromLedTypes
  <1> QED BY <1>1 DEF Has, In

\* An object that has an entry has every entry before it of the entry's leader.
LEMMA HasBefore ==
  ASSUME NEW led, Tree(led), NEW n \in RaftObject, FromLed(led, n),
         NEW i, NEW T, Has(led, n, i, T), NEW W \in Nat, In(led, W, i, T),
         NEW j \in 1 .. i, NEW t, In(led, W, j, t)
  PROVE  Has(led, n, j, t)
  <1> DEFINE V == GetLastLogTerm(n)
  <1>1. V \in Nat /\ GetLastLogIndex(n) \in Nat  BY FromLedTypes
  <1>2. In(led, V, i, T) /\ i <= GetLastLogIndex(n)  BY HasIn
  <1>3. In(led, V, j, t)  BY <1>1, <1>2, InAgree
  <1>4. j <= GetLastLogIndex(n)  BY <1>1, <1>2, InLed
  <1> QED BY <1>3, <1>4, HasIn

\* What getLogTermFromIndex finds is the term there in the log it comes from.
LEMMA TermInLog ==
  ASSUME NEW led, Tree(led), NEW n \in RaftObject, FromLed(led, n),
         NEW i \in Nat, IsLogIndex(n, i), i > 0
  PROVE  /\ Has(led, n, i, GetLogTermFromIndex(n, i))
         /\ In(led, GetLastLogTerm(n), i, GetLogTermFromIndex(n, i))
  <1>1. GetLogTermFromIndex(n, i) = led[GetLastLogTerm(n)][i]
    BY DEF FromLed, IsLogIndex, TermAt
  <1>2. Has(led, n, i, GetLogTermFromIndex(n, i))
    BY <1>1, FromLedTypes DEF Has, IsLogIndex
  <1> QED BY <1>2, HasIn

-----------------------------------------------------------------------------
(* What steps do to the log of an object.                                  *)

\* n loses entry i of term T because the leader of m's term has none.
Loses(led, m, i, T) ==
  T < m.currentTerm /\ led[m.currentTerm] # << >> /\ ~In(led, m.currentTerm, i, T)

\* m has what n has, but for what a newer leader took away.
KeepsEntries(led, n, m) ==
  \A T, i \in Nat : Has(led, n, i, T) => Has(led, m, i, T) \/ Loses(led, m, i, T)

\* The log invariant of an object looks at its log, term and status only.
LEMMA SameDiskLog ==
  ASSUME NEW led, NEW n, NEW m, SameLog(n, m)
  PROVE  /\ GetLastLogIndex(m) = GetLastLogIndex(n) /\ GetLastLogTerm(m) = GetLastLogTerm(n)
         /\ \A i, T : Has(led, m, i, T) <=> Has(led, n, i, T)
         /\ FromLed(led, n) /\ n.currentTerm <= m.currentTerm /\ GetLastLogTerm(n) \in Nat
              /\ n.currentTerm \in Nat /\ m.currentTerm \in Nat => FromLed(led, m)
         /\ OwnLog(led, n) /\ NoNewLeader(n, m) => OwnLog(led, m)
  <1>1. /\ GetLastLogIndex(m) = GetLastLogIndex(n) /\ GetLastLogTerm(m) = GetLastLogTerm(n)
        /\ \A i : GetLogTermFromIndex(m, i) = GetLogTermFromIndex(n, i)
        /\ m.lastIncludeSnapshotIndex = n.lastIncludeSnapshotIndex
    BY IdleLog DEF SameLog
  <1> QED BY <1>1 DEF Has, FromLed, OwnLog, NoNewLeader

\* The end of a log after index i, which the snapshot then covers.
LEMMA CutBefore ==
  ASSUME NEW n \in RaftObject, NEW i \in Nat, IsLogIndex(n, i), NEW m \in RaftObject,
         m.logs = EntriesAfter(n, i), m.lastIncludeSnapshotIndex = i,
         m.lastIncludeSnapshotTerm = GetLogTermFromIndex(n, i)
  PROVE  /\ GetLastLogIndex(m) = GetLastLogIndex(n) /\ GetLastLogTerm(m) = GetLastLogTerm(n)
         /\ \A j \in i .. GetLastLogIndex(n) :
              GetLogTermFromIndex(m, j) = GetLogTermFromIndex(n, j)
  <1> DEFINE d == n.lastIncludeSnapshotIndex
             k == i - d
             len == Len(n.logs)
  <1>1. /\ n.logs \in Seq(Nat) /\ len \in Nat /\ d \in Nat /\ GetLastLogIndex(n) = d + len
        /\ GetLastLogIndex(m) = i + Len(m.logs) /\ Len(m.logs) \in Nat /\ m.logs \in Seq(Nat)
    BY LogTypes, FieldTypes
  <1>2. d <= i /\ i <= d + len /\ k \in Nat /\ k <= len  BY <1>1 DEF IsLogIndex
  <1>3. m.logs = SubSeq(n.logs, k + 1, len)
    BY DEF EntriesAfter, GetSlicesIndexFromLogIndex
  <1>4. Len(m.logs) = len - k  BY <1>1, <1>2, EntriesTypes
  <1>5. \A x \in 1 .. Len(m.logs) : m.logs[x] = n.logs[k + x]
    <2> SUFFICES ASSUME NEW x \in 1 .. Len(m.logs)  PROVE m.logs[x] = n.logs[k + x]
      OBVIOUS
    <2>0. \A j \in 1 .. len : n.logs[j] \in Nat  BY <1>1, ElementOfSeq
    <2> HIDE DEF k, len
    <2>1. k + 1 \in Int /\ len \in Int /\ x \in 1 .. len - (k + 1) + 1 /\ k + 1 + x - 1 = k + x
      BY <1>1, <1>2, <1>4
    <2>2. \A j \in k + 1 .. len : n.logs[j] \in Nat
      <3> TAKE j \in k + 1 .. len
      <3>1. j \in 1 .. len  BY <1>1, <1>2
      <3> QED BY <2>0, <3>1
    <2>3. SubSeq(n.logs, k + 1, len)[x] = n.logs[k + 1 + x - 1]
      BY <2>1, <2>2, SubSeqProperties
    <2> QED BY <1>3, <2>1, <2>3
  <1>6. GetLastLogIndex(m) = GetLastLogIndex(n)  BY <1>1, <1>2, <1>4
  <1>7. ASSUME NEW j \in i .. GetLastLogIndex(n)
        PROVE  GetLogTermFromIndex(m, j) = GetLogTermFromIndex(n, j)
    <2>1. CASE j = i  BY <2>1 DEF GetLogTermFromIndex
    <2>2. CASE j # i
      <3>0. j \in Int /\ i <= j /\ j <= d + len /\ k = i - d  BY <1>1
      <3> HIDE DEF d, len, k
      <3>1. j - i \in 1 .. Len(m.logs) /\ j # d /\ k + (j - i) = j - d
        BY <1>1, <1>2, <1>4, <2>2, <3>0
      <3>2. m.logs[j - i] = n.logs[j - d]  BY <1>5, <3>1
      <3>3. GetLogTermFromIndex(m, j) = m.logs[j - i]
        BY <2>2 DEF GetLogTermFromIndex, GetSlicesIndexFromLogIndex
      <3>4. GetLogTermFromIndex(n, j) = n.logs[j - d]
        BY <3>1 DEF GetLogTermFromIndex, GetSlicesIndexFromLogIndex, d
      <3> QED BY <3>2, <3>3, <3>4
    <2> QED BY <2>1, <2>2
  <1>8. GetLastLogIndex(n) \in i .. GetLastLogIndex(n)  BY <1>1, <1>2
  <1>9. GetLastLogTerm(m) = GetLastLogTerm(n)
    BY <1>6, <1>7, <1>8, LastTermAt
  <1> QED BY <1>6, <1>7, <1>9

\* A log cut before i comes from where it came from, and has what it had.
LEMMA CutFrom ==
  ASSUME NEW led, Tree(led), NEW n \in RaftObject, FromLed(led, n), NEW m \in RaftObject,
         NEW i \in Nat, IsLogIndex(n, i), m.logs = EntriesAfter(n, i),
         m.lastIncludeSnapshotIndex = i, m.lastIncludeSnapshotTerm = GetLogTermFromIndex(n, i),
         n.currentTerm <= m.currentTerm
  PROVE  /\ FromLed(led, m) /\ KeepsEntries(led, n, m)
         /\ GetLastLogIndex(m) = GetLastLogIndex(n) /\ GetLastLogTerm(m) = GetLastLogTerm(n)
  <1>1. /\ GetLastLogIndex(m) = GetLastLogIndex(n) /\ GetLastLogTerm(m) = GetLastLogTerm(n)
        /\ \A j \in i .. GetLastLogIndex(n) :
             GetLogTermFromIndex(m, j) = GetLogTermFromIndex(n, j)
    BY CutBefore
  <1>2. /\ n.currentTerm \in Nat /\ m.currentTerm \in Nat /\ GetLastLogTerm(n) \in Nat
        /\ n.lastIncludeSnapshotIndex \in Nat /\ GetLastLogTerm(n) <= n.currentTerm
        /\ GetLastLogIndex(n) \in Nat
    BY FromLedTypes, FieldTypes
  <1>3. n.lastIncludeSnapshotIndex <= i  BY DEF IsLogIndex
  <1>4. i .. GetLastLogIndex(n) \subseteq n.lastIncludeSnapshotIndex .. GetLastLogIndex(n)
    BY <1>2, <1>3
  <1>5. FromLed(led, m)
    <2>1. GetLastLogTerm(m) <= m.currentTerm  BY <1>1, <1>2
    <2>2. GetLastLogIndex(m) <= Len(led[GetLastLogTerm(m)])  BY <1>1 DEF FromLed
    <2>3. \A j \in i .. GetLastLogIndex(m) :
            GetLogTermFromIndex(m, j) = TermAt(led[GetLastLogTerm(m)], j)
      BY <1>1, <1>4 DEF FromLed
    <2> QED BY <2>1, <2>2, <2>3 DEF FromLed
  <1>6. KeepsEntries(led, n, m)  BY <1>1 DEF KeepsEntries, Has
  <1> QED BY <1>1, <1>5, <1>6

\* Where the entries are that a request or a merged log takes from a log.
LEMMA EntriesAt ==
  ASSUME NEW n \in RaftObject, NEW i \in Nat, IsLogIndex(n, i)
  PROVE  /\ \A x \in 1 .. GetLastLogIndex(n) - i :
              EntriesAfter(n, i)[x] = GetLogTermFromIndex(n, i + x)
         /\ \A x \in 1 .. i - n.lastIncludeSnapshotIndex :
              EntriesUpTo(n, i)[x] = GetLogTermFromIndex(n, n.lastIncludeSnapshotIndex + x)
  <1> DEFINE d == n.lastIncludeSnapshotIndex
             k == i - d
             len == Len(n.logs)
  <1>1. /\ n.logs \in Seq(Nat) /\ len \in Nat /\ d \in Nat /\ GetLastLogIndex(n) = d + len
    BY LogTypes, FieldTypes
  <1>2. d <= i /\ i <= d + len /\ k \in Nat /\ k <= len /\ k = i - d  BY <1>1 DEF IsLogIndex
  <1>3. \A j \in 1 .. len : n.logs[j] \in Nat  BY <1>1, ElementOfSeq
  <1>4. \A j : j # d => GetLogTermFromIndex(n, j) = n.logs[j - d]
    BY DEF GetLogTermFromIndex, GetSlicesIndexFromLogIndex
  <1>5. EntriesAfter(n, i) = SubSeq(n.logs, k + 1, len) /\ EntriesUpTo(n, i) = SubSeq(n.logs, 1, k)
    BY DEF EntriesAfter, EntriesUpTo, GetSlicesIndexFromLogIndex
  <1> HIDE DEF d, k, len
  <1>6. ASSUME NEW x \in 1 .. len - k
        PROVE  SubSeq(n.logs, k + 1, len)[x] = GetLogTermFromIndex(n, i + x)
    <2>1. k + 1 \in Int /\ len \in Int /\ x \in 1 .. len - (k + 1) + 1 /\ k + 1 + x - 1 = k + x
      BY <1>1, <1>2
    <2>2. \A j \in k + 1 .. len : n.logs[j] \in Nat
      <3> TAKE j \in k + 1 .. len
      <3>1. j \in 1 .. len  BY <1>1, <1>2
      <3> QED BY <1>3, <3>1
    <2>3. SubSeq(n.logs, k + 1, len)[x] = n.logs[k + 1 + x - 1]
      BY <2>1, <2>2, SubSeqProperties
    <2>4. i + x # d /\ (i + x) - d = k + x  BY <1>1, <1>2
    <2>5. GetLogTermFromIndex(n, i + x) = n.logs[(i + x) - d]  BY <1>4, <2>4
    <2> QED BY <2>1, <2>3, <2>4, <2>5
  <1>7. ASSUME NEW x \in 1 .. k
        PROVE  SubSeq(n.logs, 1, k)[x] = GetLogTermFromIndex(n, d + x)
    <2>1. 1 \in Int /\ k \in Int /\ x \in 1 .. k - 1 + 1 /\ 1 + x - 1 = x
      BY <1>1, <1>2
    <2>2. \A j \in 1 .. k : n.logs[j] \in Nat
      <3> TAKE j \in 1 .. k
      <3>1. j \in 1 .. len  BY <1>1, <1>2
      <3> QED BY <1>3, <3>1
    <2>3. SubSeq(n.logs, 1, k)[x] = n.logs[1 + x - 1]  BY <2>1, <2>2, SubSeqProperties
    <2>4. d + x # d /\ (d + x) - d = x  BY <1>1, <1>2
    <2>5. GetLogTermFromIndex(n, d + x) = n.logs[(d + x) - d]  BY <1>4, <2>4
    <2> QED BY <2>1, <2>3, <2>4, <2>5
  <1>8. GetLastLogIndex(n) - i = len - k /\ i - d = k  BY <1>1, <1>2
  <1>9. i - n.lastIncludeSnapshotIndex = k /\ d = n.lastIncludeSnapshotIndex  BY DEF k, d
  <1> QED BY <1>5, <1>6, <1>7, <1>8, <1>9

\* The log after the entries of a request are merged into it at prev.
LEMMA MergeTypes ==
  ASSUME NEW n \in RaftObject, NEW prev \in Nat, IsLogIndex(n, prev), NEW es \in Seq(Nat),
         NEW m \in RaftObject, m.logs = MergeEntries(n, prev, es),
         m.lastIncludeSnapshotIndex = n.lastIncludeSnapshotIndex,
         m.lastIncludeSnapshotTerm = n.lastIncludeSnapshotTerm
  PROVE  /\ Len(es) \in Nat /\ GetLastLogIndex(m) = prev + Len(es)
         /\ \A i \in n.lastIncludeSnapshotIndex .. prev :
              GetLogTermFromIndex(m, i) = GetLogTermFromIndex(n, i)
         /\ \A k \in 1 .. Len(es) : GetLogTermFromIndex(m, prev + k) = es[k]
  <1> DEFINE d == n.lastIncludeSnapshotIndex
             u == EntriesUpTo(n, prev)
             L == Len(es)
             k0 == prev - d
  <1>1. /\ u \in Seq(Nat) /\ Len(u) = k0
        /\ \A x \in 1 .. k0 : u[x] = GetLogTermFromIndex(n, d + x)
    BY EntriesTypes, EntriesAt
  <1>2. L \in Nat /\ d \in Nat /\ d <= prev /\ k0 \in Nat /\ k0 = prev - d
    BY FieldTypes, LenProperties DEF IsLogIndex
  <1>3. m.logs = u \o es  BY DEF MergeEntries
  <1>4. \A j : GetLogTermFromIndex(m, j) = IF j = d THEN n.lastIncludeSnapshotTerm ELSE m.logs[j - d]
    BY DEF GetLogTermFromIndex, GetSlicesIndexFromLogIndex
  <1>5. GetLogTermFromIndex(n, d) = n.lastIncludeSnapshotTerm  BY DEF GetLogTermFromIndex
  <1>6. GetLastLogIndex(m) = d + Len(m.logs)  BY DEF GetLastLogIndex
  <1>7. Len(es) = L /\ n.lastIncludeSnapshotIndex = d  OBVIOUS
  <1> HIDE DEF d, u, L, k0
  <1>8. /\ Len(m.logs) = k0 + L
        /\ \A i \in 1 .. k0 + L : m.logs[i] = IF i <= k0 THEN u[i] ELSE es[i - k0]
    <2>1. /\ Len(u \o es) = Len(u) + Len(es)
          /\ \A i \in 1 .. Len(u) + Len(es) :
               (u \o es)[i] = IF i <= Len(u) THEN u[i] ELSE es[i - Len(u)]
      <3>1. u \in Seq(Nat) /\ es \in Seq(Nat)  BY <1>1
      <3> QED BY <3>1, ConcatProperties
    <2> QED BY <1>1, <1>3, <1>7, <2>1
  <1>9. GetLastLogIndex(m) = prev + L  BY <1>2, <1>6, <1>8
  <1>10. ASSUME NEW i \in d .. prev
         PROVE  GetLogTermFromIndex(m, i) = GetLogTermFromIndex(n, i)
    <2>1. CASE i = d  BY <1>4, <1>5, <2>1
    <2>2. CASE i # d
      <3>1. i - d \in 1 .. k0 + L /\ i - d <= k0 /\ i - d \in 1 .. k0 /\ d + (i - d) = i
        BY <1>2, <2>2
      <3>2. m.logs[i - d] = u[i - d]  BY <1>8, <3>1
      <3>3. u[i - d] = GetLogTermFromIndex(n, i)  BY <1>1, <3>1
      <3> QED BY <1>4, <2>2, <3>2, <3>3
    <2> QED BY <2>1, <2>2
  <1>11. ASSUME NEW k \in 1 .. L
         PROVE  GetLogTermFromIndex(m, prev + k) = es[k]
    <2>1. (prev + k) - d \in 1 .. k0 + L /\ ~((prev + k) - d <= k0) /\ (prev + k) - d - k0 = k
          /\ prev + k # d
      BY <1>2
    <2>2. m.logs[(prev + k) - d] = es[k]  BY <1>8, <2>1
    <2> QED BY <1>4, <2>1, <2>2
  <1> QED BY <1>2, <1>7, <1>9, <1>10, <1>11

\* A follower that takes over entries of the leader's log then has a beginning of
\* it that reaches past them, and lost only what that log contradicts.
LEMMA StoreFrom ==
  ASSUME NEW led, Tree(led), NEW n \in RaftObject, FromLed(led, n), NEW m \in RaftObject,
         NEW q \in AppendEntriesArgs, Fits(led, q), Stores(n, m, q), n.currentTerm <= m.currentTerm
  PROVE  FromLed(led, m) /\ KeepsEntries(led, n, m) /\ Has(led, m, LastEntryOf(q), q.term)
  <1> DEFINE U == q.term
             W == GetLastLogTerm(n)
             p == q.prevLogIndex
             es == q.entries
             L == Len(es)
             d == n.lastIncludeSnapshotIndex
  <1>1. /\ U \in Nat /\ p \in Nat /\ es \in Seq(Nat) /\ L \in Nat /\ q.kind = "AppendEntries"
        /\ q.prevLogTerm \in Nat
    BY LenProperties DEF AppendEntriesArgs
  <1>2. /\ In(led, U, p + L, U) /\ q.prevLogTerm = TermAt(led[U], p)
        /\ \A k \in 1 .. L : es[k] = led[U][p + k]
    BY <1>1 DEF Fits
  <1>3. /\ W \in Nat /\ d \in Nat /\ GetLastLogIndex(n) \in Nat /\ W <= n.currentTerm
        /\ GetLastLogIndex(n) <= Len(led[W]) /\ Len(led[W]) \in Nat /\ n.currentTerm \in Nat
    BY FromLedTypes
  <1>4. /\ IsLogIndex(n, p) /\ GetLogTermFromIndex(n, p) = q.prevLogTerm
        /\ m.lastIncludeSnapshotIndex = d /\ m.lastIncludeSnapshotTerm = n.lastIncludeSnapshotTerm
        /\ m.currentTerm = U
        /\ m.logs = IF ExtendsLog(n, p, es) THEN MergeEntries(n, p, es) ELSE n.logs
    BY DEF Stores, Follows, MatchLog
  <1>5. d <= p /\ p <= GetLastLogIndex(n)  BY <1>4 DEF IsLogIndex
  <1>6. \A i \in d .. GetLastLogIndex(n) : GetLogTermFromIndex(n, i) = TermAt(led[W], i)
    BY DEF FromLed
  <1>7. p + L \in Nat /\ p + L > 0 /\ p + L <= Len(led[U]) /\ Len(led[U]) \in Nat
        /\ led[U][p + L] = U /\ led[U] # << >>
    BY <1>1, <1>2, LedTypes DEF In
  <1>8. LastEntryOf(q) = p + L  BY <1>1 DEF LastEntryOf
  <1>9. W <= U /\ n.currentTerm <= U  BY <1>3, <1>4, <1>1
  <1>10. \A j \in 0 .. p : TermAt(led[W], j) = TermAt(led[U], j)
    <2>1. CASE p = 0  BY <2>1 DEF TermAt
    <2>2. CASE p # 0
      <3>1. led[W][p] = q.prevLogTerm /\ led[U][p] = q.prevLogTerm
        BY <1>1, <1>2, <1>3, <1>4, <1>5, <1>6, <2>2 DEF TermAt
      <3>2. In(led, W, p, q.prevLogTerm) /\ In(led, U, p, q.prevLogTerm)
        BY SMTT(30), <1>1, <1>3, <1>5, <1>7, <2>2, <3>1 DEF In
      <3>3. \A j \in 1 .. p : led[W][j] = led[U][j]  BY SMTT(30), <1>1, <1>3, <3>2, LedAgree
      <3> QED BY <1>1, <3>3 DEF TermAt
    <2> QED BY <2>1, <2>2
  <1> HIDE DEF U, W, p, es, L, d
  <1>11. CASE ExtendsLog(n, p, es)
    <2>1. /\ GetLastLogIndex(m) = p + L
          /\ \A i \in d .. p : GetLogTermFromIndex(m, i) = GetLogTermFromIndex(n, i)
          /\ \A k \in 1 .. L : GetLogTermFromIndex(m, p + k) = es[k]
      BY <1>1, <1>4, <1>11, MergeTypes DEF d, L
    <2>2. L > 0 /\ L \in 1 .. L  BY <1>1, <1>11 DEF ExtendsLog, L
    <2>3. GetLastLogTerm(m) = U
      <3>1. GetLogTermFromIndex(m, p + L) = led[U][p + L]  BY <1>2, <2>1, <2>2
      <3> QED BY <1>7, <2>1, <3>1, LastTermAt
    <2>4. \A i \in d .. p + L : GetLogTermFromIndex(m, i) = TermAt(led[U], i)
      <3> TAKE i \in d .. p + L
      <3>1. CASE i <= p
        <4>1. i \in d .. p /\ i \in d .. GetLastLogIndex(n) /\ i \in 0 .. p
          BY <1>1, <1>3, <1>5, <3>1
        <4> QED BY <1>6, <1>10, <2>1, <4>1
      <3>2. CASE i > p
        <4>1. i - p \in 1 .. L /\ p + (i - p) = i /\ i # 0  BY <1>1, <1>3, <1>5, <3>2
        <4>2. GetLogTermFromIndex(m, i) = led[U][i]  BY <1>2, <2>1, <4>1
        <4> QED BY <4>1, <4>2 DEF TermAt
      <3>3. i \in Int /\ p \in Int  BY <1>1, <1>3
      <3> QED BY <3>1, <3>2, <3>3
    <2>5. FromLed(led, m)
      BY <1>1, <1>4, <1>7, <2>1, <2>3, <2>4 DEF FromLed
    <2>6. KeepsEntries(led, n, m)
      <3> SUFFICES ASSUME NEW T \in Nat, NEW i \in Nat, Has(led, n, i, T)
                   PROVE  Has(led, m, i, T) \/ Loses(led, m, i, T)
        BY DEF KeepsEntries
      <3>1. In(led, W, i, T) /\ i <= GetLastLogIndex(n)  BY HasIn DEF W
      <3>2. T <= W /\ T \in Nat /\ 1 <= i  BY <1>3, <3>1, InLed
      <3>3. CASE In(led, U, i, T)
        <4>1. CASE i <= p + L
          <5>1. In(led, U, i, T) /\ GetLastLogTerm(m) = U /\ i <= GetLastLogIndex(m)
            BY <2>1, <2>3, <3>3, <4>1
          <5> QED BY <2>5, <5>1, HasIn
        <4>2. CASE i > p + L
          <5>1. \A k \in 1 .. L : ~(p + k > GetLastLogIndex(n))
                                   /\ GetLogTermFromIndex(n, p + k) = es[k]
            <6> TAKE k \in 1 .. L
            <6>1. /\ p + k \in 1 .. i /\ p + k <= GetLastLogIndex(n) /\ p + k # 0
                  /\ p + k \in d .. GetLastLogIndex(n)
              BY <1>1, <1>3, <1>5, <3>1, <4>2
            <6>2. led[W][p + k] = led[U][p + k]
              <7>1. \A j \in 1 .. i : led[W][j] = led[U][j]  BY <1>1, <1>3, <3>1, <3>3, LedAgree
              <7> QED BY <6>1, <7>1
            <6>3. GetLogTermFromIndex(n, p + k) = led[W][p + k]  BY <1>6, <6>1 DEF TermAt
            <6>4. ~(p + k > GetLastLogIndex(n))  BY <1>1, <1>3, <6>1
            <6> QED BY <1>2, <6>2, <6>3, <6>4
          <5> QED BY <1>11, <5>1 DEF ExtendsLog, L
        <4>3. i \in Int /\ p + L \in Int  BY <1>7
        <4> QED BY <4>1, <4>2, <4>3
      <3>4. CASE ~In(led, U, i, T)
        <4>1. T # U
          <5>1. T = U => W = U  BY <1>1, <1>3, <1>9, <3>2
          <5> QED BY <3>1, <3>4, <5>1
        <4>2. T < U  BY <1>1, <1>3, <1>9, <3>2, <4>1
        <4> QED BY <1>4, <1>7, <3>4, <4>2 DEF Loses
      <3> QED BY <3>3, <3>4
    <2>7. Has(led, m, p + L, U)
      <3>1. p + L <= GetLastLogIndex(m)  BY <1>7, <2>1
      <3> QED BY <1>2, <2>3, <2>5, <3>1, HasIn
    <2> QED BY <1>8, <2>5, <2>6, <2>7 DEF U
  <1>12. CASE ~ExtendsLog(n, p, es)
    <2>1. SameLog(n, m)  BY <1>4, <1>12 DEF SameLog, d
    <2>2. FromLed(led, m) /\ \A i, T : Has(led, m, i, T) <=> Has(led, n, i, T)
      BY <1>1, <1>3, <1>4, <2>1, SameDiskLog DEF W
    <2>3. KeepsEntries(led, n, m)  BY <2>2 DEF KeepsEntries
    <2>4. p + L <= GetLastLogIndex(n)
      <3>1. CASE L = 0  BY <1>1, <1>3, <1>5, <3>1
      <3>2. CASE L # 0
        <4>1. L \in 1 .. L  BY <1>1, <3>2
        <4>2. ~(p + L > GetLastLogIndex(n))  BY <1>12, <4>1 DEF ExtendsLog, L
        <4> QED BY <1>3, <1>7, <4>2
      <3> QED BY <3>1, <3>2
    <2>5. led[W][p + L] = U
      <3>1. CASE L = 0
        <4>1. p + L = p /\ p # 0 /\ p \in 0 .. p  BY <1>1, <1>7, <3>1
        <4>2. led[W][p] = led[U][p]  BY <1>10, <4>1 DEF TermAt
        <4> QED BY <1>7, <4>1, <4>2
      <3>2. CASE L # 0
        <4>1. L \in 1 .. L /\ p + L # 0 /\ p + L \in d .. GetLastLogIndex(n)
          BY <1>1, <1>3, <1>5, <2>4, <3>2
        <4>2. GetLogTermFromIndex(n, p + L) = es[L]  BY <1>12, <4>1 DEF ExtendsLog, L
        <4>3. GetLogTermFromIndex(n, p + L) = led[W][p + L]  BY <1>6, <4>1 DEF TermAt
        <4> QED BY <1>2, <1>7, <4>1, <4>2, <4>3
      <3> QED BY <3>1, <3>2
    <2>6. Has(led, n, p + L, U)
      <3>1. p + L \in 1 .. GetLastLogIndex(n)  BY <1>3, <1>7, <2>4
      <3> QED BY <2>5, <3>1 DEF Has, W
    <2> QED BY <1>8, <2>2, <2>3, <2>6 DEF U
  <1> QED BY <1>11, <1>12

\* A follower that installs the leader's snapshot keeps what follows it, if its
\* own log has the snapshot's last entry; otherwise its log is the snapshot.
LEMMA InstallFrom ==
  ASSUME NEW led, Tree(led), NEW n \in RaftObject, FromLed(led, n), NEW m \in RaftObject,
         NEW q \in InstallSnapshotArgs, Fits(led, q), Installs(n, m, q),
         n.currentTerm <= m.currentTerm
  PROVE  FromLed(led, m) /\ KeepsEntries(led, n, m)
  <1> DEFINE U == q.term
             W == GetLastLogTerm(n)
             x == q.lastSnapshotIncludeIndex
             t == q.lastSnapshotIncludeTerm
  <1>1. /\ U \in Nat /\ x \in Nat /\ t \in Nat /\ q.kind = "InstallSnapshot"
    BY DEF InstallSnapshotArgs
  <1>2. In(led, U, x, t)  BY <1>1 DEF Fits
  <1>3. /\ W \in Nat /\ GetLastLogIndex(n) \in Nat /\ W <= n.currentTerm /\ n.currentTerm \in Nat
        /\ GetLastLogIndex(n) <= Len(led[W]) /\ Len(led[W]) \in Nat
    BY FromLedTypes
  <1>4. /\ m.logs = LogAfterSnapshot(n, x, t)
        /\ m.lastIncludeSnapshotIndex = x /\ m.lastIncludeSnapshotTerm = t
        /\ m.currentTerm = U
    BY DEF Installs, Follows
  <1> HIDE DEF U, W, x, t
  <1>5. In(led, t, x, t) /\ t <= U /\ 1 <= x /\ x <= Len(led[t]) /\ led[t][x] = t
        /\ \A j \in 1 .. x : led[t][j] = led[U][j]
    BY <1>1, <1>2, InLed
  <1>6. CASE MatchLog(n, x, t)
    <2>1. IsLogIndex(n, x) /\ GetLogTermFromIndex(n, x) = t  BY <1>6 DEF MatchLog
    <2>2. m.logs = EntriesAfter(n, x)  BY <1>4, <1>6 DEF LogAfterSnapshot
    <2> QED BY <1>1, <1>4, <2>1, <2>2, CutFrom
  <1>7. CASE ~MatchLog(n, x, t)
    <2>1. m.logs = << >>  BY <1>4, <1>7 DEF LogAfterSnapshot
    <2>2. GetLastLogIndex(m) = x /\ GetLastLogTerm(m) = t
      BY <1>1, <1>4, <2>1, EmptySeq DEF GetLastLogIndex, GetLastLogTerm
    <2>3. \A i \in x .. x : GetLogTermFromIndex(m, i) = TermAt(led[t], i)
      <3>1. GetLogTermFromIndex(m, x) = t  BY <1>4 DEF GetLogTermFromIndex
      <3>2. TermAt(led[t], x) = t  BY <1>1, <1>5 DEF TermAt
      <3> QED BY <1>1, <3>1, <3>2
    <2>4. FromLed(led, m)  BY <1>4, <1>5, <2>2, <2>3 DEF FromLed
    <2>5. KeepsEntries(led, n, m)
      <3> SUFFICES ASSUME NEW T \in Nat, NEW i \in Nat, Has(led, n, i, T)
                   PROVE  Has(led, m, i, T) \/ Loses(led, m, i, T)
        BY DEF KeepsEntries
      <3>1. In(led, W, i, T) /\ i <= GetLastLogIndex(n)  BY HasIn DEF W
      <3>2. T <= W /\ T \in Nat /\ 1 <= i  BY <1>3, <3>1, InLed
      <3>3. CASE In(led, U, i, T)
        <4>1. CASE i <= x
          <5>1. i \in 1 .. x /\ led[U][i] = T  BY <1>1, <3>2, <3>3, <4>1 DEF In
          <5>2. led[t][i] = T  BY <1>5, <5>1
          <5> QED BY <2>2, <5>1, <5>2 DEF Has
        <4>2. CASE i > x
          <5>1. \A j \in 1 .. i : led[W][j] = led[U][j]  BY <1>1, <1>3, <3>1, <3>3, LedAgree
          <5>2. x \in 1 .. i  BY <1>1, <1>5, <4>2
          <5>3. led[W][x] = t  BY <1>2, <5>1, <5>2 DEF In
          <5>4. x \in n.lastIncludeSnapshotIndex .. GetLastLogIndex(n)
            <6>1. x > n.lastIncludeSnapshotIndex  BY DEF Installs, x
            <6> QED BY <1>1, <1>3, <3>1, <4>2, <6>1, FieldTypes
          <5>5. GetLogTermFromIndex(n, x) = t
            <6>1. GetLogTermFromIndex(n, x) = TermAt(led[W], x)  BY <5>4 DEF FromLed, W
            <6> QED BY <1>5, <5>3, <6>1 DEF TermAt
          <5>6. IsLogIndex(n, x)  BY <5>4 DEF IsLogIndex
          <5> QED BY <1>7, <5>5, <5>6 DEF MatchLog
        <4>3. i \in Int /\ x \in Int  BY <1>1
        <4> QED BY <4>1, <4>2, <4>3
      <3>4. CASE ~In(led, U, i, T)
        <4>1. W <= U  BY <1>1, <1>3, <1>4
        <4>2. T # U
          <5>1. T = U => W = U  BY <1>1, <1>3, <3>2, <4>1
          <5> QED BY <3>1, <3>4, <5>1
        <4>3. T < U  BY <1>1, <1>3, <4>1, <3>2, <4>2
        <4>4. led[U] # << >>
          <5>1. Len(led[U]) # 0  BY <1>1, <1>2, <1>5, LedTypes DEF In
          <5> QED BY <1>1, <5>1, LedTypes
        <4> QED BY <1>4, <3>4, <4>3, <4>4 DEF Loses
      <3> QED BY <3>3, <3>4
    <2> QED BY <2>4, <2>5
  <1> QED BY <1>6, <1>7

-----------------------------------------------------------------------------
(* The requests that a leader builds.                                      *)

\* The entries a leader sends are its own, up to its last, which is of its term;
\* the snapshot it sends covers a beginning of its log.
LEMMA BuiltFits ==
  ASSUME NEW led, Tree(led), NEW m \in RaftObject, FromLed(led, m), OwnLog(led, m),
         NEW q \in Request, Built(m, q)
  PROVE  Fits(led, q)
  <1>1. q.kind \in StreamKind => /\ q.term = m.currentTerm /\ GetLastLogTerm(m) = q.term
                                 /\ GetLastLogIndex(m) > 0
    BY DEF Built, OwnLog
  <1>2. /\ GetLastLogTerm(m) \in Nat /\ GetLastLogIndex(m) \in Nat
        /\ GetLastLogIndex(m) > 0 => In(led, GetLastLogTerm(m), GetLastLogIndex(m), GetLastLogTerm(m))
        /\ m.lastIncludeSnapshotIndex \in Nat
        /\ m.lastIncludeSnapshotIndex <= GetLastLogIndex(m)
    BY FromLedTypes
  <1>3. ASSUME q.kind = "AppendEntries"
        PROVE  /\ In(led, q.term, q.prevLogIndex + Len(q.entries), q.term)
               /\ q.prevLogTerm = TermAt(led[q.term], q.prevLogIndex)
               /\ \A k \in 1 .. Len(q.entries) :
                    q.entries[k] = led[q.term][q.prevLogIndex + k]
    <2> DEFINE p == q.prevLogIndex
    <2>1. /\ IsLogIndex(m, p) /\ q.prevLogTerm = GetLogTermFromIndex(m, p)
          /\ q.entries = EntriesAfter(m, p)
      BY <1>3 DEF Built
    <2>2. p \in Nat
      BY <1>3 DEF Request, PreVoteArgs, RequestVoteArgs, AppendEntriesArgs, ReadHeartBeatArgs,
                  InstallSnapshotArgs
    <2>3. p >= m.lastIncludeSnapshotIndex /\ p <= GetLastLogIndex(m)  BY <2>1 DEF IsLogIndex
    <2>4. q.term = GetLastLogTerm(m) /\ GetLastLogIndex(m) > 0
      BY <1>1, <1>3 DEF StreamKind
    <2>5. \A i \in m.lastIncludeSnapshotIndex .. GetLastLogIndex(m) :
            GetLogTermFromIndex(m, i) = TermAt(led[q.term], i)
      BY <2>4 DEF FromLed
    <2>6. Len(q.entries) = GetLastLogIndex(m) - p  BY <2>1, <2>2, EntriesTypes
    <2>7. \A k \in 1 .. GetLastLogIndex(m) - p : q.entries[k] = GetLogTermFromIndex(m, p + k)
      BY <2>1, <2>2, EntriesAt
    <2> HIDE DEF p
    <2>8. p + Len(q.entries) = GetLastLogIndex(m)  BY <1>2, <2>2, <2>6
    <2>9. q.prevLogTerm = TermAt(led[q.term], p)
      <3>1. p \in m.lastIncludeSnapshotIndex .. GetLastLogIndex(m)  BY <1>2, <2>2, <2>3
      <3> QED BY <2>1, <2>5, <3>1
    <2>10. \A k \in 1 .. Len(q.entries) : q.entries[k] = led[q.term][p + k]
      <3> TAKE k \in 1 .. Len(q.entries)
      <3>1. /\ k \in 1 .. GetLastLogIndex(m) - p /\ p + k # 0
            /\ p + k \in m.lastIncludeSnapshotIndex .. GetLastLogIndex(m)
        BY <1>2, <2>2, <2>3, <2>6
      <3> QED BY <2>5, <2>7, <3>1 DEF TermAt
    <2> QED BY <1>2, <2>4, <2>8, <2>9, <2>10 DEF p
  <1>4. ASSUME q.kind = "InstallSnapshot"
        PROVE  In(led, q.term, q.lastSnapshotIncludeIndex, q.lastSnapshotIncludeTerm)
    <2>1. /\ q.lastSnapshotIncludeIndex = m.lastIncludeSnapshotIndex
          /\ q.lastSnapshotIncludeTerm = m.lastIncludeSnapshotTerm
          /\ m.lastIncludeSnapshotIndex > 0
      BY <1>4 DEF Built
    <2>2. q.term = GetLastLogTerm(m)  BY <1>1, <1>4 DEF StreamKind
    <2>3. GetLogTermFromIndex(m, m.lastIncludeSnapshotIndex) = m.lastIncludeSnapshotTerm
      BY DEF GetLogTermFromIndex
    <2>4. IsLogIndex(m, m.lastIncludeSnapshotIndex)  BY <1>2 DEF IsLogIndex
    <2> QED BY <1>2, <2>1, <2>2, <2>3, <2>4, TermInLog
  <1> QED BY <1>3, <1>4 DEF Fits

-----------------------------------------------------------------------------
(* The logs of leaders grow.                                               *)

Grows(led, led2) ==
  \A U \in Nat : /\ Len(led[U]) <= Len(led2[U])
                 /\ \A i \in 1 .. Len(led[U]) : led2[U][i] = led[U][i]

\* An entry of a leader's log stays.
LEMMA InGrows ==
  ASSUME NEW led, NEW led2, Tree(led), Tree(led2), Grows(led, led2), NEW U \in Nat, NEW i, NEW T,
         In(led, U, i, T)
  PROVE  In(led2, U, i, T)
  <1>1. Len(led[U]) \in Nat /\ Len(led2[U]) \in Nat  BY LedTypes
  <1>2. Len(led[U]) <= Len(led2[U]) /\ \A k \in 1 .. Len(led[U]) : led2[U][k] = led[U][k]
    BY DEF Grows
  <1> QED BY <1>1, <1>2 DEF In

\* What objects have of the leaders' logs, and come from, stays so.
LEMMA FromGrows ==
  ASSUME NEW led, NEW led2, Tree(led), Tree(led2), Grows(led, led2),
         NEW n \in RaftObject, FromLed(led, n)
  PROVE  /\ FromLed(led2, n)
         /\ \A i, T : Has(led2, n, i, T) <=> Has(led, n, i, T)
  <1> DEFINE W == GetLastLogTerm(n)
             last == GetLastLogIndex(n)
  <1>1. /\ W \in Nat /\ last \in Nat /\ last <= Len(led[W]) /\ Len(led[W]) \in Nat
        /\ n.lastIncludeSnapshotIndex \in Nat
    BY FromLedTypes
  <1>2. Len(led2[W]) \in Nat /\ Len(led[W]) <= Len(led2[W])
        /\ \A k \in 1 .. Len(led[W]) : led2[W][k] = led[W][k]
    BY <1>1, LedTypes DEF Grows
  <1> HIDE DEF W, last
  <1>3. \A i \in 1 .. last : led2[W][i] = led[W][i]  BY <1>1, <1>2
  <1>4. \A i \in n.lastIncludeSnapshotIndex .. last : TermAt(led2[W], i) = TermAt(led[W], i)
    BY <1>1, <1>3 DEF TermAt
  <1>5. last <= Len(led2[W])  BY <1>1, <1>2
  <1>6. FromLed(led2, n)  BY <1>4, <1>5 DEF FromLed, W, last
  <1>7. \A i, T : Has(led2, n, i, T) <=> Has(led, n, i, T)  BY <1>3 DEF Has, W, last
  <1> QED BY <1>6, <1>7

\* And requests that fitted still do.
LEMMA FitsGrows ==
  ASSUME NEW led, NEW led2, Tree(led), Tree(led2), Grows(led, led2), NEW q \in Request, Fits(led, q)
  PROVE  Fits(led2, q)
  <1>1. q.term \in Nat
    BY DEF Request, PreVoteArgs, RequestVoteArgs, AppendEntriesArgs, ReadHeartBeatArgs,
           InstallSnapshotArgs
  <1>2. Len(led[q.term]) \in Nat /\ \A i \in 1 .. Len(led[q.term]) : led2[q.term][i] = led[q.term][i]
    BY <1>1, LedTypes DEF Grows
  <1>3. ASSUME q.kind = "AppendEntries"
        PROVE  /\ In(led2, q.term, q.prevLogIndex + Len(q.entries), q.term)
               /\ q.prevLogTerm = TermAt(led2[q.term], q.prevLogIndex)
               /\ \A k \in 1 .. Len(q.entries) :
                    q.entries[k] = led2[q.term][q.prevLogIndex + k]
    <2> DEFINE p == q.prevLogIndex
               L == Len(q.entries)
    <2>1. q \in AppendEntriesArgs
      BY <1>3 DEF Request, PreVoteArgs, RequestVoteArgs, AppendEntriesArgs, ReadHeartBeatArgs,
                  InstallSnapshotArgs
    <2>2. p \in Nat /\ L \in Nat  BY <2>1, LenProperties DEF AppendEntriesArgs
    <2>3. /\ In(led, q.term, p + L, q.term) /\ q.prevLogTerm = TermAt(led[q.term], p)
          /\ \A k \in 1 .. L : q.entries[k] = led[q.term][p + k]
      BY <1>3 DEF Fits
    <2> HIDE DEF p, L
    <2>4. In(led2, q.term, p + L, q.term)  BY <1>1, <2>3, InGrows
    <2>5. p + L <= Len(led[q.term])  BY <2>3 DEF In
    <2>6. TermAt(led2[q.term], p) = TermAt(led[q.term], p)  BY <1>2, <2>2, <2>5 DEF TermAt
    <2>7. \A k \in 1 .. L : led2[q.term][p + k] = led[q.term][p + k]
      <3> TAKE k \in 1 .. L
      <3>1. p + k \in 1 .. Len(led[q.term])  BY <1>2, <2>2, <2>5
      <3> QED BY <1>2, <3>1
    <2> QED BY <2>3, <2>4, <2>6, <2>7 DEF p, L
  <1>4. q.kind = "InstallSnapshot" =>
          In(led2, q.term, q.lastSnapshotIncludeIndex, q.lastSnapshotIncludeTerm)
    BY <1>1, InGrows DEF Fits
  <1> QED BY <1>3, <1>4 DEF Fits

\* The log of a leader that has n's log and appends an entry of its own.
Longer(led, n, U) == Append(SubSeq(led[GetLastLogTerm(n)], 1, GetLastLogIndex(n)), U)

\* What that log holds.
LEMMA LongerTypes ==
  ASSUME NEW led, Tree(led), NEW n \in RaftObject, FromLed(led, n), NEW U \in Nat
  PROVE  LET l == Longer(led, n, U)
         IN  /\ l \in Seq(Nat) /\ Len(l) = GetLastLogIndex(n) + 1
             /\ l[GetLastLogIndex(n) + 1] = U
             /\ \A i \in 1 .. GetLastLogIndex(n) : l[i] = led[GetLastLogTerm(n)][i]
  <1> DEFINE W == GetLastLogTerm(n)
             last == GetLastLogIndex(n)
             s == SubSeq(led[W], 1, last)
  <1>1. W \in Nat /\ last \in Nat /\ last <= Len(led[W]) /\ Len(led[W]) \in Nat
    BY FromLedTypes
  <1>2. \A i \in 1 .. Len(led[W]) : led[W][i] \in Nat  BY <1>1, LedTypes
  <1>3. Longer(led, n, U) = Append(s, U)  BY DEF Longer
  <1> HIDE DEF W, last
  <1>4. /\ s \in Seq(Nat) /\ Len(s) = last
        /\ \A i \in 1 .. last : s[i] = led[W][i]
    <2>1. \A i \in 1 .. last : led[W][i] \in Nat  BY <1>1, <1>2
    <2>2. 1 \in Int /\ last \in Int  BY <1>1
    <2>3. /\ s \in Seq(Nat) /\ Len(s) = IF 1 <= last THEN last - 1 + 1 ELSE 0
          /\ \A i \in 1 .. last - 1 + 1 : s[i] = led[W][1 + i - 1]
      BY <2>1, <2>2, SubSeqProperties
    <2>4. last - 1 + 1 = last /\ \A i \in 1 .. last : 1 + i - 1 = i  BY <1>1
    <2> QED BY <1>1, <2>3, <2>4
  <1> HIDE DEF s
  <1>5. /\ Append(s, U) \in Seq(Nat) /\ Len(Append(s, U)) = last + 1
        /\ Append(s, U)[last + 1] = U
        /\ \A i \in 1 .. last : Append(s, U)[i] = s[i]
    BY <1>1, <1>4, AppendProperties
  <1> QED BY <1>3, <1>4, <1>5 DEF W, last

\* A leader's new entry fits the tree of the leaders' logs.
LEMMA AppendTree ==
  ASSUME NEW led, Tree(led), NEW n \in RaftObject, FromLed(led, n), NEW U \in Nat, U > 0,
         GetLastLogTerm(n) <= U,
         \/ led[U] = << >>
         \/ GetLastLogTerm(n) = U /\ GetLastLogIndex(n) = Len(led[U]),
         NEW led2, led2 = [ led EXCEPT ![U] = Longer(led, n, U) ]
  PROVE  Tree(led2) /\ Grows(led, led2)
  <1> DEFINE W == GetLastLogTerm(n)
             last == GetLastLogIndex(n)
  <1>1. /\ W \in Nat /\ last \in Nat /\ last <= Len(led[W]) /\ Len(led[W]) \in Nat
        /\ last > 0 => In(led, W, last, W)
        /\ W <= U
    BY FromLedTypes
  <1>2. /\ led2 \in [ Nat -> Seq(Nat) ] /\ \A V \in Nat \ {U} : led2[V] = led[V]
        /\ led2[U] = Longer(led, n, U)
    BY LongerTypes DEF Tree
  <1>3. /\ Len(led2[U]) = last + 1 /\ led2[U][last + 1] = U
        /\ \A i \in 1 .. last : led2[U][i] = led[W][i]
    BY SMTT(30), <1>2, LongerTypes
  <1>4. Len(led[U]) \in Nat /\ (led[U] = << >> => Len(led[U]) = 0)  BY LedTypes
  <1>5. led[U] = << >> \/ (W = U /\ last = Len(led[U]))  OBVIOUS
  <1> HIDE DEF W, last
  <1>6. Grows(led, led2)
    <2> SUFFICES ASSUME NEW V \in Nat
                 PROVE  /\ Len(led[V]) <= Len(led2[V])
                        /\ \A i \in 1 .. Len(led[V]) : led2[V][i] = led[V][i]
      BY DEF Grows
    <2>0. Len(led[V]) \in Nat  BY LedTypes
    <2>1. CASE V # U  BY <1>2, <2>0, <2>1
    <2>2. CASE V = U /\ led[U] = << >>  BY <1>1, <1>3, <1>4, <2>2
    <2>3. CASE V = U /\ W = U /\ last = Len(led[U])  BY <1>1, <1>3, <2>3
    <2> QED BY <1>5, <2>1, <2>2, <2>3
  <1>7. ASSUME NEW V \in Nat, NEW T \in Nat, NEW i \in Nat, In(led2, V, i, T)
        PROVE  /\ 1 <= T /\ T <= V
               /\ i <= Len(led2[T])
               /\ \A j \in 1 .. i : led2[V][j] <= T /\ led2[T][j] = led2[V][j]
    <2>0. /\ Len(led[T]) \in Nat /\ Len(led[T]) <= Len(led2[T])
          /\ \A j \in 1 .. Len(led[T]) : led2[T][j] = led[T][j]
          /\ Len(led2[T]) \in Nat
      BY <1>2, <1>6, LedTypes, LenProperties DEF Grows
    <2>1. CASE V # U
      <3>1. led2[V] = led[V] /\ In(led, V, i, T)  BY <1>2, <1>7, <2>1 DEF In
      <3>2. /\ 1 <= T /\ T <= V /\ i <= Len(led[T])
            /\ \A j \in 1 .. i : led[V][j] <= T /\ led[T][j] = led[V][j]
        BY <3>1, InLed
      <3>3. \A j \in 1 .. i : j \in 1 .. Len(led[T])  BY <2>0, <3>2
      <3> QED BY <2>0, <3>1, <3>2, <3>3
    <2>2. CASE V = U /\ i <= last
      <3>1. i \in 1 .. last  BY <1>1, <1>7, <2>2 DEF In
      <3>2. In(led, W, i, T)
        <4>1. led[W][i] = T  BY <1>3, <1>7, <2>2, <3>1 DEF In
        <4>2. i \in 1 .. Len(led[W])  BY <1>1, <3>1
        <4> QED BY <4>1, <4>2 DEF In
      <3>3. /\ 1 <= T /\ T <= W /\ i <= Len(led[T])
            /\ \A j \in 1 .. i : led[W][j] <= T /\ led[T][j] = led[W][j]
        BY <1>1, <3>2, InLed
      <3>4. \A j \in 1 .. i : j \in 1 .. Len(led[T]) /\ j \in 1 .. last
        BY <1>1, <2>0, <3>1, <3>3
      <3>5. \A j \in 1 .. i : led2[V][j] <= T /\ led2[T][j] = led2[V][j]
        BY <1>3, <2>0, <2>2, <3>3, <3>4
      <3> QED BY <1>1, <2>0, <2>2, <3>3, <3>5
    <2>3. CASE V = U /\ i > last
      <3>1. i = last + 1 /\ T = U  BY <1>1, <1>3, <1>7, <2>3 DEF In
      <3>2. \A j \in 1 .. i : led2[U][j] <= U
        <4> TAKE j \in 1 .. i
        <4>1. CASE j = i  BY <1>3, <3>1, <4>1
        <4>2. CASE j # i
          <5>1. j \in 1 .. last /\ last > 0  BY <1>1, <3>1, <4>2
          <5>2. In(led, W, last, W)  BY <1>1, <5>1
          <5>3. \A x \in 1 .. last : led[W][x] <= W  BY <1>1, <5>2, InLed
          <5>4. \A x \in 1 .. Len(led[W]) : led[W][x] \in Nat  BY <1>1, LedTypes
          <5>5. j \in 1 .. Len(led[W])  BY <1>1, <5>1
          <5>6. led[W][j] <= W /\ led[W][j] \in Nat  BY <5>1, <5>3, <5>4, <5>5
          <5> QED BY <1>1, <1>3, <5>1, <5>6
        <4> QED BY <4>1, <4>2
      <3> QED BY <1>1, <1>3, <2>3, <3>1, <3>2
    <2>4. i \in Nat /\ last \in Nat  BY <1>1
    <2> QED BY <2>1, <2>2, <2>3, <2>4
  <1>8. Tree(led2)  BY <1>2, <1>7 DEF Tree
  <1> QED BY <1>6, <1>8

\* m's log is n's with one entry more, of m's term.
Extends(n, m) ==
  /\ m.logs = Append(n.logs, m.currentTerm)
  /\ m.lastIncludeSnapshotIndex = n.lastIncludeSnapshotIndex
  /\ m.lastIncludeSnapshotTerm = n.lastIncludeSnapshotTerm
  /\ m.status = Leader

\* The object whose log grew by the entry has that log.
LEMMA AppendFrom ==
  ASSUME NEW led, Tree(led), NEW n \in RaftObject, FromLed(led, n),
         NEW m \in RaftObject, Extends(n, m),
         NEW led2, Tree(led2), led2[m.currentTerm] = Longer(led, n, m.currentTerm)
  PROVE  /\ FromLed(led2, m) /\ OwnLog(led2, m)
         /\ GetLastLogTerm(m) = m.currentTerm /\ GetLastLogIndex(m) = GetLastLogIndex(n) + 1
         /\ \A i, T : Has(led2, m, i, T) <=>
               Has(led, n, i, T) \/ (i = GetLastLogIndex(n) + 1 /\ T = m.currentTerm)
  <1> PICK U : U = m.currentTerm  OBVIOUS
  <1>0. /\ U \in Nat /\ led2[U] = Longer(led, n, U) /\ m.logs = Append(n.logs, U)
        /\ m.lastIncludeSnapshotIndex = n.lastIncludeSnapshotIndex
        /\ m.lastIncludeSnapshotTerm = n.lastIncludeSnapshotTerm
    BY FieldTypes DEF Extends
  <1> DEFINE W == GetLastLogTerm(n)
             last == GetLastLogIndex(n)
             d == n.lastIncludeSnapshotIndex
  <1>1. /\ W \in Nat /\ last \in Nat /\ last <= Len(led[W]) /\ Len(led[W]) \in Nat
        /\ d \in Nat /\ d <= last
    BY FromLedTypes
  <1>2. /\ Len(led2[U]) = last + 1 /\ led2[U][last + 1] = U
        /\ \A i \in 1 .. last : led2[U][i] = led[W][i]
    BY SMTT(30), <1>0, LongerTypes
  <1>3. /\ n.logs \in Seq(Nat) /\ Len(n.logs) \in Nat /\ last = d + Len(n.logs)
    BY LogTypes, FieldTypes
  <1>4. /\ Len(m.logs) = Len(n.logs) + 1 /\ m.logs[Len(n.logs) + 1] = U
        /\ \A i \in 1 .. Len(n.logs) : m.logs[i] = n.logs[i]
        /\ m.logs \in Seq(Nat)
    BY <1>0, <1>3, AppendProperties
  <1>5. GetLastLogIndex(m) = last + 1  BY <1>0, <1>1, <1>3, <1>4 DEF GetLastLogIndex
  <1>6. \A i \in d .. last : GetLogTermFromIndex(n, i) = TermAt(led[W], i)  BY DEF FromLed
  <1>7. /\ \A j : GetLogTermFromIndex(m, j) = IF j = d THEN n.lastIncludeSnapshotTerm ELSE m.logs[j - d]
        /\ \A j : GetLogTermFromIndex(n, j) = IF j = d THEN n.lastIncludeSnapshotTerm ELSE n.logs[j - d]
    BY <1>0 DEF GetLogTermFromIndex, GetSlicesIndexFromLogIndex
  <1>8. GetLastLogTerm(m) = U
    <2>1. m.logs # << >>  BY <1>3, <1>4, EmptySeq
    <2> QED BY <1>4, <2>1 DEF GetLastLogTerm
  <1> DEFINE len == Len(n.logs)
  <1>9. len \in Nat /\ last = d + len  BY <1>3
  <1>10. /\ m.logs[len + 1] = U
         /\ \A i \in 1 .. len : m.logs[i] = n.logs[i]
    BY <1>4
  <1> HIDE DEF W, last, d, len
  <1>11. \A i \in d .. last + 1 : GetLogTermFromIndex(m, i) = TermAt(led2[U], i)
    <2> TAKE i \in d .. last + 1
    <2>1. CASE i = last + 1
      <3>1. i # d /\ i - d = len + 1 /\ i # 0  BY <1>1, <1>9, <2>1
      <3>2. GetLogTermFromIndex(m, i) = U  BY <1>7, <1>10, <3>1
      <3> QED BY <1>2, <2>1, <3>1, <3>2 DEF TermAt
    <2>2. CASE i # last + 1
      <3>1. i \in d .. last  BY <1>1, <2>2
      <3>2. GetLogTermFromIndex(m, i) = GetLogTermFromIndex(n, i)
        <4>1. CASE i = d  BY <1>7, <4>1
        <4>2. CASE i # d
          <5>1. i - d \in 1 .. len  BY <1>1, <1>9, <3>1, <4>2
          <5> QED BY <1>7, <1>10, <5>1
        <4> QED BY <4>1, <4>2
      <3>3. TermAt(led2[U], i) = TermAt(led[W], i)
        <4>1. i = 0 \/ i \in 1 .. last  BY <1>1, <3>1
        <4> QED BY <1>2, <4>1 DEF TermAt
      <3> QED BY <1>6, <3>1, <3>2, <3>3
    <2> QED BY <2>1, <2>2
  <1>12. FromLed(led2, m)
    <2>1. GetLastLogTerm(m) <= m.currentTerm /\ GetLastLogIndex(m) <= Len(led2[GetLastLogTerm(m)])
      BY <1>0, <1>1, <1>2, <1>5, <1>8
    <2>2. m.lastIncludeSnapshotIndex = d  BY <1>0 DEF d
    <2> QED BY <1>5, <1>8, <1>11, <2>1, <2>2 DEF FromLed
  <1>13. OwnLog(led2, m)  BY <1>1, <1>2, <1>5, <1>8 DEF OwnLog
  <1>14. ASSUME NEW i, NEW T
         PROVE  Has(led2, m, i, T) <=> Has(led, n, i, T) \/ (i = last + 1 /\ T = U)
    <2>1. Has(led2, m, i, T) <=> i \in 1 .. last + 1 /\ led2[U][i] = T
      BY <1>5, <1>8 DEF Has
    <2>2. Has(led, n, i, T) <=> i \in 1 .. last /\ led[W][i] = T  BY DEF Has, W, last
    <2>3. i \in 1 .. last + 1 <=> i \in 1 .. last \/ i = last + 1  BY <1>1
    <2>4. last + 1 \notin 1 .. last  BY <1>1
    <2> QED BY <1>2, <2>1, <2>2, <2>3, <2>4
  <1> QED BY <1>5, <1>8, <1>12, <1>13, <1>14 DEF last

-----------------------------------------------------------------------------
(* What a step of a server does.                                           *)

\* Every call of s after the step is one it had made, or as it builds them now.
LEMMA DeedCalls ==
  ASSUME NEW s, NEW n, NEW m, Settled(s, n), Deed(s, n, m), NEW t \in m.threadPool
  PROVE  \/ t \in raft[s].threadPool
         \/ t.reply = Nil /\ (Built(m, t.request) \/ Asked(m, t.request))
  <1>1. n.threadPool \subseteq raft[s].threadPool  BY DEF Settled, Idle
  <1>2. CallsBuilt(n, m) => t \in n.threadPool \/ (t.reply = Nil /\ Built(m, t.request))
    BY DEF CallsBuilt
  <1>3. m.threadPool \subseteq n.threadPool => t \in n.threadPool  OBVIOUS
  <1>4. CASE Sends(n, m)  BY <1>1, <1>2, <1>4 DEF Sends
  <1>5. CASE \E q \in Requests("RequestVote", s) : GivesVote(n, m, q)
    BY <1>1, <1>3, <1>5 DEF GivesVote
  <1>6. CASE \E p \in PeersOf(s) : \E i \in Nat : Advances(n, m, p, i)
    BY <1>1, <1>2, <1>6, StepsLogStays DEF LogStays
  <1>7. CASE Appends(n, m) /\ CallsBuilt(n, m)  BY <1>1, <1>2, <1>7
  <1>8. CASE Runs(n, m)  BY <1>1, <1>8 DEF Runs, CallsMade
  <1>9. CASE Starts(n, m)
    <2>1. PICK a, u : /\ a.threadPool = n.threadPool /\ (u = a \/ Applies(a, u))
                      /\ Sends(u, m)
      BY <1>9 DEF Starts
    <2>2. u.threadPool = n.threadPool  BY <2>1 DEF Applies
    <2> QED BY <1>1, <2>1, <2>2 DEF Sends, CallsBuilt
  <1>10. CASE \E i : Compacts(n, m, i)  BY <1>1, <1>3, <1>10 DEF Compacts
  <1>11. CASE Restarts(n, m)  BY <1>11 DEF Restarts
  <1>12. CASE \E q : Stores(n, m, q)  BY <1>1, <1>3, <1>12 DEF Stores, Follows
  <1>13. CASE \E q : Installs(n, m, q)  BY <1>1, <1>3, <1>13 DEF Installs, Follows
  <1> QED BY <1>4, <1>5, <1>6, <1>7, <1>8, <1>9, <1>10, <1>11, <1>12, <1>13 DEF Deed

\* s gave no vote, or to a server that asked for it and whose log is up to date.
LEMMA DeedVotes ==
  ASSUME NEW s, NEW n, NEW m, Settled(s, n), Deed(s, n, m)
  PROVE  \/ NoNewVote(raft[s], m)
         \/ \E q \in Requests("RequestVote", s) :
              /\ m.votedFor = q.from /\ m.currentTerm = q.term
              /\ WhetherVoteFor(raft[s], q.lastLogIndex, q.lastLogTerm)
  <1>1. /\ n.currentTerm = raft[s].currentTerm /\ n.votedFor = raft[s].votedFor
        /\ SameLog(raft[s], n)
    BY DEF Settled, SameDisk, SameLog
  <1>2. NoNewVote(n, m) => NoNewVote(raft[s], m)  BY <1>1 DEF NoNewVote
  <1>3. m.votedFor = n.votedFor /\ m.currentTerm = n.currentTerm => NoNewVote(raft[s], m)
    BY <1>1 DEF NoNewVote
  <1>4. CASE Sends(n, m)  BY <1>2, <1>4 DEF Sends, SameProgress
  <1>5. CASE \E q \in Requests("RequestVote", s) : GivesVote(n, m, q)
    BY <1>1, <1>5, IdleLog DEF GivesVote
  <1>6. CASE \E p \in PeersOf(s) : \E i \in Nat : Advances(n, m, p, i)
    BY <1>2, <1>6, StepsLogStays DEF LogStays
  <1>7. CASE Appends(n, m)  BY <1>2, <1>7 DEF Appends
  <1>8. CASE Runs(n, m)  BY <1>8 DEF Runs, NoNewVote
  <1>9. CASE Starts(n, m)
    <2>1. PICK a, u : /\ Appends(n, a) /\ (u = a \/ Applies(a, u)) /\ Sends(u, m)
                      /\ m.currentTerm = n.currentTerm
      BY <1>9 DEF Starts
    <2>2. u.votedFor = a.votedFor /\ u.currentTerm = a.currentTerm /\ u.id = a.id
      BY <2>1 DEF Applies
    <2>3. NoNewVote(n, a) /\ NoNewVote(u, m) /\ m.id = u.id /\ a.id = n.id
          /\ a.currentTerm = n.currentTerm
      BY <2>1 DEF Appends, Sends, SameProgress
    <2> QED BY <1>2, <2>1, <2>2, <2>3 DEF NoNewVote
  <1>10. CASE \E i : Compacts(n, m, i)  BY <1>3, <1>10 DEF Compacts
  <1>11. CASE Restarts(n, m)  BY <1>3, <1>11 DEF Restarts
  <1>12. CASE \E q : Stores(n, m, q)  BY <1>2, <1>12 DEF Stores, Follows
  <1>13. CASE \E q : Installs(n, m, q)  BY <1>2, <1>13 DEF Installs, Follows
  <1> QED BY <1>4, <1>5, <1>6, <1>7, <1>8, <1>9, <1>10, <1>11, <1>12, <1>13 DEF Deed

\* The log of s stays as it is, grows, is shortened, or follows a leader.
LEMMA DeedLog ==
  ASSUME NEW s, NEW n, NEW m, Settled(s, n), Deed(s, n, m)
  PROVE  \/ SameLog(n, m) /\ NoNewLeader(n, m)
         \/ Extends(n, m)
         \/ \E i \in Nat : Compacts(n, m, i)
         \/ \E q \in Requests("AppendEntries", s) : Stores(n, m, q)
         \/ \E q \in Requests("InstallSnapshot", s) : Installs(n, m, q)
  <1>4. CASE Sends(n, m) /\ NoNewLeader(n, m)  BY <1>4 DEF Sends, SameProgress
  <1>5. CASE \E q \in Requests("RequestVote", s) : GivesVote(n, m, q) /\ NoNewLeader(n, m)
    BY <1>5 DEF GivesVote
  <1>6. CASE \E p \in PeersOf(s) : \E i \in Nat : Advances(n, m, p, i) /\ NoNewLeader(n, m)
    BY <1>6, StepsLogStays DEF LogStays
  <1>7. CASE Appends(n, m)  BY <1>7 DEF Appends, Extends
  <1>8. CASE Runs(n, m)
    <2>1. CASE SameLog(n, m) /\ m.status = Candidate
      BY <2>1 DEF NoNewLeader, Candidate, Leader
    <2>2. CASE \E k : Appends(k, m) /\ SameLog(n, k)
      BY <2>2 DEF Appends, SameLog, Extends
    <2> QED BY <1>8, <2>1, <2>2 DEF Runs
  <1>9. CASE Starts(n, m)
    <2>1. PICK a, u : /\ Appends(n, a) /\ (u = a \/ Applies(a, u)) /\ Sends(u, m)
                      /\ m.currentTerm = n.currentTerm /\ m.status = Leader
      BY <1>9 DEF Starts
    <2>2. SameLog(a, u) \/ u = a  BY <2>1 DEF Applies
    <2>3. SameLog(u, m)  BY <2>1 DEF Sends, SameProgress
    <2> QED BY <2>1, <2>2, <2>3 DEF Appends, SameLog, Extends
  <1>10. CASE \E i \in n.lastIncludeSnapshotIndex + 1 .. n.commitIndex : Compacts(n, m, i)
    <2>1. n.lastIncludeSnapshotIndex \in Nat /\ n.commitIndex \in Nat
      BY FieldTypes DEF Settled, Sound
    <2>2. n.lastIncludeSnapshotIndex + 1 .. n.commitIndex \subseteq Nat  BY <2>1
    <2> QED BY <1>10, <2>2
  <1>11. CASE Restarts(n, m)
    BY <1>11 DEF Restarts, NoNewLeader, Follower, Leader
  <1> QED BY <1>4, <1>5, <1>6, <1>7, <1>8, <1>9, <1>10, <1>11 DEF Deed

\* A server that waits keeps its log, role and vote, and asks nothing new.
LEMMA WaitsSame ==
  ASSUME NEW s, NEW x, Waits(s, x), raft[x] \in RaftObject
  PROVE  /\ SameDisk(raft[x], raft'[x]) /\ SameRole(raft[x], raft'[x])
         /\ SameCommit(raft[x], raft'[x]) /\ raft'[x].matchIndex = raft[x].matchIndex
         /\ \A t \in raft'[x].threadPool : \E u \in raft[x].threadPool : u.request = t.request
  <1>1. CASE raft'[x] = raft[x]  BY <1>1 DEF SameDisk, SameRole, SameCommit
  <1>2. CASE raft'[x] # raft[x]
    <2>1. PICK t, reply :
            /\ t \in raft[x].threadPool
            /\ raft'[x] = [ raft[x] EXCEPT !.threadPool =
                              (@ \ {t}) \cup { [ request |-> t.request, reply |-> reply ] } ]
      BY <1>2 DEF Waits
    <2>2. raft'[x].threadPool = (raft[x].threadPool \ {t})
                                  \cup { [ request |-> t.request, reply |-> reply ] }
      BY <2>1 DEF RaftObject
    <2>3. /\ SameDisk(raft[x], raft'[x]) /\ SameRole(raft[x], raft'[x])
          /\ SameCommit(raft[x], raft'[x]) /\ raft'[x].matchIndex = raft[x].matchIndex
      BY <2>1 DEF RaftObject, SameDisk, SameRole, SameCommit
    <2> QED BY <2>1, <2>2, <2>3
  <1> QED BY <1>1, <1>2

-----------------------------------------------------------------------------
(* What a step of the cluster does.                                        *)

\* A step in which s does something, with what is known of votes and roles.
Stepping(s) ==
  /\ VoteInv /\ VoteInv' /\ RecordVotes /\ StepOf(s)
  /\ \A x \in Server : VoteStep(x) /\ RoleStep(x)

\* The objects before and after it.
LEMMA StepTypes ==
  ASSUME NEW s \in Server, Stepping(s), NEW x \in Server
  PROVE  /\ raft[x] \in RaftObject /\ raft'[x] \in RaftObject
         /\ Sound(raft[x]) /\ Sound(raft'[x]) /\ raft[x].id = x /\ raft'[x].id = x
         /\ raft[x].currentTerm \in Nat /\ raft'[x].currentTerm \in Nat
         /\ raft[x].currentTerm <= raft'[x].currentTerm
  <1>1. TypeInv /\ TypeInv'  BY DEF Stepping, VoteInv
  <1>2. /\ raft[x] \in RaftObject /\ raft'[x] \in RaftObject
        /\ Sound(raft[x]) /\ Sound(raft'[x]) /\ raft[x].id = x /\ raft'[x].id = x
    BY <1>1 DEF TypeInv
  <1>3. raft'[x].currentTerm >= raft[x].currentTerm  BY DEF Stepping, VoteStep
  <1> QED BY <1>2, <1>3, FieldTypes

\* A candidate or leader after the step is in a new term, or was one in its term.
LEMMA RoleFacts ==
  ASSUME NEW s \in Server, Stepping(s), NEW x \in Server, raft'[x].status \in { Candidate, Leader }
  PROVE  \/ raft'[x].currentTerm > raft[x].currentTerm
         \/ /\ raft'[x].currentTerm = raft[x].currentTerm
            /\ \/ raft[x].status = raft'[x].status
               \/ raft[x].status = Candidate /\ raft'[x].status = Leader
  <1>1. RoleStep(x)  BY DEF Stepping
  <1>2. raft[x].currentTerm \in Nat /\ raft'[x].currentTerm \in Nat  BY StepTypes
  <1>3. CASE SameCandidacy(x)  BY <1>3 DEF SameCandidacy
  <1>4. CASE Stands(raft[x], raft'[x])  BY <1>4 DEF Stands
  <1>5. CASE GainsVote(raft[x], raft'[x])
    <2>1. raft[x].status = Candidate  BY <1>5 DEF GainsVote
    <2>2. \/ raft'[x].status = Candidate /\ raft'[x].currentTerm = raft[x].currentTerm
          \/ Wins(raft[x], raft'[x])
      BY <1>5 DEF GainsVote
    <2> QED BY <2>1, <2>2 DEF Wins
  <1> QED BY <1>1, <1>3, <1>4, <1>5 DEF RoleStep

\* A vote of a step is the voter's own, or one that s gives to who asked for it.
LEMMA NewVote ==
  ASSUME NEW s \in Server, Stepping(s), NEW T, NEW v, NEW c,
         << T, v, c >> \in votes', << T, v, c >> \notin votes
  PROVE  /\ v \in Server /\ c \in Server /\ T = raft'[v].currentTerm /\ raft'[v].votedFor = c
         /\ \/ c = v
            \/ /\ v = s
               /\ \E q \in Requests("RequestVote", s) :
                    /\ c = q.from /\ T = q.term
                    /\ WhetherVoteFor(raft[s], q.lastLogIndex, q.lastLogTerm)
  <1>1. << T, v, c >> \in VotesHeld(raft')  BY DEF Stepping, RecordVotes
  <1>2. v \in Server /\ T = raft'[v].currentTerm /\ raft'[v].votedFor = c /\ c # Nil
    BY <1>1 DEF VotesHeld
  <1>3. c \in Server  BY <1>2, StepTypes, FieldTypes
  <1>4. /\ TypeInv /\ VotesRecorded /\ StepOf(s)  BY DEF Stepping, VoteInv
  <1>5. ~(raft[v].votedFor = c /\ raft[v].currentTerm = T)
    BY <1>2, <1>4 DEF VotesRecorded
  <1>6. CASE v # s
    <2>1. Waits(s, v) /\ raft[v] \in RaftObject  BY <1>2, <1>4, <1>6, StepTypes DEF StepOf
    <2>2. SameDisk(raft[v], raft'[v])  BY <2>1, WaitsSame
    <2> QED BY <1>2, <1>5, <2>2 DEF SameDisk
  <1>7. CASE v = s
    <2>1. PICK n : Settled(s, n) /\ Deed(s, n, raft'[s])  BY <1>4 DEF StepOf
    <2>2. \/ NoNewVote(raft[s], raft'[s])
          \/ \E q \in Requests("RequestVote", s) :
               /\ raft'[s].votedFor = q.from /\ raft'[s].currentTerm = q.term
               /\ WhetherVoteFor(raft[s], q.lastLogIndex, q.lastLogTerm)
      BY <2>1, DeedVotes
    <2>3. CASE NoNewVote(raft[s], raft'[s])
      <3>1. raft'[s].id = s  BY StepTypes
      <3> QED BY <1>2, <1>3, <1>5, <1>7, <2>3, <3>1 DEF NoNewVote
    <2> QED BY <1>2, <1>3, <1>7, <2>2, <2>3
  <1> QED BY <1>2, <1>3, <1>6, <1>7

\* The log of a candidate ends where it ended.
LEMMA CandidateEnd ==
  ASSUME NEW s \in Server, Stepping(s), NEW x \in Server, raft'[x].status = Candidate
  PROVE  /\ GetLastLogIndex(raft'[x]) = GetLastLogIndex(raft[x])
         /\ GetLastLogTerm(raft'[x]) = GetLastLogTerm(raft[x])
  <1>1. raft[x] \in RaftObject /\ raft'[x] \in RaftObject  BY StepTypes
  <1>2. CASE x # s
    <2>1. Waits(s, x)  BY <1>2 DEF Stepping, StepOf
    <2>2. SameLog(raft[x], raft'[x])  BY <1>1, <2>1, WaitsSame DEF SameDisk, SameLog
    <2> QED BY <2>2, IdleLog
  <1>3. CASE x = s
    <2>1. PICK n : Settled(s, n) /\ Deed(s, n, raft'[s])  BY DEF Stepping, StepOf
    <2>2. SameLog(raft[s], n) /\ n \in RaftObject  BY <2>1 DEF Settled, SameDisk, SameLog, Sound
    <2>3. CASE SameLog(n, raft'[s])
      BY <1>3, <2>2, <2>3, IdleLog
    <2>4. CASE \E i \in Nat : Compacts(n, raft'[s], i)
      <3>1. PICK i \in Nat : Compacts(n, raft'[s], i)  BY <2>4
      <3>2. /\ GetLastLogIndex(raft'[s]) = GetLastLogIndex(n)
            /\ GetLastLogTerm(raft'[s]) = GetLastLogTerm(n)
        BY <1>1, <1>3, <2>2, <3>1, CutBefore DEF Compacts
      <3> QED BY <1>3, <2>2, <3>2, IdleLog
    <2>5. ~Extends(n, raft'[s])  BY <1>3 DEF Extends, Leader, Candidate
    <2>6. /\ \A q : ~Stores(n, raft'[s], q)
          /\ \A q : ~Installs(n, raft'[s], q)
      BY <1>3 DEF Stores, Installs, Follows, Follower, Candidate
    <2> QED BY <2>1, <2>3, <2>4, <2>5, <2>6, DeedLog
  <1> QED BY <1>2, <1>3

-----------------------------------------------------------------------------
(* The logs after a step.                                                  *)

\* What becomes of the leaders' logs and of what servers have of them.
LogsMove(led, led2) ==
  /\ Tree(led2) /\ Grows(led, led2)
  /\ \A x \in Server : FromLed(led2, raft'[x]) /\ OwnLog(led2, raft'[x])
  /\ \A x \in Server : \A T, i \in Nat :
       Has(led, raft[x], i, T) => Has(led2, raft'[x], i, T) \/ Loses(led, raft'[x], i, T)
  /\ \A U \in Nat : led2[U] # led[U] =>
       \E x \in Server :
         /\ raft'[x].status = Leader /\ raft'[x].currentTerm = U
         /\ \A i, T \in Nat : Has(led, raft[x], i, T) => In(led2, U, i, T)

\* A step that appends nothing.
LEMMA LogsStay ==
  ASSUME NEW led, NEW s \in Server, Stepping(s), Tree(led),
         \A x \in Server : FromLed(led, raft[x]) /\ OwnLog(led, raft[x]),
         FromLed(led, raft'[s]), OwnLog(led, raft'[s]), KeepsEntries(led, raft[s], raft'[s])
  PROVE  LogsMove(led, led)
  <1>1. Grows(led, led)
    <2>1. \A U \in Nat : Len(led[U]) \in Nat  BY LedTypes
    <2> QED BY <2>1 DEF Grows
  <1>2. ASSUME NEW x \in Server
        PROVE  /\ FromLed(led, raft'[x]) /\ OwnLog(led, raft'[x])
               /\ \A T, i \in Nat :
                    Has(led, raft[x], i, T) => Has(led, raft'[x], i, T) \/ Loses(led, raft'[x], i, T)
    <2>1. CASE x = s  BY <2>1 DEF KeepsEntries
    <2>2. CASE x # s
      <3>1. Waits(s, x) /\ raft[x] \in RaftObject /\ raft'[x] \in RaftObject
        BY <2>2, StepTypes DEF Stepping, StepOf
      <3>2. SameDisk(raft[x], raft'[x]) /\ SameRole(raft[x], raft'[x])  BY <3>1, WaitsSame
      <3>3. SameLog(raft[x], raft'[x]) /\ NoNewLeader(raft[x], raft'[x])
            /\ raft[x].currentTerm = raft'[x].currentTerm
        BY <3>2 DEF SameDisk, SameLog, SameRole, NoNewLeader
      <3>4. GetLastLogTerm(raft[x]) \in Nat /\ raft[x].currentTerm \in Nat  BY <3>1, LogTypes, FieldTypes
      <3>5. /\ FromLed(led, raft'[x]) /\ OwnLog(led, raft'[x])
            /\ \A i, T : Has(led, raft'[x], i, T) <=> Has(led, raft[x], i, T)
        <4>1. raft[x].currentTerm <= raft'[x].currentTerm /\ raft'[x].currentTerm \in Nat
          BY StepTypes
        <4> QED BY <3>3, <3>4, <4>1, SameDiskLog
      <3> QED BY <3>5
    <2> QED BY <2>1, <2>2
  <1> QED BY <1>1, <1>2 DEF LogsMove

\* Two quorums share a server.
LEMMA QuorumsMeet ==
  ASSUME NEW Q \in Quorums, NEW R \in Quorums
  PROVE  \E v \in Server : v \in Q /\ v \in R
  <1>1. /\ Cardinality(Q) >= QuorumSize /\ Cardinality(R) >= QuorumSize
        /\ Q \subseteq Server /\ R \subseteq Server
    BY DEF Quorums
  <1>2. /\ IsFiniteSet(Server) /\ Cardinality(Q) \in Nat /\ Cardinality(R) \in Nat
        /\ Cardinality(Server) \in Nat
    BY <1>1, VotersFinite, ServerAssumption
  <1>3. Cardinality(Q) + Cardinality(R) > Cardinality(Server)
    BY <1>1, <1>2, QuorumSizeType
  <1> QED BY <1>1, <1>2, <1>3, FS_MajoritiesIntersect

\* A quorum and more is a quorum.
LEMMA QuorumGrows ==
  ASSUME NEW Q \in Quorums, NEW R, Q \subseteq R, R \subseteq Server
  PROVE  R \in Quorums
  <1>1. Q \subseteq Server /\ Cardinality(Q) >= QuorumSize  BY DEF Quorums
  <1>2. IsFiniteSet(R) /\ Cardinality(R) \in Nat /\ Cardinality(Q) \in Nat  BY <1>1, VotersFinite
  <1>3. Cardinality(Q) <= Cardinality(R)  BY <1>2, FS_Subset
  <1>4. Cardinality(R) >= QuorumSize  BY <1>1, <1>2, <1>3, QuorumSizeType
  <1> QED BY <1>4 DEF Quorums

\* A quorum voted for a leader, and for it alone, in its term.
LEMMA LeaderVotes ==
  ASSUME NEW s \in Server, Stepping(s), NEW l \in Server, raft'[l].status = Leader,
         NEW U, U = raft'[l].currentTerm
  PROVE  /\ VotersIn(U, l)' \in Quorums
         /\ \A c \in Server : VotersIn(U, c)' \in Quorums => c = l
  <1>1. /\ LeaderQuorum' /\ VoteOnce'  BY DEF Stepping, VoteInv
  <1>2. Voters(l)' \in Quorums  BY <1>1 DEF LeaderQuorum, Quorums, Voters
  <1>3. Voters(l)' = VotersIn(U, l)'  BY DEF Voters, VotersIn
  <1>4. ASSUME NEW c \in Server, VotersIn(U, c)' \in Quorums
        PROVE  c = l
    <2>1. PICK v \in Server : v \in VotersIn(U, c)' /\ v \in VotersIn(U, l)'
      BY <1>2, <1>3, <1>4, QuorumsMeet
    <2>2. << U, v, c >> \in votes' /\ << U, v, l >> \in votes'
      BY <2>1 DEF VotersIn
    <2> QED BY <1>1, <2>2 DEF VoteOnce
  <1> QED BY <1>2, <1>3, <1>4

\* Votes that were given stay.
LEMMA VotesStay ==
  ASSUME NEW s \in Server, Stepping(s), NEW U, NEW c
  PROVE  /\ votes \subseteq votes'
         /\ VotersIn(U, c) \in Quorums => VotersIn(U, c)' \in Quorums
  <1>1. votes \subseteq votes'  BY DEF Stepping, RecordVotes
  <1>2. VotersIn(U, c) \subseteq VotersIn(U, c)' /\ VotersIn(U, c)' \subseteq Server
    BY <1>1 DEF VotersIn
  <1> QED BY <1>1, <1>2, QuorumGrows

\* A server that begins to lead is the first to do so in its term.
LEMMA LeadsFirst ==
  ASSUME NEW led, NEW s \in Server, Stepping(s), Elected(led), NEW l \in Server,
         raft'[l].status = Leader,
         ~(raft[l].status = Leader /\ raft[l].currentTerm = raft'[l].currentTerm)
  PROVE  led[raft'[l].currentTerm] = << >>
  <1> PICK U : U = raft'[l].currentTerm  OBVIOUS
  <1>1. U \in Nat /\ raft[l].currentTerm \in Nat /\ raft[l].currentTerm <= U  BY StepTypes
  <1> SUFFICES ASSUME led[U] # << >> PROVE FALSE  OBVIOUS
  <1>2. PICK c \in Server : /\ VotersIn(U, c) \in Quorums /\ raft[c].currentTerm >= U
                            /\ raft[c].currentTerm = U => raft[c].status # Candidate
    BY <1>1 DEF Elected
  <1>3. VotersIn(U, c)' \in Quorums  BY <1>2, VotesStay
  <1>4. c = l  BY <1>3, LeaderVotes
  <1>5. raft[l].currentTerm = U /\ raft[l].status # Candidate  BY <1>1, <1>2, <1>4
  <1> QED BY <1>1, <1>5, RoleFacts

\* A step in which s appends an entry of its own.
LEMMA LogsGrow ==
  ASSUME NEW led, NEW s \in Server, Stepping(s), Tree(led), Elected(led),
         \A x \in Server : FromLed(led, raft[x]) /\ OwnLog(led, raft[x]),
         raft'[s].currentTerm > 0, Extends(raft[s], raft'[s])
  PROVE  \E led2 : LogsMove(led, led2)
  <1> PICK U : U = raft'[s].currentTerm  OBVIOUS
  <1> DEFINE led2 == [ led EXCEPT ![U] = Longer(led, raft[s], U) ]
  <1>1. /\ raft[s] \in RaftObject /\ raft'[s] \in RaftObject
        /\ U \in Nat /\ U > 0 /\ raft[s].currentTerm <= U /\ raft[s].currentTerm \in Nat
        /\ FromLed(led, raft[s]) /\ OwnLog(led, raft[s])
        /\ raft'[s].status = Leader
    BY StepTypes DEF Extends
  <1>2. GetLastLogTerm(raft[s]) <= U
    BY <1>1, FromLedTypes
  <1>3. \/ led[U] = << >>
        \/ GetLastLogTerm(raft[s]) = U /\ GetLastLogIndex(raft[s]) = Len(led[U])
    <2>1. CASE raft[s].status = Leader /\ raft[s].currentTerm = U  BY <1>1, <2>1 DEF OwnLog
    <2>2. CASE ~(raft[s].status = Leader /\ raft[s].currentTerm = U)  BY <1>1, <2>2, LeadsFirst
    <2> QED BY <2>1, <2>2
  <1> PICK l2 : l2 = led2  OBVIOUS
  <1> HIDE DEF led2
  <1>4. l2 = [ led EXCEPT ![U] = Longer(led, raft[s], U) ]  BY DEF led2
  <1>5. Tree(l2) /\ Grows(led, l2)  BY <1>1, <1>2, <1>3, <1>4, AppendTree
  <1>6. l2[U] = Longer(led, raft[s], U) /\ \A V \in Nat : V # U => l2[V] = led[V]
    BY <1>1, <1>4 DEF Tree
  <1>7. /\ raft'[s].logs = Append(raft[s].logs, U) /\ raft'[s].currentTerm = U
        /\ raft'[s].lastIncludeSnapshotIndex = raft[s].lastIncludeSnapshotIndex
        /\ raft'[s].lastIncludeSnapshotTerm = raft[s].lastIncludeSnapshotTerm
    BY DEF Extends
  <1>8. /\ FromLed(l2, raft'[s]) /\ OwnLog(l2, raft'[s]) /\ GetLastLogTerm(raft'[s]) = U
        /\ \A i, T : Has(led, raft[s], i, T) => Has(l2, raft'[s], i, T)
    <2> PICK n, m : n = raft[s] /\ m = raft'[s]  OBVIOUS
    <2>1. /\ n \in RaftObject /\ m \in RaftObject /\ Extends(n, m)
          /\ FromLed(led, n) /\ l2[m.currentTerm] = Longer(led, n, m.currentTerm)
      BY <1>1, <1>6, <1>7
    <2>2. Tree(l2) /\ Tree(led)  BY <1>5
    <2>3. /\ FromLed(l2, m) /\ OwnLog(l2, m) /\ GetLastLogTerm(m) = m.currentTerm
          /\ \A i, T : Has(l2, m, i, T) <=>
               Has(led, n, i, T) \/ (i = GetLastLogIndex(n) + 1 /\ T = m.currentTerm)
      BY <2>1, <2>2, AppendFrom
    <2> QED BY <1>7, <2>3
  <1>9. ASSUME NEW x \in Server, x # s
        PROVE  /\ FromLed(l2, raft'[x]) /\ OwnLog(l2, raft'[x])
               /\ \A i, T : Has(led, raft[x], i, T) => Has(l2, raft'[x], i, T)
    <2>1. Waits(s, x) /\ raft[x] \in RaftObject /\ raft'[x] \in RaftObject
      BY <1>9, StepTypes DEF Stepping, StepOf
    <2>2. SameDisk(raft[x], raft'[x]) /\ SameRole(raft[x], raft'[x])  BY <2>1, WaitsSame
    <2>3. SameLog(raft[x], raft'[x]) /\ NoNewLeader(raft[x], raft'[x])
          /\ raft[x].currentTerm = raft'[x].currentTerm
      BY <2>2 DEF SameDisk, SameLog, SameRole, NoNewLeader
    <2>4. /\ FromLed(led, raft'[x]) /\ OwnLog(led, raft'[x])
          /\ \A i, T : Has(led, raft'[x], i, T) <=> Has(led, raft[x], i, T)
      <3>1. /\ GetLastLogTerm(raft[x]) \in Nat /\ raft[x].currentTerm <= raft'[x].currentTerm
            /\ raft[x].currentTerm \in Nat /\ raft'[x].currentTerm \in Nat
        BY <2>1, LogTypes, StepTypes
      <3> QED BY <2>3, <3>1, SameDiskLog
    <2>5. /\ FromLed(l2, raft'[x])
          /\ \A i, T : Has(l2, raft'[x], i, T) <=> Has(led, raft'[x], i, T)
      BY <1>5, <2>1, <2>4, FromGrows
    <2>6. OwnLog(l2, raft'[x])
      <3>1. CASE raft'[x].status # Leader  BY <3>1 DEF OwnLog
      <3>2. CASE raft'[x].status = Leader
        <4>1. raft'[x].currentTerm # U
          <5>1. SUFFICES ASSUME raft'[x].currentTerm = U  PROVE FALSE  OBVIOUS
          <5>2. VotersIn(U, x)' \in Quorums  BY <1>7, <3>2, <5>1, LeaderVotes
          <5>3. x = s  BY <1>1, <1>7, <5>2, LeaderVotes
          <5> QED BY <1>9, <5>3
        <4>2. l2[raft'[x].currentTerm] = led[raft'[x].currentTerm]
          BY <1>6, <4>1, StepTypes
        <4> QED BY <2>4, <4>2 DEF OwnLog
      <3> QED BY <3>1, <3>2
    <2> QED BY <2>4, <2>5, <2>6
  <1>10. ASSUME NEW i \in Nat, NEW T \in Nat, Has(led, raft[s], i, T)
         PROVE  In(l2, U, i, T)
    BY <1>1, <1>5, <1>8, <1>10, HasIn
  <1>11. LogsMove(led, l2)
    <2>1. \A x \in Server : FromLed(l2, raft'[x]) /\ OwnLog(l2, raft'[x])
      BY <1>8, <1>9
    <2>2. \A x \in Server : \A T, i \in Nat :
            Has(led, raft[x], i, T) => Has(l2, raft'[x], i, T) \/ Loses(led, raft'[x], i, T)
      BY <1>8, <1>9
    <2>3. \A V \in Nat : l2[V] # led[V] =>
            \E x \in Server :
              /\ raft'[x].status = Leader /\ raft'[x].currentTerm = V
              /\ \A i, T \in Nat : Has(led, raft[x], i, T) => In(l2, V, i, T)
      BY <1>1, <1>6, <1>7, <1>10
    <2> QED BY <1>5, <2>1, <2>2, <2>3 DEF LogsMove
  <1> QED BY <1>11

\* The request that s handles, as it was sent.
LEMMA HandledRequest ==
  ASSUME NEW led, RequestsFit(led), NEW s \in Server, Stepping(s), NEW kind,
         NEW q \in Requests(kind, s)
  PROVE  /\ q \in Request /\ q.kind = kind /\ q.from \in Server /\ q.to = s
         /\ Fits(led, q) /\ AsksFor(q)
         /\ kind # "PreVote" => q.term <= raft[q.from].currentTerm
  <1>1. TypeInv  BY DEF Stepping, VoteInv
  <1>2. q \in Request /\ q.kind = kind /\ q.from \in Server /\ q.to = s  BY <1>1, RequestFacts
  <1>3. CASE q \in late  BY <1>2, <1>3 DEF RequestsFit
  <1>4. CASE q \notin late
    <2>1. PICK p \in Server : \E t \in raft[p].threadPool : t.request = q
      BY <1>4 DEF Requests
    <2>2. PICK t \in raft[p].threadPool : t.request = q  BY <2>1
    <2>3. Sound(raft[p]) /\ raft[p].id = p  BY StepTypes
    <2>4. q.from = p /\ (kind # "PreVote" => q.term <= raft[p].currentTerm)
      BY <1>2, <2>2, <2>3 DEF Sound
    <2> QED BY <1>2, <2>2, <2>4 DEF RequestsFit
  <1> QED BY <1>3, <1>4

\* Every step moves the leaders' logs and their copies.
LEMMA LogsMoves ==
  ASSUME NEW led, NEW held, LogInv(led, held), NEW s \in Server, Stepping(s), TermsBegin'
  PROVE  \E led2 : LogsMove(led, led2)
  <1>1. /\ Tree(led) /\ Elected(led) /\ RequestsFit(led)
        /\ \A x \in Server : FromLed(led, raft[x]) /\ OwnLog(led, raft[x])
    BY DEF LogInv
  <1>2. PICK n : Settled(s, n) /\ Deed(s, n, raft'[s])  BY DEF Stepping, StepOf
  <1> PICK m : m = raft'[s]  OBVIOUS
  <1>3. /\ n \in RaftObject /\ SameLog(raft[s], n) /\ n.currentTerm = raft[s].currentTerm
        /\ n.status = raft[s].status
    BY <1>2 DEF Settled, SameDisk, SameRole, SameLog, Sound
  <1>4. /\ raft[s] \in RaftObject /\ m \in RaftObject /\ m.currentTerm \in Nat
        /\ raft[s].currentTerm \in Nat /\ raft[s].currentTerm <= m.currentTerm
        /\ FromLed(led, raft[s]) /\ OwnLog(led, raft[s])
    BY <1>1, StepTypes
  <1>5. /\ FromLed(led, n) /\ OwnLog(led, n)
        /\ \A i, T : Has(led, n, i, T) <=> Has(led, raft[s], i, T)
    <2>1. GetLastLogTerm(raft[s]) \in Nat /\ NoNewLeader(raft[s], n)
          /\ raft[s].currentTerm <= n.currentTerm /\ n.currentTerm \in Nat
      BY <1>3, <1>4, LogTypes DEF NoNewLeader
    <2> QED BY <1>3, <1>4, <2>1, SameDiskLog
  <1>6. n.currentTerm <= m.currentTerm  BY <1>3, <1>4
  <1>7. KeepsEntries(led, n, m) => KeepsEntries(led, raft[s], m)  BY <1>5 DEF KeepsEntries
  <1>8. FromLed(led, m) /\ OwnLog(led, m) /\ KeepsEntries(led, n, m) => LogsMove(led, led)
    BY <1>1, <1>7, LogsStay
  <1>9. CASE SameLog(n, m) /\ NoNewLeader(n, m)
    <2>1. GetLastLogTerm(n) \in Nat /\ n.currentTerm \in Nat  BY <1>3, <1>4, LogTypes
    <2>2. /\ FromLed(led, m) /\ OwnLog(led, m)
          /\ \A i, T : Has(led, m, i, T) <=> Has(led, n, i, T)
      BY <1>4, <1>5, <1>6, <1>9, <2>1, SameDiskLog
    <2>3. KeepsEntries(led, n, m)  BY <2>2 DEF KeepsEntries
    <2> QED BY <1>8, <2>2, <2>3
  <1>10. CASE Extends(n, m)
    <2>1. Extends(raft[s], raft'[s])  BY <1>3, <1>10 DEF Extends, SameLog
    <2>2. raft'[s].currentTerm > 0  BY <1>10 DEF TermsBegin, Extends
    <2> QED BY <1>1, <2>1, <2>2, LogsGrow
  <1>11. CASE \E i \in Nat : Compacts(n, m, i)
    <2>1. PICK i \in Nat : Compacts(n, m, i)  BY <1>11
    <2>2. /\ IsLogIndex(n, i) /\ m.logs = EntriesAfter(n, i)
          /\ m.lastIncludeSnapshotIndex = i /\ m.lastIncludeSnapshotTerm = GetLogTermFromIndex(n, i)
          /\ m.status = n.status /\ m.currentTerm = n.currentTerm
      BY <2>1 DEF Compacts
    <2>3. /\ FromLed(led, m) /\ KeepsEntries(led, n, m)
          /\ GetLastLogIndex(m) = GetLastLogIndex(n) /\ GetLastLogTerm(m) = GetLastLogTerm(n)
      BY <1>1, <1>3, <1>4, <1>5, <1>6, <2>2, CutFrom
    <2>4. OwnLog(led, m)  BY <1>5, <2>2, <2>3 DEF OwnLog
    <2> QED BY <1>8, <2>3, <2>4
  <1>12. CASE \E q \in Requests("AppendEntries", s) : Stores(n, m, q)
    <2>1. PICK q \in Requests("AppendEntries", s) : Stores(n, m, q)  BY <1>12
    <2>2. q \in AppendEntriesArgs /\ Fits(led, q)
      <3>1. q \in Request /\ q.kind = "AppendEntries" /\ Fits(led, q)  BY <1>1, HandledRequest
      <3> QED BY <3>1 DEF Request, PreVoteArgs, RequestVoteArgs, AppendEntriesArgs,
                          ReadHeartBeatArgs, InstallSnapshotArgs
    <2>3. FromLed(led, m) /\ KeepsEntries(led, n, m)
      BY <1>1, <1>3, <1>4, <1>5, <1>6, <2>1, <2>2, StoreFrom
    <2>4. OwnLog(led, m)  BY <2>1 DEF OwnLog, Stores, Follows, Follower, Leader
    <2> QED BY <1>8, <2>3, <2>4
  <1>13. CASE \E q \in Requests("InstallSnapshot", s) : Installs(n, m, q)
    <2>1. PICK q \in Requests("InstallSnapshot", s) : Installs(n, m, q)  BY <1>13
    <2>2. q \in InstallSnapshotArgs /\ Fits(led, q)
      <3>1. q \in Request /\ q.kind = "InstallSnapshot" /\ Fits(led, q)  BY <1>1, HandledRequest
      <3> QED BY <3>1 DEF Request, PreVoteArgs, RequestVoteArgs, AppendEntriesArgs,
                          ReadHeartBeatArgs, InstallSnapshotArgs
    <2>3. FromLed(led, m) /\ KeepsEntries(led, n, m)
      BY <1>1, <1>3, <1>4, <1>5, <1>6, <2>1, <2>2, InstallFrom
    <2>4. OwnLog(led, m)  BY <2>1 DEF OwnLog, Installs, Follows, Follower, Leader
    <2> QED BY <1>8, <2>3, <2>4
  <1> QED BY <1>2, <1>9, <1>10, <1>11, <1>12, <1>13, DeedLog

-----------------------------------------------------------------------------
(* The parts of the invariant after a step.                                *)

\* Who runs or leads has a term that began with an election.
LEMMA TermsBeginStep ==
  ASSUME NEW s \in Server, Stepping(s), TermsBegin
  PROVE  TermsBegin'
  <1> SUFFICES ASSUME NEW x \in Server, raft'[x].status \in { Candidate, Leader }
               PROVE  raft'[x].currentTerm > 0
    BY DEF TermsBegin
  <1>1. raft[x].currentTerm \in Nat /\ raft'[x].currentTerm \in Nat  BY StepTypes
  <1>2. CASE raft'[x].currentTerm > raft[x].currentTerm  BY <1>1, <1>2
  <1>3. CASE /\ raft'[x].currentTerm = raft[x].currentTerm
             /\ raft[x].status \in { Candidate, Leader }
    BY <1>3 DEF TermsBegin
  <1> QED BY <1>2, <1>3, RoleFacts

\* What is held after a step: what was, and what servers have of their terms.
Records(led2, held, h2) ==
  \A T, v, i : << T, v, i >> \in h2 <=>
    \/ << T, v, i >> \in held
    \/ v \in Server /\ i \in Nat /\ T = raft'[v].currentTerm /\ Has(led2, raft'[v], i, T)

\* A step from the invariant, with the histories it leads to.
Recording(s, led, held, led2, h2) ==
  /\ Stepping(s) /\ LogInv(led, held) /\ LogsMove(led, led2)
  /\ Records(led2, held, h2) /\ h2 \subseteq Nat \X Server \X Nat

\* What recording says of servers' logs.
LEMMA RecordingFacts ==
  ASSUME NEW s \in Server, NEW led, NEW held, NEW led2, NEW h2,
         Recording(s, led, held, led2, h2)
  PROVE  /\ Stepping(s) /\ Tree(led) /\ Tree(led2) /\ Grows(led, led2)
         /\ \A x \in Server : /\ FromLed(led, raft[x]) /\ OwnLog(led, raft[x])
                              /\ FromLed(led2, raft'[x]) /\ OwnLog(led2, raft'[x])
         /\ HeldSound(led, held) /\ HeldKept(led, held) /\ LeadersComplete(led, held)
         /\ CandidatesComplete(led, held) /\ Elected(led) /\ RequestsFit(led) /\ VotesReached
         /\ TermsBegin
  BY DEF Recording, LogInv, LogsMove

\* What no quorum will ever hold, stays so.
LEMMA NeverStays ==
  ASSUME NEW s \in Server, NEW led, NEW held, NEW led2, NEW h2,
         Recording(s, led, held, led2, h2), NEW T \in Nat, NEW i, Never(held, T, i)
  PROVE  Never(h2, T, i)'
  <1>1. PICK Q \in Quorums : \A v \in Q : raft[v].currentTerm > T /\ << T, v, i >> \notin held
    BY DEF Never
  <1>2. ASSUME NEW v \in Q
        PROVE  raft'[v].currentTerm > T /\ << T, v, i >> \notin h2
    <2>1. v \in Server  BY DEF Quorums
    <2>2. raft'[v].currentTerm > T
      <3>1. /\ raft[v].currentTerm \in Nat /\ raft'[v].currentTerm \in Nat
            /\ raft[v].currentTerm <= raft'[v].currentTerm
        BY <2>1, StepTypes DEF Recording
      <3>2. raft[v].currentTerm > T  BY <1>1
      <3> QED BY <3>1, <3>2
    <2>3. T # raft'[v].currentTerm  BY <2>1, <2>2, StepTypes DEF Recording
    <2> QED BY <1>1, <2>2, <2>3 DEF Recording, Records
  <1> QED BY <1>2 DEF Never

\* An entry that is new is none that a quorum beyond its term will ever hold.
LEMMA NewEntryNever ==
  ASSUME NEW s \in Server, NEW led, NEW held, NEW led2, NEW h2,
         Recording(s, led, held, led2, h2), NEW T \in Nat, NEW i \in Nat, ~In(led, T, i, T),
         NEW Q \in Quorums, \A v \in Q : raft'[v].currentTerm > T
  PROVE  Never(h2, T, i)'
  <1>1. ASSUME NEW v \in Q  PROVE << T, v, i >> \notin h2
    <2>1. v \in Server  BY DEF Quorums
    <2>2. T # raft'[v].currentTerm  BY <2>1, StepTypes DEF Recording
    <2>3. << T, v, i >> \notin held  BY <2>1, RecordingFacts DEF HeldSound
    <2> QED BY <2>2, <2>3 DEF Recording, Records
  <1> QED BY <1>1 DEF Never

\* What is held is sound.
LEMMA HeldSoundStep ==
  ASSUME NEW s \in Server, NEW led, NEW held, NEW led2, NEW h2,
         Recording(s, led, held, led2, h2)
  PROVE  HeldSound(led2, h2)'
  <1> SUFFICES ASSUME NEW T \in Nat, NEW v \in Server, NEW i \in Nat, << T, v, i >> \in h2
               PROVE  /\ T <= raft'[v].currentTerm
                      /\ In(led2, T, i, T)
                      /\ \A j \in 1 .. i : In(led2, T, j, T) => << T, v, j >> \in h2
    BY DEF HeldSound, Recording
  <1>0. /\ Stepping(s) /\ Tree(led) /\ Tree(led2) /\ Grows(led, led2) /\ HeldSound(led, held)
        /\ FromLed(led2, raft'[v])
    BY RecordingFacts
  <1>1. /\ raft[v].currentTerm \in Nat /\ raft'[v].currentTerm \in Nat
        /\ raft[v].currentTerm <= raft'[v].currentTerm /\ raft'[v] \in RaftObject
    BY <1>0, StepTypes
  <1>2. CASE << T, v, i >> \in held
    <2>1. /\ T <= raft[v].currentTerm /\ In(led, T, i, T)
          /\ \A j \in 1 .. i : In(led, T, j, T) => << T, v, j >> \in held
      BY <1>0, <1>2 DEF HeldSound
    <2>2. In(led2, T, i, T)  BY <1>0, <2>1, InGrows
    <2>3. \A j \in 1 .. i : In(led2, T, j, T) => << T, v, j >> \in h2
      <3> SUFFICES ASSUME NEW j \in 1 .. i, In(led2, T, j, T)  PROVE << T, v, j >> \in h2
        OBVIOUS
      <3>1. /\ Len(led[T]) \in Nat /\ i <= Len(led[T])
            /\ \A x \in 1 .. Len(led[T]) : led2[T][x] = led[T][x]
        BY <1>0, <2>1, LedTypes, InLed DEF Grows
      <3>2. j \in 1 .. Len(led[T])  BY <3>1
      <3>3. In(led, T, j, T)  BY <3>1, <3>2 DEF In
      <3> QED BY <2>1, <3>3 DEF Recording, Records
    <2> QED BY <1>1, <2>1, <2>2, <2>3
  <1>3. CASE << T, v, i >> \notin held
    <2>1. T = raft'[v].currentTerm /\ Has(led2, raft'[v], i, T)
      BY <1>3 DEF Recording, Records
    <2>2. In(led2, GetLastLogTerm(raft'[v]), i, T) /\ GetLastLogTerm(raft'[v]) \in Nat
      BY <1>0, <1>1, <2>1, HasIn, LogTypes
    <2>3. In(led2, T, i, T)  BY <1>0, <2>2, InLed
    <2>4. \A j \in 1 .. i : In(led2, T, j, T) => Has(led2, raft'[v], j, T)
      BY <1>0, <1>1, <2>1, <2>3, HasBefore
    <2>5. \A j \in 1 .. i : j \in Nat  OBVIOUS
    <2> QED BY <1>1, <2>1, <2>3, <2>4, <2>5 DEF Recording, Records
  <1> QED BY <1>2, <1>3

\* It has what servers have of their terms.
LEMMA HeldRecordedStep ==
  ASSUME NEW s \in Server, NEW led, NEW held, NEW led2, NEW h2,
         Recording(s, led, held, led2, h2)
  PROVE  HeldRecorded(led2, h2)'
  BY DEF HeldRecorded, Recording, Records

\* It is kept, but for what no quorum will ever hold.
LEMMA HeldKeptStep ==
  ASSUME NEW s \in Server, NEW led, NEW held, NEW led2, NEW h2,
         Recording(s, led, held, led2, h2)
  PROVE  HeldKept(led2, h2)'
  <1> SUFFICES ASSUME NEW T \in Nat, NEW v \in Server, NEW i \in Nat, << T, v, i >> \in h2
               PROVE  \/ Has(led2, raft'[v], i, T)
                      \/ raft'[v].currentTerm > T /\ Never(h2, T, i)'
    BY DEF HeldKept
  <1>0. /\ Stepping(s) /\ HeldSound(led, held) /\ HeldKept(led, held)
        /\ LeadersComplete(led, held)
    BY RecordingFacts
  <1>1. /\ raft[v].currentTerm \in Nat /\ raft'[v].currentTerm \in Nat
        /\ raft[v].currentTerm <= raft'[v].currentTerm
    BY <1>0, StepTypes
  <1>2. CASE << T, v, i >> \notin held  BY <1>2 DEF Recording, Records
  <1>3. CASE << T, v, i >> \in held
    <2>1. \/ Has(led, raft[v], i, T)
          \/ raft[v].currentTerm > T /\ Never(held, T, i)
      BY <1>0, <1>3 DEF HeldKept
    <2>2. CASE raft[v].currentTerm > T /\ Never(held, T, i)
      BY <1>1, <2>2, NeverStays
    <2>3. CASE Has(led, raft[v], i, T)
      <3>1. Has(led2, raft'[v], i, T) \/ Loses(led, raft'[v], i, T)
        BY <2>3 DEF Recording, LogsMove
      <3>2. CASE Loses(led, raft'[v], i, T)
        <4>1. /\ T < raft'[v].currentTerm /\ led[raft'[v].currentTerm] # << >>
              /\ ~In(led, raft'[v].currentTerm, i, T)
          BY <3>2 DEF Loses
        <4>2. In(led, T, i, T)  BY <1>0, <1>3 DEF HeldSound
        <4>3. Never(held, T, i)  BY <1>0, <1>1, <4>1, <4>2 DEF LeadersComplete
        <4> QED BY <1>1, <4>1, <4>3, NeverStays
      <3> QED BY <3>1, <3>2
    <2> QED BY <2>1, <2>2, <2>3
  <1> QED BY <1>2, <1>3

\* A server that runs, or begins to lead, has every entry of an older term that a
\* voter of its term held, unless no quorum will ever hold it.
LEMMA CandidateHolds ==
  ASSUME NEW s \in Server, NEW led, NEW held, NEW led2, NEW h2,
         Recording(s, led, held, led2, h2), NEW x \in Server, NEW U, U = raft'[x].currentTerm,
         \/ raft'[x].status = Candidate
         \/ raft'[x].status = Leader /\ led[U] = << >>,
         NEW v \in Server, << U, v, x >> \in votes',
         NEW T \in Nat, NEW i \in Nat, T < U, << T, v, i >> \in held
  PROVE  Has(led, raft[x], i, T) \/ Never(held, T, i)
  <1>0. /\ Stepping(s) /\ HeldSound(led, held) /\ HeldKept(led, held) /\ Tree(led)
        /\ LeadersComplete(led, held) /\ CandidatesComplete(led, held)
        /\ VotesReached /\ RequestsFit(led)
        /\ FromLed(led, raft[x]) /\ OwnLog(led, raft[x]) /\ FromLed(led, raft[v])
    BY RecordingFacts
  <1>1. /\ U \in Nat /\ raft[x].currentTerm \in Nat /\ raft[x].currentTerm <= U
        /\ raft[x] \in RaftObject /\ raft[v] \in RaftObject
    BY <1>0, StepTypes
  <1>2. raft[x].currentTerm = U => raft[x].status = Candidate
    <2> SUFFICES ASSUME raft[x].currentTerm = U  PROVE raft[x].status = Candidate
      OBVIOUS
    <2>1. \/ raft[x].status = raft'[x].status
          \/ raft[x].status = Candidate
      BY <1>0, <1>1, RoleFacts
    <2>2. raft[x].status # Leader \/ led[U] # << >>
      <3> SUFFICES ASSUME raft[x].status = Leader  PROVE led[U] # << >>
        OBVIOUS
      <3>1. GetLastLogIndex(raft[x]) > 0 /\ GetLastLogIndex(raft[x]) = Len(led[U])
        BY <1>0 DEF OwnLog
      <3> QED BY <1>0, <1>1, <3>1, LedTypes
    <2> QED BY <2>1, <2>2
  <1>3. CASE << U, v, x >> \in votes
    <2>1. U <= raft[x].currentTerm  BY <1>0, <1>1, <1>3 DEF VotesReached
    <2>2. raft[x].currentTerm = U /\ raft[x].status = Candidate  BY <1>1, <1>2, <2>1
    <2> QED BY <1>0, <1>3, <2>2 DEF CandidatesComplete
  <1>4. CASE << U, v, x >> \notin votes
    <2>1. Has(led, raft[v], i, T) \/ Never(held, T, i)  BY <1>0 DEF HeldKept
    <2>2. \/ x = v
          \/ /\ v = s
             /\ \E q \in Requests("RequestVote", s) :
                  /\ x = q.from /\ U = q.term
                  /\ WhetherVoteFor(raft[s], q.lastLogIndex, q.lastLogTerm)
      BY <1>0, <1>4, NewVote
    <2>3. CASE x = v  BY <2>1, <2>3
    <2>4. CASE Has(led, raft[v], i, T) /\ v = s /\
               \E q \in Requests("RequestVote", s) :
                  /\ x = q.from /\ U = q.term
                  /\ WhetherVoteFor(raft[s], q.lastLogIndex, q.lastLogTerm)
      <3>1. PICK q \in Requests("RequestVote", s) :
                  /\ x = q.from /\ U = q.term
                  /\ WhetherVoteFor(raft[s], q.lastLogIndex, q.lastLogTerm)
        BY <2>4
      <3>2. q.kind = "RequestVote" /\ AsksFor(q) /\ U <= raft[x].currentTerm
        <4>1. /\ q.kind = "RequestVote" /\ AsksFor(q) /\ q.term <= raft[q.from].currentTerm
          BY <1>0, HandledRequest
        <4> QED BY <3>1, <4>1
      <3>3. raft[x].currentTerm = U /\ raft[x].status = Candidate  BY <1>1, <1>2, <3>2
      <3>4. q.lastLogIndex = GetLastLogIndex(raft[x]) /\ q.lastLogTerm = GetLastLogTerm(raft[x])
        BY <3>1, <3>2, <3>3 DEF AsksFor
      <3> DEFINE Wv == GetLastLogTerm(raft[v])
                 Wx == GetLastLogTerm(raft[x])
                 lv == GetLastLogIndex(raft[v])
                 lx == GetLastLogIndex(raft[x])
      <3>5. \/ Wx > Wv
            \/ Wx = Wv /\ lx >= lv
        BY <2>4, <3>1, <3>4 DEF WhetherVoteFor
      <3>6. /\ Wv \in Nat /\ lv \in Nat /\ Wx \in Nat /\ lx \in Nat
            /\ lx > 0 => In(led, Wx, lx, Wx)
            /\ lx = 0 => Wx = 0
        BY <1>0, <1>1, FromLedTypes
      <3>7. In(led, Wv, i, T) /\ i <= lv  BY <1>0, <1>1, <2>4, HasIn
      <3>8. Has(led, raft[x], i, T) <=> In(led, Wx, i, T) /\ i <= lx
        BY <1>0, <1>1, HasIn
      <3> HIDE DEF Wv, Wx, lv, lx
      <3>9. CASE Wx = Wv /\ lx >= lv  BY <3>6, <3>7, <3>8, <3>9
      <3>10. CASE Wx > Wv
        <4>1. T <= Wv /\ In(led, T, i, T)  BY <1>0, <3>6, <3>7, InLed
        <4>2. T < Wx /\ lx > 0  BY <3>6, <3>10, <4>1
        <4>3. In(led, Wx, lx, Wx)  BY <3>6, <4>2
        <4>4. led[Wx] # << >>
          <5>1. lx <= Len(led[Wx])  BY <4>3 DEF In
          <5>2. Len(led[Wx]) # 0  BY <3>6, <4>2, <5>1
          <5> QED BY <1>0, <3>6, <5>2, LedTypes
        <4>5. In(led, Wx, i, T) \/ Never(held, T, i)
          BY <1>0, <3>6, <4>1, <4>2, <4>4 DEF LeadersComplete
        <4>6. In(led, Wx, i, T) => i <= lx
          <5> SUFFICES ASSUME In(led, Wx, i, T), i > lx  PROVE FALSE
            BY <3>6
          <5>1. \A j \in 1 .. i : led[Wx][j] <= T  BY <1>0, <3>6, InLed
          <5>2. lx \in 1 .. i  BY <3>6, <4>2
          <5>3. led[Wx][lx] = Wx  BY <4>3 DEF In
          <5> QED BY <3>6, <4>2, <5>1, <5>2, <5>3
        <4> QED BY <3>8, <4>5, <4>6
      <3> QED BY <3>5, <3>9, <3>10
    <2> QED BY <2>1, <2>2, <2>3, <2>4
  <1> QED BY <1>3, <1>4

\* Who voted in a term has reached it.
LEMMA VoterReached ==
  ASSUME NEW s \in Server, Stepping(s), NEW U, NEW v, NEW c, << U, v, c >> \in votes'
  PROVE  U \in Nat /\ v \in Server /\ c \in Server /\ U <= raft'[v].currentTerm
  <1>1. VotesKept' /\ TypeInv'  BY DEF Stepping, VoteInv
  <1>2. votes' \subseteq Nat \X Server \X Server  BY <1>1 DEF TypeInv
  <1> QED BY <1>1, <1>2 DEF VotesKept

\* Candidates have what their voters held.
LEMMA CandidatesCompleteStep ==
  ASSUME NEW s \in Server, NEW led, NEW held, NEW led2, NEW h2,
         Recording(s, led, held, led2, h2)
  PROVE  CandidatesComplete(led2, h2)'
  <1> SUFFICES ASSUME NEW c \in Server, NEW v \in Server, NEW T \in Nat, NEW i \in Nat,
                      raft'[c].status = Candidate,
                      << raft'[c].currentTerm, v, c >> \in votes',
                      T < raft'[c].currentTerm, << T, v, i >> \in h2
               PROVE  Has(led2, raft'[c], i, T) \/ Never(h2, T, i)'
    BY DEF CandidatesComplete
  <1>0. /\ Stepping(s) /\ Tree(led) /\ Tree(led2) /\ Grows(led, led2)
        /\ FromLed(led, raft[c]) /\ FromLed(led2, raft'[c])
    BY RecordingFacts
  <1>1. raft'[c].currentTerm <= raft'[v].currentTerm  BY <1>0, VoterReached
  <1>2. /\ raft'[c].currentTerm \in Nat /\ raft'[v].currentTerm \in Nat
        /\ raft[c] \in RaftObject /\ raft'[c] \in RaftObject
    BY <1>0, StepTypes
  <1>3. T # raft'[v].currentTerm  BY <1>1, <1>2
  <1>4. << T, v, i >> \in held  BY <1>3 DEF Recording, Records
  <1>5. Has(led, raft[c], i, T) \/ Never(held, T, i)  BY <1>4, CandidateHolds
  <1>6. CASE Has(led, raft[c], i, T)
    <2>1. Has(led2, raft[c], i, T)  BY <1>0, <1>2, <1>6, FromGrows
    <2>2. /\ GetLastLogIndex(raft'[c]) = GetLastLogIndex(raft[c])
          /\ GetLastLogTerm(raft'[c]) = GetLastLogTerm(raft[c])
      BY <1>0, CandidateEnd
    <2> QED BY <2>1, <2>2 DEF Has
  <1>7. CASE Never(held, T, i)  BY <1>7, NeverStays
  <1> QED BY <1>5, <1>6, <1>7

\* Leaders have every entry of an older term that a quorum may have held.
LEMMA LeadersCompleteStep ==
  ASSUME NEW s \in Server, NEW led, NEW held, NEW led2, NEW h2,
         Recording(s, led, held, led2, h2)
  PROVE  LeadersComplete(led2, h2)'
  <1> SUFFICES ASSUME NEW T \in Nat, NEW U \in Nat, NEW i \in Nat,
                      T < U, led2[U] # << >>, In(led2, T, i, T)
               PROVE  In(led2, U, i, T) \/ Never(h2, T, i)'
    BY DEF LeadersComplete
  <1>0. /\ Stepping(s) /\ Tree(led) /\ Tree(led2) /\ Grows(led, led2)
        /\ LeadersComplete(led, held) /\ Elected(led)
    BY RecordingFacts
  <1>1. ASSUME NEW c \in Server, VotersIn(U, c)' \in Quorums, ~In(led, T, i, T)
        PROVE  Never(h2, T, i)'
    <2> PICK Q : Q = VotersIn(U, c)'  OBVIOUS
    <2>1. Q \in Quorums  BY <1>1
    <2>2. \A v \in Q : raft'[v].currentTerm > T
      <3> TAKE v \in Q
      <3>1. << U, v, c >> \in votes'  BY DEF VotersIn
      <3>2. U <= raft'[v].currentTerm /\ v \in Server  BY <1>0, <3>1, VoterReached
      <3>3. raft'[v].currentTerm \in Nat  BY <1>0, <3>2, StepTypes
      <3> QED BY <3>2, <3>3
    <2> QED BY <1>1, <2>1, <2>2, NewEntryNever
  <1>2. CASE led[U] # << >>
    <2>1. CASE In(led, T, i, T)
      <3>1. In(led, U, i, T) \/ Never(held, T, i)  BY <1>0, <1>2, <2>1 DEF LeadersComplete
      <3>2. In(led, U, i, T) => In(led2, U, i, T)  BY <1>0, InGrows
      <3> QED BY <3>1, <3>2, NeverStays
    <2>2. CASE ~In(led, T, i, T)
      <3>1. PICK c \in Server : VotersIn(U, c) \in Quorums  BY <1>0, <1>2 DEF Elected
      <3>2. VotersIn(U, c)' \in Quorums  BY <1>0, <3>1, VotesStay
      <3> QED BY <1>1, <2>2, <3>2
    <2> QED BY <2>1, <2>2
  <1>3. CASE led[U] = << >>
    <2>1. PICK x \in Server :
            /\ raft'[x].status = Leader /\ raft'[x].currentTerm = U
            /\ \A j, t \in Nat : Has(led, raft[x], j, t) => In(led2, U, j, t)
      <3>1. led2[U] # led[U]  BY <1>3
      <3> QED BY <3>1 DEF Recording, LogsMove
    <2>2. VotersIn(U, x)' \in Quorums  BY <1>0, <2>1, LeaderVotes
    <2>3. CASE ~In(led, T, i, T)  BY <1>1, <2>2, <2>3
    <2>4. CASE \E v \in Server : << U, v, x >> \in votes' /\ << T, v, i >> \in held
      <3>1. PICK v \in Server : << U, v, x >> \in votes' /\ << T, v, i >> \in held
        BY <2>4
      <3>2. Has(led, raft[x], i, T) \/ Never(held, T, i)
        BY <1>3, <2>1, <3>1, CandidateHolds
      <3> QED BY <2>1, <3>2, NeverStays
    <2>5. CASE ~\E v \in Server : << U, v, x >> \in votes' /\ << T, v, i >> \in held
      <3> PICK Q : Q = VotersIn(U, x)'  OBVIOUS
      <3>1. \A v \in Q : raft'[v].currentTerm > T /\ << T, v, i >> \notin h2
        <4> TAKE v \in Q
        <4>1. << U, v, x >> \in votes' /\ v \in Server  BY DEF VotersIn
        <4>2. U <= raft'[v].currentTerm /\ raft'[v].currentTerm \in Nat
          BY <1>0, <4>1, VoterReached, StepTypes
        <4>3. raft'[v].currentTerm > T /\ T # raft'[v].currentTerm  BY <4>2
        <4>4. << T, v, i >> \notin held  BY <2>5, <4>1
        <4> QED BY <4>3, <4>4 DEF Recording, Records
      <3> QED BY <2>2, <3>1 DEF Never
    <2> QED BY <2>3, <2>4, <2>5
  <1> QED BY <1>2, <1>3

\* A request for a vote, as long as its sender runs in its term, was sent by the
\* candidate that it is now.
LEMMA AsksForStep ==
  ASSUME NEW s \in Server, Stepping(s), NEW q \in Request, AsksFor(q),
         q.kind = "RequestVote" => q.term <= raft[q.from].currentTerm
  PROVE  AsksFor(q)'
  <1> SUFFICES ASSUME q.kind = "RequestVote", raft'[q.from].status = Candidate,
                      raft'[q.from].currentTerm = q.term
               PROVE  /\ q.lastLogIndex = GetLastLogIndex(raft'[q.from])
                      /\ q.lastLogTerm = GetLastLogTerm(raft'[q.from])
    BY DEF AsksFor
  <1>1. q.from \in Server  BY RequestTypes
  <1>2. /\ raft[q.from].currentTerm \in Nat /\ raft'[q.from].currentTerm \in Nat
        /\ raft[q.from].currentTerm <= raft'[q.from].currentTerm
    BY <1>1, StepTypes
  <1>3. raft[q.from].currentTerm = q.term  BY <1>2
  <1>4. raft[q.from].status = Candidate  BY <1>1, <1>2, <1>3, RoleFacts
  <1>5. /\ q.lastLogIndex = GetLastLogIndex(raft[q.from])
        /\ q.lastLogTerm = GetLastLogTerm(raft[q.from])
    BY <1>3, <1>4 DEF AsksFor
  <1> QED BY <1>1, <1>5, CandidateEnd

\* Every call of a server, answered or not, is a request.
LEMMA CallRequest ==
  ASSUME NEW s \in Server, Stepping(s), NEW x \in Server
  PROVE  /\ \A t \in raft[x].threadPool :
              /\ t.request \in Request /\ t.request.from = x
              /\ t.request.kind # "PreVote" => t.request.term <= raft[x].currentTerm
         /\ \A t \in raft'[x].threadPool :
              /\ t.request \in Request /\ t.request.from = x
              /\ t.request.kind # "PreVote" => t.request.term <= raft'[x].currentTerm
  <1>1. /\ Sound(raft[x]) /\ Sound(raft'[x]) /\ raft[x].id = x /\ raft'[x].id = x
        /\ raft[x].threadPool \subseteq Task /\ raft'[x].threadPool \subseteq Task
    BY StepTypes, FieldTypes
  <1> QED BY <1>1, TaskTypes DEF Sound

\* The calls after a step fit the leaders' logs after it.
LEMMA RequestsFitStep ==
  ASSUME NEW s \in Server, NEW led, NEW held, NEW led2, NEW h2,
         Recording(s, led, held, led2, h2)
  PROVE  RequestsFit(led2)'
  <1>0. /\ Stepping(s) /\ Tree(led) /\ Tree(led2) /\ Grows(led, led2)
        /\ RequestsFit(led) /\ TypeInv /\ TypeInv' /\ StepOf(s)
        /\ \A x \in Server : FromLed(led2, raft'[x]) /\ OwnLog(led2, raft'[x])
    BY RecordingFacts DEF Stepping, VoteInv
  <1>1. ASSUME NEW x \in Server, NEW t \in raft[x].threadPool
        PROVE  Fits(led2, t.request) /\ AsksFor(t.request)'
    <2>1. Fits(led, t.request) /\ AsksFor(t.request)  BY <1>0 DEF RequestsFit
    <2>2. /\ t.request \in Request /\ t.request.from = x
          /\ t.request.kind = "RequestVote" => t.request.term <= raft[x].currentTerm
      BY <1>0, CallRequest
    <2>3. Fits(led2, t.request)  BY <1>0, <2>1, <2>2, FitsGrows
    <2> PICK q : q = t.request  OBVIOUS
    <2>4. q \in Request /\ AsksFor(q) /\ (q.kind = "RequestVote" => q.term <= raft[q.from].currentTerm)
      BY <2>1, <2>2
    <2>5. AsksFor(q)'  BY <1>0, <2>4, AsksForStep
    <2> QED BY <2>3, <2>5
  <1>2. ASSUME NEW x \in Server, NEW t \in raft'[x].threadPool
        PROVE  Fits(led2, t.request) /\ AsksFor(t.request)'
    <2>1. CASE x # s
      <3>1. Waits(s, x) /\ raft[x] \in RaftObject  BY <1>0, <2>1, StepTypes DEF StepOf
      <3>2. PICK u \in raft[x].threadPool : u.request = t.request  BY <3>1, WaitsSame
      <3>3. Fits(led2, u.request) /\ AsksFor(u.request)'  BY <1>1
      <3> QED BY <3>2, <3>3
    <2>2. CASE x = s
      <3>1. PICK n : Settled(s, n) /\ Deed(s, n, raft'[s])  BY <1>0 DEF StepOf
      <3>2. \/ t \in raft[s].threadPool
            \/ Built(raft'[s], t.request) \/ Asked(raft'[s], t.request)
        BY <2>2, <3>1, DeedCalls
      <3>3. t.request \in Request /\ t.request.from = s /\ raft'[s] \in RaftObject
        BY <1>0, <2>2, CallRequest, StepTypes
      <3>4. CASE t \in raft[s].threadPool  BY <1>1, <3>4
      <3>5. CASE Built(raft'[s], t.request)
        <4>1. Fits(led2, t.request)  BY <1>0, <3>3, <3>5, BuiltFits
        <4>2. t.request.kind # "RequestVote"  BY <3>5 DEF Built
        <4> QED BY <4>1, <4>2 DEF AsksFor
      <3>6. CASE Asked(raft'[s], t.request)
        <4>1. Fits(led2, t.request)  BY <3>6 DEF Asked, Fits
        <4>2. AsksFor(t.request)'  BY <3>3, <3>6 DEF AsksFor, Asked
        <4> QED BY <4>1, <4>2
      <3> QED BY <3>2, <3>4, <3>5, <3>6
    <2> QED BY <2>1, <2>2
  <1>3. ASSUME NEW q \in late'
        PROVE  Fits(led2, q) /\ AsksFor(q)' /\ q.term <= raft'[q.from].currentTerm
    <2>1. CASE q \in late
      <3>1. /\ q \in Request /\ Fits(led, q) /\ AsksFor(q) /\ q.term <= raft[q.from].currentTerm
            /\ q.from \in Server
        BY <1>0, <2>1, RequestTypes DEF Stepping, TypeInv, TypeOK, VoteInv, RequestsFit
      <3>0. q.term \in Nat
        BY <3>1 DEF Request, PreVoteArgs, RequestVoteArgs, AppendEntriesArgs,
            ReadHeartBeatArgs, InstallSnapshotArgs
      <3>2. Fits(led2, q)  BY <1>0, <3>1, FitsGrows
      <3>3. AsksFor(q)'  BY <1>0, <3>1, AsksForStep
      <3>4. q.term <= raft'[q.from].currentTerm
        <4>1. /\ raft[q.from].currentTerm \in Nat /\ raft'[q.from].currentTerm \in Nat
              /\ raft[q.from].currentTerm <= raft'[q.from].currentTerm
          BY <1>0, <3>1, StepTypes
        <4> QED BY <3>0, <3>1, <4>1
      <3> QED BY <3>2, <3>3, <3>4
    <2>2. CASE q \notin late
      <3>1. /\ q.kind # "PreVote"
            /\ \E x \in Server : \E t \in raft[x].threadPool : t.request = q
        BY <1>0, <2>2 DEF StepOf, LateCalls
      <3>2. PICK x \in Server : \E t \in raft[x].threadPool : t.request = q  BY <3>1
      <3>3. PICK t \in raft[x].threadPool : t.request = q  BY <3>2
      <3>4. Fits(led2, t.request) /\ AsksFor(t.request)'  BY <1>1
      <3>5. q \in Request /\ q.from = x /\ q.term <= raft[x].currentTerm
        BY <1>0, <3>1, <3>3, CallRequest
      <3>6. q.term \in Nat
        BY <3>5 DEF Request, PreVoteArgs, RequestVoteArgs, AppendEntriesArgs,
            ReadHeartBeatArgs, InstallSnapshotArgs
      <3>7. /\ raft[x].currentTerm \in Nat /\ raft'[x].currentTerm \in Nat
            /\ raft[x].currentTerm <= raft'[x].currentTerm
        BY <1>0, StepTypes
      <3>8. q.term <= raft'[q.from].currentTerm  BY <3>5, <3>6, <3>7
      <3> QED BY <3>3, <3>4, <3>8
    <2> QED BY <2>1, <2>2
  <1> QED BY <1>2, <1>3 DEF RequestsFit

\* No vote is for a term that its candidate has not reached.
LEMMA VotesReachedStep ==
  ASSUME NEW s \in Server, NEW led, NEW held, NEW led2, NEW h2,
         Recording(s, led, held, led2, h2)
  PROVE  VotesReached'
  <1>0. Stepping(s) /\ VotesReached /\ RequestsFit(led)  BY RecordingFacts
  <1> SUFFICES ASSUME NEW T \in Nat, NEW v \in Server, NEW c \in Server, << T, v, c >> \in votes'
               PROVE  T <= raft'[c].currentTerm
    BY DEF VotesReached
  <1>1. /\ raft[c].currentTerm \in Nat /\ raft'[c].currentTerm \in Nat
        /\ raft[c].currentTerm <= raft'[c].currentTerm
    BY <1>0, StepTypes
  <1>2. CASE << T, v, c >> \in votes  BY <1>0, <1>1, <1>2 DEF VotesReached
  <1>3. CASE << T, v, c >> \notin votes
    <2>1. /\ T = raft'[v].currentTerm
          /\ c = v \/ \E q \in Requests("RequestVote", s) : c = q.from /\ T = q.term
      BY <1>0, <1>3, NewVote
    <2>2. CASE c = v  BY <1>1, <2>1, <2>2
    <2>3. CASE \E q \in Requests("RequestVote", s) : c = q.from /\ T = q.term
      <3>1. PICK q \in Requests("RequestVote", s) : c = q.from /\ T = q.term  BY <2>3
      <3>2. q.term <= raft[q.from].currentTerm  BY <1>0, HandledRequest
      <3> QED BY <1>1, <3>1, <3>2
    <2> QED BY <2>1, <2>2, <2>3
  <1> QED BY <1>2, <1>3

\* A term with a log had a leader.
LEMMA ElectedStep ==
  ASSUME NEW s \in Server, NEW led, NEW held, NEW led2, NEW h2,
         Recording(s, led, held, led2, h2)
  PROVE  Elected(led2)'
  <1>0. Stepping(s) /\ Elected(led)  BY RecordingFacts
  <1> SUFFICES ASSUME NEW U \in Nat, led2[U] # << >>
               PROVE  \E l \in Server :
                        /\ VotersIn(U, l)' \in Quorums
                        /\ raft'[l].currentTerm >= U
                        /\ raft'[l].currentTerm = U => raft'[l].status # Candidate
    BY DEF Elected
  <1>1. CASE led[U] # << >>
    <2>1. PICK l \in Server :
            /\ VotersIn(U, l) \in Quorums
            /\ raft[l].currentTerm >= U
            /\ raft[l].currentTerm = U => raft[l].status # Candidate
      BY <1>0, <1>1 DEF Elected
    <2>2. VotersIn(U, l)' \in Quorums  BY <1>0, <2>1, VotesStay
    <2>3. /\ raft[l].currentTerm \in Nat /\ raft'[l].currentTerm \in Nat
          /\ raft[l].currentTerm <= raft'[l].currentTerm
      BY <1>0, StepTypes
    <2>4. raft'[l].currentTerm >= U  BY <2>1, <2>3
    <2>5. ASSUME raft'[l].currentTerm = U, raft'[l].status = Candidate  PROVE FALSE
      <3>1. raft[l].currentTerm = U  BY <2>1, <2>3, <2>5
      <3>2. raft[l].status = Candidate  BY <1>0, <2>3, <2>5, <3>1, RoleFacts
      <3> QED BY <2>1, <3>1, <3>2
    <2> QED BY <2>2, <2>4, <2>5
  <1>2. CASE led[U] = << >>
    <2>1. led2[U] # led[U]  BY <1>2
    <2>2. PICK l \in Server : raft'[l].status = Leader /\ raft'[l].currentTerm = U
      BY <2>1 DEF Recording, LogsMove
    <2>3. VotersIn(U, l)' \in Quorums  BY <1>0, <2>2, LeaderVotes
    <2>4. raft'[l].currentTerm >= U  BY <2>2
    <2> QED BY <2>2, <2>3, <2>4 DEF Leader, Candidate
  <1> QED BY <1>1, <1>2

-----------------------------------------------------------------------------
(* The invariant.                                                          *)

\* Every step of a server preserves the invariant, with histories that grew.
LEMMA LogInvStep ==
  ASSUME NEW led, NEW held, LogInv(led, held), NEW s \in Server, Stepping(s)
  PROVE  \E led2, h2 : Recording(s, led, held, led2, h2) /\ LogInv(led2, h2)'
  <1>1. TermsBegin'  BY TermsBeginStep DEF LogInv
  <1>2. PICK led2 : LogsMove(led, led2)  BY <1>1, LogsMoves
  <1>3. PICK h2 : h2 = held \cup { h \in Nat \X Server \X Nat :
                                     /\ h[1] = raft'[h[2]].currentTerm
                                     /\ Has(led2, raft'[h[2]], h[3], h[1]) }
    OBVIOUS
  <1>4. h2 \subseteq Nat \X Server \X Nat  BY <1>3 DEF LogInv, HeldSound
  <1>5. Records(led2, held, h2)
    <2> SUFFICES ASSUME NEW T, NEW v, NEW i
                 PROVE  << T, v, i >> \in h2 <=>
                          \/ << T, v, i >> \in held
                          \/ /\ v \in Server /\ i \in Nat /\ T = raft'[v].currentTerm
                             /\ Has(led2, raft'[v], i, T)
      BY DEF Records
    <2>1. v \in Server => raft'[v].currentTerm \in Nat  BY StepTypes
    <2> QED BY <1>3, <2>1
  <1>6. Recording(s, led, held, led2, h2)  BY <1>2, <1>4, <1>5 DEF Recording
  <1>7. Tree(led2) /\ \A x \in Server : FromLed(led2, raft'[x]) /\ OwnLog(led2, raft'[x])
    BY <1>2 DEF LogsMove
  <1>8. RequestsFit(led2)' /\ VotesReached' /\ Elected(led2)'
    BY <1>6, RequestsFitStep, VotesReachedStep, ElectedStep
  <1>9. HeldSound(led2, h2)' /\ HeldRecorded(led2, h2)' /\ HeldKept(led2, h2)'
    BY <1>6, HeldSoundStep, HeldRecordedStep, HeldKeptStep
  <1>10. LeadersComplete(led2, h2)' /\ CandidatesComplete(led2, h2)'
    BY <1>6, LeadersCompleteStep, CandidatesCompleteStep
  <1>11. LogInv(led2, h2)'
    BY <1>1, <1>7, <1>8, <1>9, <1>10 DEF LogInv
  <1> QED BY <1>6, <1>11

\* Every step of the cluster is one of a server, its votes and roles known.
LEMMA NextStepping ==
  ASSUME VoteInv, Next
  PROVE  \E s \in Server : Stepping(s)
  <1>1. TypeInv /\ VoteInv'  BY VotesStep DEF VoteInv
  <1>2. Moves /\ RecordVotes  BY <1>1, NextMoves
  <1>3. \A x \in Server : VoteStep(x) /\ RoleStep(x)  BY <1>1, <1>2, MoveVotes
  <1>4. PICK s \in Server : StepOf(s)  BY <1>1, NextSteps
  <1>5. Stepping(s)  BY <1>1, <1>2, <1>3, <1>4 DEF Stepping
  <1> QED BY <1>5

\* A step that changes nothing leaves the histories as they are.
LEMMA LogInvStutters ==
  ASSUME NEW led, NEW held, LogInv(led, held), UNCHANGED vars
  PROVE  LogInv(led, held)'
  <1>1. raft' = raft /\ late' = late /\ votes' = votes  BY DEF vars
  <1>2. Tree(led) /\ TermsBegin'  BY <1>1 DEF LogInv, TermsBegin
  <1>3. \A s \in Server : FromLed(led, raft'[s]) /\ OwnLog(led, raft'[s])  BY <1>1 DEF LogInv
  <1>4. RequestsFit(led)'  BY <1>1 DEF LogInv, RequestsFit, AsksFor
  <1>5. VotesReached'  BY <1>1 DEF LogInv, VotesReached
  <1>6. Elected(led)'  BY <1>1 DEF LogInv, Elected, VotersIn
  <1>7. HeldSound(led, held)'  BY <1>1 DEF LogInv, HeldSound
  <1>8. HeldRecorded(led, held)'  BY <1>1 DEF LogInv, HeldRecorded
  <1>9. HeldKept(led, held)'  BY <1>1 DEF LogInv, HeldKept, Never
  <1>10. LeadersComplete(led, held)'  BY <1>1 DEF LogInv, LeadersComplete, Never
  <1>11. CandidatesComplete(led, held)'  BY <1>1 DEF LogInv, CandidatesComplete, Never
  <1> QED
    BY <1>2, <1>3, <1>4, <1>5, <1>6, <1>7, <1>8, <1>9, <1>10, <1>11 DEF LogInv

\* At the start no leader has a log, and nobody holds anything.
LEMMA LogInvInit ==
  ASSUME Init
  PROVE  \E led, held : LogInv(led, held)
  <1> PICK led : led = [ U \in Nat |-> << >> ]  OBVIOUS
  <1> PICK held : held = {}  OBVIOUS
  <1>1. \A U \in Nat : led[U] = << >> /\ Len(led[U]) = 0  OBVIOUS
  <1>2. \A U \in Nat : \A i, T : ~In(led, U, i, T)  BY <1>1 DEF In
  <1>3. Tree(led)
    <2>1. << >> \in Seq(Nat)  OBVIOUS
    <2>2. led \in [ Nat -> Seq(Nat) ]  BY <2>1
    <2> QED BY <1>2, <2>2 DEF Tree
  <1>4. ASSUME NEW s \in Server
        PROVE  /\ raft[s].currentTerm = 0 /\ raft[s].status = Follower
               /\ raft[s].threadPool = {}
               /\ raft[s].logs = << >> /\ Len(raft[s].logs) = 0
               /\ raft[s].lastIncludeSnapshotIndex = 0 /\ raft[s].lastIncludeSnapshotTerm = 0
    BY DEF Init, Construct, EmptyDisk
  <1>5. TermsBegin  BY <1>4 DEF TermsBegin, Follower, Candidate, Leader
  <1>6. ASSUME NEW s \in Server
        PROVE  FromLed(led, raft[s]) /\ OwnLog(led, raft[s])
    <2>1. GetLastLogTerm(raft[s]) = 0 /\ GetLastLogIndex(raft[s]) = 0
      BY <1>4 DEF GetLastLogTerm, GetLastLogIndex
    <2>2. \A i \in 0 .. 0 : GetLogTermFromIndex(raft[s], i) = TermAt(led[0], i)
      BY <1>4 DEF GetLogTermFromIndex, TermAt
    <2>3. raft[s].status # Leader  BY <1>4 DEF Follower, Leader
    <2>4. FromLed(led, raft[s])  BY <1>1, <1>4, <2>1, <2>2 DEF FromLed
    <2> QED BY <2>3, <2>4 DEF OwnLog
  <1>7. RequestsFit(led)  BY <1>4 DEF RequestsFit, Init
  <1>8. VotesReached  BY DEF VotesReached, Init
  <1>9. Elected(led)  BY <1>1 DEF Elected
  <1>10. HeldSound(led, held)  BY DEF HeldSound
  <1>11. HeldRecorded(led, held)
    <2>1. \A s \in Server : GetLastLogIndex(raft[s]) = 0  BY <1>4 DEF GetLastLogIndex
    <2> QED BY <2>1 DEF HeldRecorded, Has
  <1>12. HeldKept(led, held)  BY DEF HeldKept
  <1>13. LeadersComplete(led, held)  BY <1>2 DEF LeadersComplete
  <1>14. CandidatesComplete(led, held)  BY DEF CandidatesComplete
  <1>15. LogInv(led, held)
    BY <1>3, <1>5, <1>6, <1>7, <1>8, <1>9, <1>10, <1>11, <1>12, <1>13, <1>14 DEF LogInv
  <1> QED BY <1>15

\* The invariant of elections and logs, with suitable histories.
Agreement == VoteInv /\ \E led, held : LogInv(led, held)

\* Every step preserves it.
LEMMA AgreementStep ==
  ASSUME Agreement, [Next]_vars
  PROVE  Agreement'
  <1>1. VoteInv'  BY VotesStep DEF Agreement
  <1>2. PICK led, held : LogInv(led, held)  BY DEF Agreement
  <1>3. CASE Next
    <2>1. PICK s \in Server : Stepping(s)  BY <1>3, NextStepping DEF Agreement
    <2>2. \E led2, h2 : Recording(s, led, held, led2, h2) /\ LogInv(led2, h2)'
      BY <1>2, <2>1, LogInvStep
    <2> QED BY <1>1, <2>2 DEF Agreement
  <1>4. CASE UNCHANGED vars
    <2>1. LogInv(led, held)'  BY <1>2, <1>4, LogInvStutters
    <2> QED BY <1>1, <2>1 DEF Agreement
  <1> QED BY <1>3, <1>4

\* The invariant always holds.
LEMMA AgreementAlways == Spec => []Agreement
  <1>1. Init => Agreement  BY VotesInit, LogInvInit DEF Agreement
  <1> QED BY <1>1, AgreementStep, PTL DEF Spec

\* Two logs that share an entry are alike before it.
LEMMA SharedBefore ==
  ASSUME NEW led, Tree(led), NEW n \in RaftObject, FromLed(led, n), NEW m \in RaftObject,
         FromLed(led, m), NEW i \in Nat, IsLogIndex(n, i), IsLogIndex(m, i),
         GetLogTermFromIndex(n, i) = GetLogTermFromIndex(m, i),
         NEW j \in Nat, j <= i, IsLogIndex(n, j), IsLogIndex(m, j)
  PROVE  GetLogTermFromIndex(n, j) = GetLogTermFromIndex(m, j)
  <1>1. CASE j = 0
    <2>1. \A k \in RaftObject : FromLed(led, k) /\ IsLogIndex(k, 0) => GetLogTermFromIndex(k, 0) = 0
      <3> SUFFICES ASSUME NEW k \in RaftObject, FromLed(led, k), IsLogIndex(k, 0)
                   PROVE  GetLogTermFromIndex(k, 0) = 0
        OBVIOUS
      <3>1. GetLastLogIndex(k) \in Nat /\ k.lastIncludeSnapshotIndex \in Nat  BY FromLedTypes
      <3>2. 0 \in k.lastIncludeSnapshotIndex .. GetLastLogIndex(k)  BY <3>1 DEF IsLogIndex
      <3> QED BY <3>2 DEF FromLed, TermAt
    <2> QED BY <1>1, <2>1
  <1>2. CASE j > 0
    <2>1. PICK T : T = GetLogTermFromIndex(n, i)  OBVIOUS
    <2>2. /\ In(led, GetLastLogTerm(n), i, T) /\ In(led, GetLastLogTerm(m), i, T)
          /\ Has(led, n, j, GetLogTermFromIndex(n, j)) /\ In(led, GetLastLogTerm(n), j, GetLogTermFromIndex(n, j))
          /\ In(led, GetLastLogTerm(m), j, GetLogTermFromIndex(m, j))
      BY <1>2, <2>1, TermInLog
    <2>3. GetLastLogTerm(n) \in Nat /\ GetLastLogTerm(m) \in Nat  BY FromLedTypes
    <2>4. j \in 1 .. i  BY <1>2
    <2>5. led[GetLastLogTerm(n)][j] = led[GetLastLogTerm(m)][j]  BY <2>2, <2>3, <2>4, LedAgree
    <2> QED BY <2>2, <2>5 DEF In
  <1> QED BY <1>1, <1>2

\* Two servers' logs that have an entry of the same term at an index are the same
\* before it, whatever was lost, late or restarted and whatever snapshots were
\* installed: both are beginnings of the logs of their last terms' leaders, and
\* those agree up to any entry that they share.
THEOREM LogsMatch == Spec => []LogMatching
  <1>1. Agreement => LogMatching
    <2> SUFFICES ASSUME Agreement, NEW s \in Server, NEW r \in Server,
                        NEW first, NEW last,
                        first = Larger(raft[s].lastIncludeSnapshotIndex, raft[r].lastIncludeSnapshotIndex),
                        last = Smaller(GetLastLogIndex(raft[s]), GetLastLogIndex(raft[r])),
                        NEW i \in first .. last,
                        GetLogTermFromIndex(raft[s], i) = GetLogTermFromIndex(raft[r], i),
                        NEW j \in first .. i
                 PROVE  GetLogTermFromIndex(raft[s], j) = GetLogTermFromIndex(raft[r], j)
      BY DEF LogMatching
    <2>1. PICK led, held : LogInv(led, held)  BY DEF Agreement
    <2>2. /\ Tree(led) /\ FromLed(led, raft[s]) /\ FromLed(led, raft[r])
          /\ raft[s] \in RaftObject /\ raft[r] \in RaftObject
      BY <2>1 DEF LogInv, Agreement, VoteInv, TypeInv
    <2>3. PICK n \in RaftObject, m \in RaftObject : n = raft[s] /\ m = raft[r]  BY <2>2
    <2>4. /\ n.lastIncludeSnapshotIndex \in Nat /\ m.lastIncludeSnapshotIndex \in Nat
          /\ GetLastLogIndex(n) \in Nat /\ GetLastLogIndex(m) \in Nat
      BY <2>2, <2>3, FromLedTypes
    <2>5. /\ n.lastIncludeSnapshotIndex <= first /\ m.lastIncludeSnapshotIndex <= first
          /\ last <= GetLastLogIndex(n) /\ last <= GetLastLogIndex(m) /\ first \in Nat
          /\ last \in Nat
      BY <2>3, <2>4 DEF Larger, Smaller
    <2>6. i \in Nat /\ j \in Nat /\ j <= i /\ first <= j /\ i <= last  BY <2>5
    <2>7. IsLogIndex(n, i) /\ IsLogIndex(m, i) /\ IsLogIndex(n, j) /\ IsLogIndex(m, j)
      BY <2>4, <2>5, <2>6 DEF IsLogIndex
    <2> QED BY <2>2, <2>3, <2>6, <2>7, SharedBefore
  <1> QED BY <1>1, AgreementAlways, PTL

-----------------------------------------------------------------------------
(* Committed entries.                                                      *)

\* A log of a term not before T has what T committed.
Ruling(led, held) ==
  \A T, W, i \in Nat :
    T <= W /\ led[W] # << >> /\ Committed(led, held, T, i) => In(led, W, i, T)

\* It does if a log without the entry means that no quorum will ever hold it.
LEMMA CompleteRules ==
  ASSUME NEW led, NEW held,
         \A T, U \in Nat : \A i \in Nat :
           T < U /\ led[U] # << >> /\ In(led, T, i, T) =>
             \/ In(led, U, i, T)
             \/ \E Q \in Quorums : \A v \in Q : << T, v, i >> \notin held
  PROVE  Ruling(led, held)
  <1> SUFFICES ASSUME NEW T \in Nat, NEW W \in Nat, NEW i \in Nat, T <= W, led[W] # << >>,
                      Committed(led, held, T, i)
               PROVE  In(led, W, i, T)
    BY DEF Ruling
  <1>1. In(led, T, i, T)  BY DEF Committed
  <1>2. CASE T = W  BY <1>1, <1>2
  <1>3. CASE T < W
    <2>1. PICK Q \in Quorums : \A v \in Q : << T, v, i >> \in held  BY DEF Committed
    <2>2. ASSUME NEW R \in Quorums, \A v \in R : << T, v, i >> \notin held
          PROVE  FALSE
      BY <2>1, <2>2, QuorumsMeet
    <2> QED BY <1>1, <1>3, <2>2
  <1> QED BY <1>2, <1>3

\* The invariant of the logs says so.
LEMMA LogInvRules ==
  ASSUME NEW led, NEW held, LogInv(led, held)
  PROVE  Ruling(led, held)
  BY CompleteRules DEF LogInv, LeadersComplete, Never

\* What is committed stays so when the histories grow.
LEMMA CommittedGrows ==
  ASSUME NEW led, NEW led2, Tree(led), Tree(led2), Grows(led, led2), NEW held, NEW h2,
         held \subseteq h2, NEW U \in Nat, NEW W \in Nat, U <= W, NEW k, NEW t,
         CommittedAt(led, held, U, k, t)
  PROVE  CommittedAt(led2, h2, W, k, t)
  <1>1. PICK T, i \in Nat :
          T <= U /\ k \in 1 .. i /\ Committed(led, held, T, i) /\ In(led, T, k, t)
    BY DEF CommittedAt
  <1>2. In(led2, T, k, t)  BY <1>1, InGrows
  <1>3. In(led2, T, i, T)  BY <1>1, InGrows DEF Committed
  <1>4. Committed(led2, h2, T, i)  BY <1>1, <1>3 DEF Committed
  <1>5. T <= W  BY <1>1
  <1> QED BY <1>1, <1>2, <1>4, <1>5 DEF CommittedAt

\* A log of a term not before has what is committed.
LEMMA CommittedIn ==
  ASSUME NEW led, NEW held, Tree(led), Ruling(led, held), NEW U \in Nat, NEW k, NEW t,
         CommittedAt(led, held, U, k, t), NEW W \in Nat, U <= W, led[W] # << >>
  PROVE  In(led, W, k, t)
  <1>1. PICK T, i \in Nat :
          T <= U /\ k \in 1 .. i /\ Committed(led, held, T, i) /\ In(led, T, k, t)
    BY DEF CommittedAt
  <1>2. In(led, T, i, T)  BY <1>1 DEF Committed
  <1>3. T <= W  BY <1>1
  <1>4. In(led, W, i, T)  BY <1>1, <1>3 DEF Ruling
  <1> QED BY <1>1, <1>2, <1>4, InAgree

\* Every entry before a committed one is committed.
LEMMA CommittedBefore ==
  ASSUME NEW led, NEW held, Tree(led), NEW U \in Nat, NEW k, NEW t,
         CommittedAt(led, held, U, k, t), NEW W \in Nat, In(led, W, k, t), NEW j \in 1 .. k
  PROVE  CommittedAt(led, held, U, j, led[W][j])
  <1>1. PICK T, i \in Nat :
          T <= U /\ k \in 1 .. i /\ Committed(led, held, T, i) /\ In(led, T, k, t)
    BY DEF CommittedAt
  <1>2. led[W][j] = led[T][j] /\ j <= Len(led[T])  BY <1>1, LedAgree
  <1>3. j \in 1 .. i /\ j \in 1 .. Len(led[T])
    BY <1>1, <1>2, LedTypes
  <1>4. In(led, T, j, led[W][j])  BY <1>2, <1>3 DEF In
  <1> QED BY <1>1, <1>3, <1>4 DEF CommittedAt

\* Only one entry is ever committed at an index.
LEMMA CommittedOnce ==
  ASSUME NEW led, NEW held, Tree(led), Ruling(led, held), NEW U \in Nat, NEW W \in Nat,
         NEW k, NEW t, NEW r, CommittedAt(led, held, U, k, t), CommittedAt(led, held, W, k, r)
  PROVE  t = r
  <1>1. PICK T, i \in Nat :
          T <= U /\ k \in 1 .. i /\ Committed(led, held, T, i) /\ In(led, T, k, t)
    BY DEF CommittedAt
  <1>2. PICK S, j \in Nat :
          S <= W /\ k \in 1 .. j /\ Committed(led, held, S, j) /\ In(led, S, k, r)
    BY DEF CommittedAt
  <1>3. CommittedAt(led, held, T, k, t) /\ CommittedAt(led, held, S, k, r)
    BY <1>1, <1>2 DEF CommittedAt
  <1>4. led[T] # << >> /\ led[S] # << >>
    BY <1>1, <1>2, LedTypes DEF In
  <1>5. CASE T <= S
    <2>1. In(led, S, k, t)  BY <1>3, <1>4, <1>5, CommittedIn
    <2> QED BY <1>2, <2>1 DEF In
  <1>6. CASE S <= T
    <2>1. In(led, T, k, r)  BY <1>3, <1>4, <1>6, CommittedIn
    <2> QED BY <1>1, <2>1 DEF In
  <1> QED BY <1>5, <1>6

-----------------------------------------------------------------------------
(* What an object has committed after a step.                              *)

\* n was in shape, and m still has what n had committed.
Ready(led, held, n, m) ==
  /\ Tree(led) /\ n \in RaftObject /\ m \in RaftObject /\ FromLed(led, m) /\ Within(n)
  /\ Kept(led, held, n.commitIndex, m) /\ QueueAt(led, held, m.currentTerm, n.applyQueue)

\* A log that has a committed entry has only committed ones before it.
LEMMA KeptBefore ==
  ASSUME NEW led, NEW held, Tree(led), NEW m \in RaftObject, FromLed(led, m),
         NEW c \in Nat, Kept(led, held, c, m), NEW j \in 1 .. c
  PROVE  \E t \in Nat : Has(led, m, j, t) /\ CommittedAt(led, held, m.currentTerm, j, t)
  <1>1. PICK t \in Nat : Has(led, m, c, t) /\ CommittedAt(led, held, m.currentTerm, c, t)
    BY DEF Kept
  <1>2. PICK W \in Nat : W = GetLastLogTerm(m)  BY FromLedTypes
  <1>3. /\ m.currentTerm \in Nat /\ GetLastLogIndex(m) \in Nat
        /\ GetLastLogIndex(m) <= Len(led[W]) /\ Len(led[W]) \in Nat
    BY <1>2, FromLedTypes
  <1>4. In(led, W, c, t) /\ c <= GetLastLogIndex(m)  BY <1>1, <1>2, HasIn
  <1>5. CommittedAt(led, held, m.currentTerm, j, led[W][j])  BY <1>1, <1>3, <1>4, CommittedBefore
  <1>6. j \in 1 .. GetLastLogIndex(m) /\ j \in 1 .. Len(led[W])  BY <1>3, <1>4
  <1>7. led[W][j] \in Nat  BY <1>6, LedTypes
  <1> QED BY <1>2, <1>5, <1>6, <1>7 DEF Has

\* What getLogTermFromIndex finds below the commit index is committed.
LEMMA TermCommitted ==
  ASSUME NEW led, NEW held, Tree(led), NEW m \in RaftObject, FromLed(led, m),
         NEW c \in Nat, Kept(led, held, c, m), NEW j \in 1 .. c, IsLogIndex(m, j)
  PROVE  CommittedAt(led, held, m.currentTerm, j, GetLogTermFromIndex(m, j))
  <1>1. PICK t \in Nat : Has(led, m, j, t) /\ CommittedAt(led, held, m.currentTerm, j, t)
    BY KeptBefore
  <1>2. j \in Nat /\ j > 0  OBVIOUS
  <1>3. Has(led, m, j, GetLogTermFromIndex(m, j))  BY <1>2, TermInLog
  <1> QED BY <1>1, <1>3 DEF Has

\* A step that commits nothing.
LEMMA SameCommitShape ==
  ASSUME NEW led, NEW held, NEW n, NEW m, Ready(led, held, n, m), SameCommit(n, m),
         m.lastIncludeSnapshotIndex = n.lastIncludeSnapshotIndex
  PROVE  Shape(led, held, m)
  <1>1. /\ n.commitIndex \in Nat /\ GetLastLogIndex(m) \in Nat /\ m.lastIncludeSnapshotIndex \in Nat
        /\ m.lastIncludeSnapshotIndex <= GetLastLogIndex(m)
    BY FieldTypes, FromLedTypes DEF Ready
  <1>2. n.commitIndex <= GetLastLogIndex(m)
    BY <1>1 DEF Ready, Kept, Has
  <1> QED BY <1>2 DEF Ready, SameCommit, Shape, Within

\* A step that commits up to an entry that is committed, and hands over the commands.
LEMMA AppliesShape ==
  ASSUME NEW led, NEW held, NEW n, NEW m, Ready(led, held, n, m),
         m.lastIncludeSnapshotIndex = n.lastIncludeSnapshotIndex,
         n.commitIndex < m.commitIndex, Kept(led, held, m.commitIndex, m),
         m.lastApplied = Larger(n.lastApplied, m.commitIndex),
         \A k \in 1 .. Len(m.applyQueue) :
           \/ k <= Len(n.applyQueue) /\ m.applyQueue[k] = n.applyQueue[k]
           \/ \E i \in n.lastApplied + 1 .. m.commitIndex : m.applyQueue[k] = Command(m, i)
  PROVE  Shape(led, held, m)
  <1>1. /\ n.commitIndex \in Nat /\ m.commitIndex \in Nat /\ n.lastApplied \in Nat
        /\ GetLastLogIndex(m) \in Nat /\ m.lastIncludeSnapshotIndex \in Nat
    BY FieldTypes, FromLedTypes DEF Ready
  <1>2. m.commitIndex <= GetLastLogIndex(m)  BY <1>1 DEF Kept, Has
  <1>3. Within(m)  BY <1>1, <1>2 DEF Ready, Within, Larger
  <1>4. ASSUME NEW k \in 1 .. Len(m.applyQueue)
        PROVE  CommittedAt(led, held, m.currentTerm, m.applyQueue[k].index, m.applyQueue[k].term)
    <2>1. CASE k <= Len(n.applyQueue) /\ m.applyQueue[k] = n.applyQueue[k]
      <3>1. k \in 1 .. Len(n.applyQueue)  BY <2>1
      <3> QED BY <2>1, <3>1 DEF Ready, QueueAt
    <2>2. ASSUME NEW i \in n.lastApplied + 1 .. m.commitIndex, m.applyQueue[k] = Command(m, i)
          PROVE  CommittedAt(led, held, m.currentTerm, m.applyQueue[k].index, m.applyQueue[k].term)
      <3>1. i \in 1 .. m.commitIndex  BY <1>1
      <3>2. IsLogIndex(m, i)  BY <1>1, <1>2 DEF Ready, Within, IsLogIndex
      <3>3. CommittedAt(led, held, m.currentTerm, i, GetLogTermFromIndex(m, i))
        BY <1>1, <3>1, <3>2, TermCommitted DEF Ready
      <3> QED BY <2>2, <3>3 DEF Command
    <2> QED BY <2>1, <2>2
  <1> QED BY <1>3, <1>4 DEF Shape, QueueAt

\* A step that takes over a committed snapshot.
LEMMA InstallsShape ==
  ASSUME NEW led, NEW held, NEW n, NEW m, Ready(led, held, n, m),
         NEW q \in InstallSnapshotArgs, Installs(n, m, q), CommitFits(led, held, q)
  PROVE  Shape(led, held, m)
  <1> DEFINE index == q.lastSnapshotIncludeIndex
             term  == q.lastSnapshotIncludeTerm
  <1>1. /\ n.commitIndex \in Nat /\ m.commitIndex \in Nat /\ n.lastApplied \in Nat
        /\ GetLastLogIndex(m) \in Nat /\ m.lastIncludeSnapshotIndex \in Nat
        /\ m.lastIncludeSnapshotIndex <= GetLastLogIndex(m)
        /\ n.lastIncludeSnapshotIndex \in Nat
        /\ n.applyQueue \in Seq(ApplyMsg)
    BY FieldTypes, FromLedTypes DEF Ready
  <1>2. /\ m.lastIncludeSnapshotIndex = index /\ m.lastIncludeSnapshotTerm = term
        /\ m.commitIndex = Larger(n.commitIndex, index) /\ index > n.lastIncludeSnapshotIndex
        /\ m.lastApplied = Larger(n.lastApplied, index)
        /\ m.applyQueue = Append(n.applyQueue, [ snapshot |-> TRUE, index |-> index, term |-> term ])
        /\ m.currentTerm = q.term
    BY DEF Installs, Follows
  <1>3. CommittedAt(led, held, m.currentTerm, index, term)
    BY <1>2 DEF CommitFits, InstallSnapshotArgs
  <1>4. Has(led, m, index, term)
    <2>1. IsLogIndex(m, index) /\ index > 0 /\ index \in Nat  BY <1>1, <1>2 DEF IsLogIndex
    <2>2. GetLogTermFromIndex(m, index) = term  BY <1>2 DEF GetLogTermFromIndex
    <2>3. Has(led, m, index, GetLogTermFromIndex(m, index))  BY <2>1, TermInLog DEF Ready
    <2> QED BY <2>2, <2>3
  <1>5. term \in Nat  BY DEF InstallSnapshotArgs
  <1> HIDE DEF index, term
  <1>6. Kept(led, held, m.commitIndex, m)
    <2>1. CASE m.commitIndex = n.commitIndex  BY <2>1 DEF Ready
    <2>2. CASE m.commitIndex = index  BY <1>3, <1>4, <1>5, <2>2 DEF Kept
    <2> QED BY <1>2, <2>1, <2>2 DEF Larger
  <1>7. m.commitIndex <= GetLastLogIndex(m)  BY <1>1, <1>6 DEF Kept, Has
  <1>8. Within(m)  BY <1>1, <1>2, <1>7 DEF Ready, Within, Larger
  <1>9. QueueAt(led, held, m.currentTerm, m.applyQueue)
    <2> SUFFICES ASSUME NEW k \in 1 .. Len(m.applyQueue)
                 PROVE  CommittedAt(led, held, m.currentTerm, m.applyQueue[k].index,
                                    m.applyQueue[k].term)
      BY DEF QueueAt
    <2>1. /\ Len(m.applyQueue) = Len(n.applyQueue) + 1 /\ Len(n.applyQueue) \in Nat
          /\ m.applyQueue[Len(n.applyQueue) + 1]
               = [ snapshot |-> TRUE, index |-> index, term |-> term ]
          /\ \A j \in 1 .. Len(n.applyQueue) : m.applyQueue[j] = n.applyQueue[j]
      BY <1>1, <1>2
    <2>2. CASE k \in 1 .. Len(n.applyQueue)  BY <2>1, <2>2 DEF Ready, QueueAt
    <2>3. CASE k = Len(n.applyQueue) + 1  BY <1>3, <2>1, <2>3
    <2> QED BY <2>1, <2>2, <2>3
  <1> QED BY <1>6, <1>8, <1>9 DEF Shape

\* The state machine's snapshot.
LEMMA CompactsShape ==
  ASSUME NEW led, NEW held, NEW n, NEW m, Ready(led, held, n, m),
         NEW i \in n.lastIncludeSnapshotIndex + 1 .. n.commitIndex, Compacts(n, m, i)
  PROVE  Shape(led, held, m)
  <1>1. /\ n.commitIndex \in Nat /\ GetLastLogIndex(m) \in Nat
        /\ n.lastIncludeSnapshotIndex \in Nat
        /\ n.lastIncludeSnapshotIndex <= n.commitIndex /\ n.lastApplied = n.commitIndex
    BY FieldTypes, FromLedTypes DEF Ready, Within
  <1>2. /\ m.lastIncludeSnapshotIndex = i /\ m.commitIndex = n.commitIndex
        /\ m.lastApplied = Larger(n.lastApplied, i) /\ m.applyQueue = n.applyQueue
    BY DEF Compacts
  <1>3. i \in Nat /\ i <= n.commitIndex  BY <1>1
  <1>4. m.lastApplied = n.commitIndex  BY <1>1, <1>2, <1>3 DEF Larger
  <1>5. m.commitIndex <= GetLastLogIndex(m)
    BY <1>1, <1>2, <1>3 DEF Ready, Kept, Has
  <1> QED BY <1>2, <1>3, <1>4, <1>5 DEF Ready, Shape, Within

\* After a restart what is committed is what the snapshot has.
LEMMA RestartsShape ==
  ASSUME NEW led, NEW held, NEW n, NEW m, Ready(led, held, n, m), Restarts(n, m)
  PROVE  Shape(led, held, m)
  <1>1. /\ n.commitIndex \in Nat /\ GetLastLogIndex(m) \in Nat
        /\ m.lastIncludeSnapshotIndex \in Nat
        /\ m.lastIncludeSnapshotIndex <= GetLastLogIndex(m)
        /\ n.lastIncludeSnapshotIndex <= n.commitIndex
    BY FieldTypes, FromLedTypes DEF Ready, Within
  <1>2. /\ m.lastIncludeSnapshotIndex = n.lastIncludeSnapshotIndex
        /\ m.commitIndex = n.lastIncludeSnapshotIndex /\ m.lastApplied = n.lastIncludeSnapshotIndex
        /\ m.applyQueue = << >>
    BY DEF Restarts, SameLog
  <1>3. Within(m)  BY <1>1, <1>2 DEF Within
  <1>4. Kept(led, held, m.commitIndex, m)
    <2>1. CASE m.commitIndex > 0
      <3>1. m.commitIndex \in 1 .. n.commitIndex  BY <1>1, <1>2, <2>1
      <3> QED BY <1>1, <3>1, KeptBefore DEF Ready, Kept
    <2> QED BY <2>1 DEF Kept
  <1>5. QueueAt(led, held, m.currentTerm, m.applyQueue)  BY <1>2 DEF QueueAt
  <1> QED BY <1>3, <1>4, <1>5 DEF Shape

-----------------------------------------------------------------------------
(* What a leader commits.                                                  *)

\* Who holds an entry holds what its leader had of the term before it.
HeldDown(led, held) ==
  \A T \in Nat : \A v \in Server : \A i \in Nat : << T, v, i >> \in held =>
    \A j \in 1 .. i : In(led, T, j, T) => << T, v, j >> \in held

\* An entry of its term that a quorum is counted to have, a quorum held.
LEMMA CommittableCommitted ==
  ASSUME NEW led, NEW held, HeldDown(led, held), NEW a \in RaftObject, a.status = Leader,
         Within(a), Credited(held, a), NEW i \in Committable(a),
         In(led, a.currentTerm, i, a.currentTerm), << a.currentTerm, a.id, i >> \in held
  PROVE  Committed(led, held, a.currentTerm, i)
  <1>1. /\ a.commitIndex \in Nat /\ a.currentTerm \in Nat /\ a.id \in Server
        /\ a.lastIncludeSnapshotIndex \in Nat /\ a.matchIndex \in [ Server -> Nat ]
        /\ GetLastLogIndex(a) \in Nat
    BY FieldTypes, LogTypes
  <1>2. /\ i \in a.commitIndex + 1 .. GetLastLogIndex(a)
        /\ Cardinality(Replicated(a, i)) >= QuorumSize
    BY DEF Committable
  <1>3. i \in Nat /\ i > a.commitIndex /\ i > 0  BY <1>1, <1>2
  <1>4. Replicated(a, i) \subseteq Server  BY <1>1 DEF Replicated, PeersOf
  <1>5. Replicated(a, i) \in Quorums  BY <1>2, <1>4 DEF Quorums
  <1>6. ASSUME NEW v \in Replicated(a, i)  PROVE << a.currentTerm, v, i >> \in held
    <2>1. CASE v = a.id  BY <2>1
    <2>2. CASE v \in PeersOf(a.id) /\ a.matchIndex[v] >= i
      <3>1. v \in Server /\ a.matchIndex[v] \in Nat  BY <1>1, <2>2 DEF PeersOf
      <3>2. a.matchIndex[v] > a.lastIncludeSnapshotIndex
        BY <1>1, <1>3, <2>2, <3>1 DEF Within
      <3>3. << a.currentTerm, v, a.matchIndex[v] >> \in held  BY <2>2, <3>2 DEF Credited
      <3>4. i \in 1 .. a.matchIndex[v]  BY <1>3, <2>2, <3>1
      <3> QED BY <1>1, <3>1, <3>3, <3>4 DEF HeldDown
    <2> QED BY <2>1, <2>2 DEF Replicated
  <1> QED BY <1>5, <1>6 DEF Committed

\* m has committed what n has, or more: as a leader, up to an entry of its term that
\* a quorum held.
CommitsOwn(led, held, n, m) ==
  \/ m.commitIndex = n.commitIndex
  \/ /\ n.status = Leader /\ n.commitIndex < m.commitIndex
     /\ Committed(led, held, n.currentTerm, m.commitIndex)

\* The leader a commits an entry that counts: what it then has applied is in shape.
LEMMA CommitsShape ==
  ASSUME NEW led, NEW held, HeldDown(led, held), NEW n, NEW m, Ready(led, held, n, m),
         NEW a \in RaftObject, NEW u \in RaftObject,
         a.status = Leader, Credited(held, a), SameCommit(n, a),
         a.lastIncludeSnapshotIndex = n.lastIncludeSnapshotIndex, a.currentTerm <= m.currentTerm,
         GetLastLogIndex(n) <= GetLastLogIndex(a),
         \A i \in 1 .. GetLastLogIndex(a) :
           Has(led, m, i, a.currentTerm) => << a.currentTerm, a.id, i >> \in held,
         Applies(a, u), u.commitIndex \in Committable(a), SameLog(u, m), SameCommit(u, m)
  PROVE  /\ Shape(led, held, m) /\ n.commitIndex < m.commitIndex
         /\ Committed(led, held, a.currentTerm, m.commitIndex)
  <1> DEFINE c == u.commitIndex
             T == a.currentTerm
  <1>1. /\ a.commitIndex \in Nat /\ T \in Nat /\ m.currentTerm \in Nat
        /\ a.lastIncludeSnapshotIndex \in Nat /\ GetLastLogIndex(a) \in Nat
        /\ GetLastLogIndex(n) \in Nat
    BY FieldTypes, LogTypes DEF Ready
  <1>2. SameLog(a, m)  BY DEF Applies, SameLog
  <1>3. /\ GetLastLogIndex(m) = GetLastLogIndex(a)
        /\ \A i : GetLogTermFromIndex(m, i) = GetLogTermFromIndex(a, i)
        /\ \A i : IsLogIndex(m, i) = IsLogIndex(a, i)
    BY <1>2, IdleLog
  <1>4. Within(a)  BY <1>1 DEF Ready, Within, SameCommit
  <1>5. /\ c \in a.commitIndex + 1 .. GetLastLogIndex(a)
        /\ GetLogTermFromIndex(a, c) = T
    BY DEF Committable
  <1>6. c \in Nat /\ c > 0 /\ c > a.commitIndex /\ c \in 1 .. GetLastLogIndex(a)
    BY <1>1, <1>5
  <1>7. IsLogIndex(m, c)  BY <1>1, <1>3, <1>4, <1>5, <1>6 DEF IsLogIndex, Within
  <1>8. Has(led, m, c, T)  BY <1>3, <1>5, <1>6, <1>7, TermInLog DEF Ready
  <1>9. In(led, T, c, T)
    <2>1. PICK W \in Nat : W = GetLastLogTerm(m)  BY FromLedTypes DEF Ready
    <2>2. In(led, W, c, T)  BY <1>8, <2>1, HasIn DEF Ready
    <2> QED BY <2>1, <2>2, InLed DEF Ready
  <1>10. << T, a.id, c >> \in held  BY <1>6, <1>8
  <1>11. Committed(led, held, T, c)  BY <1>4, <1>9, <1>10, CommittableCommitted
  <1>12. CommittedAt(led, held, m.currentTerm, c, T)
    <2>1. c \in 1 .. c  BY <1>6
    <2> QED BY <1>1, <1>6, <1>9, <1>11, <2>1 DEF CommittedAt
  <1>13. Kept(led, held, c, m)  BY <1>1, <1>8, <1>12 DEF Kept
  <1>14. /\ m.commitIndex = c /\ n.commitIndex < c /\ m.applyQueue = u.applyQueue
         /\ m.lastApplied = Larger(n.lastApplied, c) /\ a.applyQueue = n.applyQueue
         /\ m.lastIncludeSnapshotIndex = n.lastIncludeSnapshotIndex
         /\ a.lastApplied = n.lastApplied
    BY <1>2, <1>6 DEF SameCommit, Applies, SameLog
  <1>15. \A k \in 1 .. Len(m.applyQueue) :
           \/ k <= Len(n.applyQueue) /\ m.applyQueue[k] = n.applyQueue[k]
           \/ \E i \in n.lastApplied + 1 .. c : m.applyQueue[k] = Command(m, i)
    <2>1. \A i : Command(a, i) = Command(m, i)  BY <1>3 DEF Command
    <2> QED BY <1>14, <2>1 DEF Applies
  <1>16. n.commitIndex < m.commitIndex /\ Committed(led, held, a.currentTerm, m.commitIndex)
    BY <1>11, <1>14
  <1> HIDE DEF c, T
  <1> QED BY <1>13, <1>14, <1>15, <1>16, AppliesShape

\* A peer that is counted as holding what it held is rightly counted.
LEMMA CreditsCredited ==
  ASSUME NEW held, NEW n \in RaftObject, NEW a \in RaftObject, NEW p \in Server, NEW i \in Nat,
         Credited(held, n), Credits(n, a, p, i),
         i > n.lastIncludeSnapshotIndex => << n.currentTerm, p, i >> \in held
  PROVE  Credited(held, a)
  <1> SUFFICES ASSUME a.status = Leader, NEW x \in PeersOf(a.id),
                      a.matchIndex[x] > a.lastIncludeSnapshotIndex
               PROVE  << a.currentTerm, x, a.matchIndex[x] >> \in held
    BY DEF Credited
  <1>1. /\ a.id = n.id /\ a.status = n.status /\ a.currentTerm = n.currentTerm
        /\ a.lastIncludeSnapshotIndex = n.lastIncludeSnapshotIndex
        /\ a.matchIndex = [ n.matchIndex EXCEPT ![p] = Larger(n.matchIndex[p], i) ]
    BY DEF Credits, SameLog
  <1>2. n.matchIndex \in [ Server -> Nat ] /\ x \in Server  BY FieldTypes DEF PeersOf
  <1>3. CASE a.matchIndex[x] = n.matchIndex[x]  BY <1>1, <1>3 DEF Credited
  <1>4. CASE x = p /\ a.matchIndex[x] = i  BY <1>1, <1>4
  <1> QED BY <1>1, <1>2, <1>3, <1>4 DEF Larger

-----------------------------------------------------------------------------
(* A step of the cluster.                                                  *)

\* A step from the invariants, with the histories it leads to.
Deciding(s, led, held, led2, h2) ==
  /\ Recording(s, led, held, led2, h2) /\ CommitInv(led, held) /\ Overtaken = {}

\* What deciding says of histories.
LEMMA DecidingFacts ==
  ASSUME NEW s \in Server, NEW led, NEW held, NEW led2, NEW h2, Deciding(s, led, held, led2, h2)
  PROVE  /\ Recording(s, led, held, led2, h2) /\ Stepping(s)
         /\ Tree(led) /\ Tree(led2) /\ Grows(led, led2) /\ held \subseteq h2
         /\ Ruling(led, held) /\ HeldDown(led2, h2)
         /\ RequestsFit(led) /\ HeldRecorded(led, held)
         /\ \A x \in Server : /\ FromLed(led, raft[x]) /\ FromLed(led2, raft[x])
                              /\ FromLed(led2, raft'[x]) /\ OwnLog(led2, raft'[x])
  <1>1. Recording(s, led, held, led2, h2) /\ LogInv(led, held)  BY DEF Deciding, Recording
  <1>2. /\ Stepping(s) /\ Tree(led) /\ Tree(led2) /\ Grows(led, led2)
        /\ \A x \in Server : /\ FromLed(led, raft[x])
                             /\ FromLed(led2, raft'[x]) /\ OwnLog(led2, raft'[x])
        /\ RequestsFit(led)
    BY <1>1, RecordingFacts
  <1>3. held \subseteq h2
    <2>1. held \subseteq Nat \X Server \X Nat  BY <1>1 DEF LogInv, HeldSound
    <2> SUFFICES ASSUME NEW h \in held PROVE h \in h2  OBVIOUS
    <2>2. h = << h[1], h[2], h[3] >>  BY <2>1
    <2>3. << h[1], h[2], h[3] >> \in h2  BY <1>1, <2>2 DEF Recording, Records
    <2> QED BY <2>2, <2>3
  <1>4. Ruling(led, held)  BY <1>1, LogInvRules
  <1>5. HeldDown(led2, h2)
    <2>1. HeldSound(led2, h2)'  BY <1>1, HeldSoundStep
    <2> QED BY <2>1 DEF HeldSound, HeldDown
  <1>6. \A x \in Server : FromLed(led2, raft[x])
    <2>1. \A x \in Server : raft[x] \in RaftObject  BY <1>2, StepTypes
    <2> QED BY <1>2, <2>1, FromGrows
  <1> QED BY <1>1, <1>2, <1>3, <1>4, <1>5, <1>6 DEF LogInv

\* What a server has committed it has before the step and after it: a newer
\* leader that takes away entries has it.
LEMMA CommittedHeld ==
  ASSUME NEW s \in Server, NEW led, NEW held, NEW led2, NEW h2, Deciding(s, led, held, led2, h2),
         NEW x \in Server, raft[x].commitIndex > 0
  PROVE  \E t \in Nat :
           /\ Has(led2, raft[x], raft[x].commitIndex, t)
           /\ Has(led2, raft'[x], raft[x].commitIndex, t)
           /\ CommittedAt(led2, h2, raft'[x].currentTerm, raft[x].commitIndex, t)
  <1>0. /\ Recording(s, led, held, led2, h2) /\ Stepping(s)
        /\ Tree(led) /\ Tree(led2) /\ Grows(led, led2) /\ held \subseteq h2 /\ Ruling(led, held)
        /\ FromLed(led, raft[x])
    BY DecidingFacts
  <1>1. /\ raft[x] \in RaftObject
        /\ raft[x].currentTerm \in Nat /\ raft'[x].currentTerm \in Nat
        /\ raft[x].currentTerm <= raft'[x].currentTerm
    BY <1>0, StepTypes
  <1>2. Shape(led, held, raft[x])  BY DEF Deciding, CommitInv
  <1> PICK n, m, U, W, c :
        /\ n = raft[x] /\ m = raft'[x] /\ U = n.currentTerm /\ W = m.currentTerm
        /\ c = n.commitIndex
    OBVIOUS
  <1>3. U \in Nat /\ W \in Nat /\ U <= W /\ c \in Nat /\ n \in RaftObject
    BY <1>1, FieldTypes
  <1>4. PICK t \in Nat : Has(led, n, c, t) /\ CommittedAt(led, held, U, c, t)
    BY <1>2 DEF Shape, Kept
  <1>5. Has(led2, m, c, t) \/ Loses(led, m, c, t)
    BY <1>0, <1>3, <1>4 DEF Recording, LogsMove
  <1>6. led[W] # << >> => In(led, W, c, t)  BY <1>0, <1>3, <1>4, CommittedIn
  <1>7. ~Loses(led, m, c, t)  BY <1>6 DEF Loses
  <1>8. CommittedAt(led2, h2, W, c, t)  BY <1>0, <1>3, <1>4, CommittedGrows
  <1>9. Has(led2, n, c, t)  BY <1>0, <1>3, <1>4, FromGrows
  <1> QED BY <1>4, <1>5, <1>7, <1>8, <1>9

\* So it is ready for what the step does.
LEMMA CommitStays ==
  ASSUME NEW s \in Server, NEW led, NEW held, NEW led2, NEW h2, Deciding(s, led, held, led2, h2),
         NEW x \in Server
  PROVE  Ready(led2, h2, raft[x], raft'[x])
  <1>0. /\ Recording(s, led, held, led2, h2) /\ Stepping(s)
        /\ Tree(led) /\ Tree(led2) /\ Grows(led, led2) /\ held \subseteq h2 /\ Ruling(led, held)
        /\ FromLed(led, raft[x]) /\ FromLed(led2, raft'[x])
    BY DecidingFacts
  <1>1. /\ raft[x] \in RaftObject /\ raft'[x] \in RaftObject
        /\ raft[x].currentTerm \in Nat /\ raft'[x].currentTerm \in Nat
        /\ raft[x].currentTerm <= raft'[x].currentTerm
    BY <1>0, StepTypes
  <1>2. Shape(led, held, raft[x])  BY DEF Deciding, CommitInv
  <1> PICK n, m, U, W, c :
        /\ n = raft[x] /\ m = raft'[x] /\ U = n.currentTerm /\ W = m.currentTerm
        /\ c = n.commitIndex
    OBVIOUS
  <1>3. /\ U \in Nat /\ W \in Nat /\ U <= W /\ c \in Nat /\ m \in RaftObject /\ n \in RaftObject
    BY <1>1, FieldTypes
  <1>4. Kept(led2, h2, c, m)  BY CommittedHeld DEF Kept
  <1>5. QueueAt(led2, h2, W, n.applyQueue)
    <2>1. \A k \in 1 .. Len(n.applyQueue) :
            CommittedAt(led, held, U, n.applyQueue[k].index, n.applyQueue[k].term)
      BY <1>2 DEF Shape, QueueAt
    <2> QED BY <1>0, <1>3, <2>1, CommittedGrows DEF QueueAt
  <1> QED BY <1>0, <1>2, <1>3, <1>4, <1>5 DEF Ready, Shape

\* It still is when a call has ended and it has not yet acted.
LEMMA SettledReady ==
  ASSUME NEW s \in Server, NEW led, NEW held, NEW led2, NEW h2, Deciding(s, led, held, led2, h2),
         NEW n, Settled(s, n)
  PROVE  /\ Ready(led2, h2, n, raft'[s]) /\ Credited(held, n) /\ FromLed(led2, n)
         /\ n \in RaftObject /\ n.id = s /\ n.currentTerm = raft[s].currentTerm
         /\ SameLog(raft[s], n) /\ n.currentTerm \in Nat /\ raft'[s].currentTerm \in Nat
         /\ n.currentTerm <= raft'[s].currentTerm
  <1>0. Stepping(s) /\ Tree(led2) /\ FromLed(led2, raft[s])  BY DecidingFacts
  <1>1. Ready(led2, h2, raft[s], raft'[s])  BY CommitStays
  <1>2. /\ raft[s] \in RaftObject /\ raft'[s] \in RaftObject /\ raft[s].id = s
        /\ raft[s].currentTerm \in Nat /\ raft'[s].currentTerm \in Nat
        /\ raft[s].currentTerm <= raft'[s].currentTerm
    BY <1>0, StepTypes
  <1>3. Credited(held, raft[s])  BY DEF Deciding, CommitInv
  <1> PICK k, m : k = raft[s] /\ m = raft'[s]  OBVIOUS
  <1>4. /\ n \in RaftObject /\ n.id = k.id /\ SameLog(k, n) /\ SameCommit(k, n)
        /\ n.currentTerm = k.currentTerm /\ n.status = k.status /\ n.matchIndex = k.matchIndex
    BY DEF Settled, Idle, SameProgress, SameDisk, SameRole, Sound
  <1>5. Within(n)
    BY <1>1, <1>4, IdleLog DEF Ready, Within, SameCommit, SameLog
  <1>6. Ready(led2, h2, n, m)  BY <1>1, <1>4, <1>5 DEF Ready, SameCommit
  <1>7. Credited(held, n)  BY <1>3, <1>4 DEF Credited, SameLog
  <1>8. FromLed(led2, n)
    <2>1. FromLed(led2, k) /\ k \in RaftObject  BY <1>0, <1>2
    <2>2. GetLastLogTerm(k) \in Nat  BY <1>0, <2>1, FromLedTypes
    <2> QED BY <1>2, <1>4, <2>1, <2>2, SameDiskLog
  <1> QED BY <1>2, <1>4, <1>6, <1>7, <1>8

\* A request that was right about commits stays so.
LEMMA CommitFitsGrows ==
  ASSUME NEW led, NEW led2, Tree(led), Tree(led2), Grows(led, led2), NEW held, NEW h2,
         held \subseteq h2, NEW q \in Request, Fits(led, q), CommitFits(led, held, q)
  PROVE  CommitFits(led2, h2, q)
  <1>1. q.term \in Nat
    BY DEF Request, PreVoteArgs, RequestVoteArgs, AppendEntriesArgs, ReadHeartBeatArgs,
           InstallSnapshotArgs
  <1>2. ASSUME q.kind = "AppendEntries", q.leaderCommit > 0
        PROVE  /\ q.leaderCommit <= LastEntryOf(q)
               /\ CommittedAt(led2, h2, q.term, q.leaderCommit, led2[q.term][q.leaderCommit])
    <2> DEFINE c == q.leaderCommit
    <2>1. c \in Nat
      BY <1>2 DEF Request, PreVoteArgs, RequestVoteArgs, AppendEntriesArgs, ReadHeartBeatArgs,
                  InstallSnapshotArgs
    <2>2. c <= LastEntryOf(q) /\ CommittedAt(led, held, q.term, c, led[q.term][c])
      BY <1>2 DEF CommitFits
    <2>3. LastEntryOf(q) \in 1 .. Len(led[q.term])
      BY <1>2 DEF Fits, In, LastEntryOf
    <2>4. Len(led[q.term]) \in Nat  BY <1>1, LedTypes
    <2>5. c \in 1 .. Len(led[q.term])  BY <1>2, <2>1, <2>2, <2>3, <2>4
    <2>6. led2[q.term][c] = led[q.term][c]  BY <1>1, <2>5 DEF Grows
    <2>7. q.term <= q.term  BY <1>1
    <2>8. CommittedAt(led2, h2, q.term, c, led[q.term][c])
      BY <1>1, <2>2, <2>7, CommittedGrows
    <2> QED BY <2>2, <2>6, <2>8
  <1>3. ASSUME q.kind = "InstallSnapshot"
        PROVE  CommittedAt(led2, h2, q.term, q.lastSnapshotIncludeIndex, q.lastSnapshotIncludeTerm)
    <2>1. q.term <= q.term  BY <1>1
    <2> QED BY <1>1, <1>3, <2>1, CommittedGrows DEF CommitFits
  <1> QED BY <1>2, <1>3 DEF CommitFits

\* A server that takes entries, and their commit index, from the leader.
LEMMA StoresShape ==
  ASSUME NEW led, NEW held, NEW n, NEW m, Ready(led, held, n, m), FromLed(led, n),
         NEW q \in AppendEntriesArgs, Fits(led, q), CommitFits(led, held, q),
         Stores(n, m, q), n.currentTerm <= m.currentTerm
  PROVE  Shape(led, held, m)
  <1>1. m.lastIncludeSnapshotIndex = n.lastIncludeSnapshotIndex /\ m.currentTerm = q.term
    BY DEF Stores, Follows
  <1>2. CASE SameCommit(n, m)  BY <1>1, <1>2, SameCommitShape
  <1>3. CASE /\ q.leaderCommit > n.commitIndex
             /\ m.commitIndex = Smaller(GetLastLogIndex(m), q.leaderCommit)
             /\ m.lastApplied = Larger(n.lastApplied, m.commitIndex)
             /\ \A k \in 1 .. Len(m.applyQueue) :
                  \/ k <= Len(n.applyQueue) /\ m.applyQueue[k] = n.applyQueue[k]
                  \/ \E i \in n.lastApplied + 1 .. m.commitIndex : m.applyQueue[k] = Command(m, i)
    <2> PICK c, e : c = q.leaderCommit /\ e = LastEntryOf(q)  OBVIOUS
    <2>0. /\ n \in RaftObject /\ m \in RaftObject /\ Tree(led) /\ FromLed(led, m)
      BY DEF Ready
    <2>1. /\ c \in Nat /\ q.term \in Nat /\ q.kind = "AppendEntries" /\ n.commitIndex \in Nat
      BY <2>0, FieldTypes DEF AppendEntriesArgs
    <2>2. c > 0 /\ c <= e /\ CommittedAt(led, held, q.term, c, led[q.term][c])
      BY <1>3, <2>1 DEF CommitFits
    <2>3. In(led, q.term, e, q.term)  BY <2>1 DEF Fits, LastEntryOf
    <2>4. Has(led, m, e, q.term)  BY <2>0, StoreFrom
    <2>5. PICK W \in Nat : W = GetLastLogTerm(m)  BY <2>0, FromLedTypes
    <2>6. /\ In(led, W, e, q.term) /\ e <= GetLastLogIndex(m) /\ e \in Nat
          /\ GetLastLogIndex(m) \in Nat
      BY <2>0, <2>4, <2>5, HasIn, FromLedTypes DEF Has
    <2>7. c \in 1 .. e  BY <2>1, <2>2, <2>6
    <2>8. led[q.term][c] = led[W][c] /\ c <= Len(led[W])  BY <2>0, <2>1, <2>3, <2>6, <2>7, LedAgree
    <2>9. m.commitIndex = c  BY <1>3, <2>1, <2>2, <2>6 DEF Smaller
    <2>10. c \in 1 .. GetLastLogIndex(m) /\ c \in 1 .. Len(led[W])
      BY <2>0, <2>6, <2>7, <2>8, LedTypes
    <2>11. led[W][c] \in Nat  BY <2>0, <2>10, LedTypes
    <2>12. Has(led, m, c, led[W][c])  BY <2>5, <2>10 DEF Has
    <2>13. Kept(led, held, m.commitIndex, m)
      BY <1>1, <2>2, <2>8, <2>9, <2>11, <2>12 DEF Kept
    <2>14. n.commitIndex < m.commitIndex  BY <1>3, <2>1, <2>9
    <2> QED BY <1>1, <1>3, <2>13, <2>14, AppliesShape
  <1> QED BY <1>2, <1>3 DEF Stores, Learns

\* What the leader is told that a peer has, the peer held.
LEMMA ToldHeld ==
  ASSUME NEW s \in Server, NEW led, NEW held, CommitInv(led, held),
         NEW n, n.currentTerm = raft[s].currentTerm, NEW p, NEW i, Told(s, n, p, i),
         n.lastIncludeSnapshotIndex \in Nat, i > n.lastIncludeSnapshotIndex
  PROVE  << n.currentTerm, p, i >> \in held
  <1>1. i # n.lastIncludeSnapshotIndex  OBVIOUS
  <1>2. PICK t \in raft[s].threadPool :
          /\ t.request.kind \in { "AppendEntries", "ReadHeartBeat" } /\ t.request.to = p
          /\ t.reply # Nil /\ t.reply.success /\ t.reply.readRound = 0
          /\ StillLeads(n, t.request) /\ i = LastEntryOf(t.request)
    BY <1>1 DEF Told
  <1> QED BY <1>2 DEF CommitInv, AnswerFits, StillLeads

\* A leader that counts an acknowledgement and may commit.
LEMMA AdvancesShape ==
  ASSUME NEW s \in Server, NEW led, NEW held, NEW led2, NEW h2, Deciding(s, led, held, led2, h2),
         NEW n, Settled(s, n), NEW p \in PeersOf(s), NEW i \in Nat, Told(s, n, p, i),
         Advances(n, raft'[s], p, i), NoNewLeader(n, raft'[s])
  PROVE  /\ Shape(led2, h2, raft'[s]) /\ Credited(h2, raft'[s])
         /\ CommitsOwn(led2, h2, n, raft'[s])
  <1>0. /\ Tree(led) /\ Tree(led2) /\ Grows(led, led2) /\ held \subseteq h2 /\ HeldDown(led2, h2)
        /\ HeldRecorded(led, held) /\ FromLed(led, raft[s]) /\ CommitInv(led, held)
        /\ FromLed(led2, raft[s]) /\ Stepping(s)
    BY DecidingFacts DEF Deciding
  <1>1. /\ Ready(led2, h2, n, raft'[s]) /\ Credited(held, n) /\ FromLed(led2, n)
        /\ n \in RaftObject /\ n.id = s /\ n.currentTerm = raft[s].currentTerm
        /\ SameLog(raft[s], n) /\ n.currentTerm \in Nat /\ raft'[s].currentTerm \in Nat
        /\ n.currentTerm <= raft'[s].currentTerm
    BY SettledReady
  <1>2. /\ raft[s] \in RaftObject /\ p \in Server /\ n.lastIncludeSnapshotIndex \in Nat
    BY <1>0, <1>1, StepTypes, FieldTypes DEF PeersOf
  <1>3. i > n.lastIncludeSnapshotIndex => << n.currentTerm, p, i >> \in h2
    BY <1>0, <1>1, <1>2, ToldHeld
  <1> PICK k, m : k = raft[s] /\ m = raft'[s]  OBVIOUS
  <1>4. PICK a, u \in RaftObject :
          /\ Sound(a) /\ n.status = Leader /\ Credits(n, a, p, i)
          /\ \/ u = a
             \/ Applies(a, u) /\ u.commitIndex \in Committable(a)
          /\ Sends(u, m)
    BY DEF Advances
  <1>5. Credited(h2, n)  BY <1>0, <1>1 DEF Credited
  <1>6. Credited(h2, a)  BY <1>1, <1>2, <1>3, <1>4, <1>5, CreditsCredited
  <1>7. /\ a.status = Leader /\ a.id = s /\ a.currentTerm = n.currentTerm /\ SameLog(n, a)
        /\ SameCommit(n, a) /\ a.lastIncludeSnapshotIndex = n.lastIncludeSnapshotIndex
    BY <1>1, <1>4 DEF Credits, SameLog
  <1>8. /\ SameLog(u, m) /\ SameCommit(u, m) /\ m.id = u.id /\ m.matchIndex = u.matchIndex
    BY <1>4 DEF Sends, SameProgress
  <1>9. SameLog(a, u) /\ u.matchIndex = a.matchIndex /\ u.id = a.id
    BY <1>4 DEF Applies, SameLog
  <1>10. Credited(h2, m)
    <2>1. m.status = Leader => m.currentTerm = n.currentTerm  BY DEF NoNewLeader
    <2> QED BY <1>6, <1>7, <1>8, <1>9, <2>1 DEF Credited, SameLog
  <1>11. Shape(led2, h2, m) /\ CommitsOwn(led2, h2, n, m)
    <2>1. CASE u = a
      <3>1. SameCommit(n, m) /\ m.lastIncludeSnapshotIndex = n.lastIncludeSnapshotIndex
        BY <1>7, <1>8, <2>1 DEF SameCommit, SameLog
      <3> QED BY <1>1, <3>1, SameCommitShape DEF SameCommit, CommitsOwn
    <2>2. CASE Applies(a, u) /\ u.commitIndex \in Committable(a)
      <3>1. SameLog(k, m)  BY <1>1, <1>7, <1>8, <1>9 DEF SameLog
      <3>2. \A j, T : Has(led2, m, j, T) <=> Has(led2, k, j, T)  BY <3>1, SameDiskLog
      <3>3. \A j, T : Has(led2, k, j, T) <=> Has(led, k, j, T)  BY <1>0, <1>2, FromGrows
      <3>4. \A j \in 1 .. GetLastLogIndex(a) :
              Has(led2, m, j, a.currentTerm) => << a.currentTerm, a.id, j >> \in h2
        <4> TAKE j \in 1 .. GetLastLogIndex(a)
        <4>1. j \in Nat  OBVIOUS
        <4>2. Has(led, raft[s], j, raft[s].currentTerm) => << raft[s].currentTerm, s, j >> \in held
          BY <1>0, <4>1 DEF HeldRecorded
        <4> QED BY <1>0, <1>1, <1>7, <3>2, <3>3, <4>2
      <3>5. GetLastLogIndex(n) <= GetLastLogIndex(a)
        <4>1. GetLastLogIndex(a) = GetLastLogIndex(n) /\ GetLastLogIndex(n) \in Nat
          BY <1>1, <1>7, IdleLog, LogTypes
        <4> QED BY <4>1
      <3>6. a.currentTerm <= m.currentTerm  BY <1>1, <1>7
      <3>7. /\ Shape(led2, h2, m) /\ n.commitIndex < m.commitIndex
            /\ Committed(led2, h2, a.currentTerm, m.commitIndex)
        BY <1>0, <1>1, <1>4, <1>6, <1>7, <1>8, <2>2, <3>4, <3>5, <3>6, CommitsShape
      <3> QED BY <1>4, <1>7, <3>7 DEF CommitsOwn
    <2> QED BY <1>4, <2>1, <2>2
  <1> QED BY <1>10, <1>11

\* A leader that takes a command and may commit.
LEMMA StartsShape ==
  ASSUME NEW s \in Server, NEW led, NEW held, NEW led2, NEW h2, Deciding(s, led, held, led2, h2),
         NEW n, Settled(s, n), Starts(n, raft'[s])
  PROVE  /\ Shape(led2, h2, raft'[s]) /\ Credited(h2, raft'[s])
         /\ CommitsOwn(led2, h2, n, raft'[s])
  <1>0. /\ Tree(led2) /\ held \subseteq h2 /\ HeldDown(led2, h2) /\ Recording(s, led, held, led2, h2)
    BY DecidingFacts
  <1>1. /\ Ready(led2, h2, n, raft'[s]) /\ Credited(held, n)
        /\ n \in RaftObject /\ n.id = s /\ n.currentTerm \in Nat /\ raft'[s].currentTerm \in Nat
    BY SettledReady
  <1> PICK m, T : m = raft'[s] /\ T = raft'[s].currentTerm  OBVIOUS
  <1>2. PICK a, u \in RaftObject :
          /\ Sound(a) /\ n.status = Leader /\ Appends(n, a)
          /\ a.matchIndex = n.matchIndex /\ a.threadPool = n.threadPool
          /\ \/ u = a
             \/ Applies(a, u) /\ u.commitIndex \in Committable(a)
          /\ Sends(u, m) /\ m.status = Leader /\ m.currentTerm = n.currentTerm
    BY DEF Starts
  <1>3. /\ a.status = Leader /\ a.id = s /\ a.currentTerm = T
        /\ SameCommit(n, a) /\ a.lastIncludeSnapshotIndex = n.lastIncludeSnapshotIndex
        /\ n.currentTerm = T /\ T \in Nat
    BY <1>1, <1>2 DEF Appends
  <1>4. Credited(h2, a)  BY <1>0, <1>1, <1>2, <1>3 DEF Credited
  <1>5. /\ SameLog(u, m) /\ SameCommit(u, m) /\ m.id = u.id /\ m.matchIndex = u.matchIndex
    BY <1>2 DEF Sends, SameProgress
  <1>6. SameLog(a, u) /\ u.matchIndex = a.matchIndex /\ u.id = a.id
    BY <1>2 DEF Applies, SameLog
  <1>7. Credited(h2, m)  BY <1>2, <1>3, <1>4, <1>5, <1>6 DEF Credited, SameLog
  <1>8. Shape(led2, h2, m) /\ CommitsOwn(led2, h2, n, m)
    <2>1. CASE u = a
      <3>1. SameCommit(n, m) /\ m.lastIncludeSnapshotIndex = n.lastIncludeSnapshotIndex
        BY <1>3, <1>5, <2>1 DEF SameCommit, SameLog
      <3> QED BY <1>1, <3>1, SameCommitShape DEF SameCommit, CommitsOwn
    <2>2. CASE Applies(a, u) /\ u.commitIndex \in Committable(a)
      <3>1. \A j \in 1 .. GetLastLogIndex(a) : Has(led2, m, j, T) => << T, s, j >> \in h2
        <4> TAKE j \in 1 .. GetLastLogIndex(a)
        <4>1. j \in Nat  OBVIOUS
        <4> QED BY <1>0, <4>1 DEF Recording, Records
      <3>2. GetLastLogIndex(n) <= GetLastLogIndex(a)
        <4>1. n.logs \in Seq(Nat) /\ n.lastIncludeSnapshotIndex \in Nat  BY <1>1, FieldTypes
        <4>2. a.logs = Append(n.logs, n.currentTerm)  BY <1>2 DEF Appends
        <4>3. Len(a.logs) = Len(n.logs) + 1 /\ Len(n.logs) \in Nat  BY <1>1, <4>1, <4>2
        <4> QED BY <1>3, <4>1, <4>3 DEF GetLastLogIndex
      <3>3. a.currentTerm <= m.currentTerm  BY <1>3
      <3>4. /\ Shape(led2, h2, m) /\ n.commitIndex < m.commitIndex
            /\ Committed(led2, h2, a.currentTerm, m.commitIndex)
        BY <1>0, <1>1, <1>2, <1>3, <1>4, <1>5, <2>2, <3>1, <3>2, <3>3, CommitsShape
      <3> QED BY <1>2, <1>3, <3>4 DEF CommitsOwn
    <2> QED BY <1>2, <2>1, <2>2
  <1> QED BY <1>7, <1>8

\* The requests that wait for s, as they fit the histories after the step.
LEMMA HandledCommits ==
  ASSUME NEW s \in Server, NEW led, NEW held, NEW led2, NEW h2, Deciding(s, led, held, led2, h2),
         NEW kind, NEW q \in Requests(kind, s)
  PROVE  /\ q \in Request /\ q.kind = kind
         /\ Fits(led2, q) /\ CommitFits(led2, h2, q)
  <1>0. /\ Tree(led) /\ Tree(led2) /\ Grows(led, led2) /\ held \subseteq h2
        /\ RequestsFit(led) /\ Stepping(s)
    BY DecidingFacts
  <1>1. q \in Request /\ q.kind = kind /\ Fits(led, q)  BY <1>0, HandledRequest
  <1>2. CommitFits(led, held, q)
    <2>1. CASE q \in late  BY <2>1 DEF Deciding, CommitInv
    <2>2. CASE q \notin late
      <3>1. PICK p \in Server : \E t \in raft[p].threadPool : t.request = q
        BY <2>2 DEF Requests
      <3> QED BY <3>1 DEF Deciding, CommitInv
    <2> QED BY <2>1, <2>2
  <1> QED BY <1>0, <1>1, <1>2, CommitFitsGrows, FitsGrows

\* What s has committed, and what it counts, after what it does.
LEMMA DeedShape ==
  ASSUME NEW s \in Server, NEW led, NEW held, NEW led2, NEW h2, Deciding(s, led, held, led2, h2),
         NEW n, Settled(s, n), Deed(s, n, raft'[s])
  PROVE  Shape(led2, h2, raft'[s]) /\ Credited(h2, raft'[s])
  <1>0. held \subseteq h2  BY DecidingFacts
  <1>1. /\ Ready(led2, h2, n, raft'[s]) /\ Credited(held, n) /\ FromLed(led2, n)
        /\ n \in RaftObject /\ n.id = s /\ n.currentTerm <= raft'[s].currentTerm
    BY SettledReady
  <1>2. Credited(h2, n)  BY <1>0, <1>1 DEF Credited
  <1> PICK m : m = raft'[s]  OBVIOUS
  <1>3. ASSUME m.status = Follower \/ m.status = Candidate  PROVE Credited(h2, m)
    BY <1>3 DEF Credited, Follower, Candidate, Leader
  <1>4. ASSUME m.matchIndex = [ p \in Server |-> 0 ]  PROVE Credited(h2, m)
    <2>1. m.lastIncludeSnapshotIndex \in Nat  BY <1>1, FieldTypes DEF Ready
    <2>2. \A p \in PeersOf(m.id) : ~(m.matchIndex[p] > m.lastIncludeSnapshotIndex)
      BY <1>4, <2>1 DEF PeersOf
    <2> QED BY <2>2 DEF Credited
  <1>5. ASSUME NoNewLeader(n, m), m.id = n.id, m.matchIndex = n.matchIndex,
               m.lastIncludeSnapshotIndex = n.lastIncludeSnapshotIndex
        PROVE  Credited(h2, m)
    BY <1>2, <1>5 DEF Credited, NoNewLeader
  <1>6. ASSUME SameCommit(n, m), m.lastIncludeSnapshotIndex = n.lastIncludeSnapshotIndex
        PROVE  Shape(led2, h2, m)
    BY <1>1, <1>6, SameCommitShape
  <1>7. CASE Sends(n, m) /\ NoNewLeader(n, m)
    BY <1>5, <1>6, <1>7 DEF Sends, SameProgress, SameLog
  <1>8. CASE \E q \in Requests("RequestVote", s) : GivesVote(n, m, q) /\ NoNewLeader(n, m)
    BY <1>5, <1>6, <1>8 DEF GivesVote, SameLog
  <1>9. CASE \E p \in PeersOf(s) : \E i \in Nat :
               Told(s, n, p, i) /\ Advances(n, m, p, i) /\ NoNewLeader(n, m)
    BY <1>9, AdvancesShape
  <1>10. CASE Appends(n, m) /\ CallsBuilt(n, m) /\ m.matchIndex = [ p \in Server |-> 0 ]
    BY <1>4, <1>6, <1>10 DEF Appends
  <1>11. CASE Runs(n, m)
    <2>1. SameCommit(n, m) /\ m.lastIncludeSnapshotIndex = n.lastIncludeSnapshotIndex
      BY <1>11 DEF Runs, Appends, SameLog
    <2>2. m.status = Candidate \/ m.matchIndex = [ p \in Server |-> 0 ]  BY <1>11 DEF Runs
    <2> QED BY <1>3, <1>4, <1>6, <2>1, <2>2
  <1>12. CASE Starts(n, m)  BY <1>12, StartsShape
  <1>13. CASE \E i \in n.lastIncludeSnapshotIndex + 1 .. n.commitIndex : Compacts(n, m, i)
    <2>1. PICK i \in n.lastIncludeSnapshotIndex + 1 .. n.commitIndex : Compacts(n, m, i)
      BY <1>13
    <2>2. Shape(led2, h2, m)  BY <1>1, <2>1, CompactsShape
    <2>3. n.lastIncludeSnapshotIndex \in Nat /\ n.commitIndex \in Nat
          /\ n.matchIndex \in [ Server -> Nat ]
      BY <1>1, FieldTypes
    <2>4. Credited(h2, m)
      <3> SUFFICES ASSUME m.status = Leader, NEW p \in PeersOf(m.id),
                          m.matchIndex[p] > m.lastIncludeSnapshotIndex
                   PROVE  << m.currentTerm, p, m.matchIndex[p] >> \in h2
        BY DEF Credited
      <3>1. /\ m.id = n.id /\ m.status = n.status /\ m.matchIndex = n.matchIndex
            /\ m.currentTerm = n.currentTerm /\ m.lastIncludeSnapshotIndex = i
        BY <2>1 DEF Compacts
      <3>2. p \in Server /\ n.matchIndex[p] > n.lastIncludeSnapshotIndex
        BY <2>1, <2>3, <3>1 DEF PeersOf
      <3> QED BY <1>2, <3>1, <3>2 DEF Credited
    <2> QED BY <2>2, <2>4
  <1>14. CASE Restarts(n, m)
    <2>1. Shape(led2, h2, m)  BY <1>1, <1>14, RestartsShape
    <2> QED BY <1>3, <1>14, <2>1 DEF Restarts
  <1>15. CASE \E q \in Requests("AppendEntries", s) : Stores(n, m, q)
    <2>1. PICK q \in Requests("AppendEntries", s) : Stores(n, m, q)  BY <1>15
    <2>2. q \in AppendEntriesArgs /\ Fits(led2, q) /\ CommitFits(led2, h2, q)
      BY HandledCommits, RequestTypes
    <2>3. Shape(led2, h2, m)  BY <1>1, <2>1, <2>2, StoresShape
    <2>4. m.status = Follower  BY <2>1 DEF Stores, Follows
    <2> QED BY <1>3, <2>3, <2>4
  <1>16. CASE \E q \in Requests("InstallSnapshot", s) : Installs(n, m, q)
    <2>1. PICK q \in Requests("InstallSnapshot", s) : Installs(n, m, q)  BY <1>16
    <2>2. q \in InstallSnapshotArgs /\ CommitFits(led2, h2, q)
      BY HandledCommits, RequestTypes
    <2>3. Shape(led2, h2, m)  BY <1>1, <2>1, <2>2, InstallsShape
    <2>4. m.status = Follower  BY <2>1 DEF Installs, Follows
    <2> QED BY <1>3, <2>3, <2>4
  <1> QED
    BY <1>7, <1>8, <1>9, <1>10, <1>11, <1>12, <1>13, <1>14, <1>15, <1>16 DEF Deed

\* A request that a server in shape builds is right about commits.
LEMMA BuiltCommitFits ==
  ASSUME NEW led, NEW held, Tree(led), NEW m \in RaftObject, FromLed(led, m), OwnLog(led, m),
         Shape(led, held, m), NEW q \in Request, Built(m, q)
  PROVE  CommitFits(led, held, q)
  <1>1. /\ m.commitIndex \in Nat /\ m.lastIncludeSnapshotIndex \in Nat
        /\ GetLastLogIndex(m) \in Nat /\ GetLastLogTerm(m) \in Nat
        /\ m.lastIncludeSnapshotIndex <= m.commitIndex
        /\ m.lastIncludeSnapshotIndex <= GetLastLogIndex(m)
        /\ Kept(led, held, m.commitIndex, m)
    BY FieldTypes, FromLedTypes DEF Shape, Within
  <1>2. q.kind \in StreamKind => q.term = m.currentTerm /\ GetLastLogTerm(m) = q.term
    BY DEF Built, OwnLog
  <1>3. ASSUME q.kind = "AppendEntries", q.leaderCommit > 0
        PROVE  /\ q.leaderCommit <= LastEntryOf(q)
               /\ CommittedAt(led, held, q.term, q.leaderCommit, led[q.term][q.leaderCommit])
    <2>1. /\ IsLogIndex(m, q.prevLogIndex) /\ q.entries = EntriesAfter(m, q.prevLogIndex)
          /\ q.leaderCommit = m.commitIndex
      BY <1>3 DEF Built
    <2>2. q.prevLogIndex \in Nat
      BY <1>3 DEF Request, PreVoteArgs, RequestVoteArgs, AppendEntriesArgs, ReadHeartBeatArgs,
                  InstallSnapshotArgs
    <2>3. Len(q.entries) = GetLastLogIndex(m) - q.prevLogIndex  BY <2>1, <2>2, EntriesTypes
    <2>4. LastEntryOf(q) = GetLastLogIndex(m)  BY <1>1, <1>3, <2>2, <2>3 DEF LastEntryOf
    <2>5. q.term = m.currentTerm /\ GetLastLogTerm(m) = q.term  BY <1>2, <1>3 DEF StreamKind
    <2>6. PICK t \in Nat : /\ Has(led, m, m.commitIndex, t)
                           /\ CommittedAt(led, held, m.currentTerm, m.commitIndex, t)
      BY <1>1, <1>3, <2>1 DEF Kept
    <2>7. m.commitIndex <= GetLastLogIndex(m) /\ led[q.term][m.commitIndex] = t
      BY <1>1, <2>5, <2>6 DEF Has
    <2> QED BY <2>1, <2>4, <2>5, <2>6, <2>7
  <1>4. ASSUME q.kind = "InstallSnapshot"
        PROVE  CommittedAt(led, held, q.term, q.lastSnapshotIncludeIndex, q.lastSnapshotIncludeTerm)
    <2>1. /\ q.lastSnapshotIncludeIndex = m.lastIncludeSnapshotIndex
          /\ q.lastSnapshotIncludeTerm = m.lastIncludeSnapshotTerm
          /\ q.lastSnapshotIncludeIndex > 0
      BY <1>4 DEF Built
    <2> PICK j : j = m.lastIncludeSnapshotIndex  OBVIOUS
    <2>2. j \in 1 .. m.commitIndex /\ IsLogIndex(m, j)  BY <1>1, <2>1 DEF IsLogIndex
    <2>3. GetLogTermFromIndex(m, j) = m.lastIncludeSnapshotTerm  BY DEF GetLogTermFromIndex
    <2>4. CommittedAt(led, held, m.currentTerm, j, GetLogTermFromIndex(m, j))
      BY <1>1, <2>2, TermCommitted
    <2>5. q.term = m.currentTerm  BY <1>2, <1>4 DEF StreamKind
    <2> QED BY <2>1, <2>3, <2>4, <2>5
  <1> QED BY <1>3, <1>4 DEF CommitFits, Built

\* A server that waits has committed what it had, and counts as it did.
LEMMA WaitsShape ==
  ASSUME NEW s \in Server, NEW led, NEW held, NEW led2, NEW h2, Deciding(s, led, held, led2, h2),
         NEW x \in Server, Waits(s, x)
  PROVE  Shape(led2, h2, raft'[x]) /\ Credited(h2, raft'[x])
  <1>0. Stepping(s) /\ held \subseteq h2  BY DecidingFacts
  <1>1. Ready(led2, h2, raft[x], raft'[x])  BY CommitStays
  <1>2. raft[x] \in RaftObject /\ raft[x].id = raft'[x].id  BY <1>0, StepTypes
  <1>3. Credited(held, raft[x])  BY DEF Deciding, CommitInv
  <1>4. /\ SameDisk(raft[x], raft'[x]) /\ SameRole(raft[x], raft'[x])
        /\ SameCommit(raft[x], raft'[x]) /\ raft'[x].matchIndex = raft[x].matchIndex
    BY <1>2, WaitsSame
  <1> PICK n, m : n = raft[x] /\ m = raft'[x]  OBVIOUS
  <1>5. Shape(led2, h2, m)  BY <1>1, <1>4, SameCommitShape DEF SameDisk
  <1>6. Credited(h2, m)  BY <1>0, <1>2, <1>3, <1>4 DEF Credited, SameDisk, SameRole
  <1> QED BY <1>5, <1>6

\* A server that takes a request's entries holds the last of them.
LEMMA StoredHeld ==
  ASSUME NEW s \in Server, NEW led, NEW held, NEW led2, NEW h2, Deciding(s, led, held, led2, h2),
         NEW q \in Request, q.kind = "AppendEntries", Fits(led2, q), Stores(raft[s], raft'[s], q)
  PROVE  << q.term, s, LastEntryOf(q) >> \in h2
  <1>0. /\ Recording(s, led, held, led2, h2) /\ Stepping(s) /\ Tree(led2)
        /\ FromLed(led2, raft[s]) /\ FromLed(led2, raft'[s])
    BY DecidingFacts
  <1>1. /\ raft[s] \in RaftObject /\ raft'[s] \in RaftObject
        /\ raft[s].currentTerm <= raft'[s].currentTerm
    BY <1>0, StepTypes
  <1> PICK n, m : n = raft[s] /\ m = raft'[s]  OBVIOUS
  <1>2. q \in AppendEntriesArgs
    BY DEF Request, PreVoteArgs, RequestVoteArgs, AppendEntriesArgs, ReadHeartBeatArgs,
           InstallSnapshotArgs
  <1>3. Has(led2, m, LastEntryOf(q), q.term)  BY <1>0, <1>1, <1>2, StoreFrom
  <1>4. m.currentTerm = q.term  BY DEF Stores, Follows
  <1>5. LastEntryOf(q) \in Nat  BY <1>0, <1>1, <1>3, FromLedTypes DEF Has
  <1> PICK e : e = LastEntryOf(q)  OBVIOUS
  <1> QED BY <1>0, <1>3, <1>4, <1>5 DEF Recording, Records

\* What waits for an answer, or has one, is right about commits after the step.
LEMMA CallsCommit ==
  ASSUME NEW s \in Server, NEW led, NEW held, NEW led2, NEW h2, Deciding(s, led, held, led2, h2),
         NEW x \in Server
  PROVE  /\ \A t \in raft[x].threadPool : CommitFits(led2, h2, t.request) /\ AnswerFits(h2, t)
         /\ \A t \in raft'[x].threadPool : CommitFits(led2, h2, t.request) /\ AnswerFits(h2, t)
  <1>0. /\ Tree(led) /\ Tree(led2) /\ Grows(led, led2) /\ held \subseteq h2
        /\ RequestsFit(led) /\ Stepping(s) /\ StepOf(s)
        /\ FromLed(led2, raft'[s]) /\ OwnLog(led2, raft'[s])
    BY DecidingFacts DEF Stepping
  <1>1. ASSUME NEW t \in raft[x].threadPool
        PROVE  /\ t.request \in Request /\ Fits(led2, t.request)
               /\ CommitFits(led2, h2, t.request) /\ AnswerFits(h2, t)
    <2>1. t.request \in Request  BY <1>0, CallRequest
    <2>2. Fits(led, t.request)  BY <1>0 DEF RequestsFit
    <2>3. CommitFits(led, held, t.request) /\ AnswerFits(held, t)  BY DEF Deciding, CommitInv
    <2>4. CommitFits(led2, h2, t.request)  BY <1>0, <2>1, <2>2, <2>3, CommitFitsGrows
    <2>5. AnswerFits(h2, t)  BY <1>0, <2>3 DEF AnswerFits
    <2>6. Fits(led2, t.request)  BY <1>0, <2>1, <2>2, FitsGrows
    <2> QED BY <2>1, <2>4, <2>5, <2>6
  <1>2. ASSUME x = s, NEW t \in raft'[x].threadPool
        PROVE  CommitFits(led2, h2, t.request) /\ AnswerFits(h2, t)
    <2>1. PICK n : Settled(s, n) /\ Deed(s, n, raft'[s])  BY <1>0 DEF StepOf
    <2>2. \/ t \in raft[s].threadPool
          \/ t.reply = Nil /\ (Built(raft'[s], t.request) \/ Asked(raft'[s], t.request))
      BY <1>2, <2>1, DeedCalls
    <2>3. CASE t \in raft[s].threadPool  BY <1>1, <1>2, <2>3
    <2>4. CASE t.reply = Nil /\ Built(raft'[s], t.request)
      <3>1. Shape(led2, h2, raft'[s])  BY <2>1, DeedShape
      <3>2. t.request \in Request /\ raft'[s] \in RaftObject  BY <1>0, <1>2, CallRequest, StepTypes
      <3>3. CommitFits(led2, h2, t.request)  BY <1>0, <2>4, <3>1, <3>2, BuiltCommitFits
      <3> QED BY <2>4, <3>3 DEF AnswerFits
    <2>5. CASE t.reply = Nil /\ Asked(raft'[s], t.request)
      BY <2>5 DEF Asked, CommitFits, AnswerFits
    <2> QED BY <2>2, <2>3, <2>4, <2>5
  <1>3. ASSUME x # s, NEW u \in raft'[x].threadPool
        PROVE  CommitFits(led2, h2, u.request) /\ AnswerFits(h2, u)
    <2>1. Waits(s, x)  BY <1>0, <1>3 DEF StepOf
    <2>2. CASE raft'[x] = raft[x]  BY <1>1, <1>3, <2>2
    <2>3. ASSUME NEW t \in raft[x].threadPool, NEW reply, Truthful(s, t, reply),
                 raft'[x] = [ raft[x] EXCEPT !.threadPool =
                   (@ \ {t}) \cup { [ request |-> t.request, reply |-> reply ] } ]
          PROVE  CommitFits(led2, h2, u.request) /\ AnswerFits(h2, u)
      <3>1. raft[x] \in RaftObject  BY <1>0, StepTypes
      <3>2. u \in (raft[x].threadPool \ {t}) \cup { [ request |-> t.request, reply |-> reply ] }
        BY <1>3, <2>3, <3>1 DEF RaftObject
      <3>3. CASE u \in raft[x].threadPool  BY <1>1, <3>3
      <3>4. CASE u = [ request |-> t.request, reply |-> reply ]
        <4>1. /\ t.request \in Request /\ Fits(led2, t.request) /\ CommitFits(led2, h2, t.request)
              /\ u.request = t.request /\ u.reply = reply
          BY <1>1, <3>4
        <4> PICK q : q = t.request  OBVIOUS
        <4> SUFFICES ASSUME q.kind \in { "AppendEntries", "ReadHeartBeat" },
                            reply.success, reply.readRound = 0
                     PROVE  q.kind = "AppendEntries" /\ << q.term, q.to, LastEntryOf(q) >> \in h2
          BY <4>1 DEF AnswerFits
        <4>2. \/ q.kind = "ReadHeartBeat" /\ q.readRound = 0
              \/ /\ q.kind = "AppendEntries" /\ q.to = s
                 /\ Stores(raft[s], raft'[s], q)
          BY <2>3 DEF Truthful, Deciding
        <4>3. ~(q.kind = "ReadHeartBeat" /\ q.readRound = 0)  BY <4>1 DEF CommitFits
        <4> QED BY <4>1, <4>2, <4>3, StoredHeld
      <3> QED BY <3>2, <3>3, <3>4
    <2> QED BY <2>1, <2>2, <2>3 DEF Waits
  <1> QED BY <1>1, <1>2, <1>3

\* What is late was a call.
LEMMA LateCommit ==
  ASSUME NEW s \in Server, NEW led, NEW held, NEW led2, NEW h2, Deciding(s, led, held, led2, h2),
         NEW q \in late'
  PROVE  CommitFits(led2, h2, q)
  <1>0. /\ Tree(led) /\ Tree(led2) /\ Grows(led, led2) /\ held \subseteq h2
        /\ RequestsFit(led) /\ Stepping(s) /\ StepOf(s)
    BY DecidingFacts DEF Stepping
  <1>1. CASE q \in late
    <2>1. q \in Request  BY <1>0, <1>1 DEF Stepping, VoteInv, TypeInv, TypeOK
    <2>2. Fits(led, q) /\ CommitFits(led, held, q)
      BY <1>0, <1>1 DEF RequestsFit, Deciding, CommitInv
    <2> QED BY <1>0, <2>1, <2>2, CommitFitsGrows
  <1>2. CASE q \notin late
    <2>1. PICK x \in Server : \E t \in raft[x].threadPool : t.request = q
      BY <1>0, <1>2 DEF StepOf, LateCalls
    <2> QED BY <2>1, CallsCommit
  <1> QED BY <1>1, <1>2

\* A step keeps what the invariant of commits says.
LEMMA CommitInvStep ==
  ASSUME NEW s \in Server, NEW led, NEW held, NEW led2, NEW h2, Deciding(s, led, held, led2, h2)
  PROVE  CommitInv(led2, h2)'
  <1>0. StepOf(s)  BY DecidingFacts DEF Stepping
  <1>1. ASSUME NEW x \in Server
        PROVE  Shape(led2, h2, raft'[x]) /\ Credited(h2, raft'[x])
    <2>1. CASE x # s
      <3>1. Waits(s, x)  BY <1>0, <2>1 DEF StepOf
      <3> QED BY <3>1, WaitsShape
    <2>2. CASE x = s
      <3>1. PICK n : Settled(s, n) /\ Deed(s, n, raft'[s])  BY <1>0 DEF StepOf
      <3> QED BY <2>2, <3>1, DeedShape
    <2> QED BY <2>1, <2>2
  <1>2. \A x \in Server : \A t \in raft'[x].threadPool :
          CommitFits(led2, h2, t.request) /\ AnswerFits(h2, t)
    BY CallsCommit
  <1>3. \A q \in late' : CommitFits(led2, h2, q)  BY LateCommit
  <1> QED BY <1>1, <1>2, <1>3 DEF CommitInv

\* So does a step that changes nothing.
LEMMA CommitInvStutters ==
  ASSUME NEW led, NEW held, CommitInv(led, held), UNCHANGED vars
  PROVE  CommitInv(led, held)'
  <1>1. raft' = raft /\ late' = late  BY DEF vars
  <1> QED BY <1>1 DEF CommitInv

\* At the start nothing is committed, whatever the histories.
LEMMA CommitInvInit ==
  ASSUME Init, NEW led, NEW held
  PROVE  CommitInv(led, held)
  <1>1. ASSUME NEW s \in Server
        PROVE  Shape(led, held, raft[s]) /\ Credited(held, raft[s]) /\ raft[s].threadPool = {}
    <2>1. /\ raft[s].commitIndex = 0 /\ raft[s].lastApplied = 0 /\ raft[s].applyQueue = << >>
          /\ raft[s].status = Follower /\ raft[s].threadPool = {}
          /\ raft[s].logs = << >> /\ raft[s].lastIncludeSnapshotIndex = 0
      BY DEF Init, Construct, EmptyDisk
    <2>2. GetLastLogIndex(raft[s]) = 0 /\ Len(raft[s].applyQueue) = 0
      BY <2>1 DEF GetLastLogIndex
    <2>3. Within(raft[s])  BY <2>1, <2>2 DEF Within
    <2>4. Kept(led, held, raft[s].commitIndex, raft[s])  BY <2>1 DEF Kept
    <2>5. QueueAt(led, held, raft[s].currentTerm, raft[s].applyQueue)  BY <2>2 DEF QueueAt
    <2>6. Credited(held, raft[s])  BY <2>1 DEF Credited, Follower, Leader
    <2> QED BY <2>1, <2>3, <2>4, <2>5, <2>6 DEF Shape
  <1> QED BY <1>1 DEF CommitInv, Init

-----------------------------------------------------------------------------
(* The invariant and what follows from it.  Replies that answer another    *)
(* request make leaders commit what they may not, hence the assumption.    *)

\* The invariant of elections, logs and commits, with suitable histories.
Commitment == VoteInv /\ \E led, held : LogInv(led, held) /\ CommitInv(led, held)

\* What a step from it decides.
LEMMA CommitmentDecides ==
  ASSUME Overtaken = {}, Commitment, Next
  PROVE  \E s \in Server : \E led, held, led2, h2 :
           Deciding(s, led, held, led2, h2) /\ LogInv(led2, h2)'
  <1>1. PICK led, held : LogInv(led, held) /\ CommitInv(led, held)  BY DEF Commitment
  <1>2. PICK s \in Server : Stepping(s)  BY NextStepping DEF Commitment
  <1>3. PICK led2, h2 : Recording(s, led, held, led2, h2) /\ LogInv(led2, h2)'
    BY <1>1, <1>2, LogInvStep
  <1> QED BY <1>1, <1>3 DEF Deciding

\* Every step preserves the invariant.
LEMMA CommitmentStep ==
  ASSUME Overtaken = {}, Commitment, [Next]_vars
  PROVE  Commitment'
  <1>1. VoteInv'  BY VotesStep DEF Commitment
  <1>2. CASE Next
    <2>1. PICK s \in Server : \E led, held, led2, h2 :
            Deciding(s, led, held, led2, h2) /\ LogInv(led2, h2)'
      BY <1>2, CommitmentDecides
    <2>2. PICK led, held, led2, h2 : Deciding(s, led, held, led2, h2) /\ LogInv(led2, h2)'
      BY <2>1
    <2>3. CommitInv(led2, h2)'  BY <2>2, CommitInvStep
    <2> QED BY <1>1, <2>2, <2>3 DEF Commitment
  <1>3. CASE UNCHANGED vars
    <2>1. PICK led, held : LogInv(led, held) /\ CommitInv(led, held)  BY DEF Commitment
    <2>2. LogInv(led, held)' /\ CommitInv(led, held)'
      BY <1>3, <2>1, LogInvStutters, CommitInvStutters
    <2> QED BY <1>1, <2>2 DEF Commitment
  <1> QED BY <1>2, <1>3

\* The invariant always holds.
LEMMA CommitmentAlways ==
  ASSUME Overtaken = {}
  PROVE  Spec => []Commitment
  <1>1. Init => Commitment
    <2> SUFFICES ASSUME Init PROVE Commitment  OBVIOUS
    <2>1. PICK led, held : LogInv(led, held)  BY LogInvInit
    <2> QED BY <2>1, VotesInit, CommitInvInit DEF Commitment
  <1>2. Commitment /\ [Next]_vars => Commitment'  BY CommitmentStep
  <1> QED BY <1>1, <1>2, PTL DEF Spec

\* What the invariant says of one server, given the histories.
LEMMA CommitmentFacts ==
  ASSUME Commitment, NEW led, NEW held, LogInv(led, held), CommitInv(led, held), NEW s \in Server
  PROVE  /\ Tree(led) /\ Ruling(led, held) /\ HeldSound(led, held) /\ HeldKept(led, held)
         /\ raft[s] \in RaftObject /\ raft[s].id = s
         /\ FromLed(led, raft[s]) /\ OwnLog(led, raft[s])
         /\ Shape(led, held, raft[s]) /\ Credited(held, raft[s])
  BY LogInvRules DEF Commitment, VoteInv, TypeInv, TypeOK, LogInv, CommitInv

\* Two objects that have an entry are alike before it.
LEMMA SameTerms ==
  ASSUME NEW led, Tree(led), NEW n \in RaftObject, FromLed(led, n),
         NEW m \in RaftObject, FromLed(led, m),
         NEW c \in Nat, NEW t, c > 0 => Has(led, n, c, t) /\ Has(led, m, c, t),
         NEW j \in Nat, j <= c, IsLogIndex(n, j), IsLogIndex(m, j)
  PROVE  GetLogTermFromIndex(n, j) = GetLogTermFromIndex(m, j)
  <1> PICK U, W : U = GetLastLogTerm(n) /\ W = GetLastLogTerm(m)  OBVIOUS
  <1>1. /\ U \in Nat /\ W \in Nat /\ GetLastLogIndex(n) \in Nat /\ GetLastLogIndex(m) \in Nat
        /\ n.lastIncludeSnapshotIndex \in Nat /\ m.lastIncludeSnapshotIndex \in Nat
    BY FromLedTypes
  <1>2. j \in n.lastIncludeSnapshotIndex .. GetLastLogIndex(n)  BY <1>1 DEF IsLogIndex
  <1>3. j \in m.lastIncludeSnapshotIndex .. GetLastLogIndex(m)  BY <1>1 DEF IsLogIndex
  <1>4. GetLogTermFromIndex(n, j) = TermAt(led[U], j)  BY <1>2 DEF FromLed
  <1>5. GetLogTermFromIndex(m, j) = TermAt(led[W], j)  BY <1>3 DEF FromLed
  <1>6. CASE j = 0  BY <1>4, <1>5, <1>6 DEF TermAt
  <1>7. CASE j > 0
    <2>1. In(led, U, c, t) /\ In(led, W, c, t) /\ j \in 1 .. c  BY <1>7, HasIn
    <2>2. led[U][j] = led[W][j]  BY <1>1, <2>1, LedAgree
    <2> QED BY <1>4, <1>5, <1>7, <2>2 DEF TermAt
  <1> QED BY <1>6, <1>7

\* What is committed lies in the log or its snapshot and is applied: the entries
\* that a newer leader takes away from a follower are none that it knew to be
\* committed, although nothing in handleAppendEntries looks at commitIndex_.
THEOREM CommitsAreInTheLog ==
  ASSUME Overtaken = {}
  PROVE  Spec => []CommitWithinLog
  <1>1. Commitment => CommitWithinLog
    BY CommitmentFacts DEF Commitment, CommitWithinLog, Shape, Within
  <1> QED BY <1>1, CommitmentAlways, PTL

\* No two state machines are handed different entries at an index: all that any of
\* them was handed a quorum held in its leader's term, and only one entry is so
\* held at an index.
THEOREM StateMachinesAgree ==
  ASSUME Overtaken = {}
  PROVE  Spec => []StateMachineSafety
  <1>1. Commitment => StateMachineSafety
    <2> SUFFICES ASSUME Commitment, NEW s \in Server, NEW r \in Server,
                        NEW i \in 1 .. Len(raft[s].applyQueue),
                        NEW j \in 1 .. Len(raft[r].applyQueue),
                        raft[s].applyQueue[i].index = raft[r].applyQueue[j].index
                 PROVE  raft[s].applyQueue[i].term = raft[r].applyQueue[j].term
      BY DEF StateMachineSafety
    <2>1. PICK led, held : LogInv(led, held) /\ CommitInv(led, held)  BY DEF Commitment
    <2>2. /\ Tree(led) /\ Ruling(led, held)
          /\ raft[s] \in RaftObject /\ raft[r] \in RaftObject
          /\ Shape(led, held, raft[s]) /\ Shape(led, held, raft[r])
      BY <2>1, CommitmentFacts
    <2>3. raft[s].currentTerm \in Nat /\ raft[r].currentTerm \in Nat  BY <2>2, FieldTypes
    <2> PICK k, t, u : /\ k = raft[s].applyQueue[i].index /\ t = raft[s].applyQueue[i].term
                       /\ u = raft[r].applyQueue[j].term
      OBVIOUS
    <2>4. CommittedAt(led, held, raft[s].currentTerm, k, t)  BY <2>2 DEF Shape, QueueAt
    <2>5. CommittedAt(led, held, raft[r].currentTerm, k, u)  BY <2>2 DEF Shape, QueueAt
    <2> QED BY <2>2, <2>3, <2>4, <2>5, CommittedOnce
  <1> QED BY <1>1, CommitmentAlways, PTL

\* A leader has every entry that a server of its term or an older one knows to be
\* committed.
THEOREM LeadersHoldCommitted ==
  ASSUME Overtaken = {}
  PROVE  Spec => []LeaderCompleteness
  <1>1. Commitment => LeaderCompleteness
    <2> SUFFICES ASSUME Commitment, NEW l \in Server, NEW s \in Server,
                        raft[l].status = Leader, raft[s].currentTerm <= raft[l].currentTerm
                 PROVE  /\ raft[s].commitIndex <= GetLastLogIndex(raft[l])
                        /\ \A i \in Larger(raft[l].lastIncludeSnapshotIndex,
                                           raft[s].lastIncludeSnapshotIndex)
                                      .. raft[s].commitIndex :
                             GetLogTermFromIndex(raft[s], i) = GetLogTermFromIndex(raft[l], i)
      BY DEF LeaderCompleteness
    <2>1. PICK led, held : LogInv(led, held) /\ CommitInv(led, held)  BY DEF Commitment
    <2> PICK n, m, c, W : n = raft[s] /\ m = raft[l] /\ c = n.commitIndex /\ W = m.currentTerm
      OBVIOUS
    <2>2. /\ Tree(led) /\ Ruling(led, held) /\ n \in RaftObject /\ m \in RaftObject
          /\ FromLed(led, n) /\ FromLed(led, m) /\ OwnLog(led, m) /\ Shape(led, held, n)
      BY <2>1, CommitmentFacts
    <2>3. /\ c \in Nat /\ n.currentTerm \in Nat /\ W \in Nat
          /\ GetLastLogIndex(n) \in Nat /\ GetLastLogIndex(m) \in Nat
          /\ n.lastIncludeSnapshotIndex \in Nat /\ m.lastIncludeSnapshotIndex \in Nat
          /\ c <= GetLastLogIndex(n)
      BY <2>2, FieldTypes, FromLedTypes DEF Shape, Within
    <2>4. /\ GetLastLogTerm(m) = W /\ GetLastLogIndex(m) = Len(led[W]) /\ led[W] # << >>
      BY <2>2, <2>3, LedTypes DEF OwnLog
    <2>5. \E t : c > 0 => Has(led, n, c, t) /\ Has(led, m, c, t)
      <3>1. CASE c > 0
        <4>1. PICK t \in Nat : Has(led, n, c, t) /\ CommittedAt(led, held, n.currentTerm, c, t)
          BY <2>2, <3>1 DEF Shape, Kept
        <4>2. In(led, W, c, t)  BY <2>2, <2>3, <2>4, <4>1, CommittedIn
        <4>3. c <= GetLastLogIndex(m)  BY <2>4, <4>2 DEF In
        <4>4. Has(led, m, c, t)  BY <2>2, <2>4, <4>2, <4>3, HasIn
        <4> QED BY <4>1, <4>4
      <3> QED BY <2>3, <3>1
    <2>6. PICK t : c > 0 => Has(led, n, c, t) /\ Has(led, m, c, t)  BY <2>5
    <2>7. c <= GetLastLogIndex(m)
      <3>1. CASE c > 0  BY <2>6, <3>1 DEF Has
      <3> QED BY <2>3, <3>1
    <2>8. ASSUME NEW i \in Larger(m.lastIncludeSnapshotIndex, n.lastIncludeSnapshotIndex) .. c
          PROVE  GetLogTermFromIndex(n, i) = GetLogTermFromIndex(m, i)
      <3>1. /\ i \in Nat /\ i <= c /\ m.lastIncludeSnapshotIndex <= i
            /\ n.lastIncludeSnapshotIndex <= i
        BY <2>3 DEF Larger
      <3>2. IsLogIndex(n, i) /\ IsLogIndex(m, i)  BY <2>3, <2>7, <3>1 DEF IsLogIndex
      <3> QED BY <2>2, <2>3, <2>6, <3>1, <3>2, SameTerms
    <2> QED BY <2>7, <2>8
  <1> QED BY <1>1, CommitmentAlways, PTL

\* What a leader counts a peer to hold beyond its own snapshot, the peer holds.
THEOREM MatchIsHeld ==
  ASSUME Overtaken = {}
  PROVE  Spec => []MatchIndexIsHeld
  <1>1. Commitment => MatchIndexIsHeld
    <2> SUFFICES ASSUME Commitment, NEW l \in Server, NEW p \in PeersOf(l),
                        raft[l].status = Leader, raft[p].currentTerm = raft[l].currentTerm,
                        NEW i \in raft[l].lastIncludeSnapshotIndex + 1 .. raft[l].matchIndex[p]
                 PROVE  \/ i <= raft[p].lastIncludeSnapshotIndex
                        \/ MatchLog(raft[p], i, GetLogTermFromIndex(raft[l], i))
      BY DEF MatchIndexIsHeld
    <2>1. PICK led, held : LogInv(led, held) /\ CommitInv(led, held)  BY DEF Commitment
    <2>2. p \in Server  BY DEF PeersOf
    <2> PICK n, m, T, c : n = raft[p] /\ m = raft[l] /\ T = m.currentTerm /\ c = m.matchIndex[p]
      OBVIOUS
    <2>3. /\ Tree(led) /\ HeldSound(led, held) /\ HeldKept(led, held)
          /\ n \in RaftObject /\ m \in RaftObject /\ m.id = l
          /\ FromLed(led, n) /\ FromLed(led, m) /\ OwnLog(led, m) /\ Credited(held, m)
      BY <2>1, <2>2, CommitmentFacts
    <2>4. /\ T \in Nat /\ c \in Nat /\ GetLastLogIndex(n) \in Nat /\ GetLastLogIndex(m) \in Nat
          /\ n.lastIncludeSnapshotIndex \in Nat /\ m.lastIncludeSnapshotIndex \in Nat
      BY <2>2, <2>3, FieldTypes, FromLedTypes
    <2>5. /\ i \in Nat /\ i > 0 /\ i <= c /\ c > m.lastIncludeSnapshotIndex
          /\ m.lastIncludeSnapshotIndex <= i
      BY <2>4
    <2>6. << T, p, c >> \in held  BY <2>3, <2>5 DEF Credited
    <2>7. Has(led, n, c, T)
      <3>1. Has(led, raft[p], c, T) \/ raft[p].currentTerm > T
        BY <2>2, <2>3, <2>4, <2>6 DEF HeldKept
      <3> QED BY <2>4, <3>1
    <2>8. In(led, T, c, T)  BY <2>2, <2>3, <2>4, <2>6 DEF HeldSound
    <2>9. GetLastLogTerm(m) = T /\ GetLastLogIndex(m) = Len(led[T])  BY <2>3 DEF OwnLog
    <2>10. Has(led, m, c, T)
      <3>1. c <= GetLastLogIndex(m)  BY <2>8, <2>9 DEF In
      <3> QED BY <2>3, <2>8, <2>9, <3>1, HasIn
    <2>11. c <= GetLastLogIndex(n) /\ c <= GetLastLogIndex(m)  BY <2>7, <2>10 DEF Has
    <2> SUFFICES ASSUME ~(i <= n.lastIncludeSnapshotIndex)
                 PROVE  MatchLog(n, i, GetLogTermFromIndex(m, i))
      OBVIOUS
    <2>12. IsLogIndex(n, i) /\ IsLogIndex(m, i)  BY <2>4, <2>5, <2>11 DEF IsLogIndex
    <2>13. GetLogTermFromIndex(n, i) = GetLogTermFromIndex(m, i)
      BY <2>3, <2>4, <2>5, <2>7, <2>10, <2>12, SameTerms
    <2> QED BY <2>12, <2>13 DEF MatchLog
  <1> QED BY <1>1, CommitmentAlways, PTL

\* No step takes back from a log what its server has committed.
THEOREM CommittedStays ==
  ASSUME Overtaken = {}
  PROVE  Spec => CommittedIsKept
  <1>1. ASSUME Commitment, Next, NEW x \in Server
        PROVE  /\ raft[x].commitIndex <= GetLastLogIndex(raft'[x])
               /\ \A i \in raft'[x].lastIncludeSnapshotIndex .. raft[x].commitIndex :
                    i >= raft[x].lastIncludeSnapshotIndex =>
                      GetLogTermFromIndex(raft'[x], i) = GetLogTermFromIndex(raft[x], i)
    <2>1. PICK s \in Server : \E led, held, led2, h2 : Deciding(s, led, held, led2, h2)
      BY <1>1, CommitmentDecides
    <2>2. PICK led, held, led2, h2 : Deciding(s, led, held, led2, h2)  BY <2>1
    <2>3. /\ Stepping(s) /\ Tree(led2) /\ FromLed(led2, raft[x]) /\ FromLed(led2, raft'[x])
      BY <2>2, DecidingFacts
    <2>4. raft[x] \in RaftObject /\ raft'[x] \in RaftObject  BY <1>1, <2>3, StepTypes
    <2>5. Within(raft[x])  BY <1>1, <2>2 DEF Deciding, CommitInv, Shape
    <2>6. \E t : raft[x].commitIndex > 0 =>
                   /\ Has(led2, raft[x], raft[x].commitIndex, t)
                   /\ Has(led2, raft'[x], raft[x].commitIndex, t)
      BY <1>1, <2>2, CommittedHeld
    <2> PICK n, m, c : n = raft[x] /\ m = raft'[x] /\ c = n.commitIndex  OBVIOUS
    <2>7. PICK t : c > 0 => Has(led2, n, c, t) /\ Has(led2, m, c, t)  BY <2>6
    <2>8. /\ c \in Nat /\ GetLastLogIndex(n) \in Nat /\ GetLastLogIndex(m) \in Nat
          /\ n.lastIncludeSnapshotIndex \in Nat /\ m.lastIncludeSnapshotIndex \in Nat
          /\ c <= GetLastLogIndex(n)
      BY <2>3, <2>4, <2>5, FieldTypes, FromLedTypes DEF Within
    <2>9. c <= GetLastLogIndex(m)
      <3>1. CASE c > 0  BY <2>7, <3>1 DEF Has
      <3> QED BY <2>8, <3>1
    <2>10. ASSUME NEW i \in m.lastIncludeSnapshotIndex .. c, i >= n.lastIncludeSnapshotIndex
           PROVE  GetLogTermFromIndex(m, i) = GetLogTermFromIndex(n, i)
      <3>1. i \in Nat /\ i <= c /\ m.lastIncludeSnapshotIndex <= i  BY <2>8
      <3>2. IsLogIndex(n, i) /\ IsLogIndex(m, i)  BY <2>8, <2>9, <2>10, <3>1 DEF IsLogIndex
      <3> QED BY <2>3, <2>4, <2>7, <2>8, <3>1, <3>2, SameTerms
    <2> QED BY <2>9, <2>10
  <1>2. Commitment /\ [Next]_vars =>
          [ \A s \in Server :
              /\ raft[s].commitIndex <= GetLastLogIndex(raft'[s])
              /\ \A i \in raft'[s].lastIncludeSnapshotIndex .. raft[s].commitIndex :
                   i >= raft[s].lastIncludeSnapshotIndex =>
                     GetLogTermFromIndex(raft'[s], i) = GetLogTermFromIndex(raft[s], i) ]_vars
    BY <1>1
  <1>3. Spec => []Commitment  BY CommitmentAlways
  <1> QED BY <1>2, <1>3, PTL DEF Spec, CommittedIsKept

-----------------------------------------------------------------------------
(* The replicated log.  The history of commits is what module RaftHistory  *)
(* adds; its entries stay committed whoever restarts, so that every apply  *)
(* queue, old or new, is a part of one log.                                *)

\* Every entry of c is committed.
Recorded(led, held, c) ==
  /\ c \in Seq(Nat)
  /\ \A k \in 1 .. Len(c) : \E U \in Nat : CommittedAt(led, held, U, k, c[k])

\* A snapshot that q carries ends within c.
Carries(c, q) == q.kind = "InstallSnapshot" => q.lastSnapshotIncludeIndex <= Len(c)

\* No server has committed more than c, no request carries more.
NoFurther(objects, requests, c) ==
  /\ \A s \in Server : objects[s].commitIndex <= Len(c)
  /\ \A s \in Server : \A t \in objects[s].threadPool : Carries(c, t.request)
  /\ \A q \in requests : Carries(c, q)

\* The invariant of elections, logs, commits and of the history of commits.
HistoryInv ==
  /\ VoteInv
  /\ \E led, held : LogInv(led, held) /\ CommitInv(led, held) /\ Recorded(led, held, committed)
  /\ NoFurther(raft, late, committed)

\* What is recorded is the one entry that is ever committed at its index.
LEMMA RecordedOnce ==
  ASSUME NEW led, NEW held, Tree(led), Ruling(led, held), NEW c, Recorded(led, held, c),
         NEW k \in 1 .. Len(c), NEW U \in Nat, NEW t, CommittedAt(led, held, U, k, t)
  PROVE  c[k] = t
  <1>1. PICK W \in Nat : CommittedAt(led, held, W, k, c[k])  BY DEF Recorded
  <1> QED BY <1>1, CommittedOnce

\* What is recorded stays committed.
LEMMA RecordedGrows ==
  ASSUME NEW led, NEW led2, Tree(led), Tree(led2), Grows(led, led2), NEW held, NEW h2,
         held \subseteq h2, NEW c, Recorded(led, held, c)
  PROVE  Recorded(led2, h2, c)
  <1>1. ASSUME NEW k \in 1 .. Len(c)
        PROVE  \E U \in Nat : CommittedAt(led2, h2, U, k, c[k])
    <2>1. PICK U \in Nat : CommittedAt(led, held, U, k, c[k])  BY DEF Recorded
    <2>2. U <= U  OBVIOUS
    <2> QED BY <2>1, <2>2, CommittedGrows
  <1> QED BY <1>1 DEF Recorded

\* A function on the first numbers is a sequence.
LEMMA ListIsSeq ==
  ASSUME NEW S, NEW w \in Nat, NEW e \in [ 1 .. w -> S ]
  PROVE  e \in Seq(S) /\ Len(e) = w
  <1>1. e \in Seq(S)  BY SeqDef
  <1>2. Len(e) = w  OBVIOUS
  <1> QED BY <1>1, <1>2

\* The record with what n has committed beyond it.
LEMMA ContinuedShape ==
  ASSUME NEW c \in Seq(Nat), NEW n \in RaftObject, n.lastIncludeSnapshotIndex <= Len(c),
         Len(c) < n.commitIndex, n.commitIndex <= GetLastLogIndex(n)
  PROVE  /\ Continued(c, n) \in Seq(Nat) /\ Len(Continued(c, n)) = n.commitIndex
         /\ \A k \in 1 .. Len(c) : Continued(c, n)[k] = c[k]
         /\ \A k \in Len(c) + 1 .. n.commitIndex :
              IsLogIndex(n, k) /\ Continued(c, n)[k] = GetLogTermFromIndex(n, k)
  <1> PICK l, i, last : /\ l = Len(c) /\ i = n.commitIndex /\ last = GetLastLogIndex(n)
    OBVIOUS
  <1>1. /\ l \in Nat /\ i \in Nat /\ last \in Nat /\ n.lastIncludeSnapshotIndex \in Nat
        /\ n.lastIncludeSnapshotIndex <= l /\ l < i /\ i <= last
    BY FieldTypes, LogTypes, LenProperties
  <1> PICK e : e = [ k \in 1 .. i - l |-> GetLogTermFromIndex(n, l + k) ]  OBVIOUS
  <1>2. ASSUME NEW k \in l + 1 .. i
        PROVE  IsLogIndex(n, k) /\ GetLogTermFromIndex(n, k) \in Nat
    <2>1. k \in Int /\ k >= n.lastIncludeSnapshotIndex /\ k <= last  BY <1>1
    <2>2. IsLogIndex(n, k)  BY <2>1 DEF IsLogIndex
    <2> QED BY <2>1, <2>2, LogTermType
  <1>3. \A k \in 1 .. i - l : l + k \in l + 1 .. i  BY <1>1
  <1>4. \A k \in 1 .. i - l : GetLogTermFromIndex(n, l + k) \in Nat  BY <1>2, <1>3
  <1>5. PICK w \in Nat : w = i - l  BY <1>1
  <1>6. e \in Seq(Nat) /\ Len(e) = i - l
    <2>1. e \in [ 1 .. w -> Nat ]  BY <1>4, <1>5
    <2>2. e \in Seq(Nat) /\ Len(e) = w  BY ONLY w \in Nat, <2>1, ListIsSeq
    <2> QED BY <1>5, <2>2
  <1>7. Continued(c, n) = c \o e  BY DEF Continued
  <1>8. \A k \in l + 1 .. i : k - l \in 1 .. i - l /\ l + (k - l) = k  BY <1>1
  <1>9. \A k \in l + 1 .. i : e[k - l] = GetLogTermFromIndex(n, k)  BY <1>8
  <1>10. /\ c \o e \in Seq(Nat) /\ Len(c \o e) = Len(c) + Len(e)
         /\ \A k \in 1 .. Len(c) + Len(e) :
              (c \o e)[k] = IF k <= Len(c) THEN c[k] ELSE e[k - Len(c)]
    <2>1. e \in Seq(Nat)  BY <1>6
    <2> QED BY ONLY c \in Seq(Nat), <2>1, ConcatProperties
  <1>11. Len(c) + Len(e) = i  BY <1>1, <1>6
  <1>12. \A k \in 1 .. i : (c \o e)[k] = IF k <= l THEN c[k] ELSE e[k - l]
    BY <1>10, <1>11
  <1>13. \A k \in 1 .. l : (c \o e)[k] = c[k]
    <2>1. \A k \in 1 .. l : k \in 1 .. i /\ k <= l  BY <1>1
    <2> QED BY <1>12, <2>1
  <1>14. \A k \in l + 1 .. i : (c \o e)[k] = GetLogTermFromIndex(n, k)
    <2>1. \A k \in l + 1 .. i : k \in 1 .. i /\ ~(k <= l)  BY <1>1
    <2> QED BY <1>9, <1>12, <2>1
  <1> QED BY <1>2, <1>7, <1>10, <1>11, <1>13, <1>14

\* An object never has a snapshot of more than was recorded.
LEMMA DeedSnapshot ==
  ASSUME NEW s \in Server, NEW led, NEW held, NEW led2, NEW h2, Deciding(s, led, held, led2, h2),
         NEW n, Settled(s, n), Deed(s, n, raft'[s]), NEW c, Len(c) \in Nat,
         NoFurther(raft, late, c)
  PROVE  raft'[s].lastIncludeSnapshotIndex <= Len(c)
  <1>1. Ready(led2, h2, n, raft'[s]) /\ n \in RaftObject /\ SameLog(raft[s], n)
    BY SettledReady
  <1> PICK m, l : m = raft'[s] /\ l = Len(c)  OBVIOUS
  <1>2. n.commitIndex <= l
    <2>1. n.commitIndex = raft[s].commitIndex  BY DEF Settled, Idle, SameProgress, SameCommit
    <2> QED BY <2>1 DEF NoFurther
  <1>3. /\ n.commitIndex \in Nat /\ n.lastIncludeSnapshotIndex \in Nat /\ l \in Nat
        /\ n.lastIncludeSnapshotIndex <= n.commitIndex
    BY <1>1, FieldTypes DEF Ready, Within
  <1>4. ASSUME m.lastIncludeSnapshotIndex = n.lastIncludeSnapshotIndex
        PROVE  m.lastIncludeSnapshotIndex <= l
    BY <1>2, <1>3, <1>4
  <1>5. CASE \/ Sends(n, m)
             \/ \E q \in Requests("RequestVote", s) : GivesVote(n, m, q)
             \/ Appends(n, m) \/ Runs(n, m) \/ Restarts(n, m)
             \/ \E q \in Requests("AppendEntries", s) : Stores(n, m, q)
    BY <1>4, <1>5 DEF Sends, SameProgress, GivesVote, Appends, Runs, Restarts, Stores, SameLog
  <1>6. CASE \E p \in PeersOf(s) : \E i \in Nat : Advances(n, m, p, i)
    BY <1>4, <1>6 DEF Advances, Credits, Applies, Sends, SameProgress, SameLog
  <1>7. CASE Starts(n, m)
    BY <1>4, <1>7 DEF Starts, Appends, Applies, Sends, SameProgress, SameLog
  <1>8. CASE \E i \in n.lastIncludeSnapshotIndex + 1 .. n.commitIndex : Compacts(n, m, i)
    <2>1. PICK i \in n.lastIncludeSnapshotIndex + 1 .. n.commitIndex : Compacts(n, m, i)
      BY <1>8
    <2>2. m.lastIncludeSnapshotIndex = i  BY <2>1 DEF Compacts
    <2> QED BY <1>2, <1>3, <2>2
  <1>9. CASE \E q \in Requests("InstallSnapshot", s) : Installs(n, m, q)
    <2>1. PICK q \in Requests("InstallSnapshot", s) : Installs(n, m, q)  BY <1>9
    <2>2. q.kind = "InstallSnapshot" /\ Carries(c, q)  BY DEF Requests, NoFurther
    <2>3. m.lastIncludeSnapshotIndex = q.lastSnapshotIncludeIndex  BY <2>1 DEF Installs
    <2> QED BY <2>2, <2>3 DEF Carries
  <1> QED BY <1>5, <1>6, <1>7, <1>8, <1>9 DEF Deed

\* What a step of s has handed over: nothing, the commands up to its commit index,
\* a snapshot, or after a restart nothing again.
LEMMA DeedHands ==
  ASSUME NEW s, NEW n, NEW m, Deed(s, n, m), Within(n), n \in RaftObject
  PROVE  \/ m.lastApplied = n.lastApplied /\ m.applyQueue = n.applyQueue
         \/ /\ HandsOver(n, m) /\ m.lastApplied = Larger(n.lastApplied, m.commitIndex)
            /\ m.lastIncludeSnapshotIndex = n.lastIncludeSnapshotIndex
         \/ \E q \in Requests("InstallSnapshot", s) : Installs(n, m, q)
         \/ Restarts(n, m)
  <1> DEFINE Same == m.lastApplied = n.lastApplied /\ m.applyQueue = n.applyQueue
             Hands == /\ HandsOver(n, m) /\ m.lastApplied = Larger(n.lastApplied, m.commitIndex)
                      /\ m.lastIncludeSnapshotIndex = n.lastIncludeSnapshotIndex
  <1>1. CASE \/ Sends(n, m)
             \/ \E q \in Requests("RequestVote", s) : GivesVote(n, m, q)
             \/ Appends(n, m) \/ Runs(n, m)
    BY <1>1 DEF Sends, SameProgress, GivesVote, Appends, Runs, SameCommit
  <1>2. ASSUME NEW a, NEW u, SameCommit(n, a),
               a.lastIncludeSnapshotIndex = n.lastIncludeSnapshotIndex,
               u = a \/ Applies(a, u), Sends(u, m)
        PROVE  Same \/ Hands
    <2>1. SameLog(u, m) /\ SameCommit(u, m)  BY <1>2 DEF Sends, SameProgress
    <2>2. CASE u = a  BY <1>2, <2>1, <2>2 DEF SameCommit
    <2>3. CASE Applies(a, u)
      <3>1. \A i : Command(m, i) = Command(u, i)  BY <2>1, IdleLog DEF Command
      <3>2. HandsOver(n, m)
        <4>1. u.applyQueue = a.applyQueue \o
                [ k \in 1 .. u.commitIndex - a.lastApplied |-> Command(u, a.lastApplied + k) ]
          BY <2>3 DEF Applies, HandsOver
        <4>2. /\ m.applyQueue = u.applyQueue /\ a.applyQueue = n.applyQueue
              /\ m.commitIndex = u.commitIndex /\ a.lastApplied = n.lastApplied
          BY <1>2, <2>1 DEF SameCommit
        <4> QED BY <3>1, <4>1, <4>2 DEF HandsOver
      <3> QED BY <1>2, <2>1, <2>3, <3>2 DEF Applies, SameCommit, SameLog
    <2> QED BY <1>2, <2>2, <2>3
  <1>3. CASE \E p \in PeersOf(s) : \E i \in Nat : Advances(n, m, p, i)
    <2>1. PICK p \in PeersOf(s), i \in Nat : Advances(n, m, p, i)  BY <1>3
    <2>2. PICK a, u \in RaftObject :
            /\ Credits(n, a, p, i) /\ (u = a \/ Applies(a, u)) /\ Sends(u, m)
      BY <2>1 DEF Advances
    <2>3. SameCommit(n, a) /\ a.lastIncludeSnapshotIndex = n.lastIncludeSnapshotIndex
      BY <2>2 DEF Credits, SameLog
    <2> QED BY <1>2, <2>2, <2>3
  <1>4. CASE Starts(n, m)
    <2>1. PICK a, u \in RaftObject :
            /\ Appends(n, a) /\ (u = a \/ Applies(a, u)) /\ Sends(u, m)
      BY <1>4 DEF Starts
    <2>2. SameCommit(n, a) /\ a.lastIncludeSnapshotIndex = n.lastIncludeSnapshotIndex
      BY <2>1 DEF Appends
    <2> QED BY <1>2, <2>1, <2>2
  <1>5. CASE \E i \in n.lastIncludeSnapshotIndex + 1 .. n.commitIndex : Compacts(n, m, i)
    <2>1. PICK i \in n.lastIncludeSnapshotIndex + 1 .. n.commitIndex : Compacts(n, m, i)
      BY <1>5
    <2>2. n.lastApplied \in Nat /\ n.commitIndex = n.lastApplied
          /\ n.lastIncludeSnapshotIndex \in Nat
      BY FieldTypes DEF Within
    <2>3. m.lastApplied = n.lastApplied  BY <2>1, <2>2 DEF Compacts, Larger
    <2> QED BY <2>1, <2>3 DEF Compacts
  <1>6. CASE \E q \in Requests("AppendEntries", s) : Stores(n, m, q)
    BY <1>6 DEF Stores, Learns, SameCommit
  <1> QED BY <1>1, <1>3, <1>4, <1>5, <1>6 DEF Deed

\* The record after a step: what was recorded and, beyond it, what the object m of s
\* has newly committed.
RecordsOf(m, c, d) ==
  \/ m.commitIndex <= Len(c) /\ d = c
  \/ m.commitIndex > Len(c) /\ d = Continued(c, m)

\* Only the server that steps has newly committed anything.
LEMMA RecordsOwn ==
  ASSUME NEW s \in Server, Stepping(s), Len(committed) \in Nat, NoFurther(raft, late, committed),
         RecordCommits
  PROVE  /\ RecordsOf(raft'[s], committed, committed')
         /\ \A x \in Server \ {s} : raft'[x].commitIndex <= Len(committed)
  <1>1. ASSUME NEW x \in Server \ {s}  PROVE raft'[x].commitIndex <= Len(committed)
    <2>1. Waits(s, x) /\ raft[x] \in RaftObject  BY StepTypes DEF Stepping, StepOf
    <2>2. raft'[x].commitIndex = raft[x].commitIndex  BY <2>1, WaitsSame DEF SameCommit
    <2> QED BY <2>2 DEF NoFurther
  <1>2. CASE /\ \A x \in Server : raft'[x].commitIndex <= Len(committed)
             /\ committed' = committed
    BY <1>1, <1>2 DEF RecordsOf
  <1>3. CASE \E x \in Server : /\ raft'[x].commitIndex > Len(committed)
                              /\ committed' = Continued(committed, raft'[x])
    <2>1. PICK x \in Server : /\ raft'[x].commitIndex > Len(committed)
                             /\ committed' = Continued(committed, raft'[x])
      BY <1>3
    <2>2. raft'[x].commitIndex \in Nat  BY StepTypes, FieldTypes
    <2>3. x = s
      <3>1. ~(raft'[x].commitIndex <= Len(committed))  BY <2>1, <2>2
      <3> QED BY <1>1, <3>1
    <2> QED BY <1>1, <2>1, <2>3 DEF RecordsOf
  <1> QED BY <1>2, <1>3 DEF RecordCommits

\* What is recorded after a step: all that was, all of it committed, and all that
\* any server has committed.
LEMMA RecordStep ==
  ASSUME NEW s \in Server, NEW led, NEW held, NEW led2, NEW h2, Deciding(s, led, held, led2, h2),
         NEW c, Recorded(led, held, c), NoFurther(raft, late, c),
         NEW d, RecordsOf(raft'[s], c, d)
  PROVE  /\ Recorded(led2, h2, d) /\ Service!IsPrefix(c, d) /\ Len(c) <= Len(d)
         /\ raft'[s].commitIndex <= Len(d)
  <1> PICK m : m = raft'[s]  OBVIOUS
  <1>0. /\ Stepping(s) /\ Tree(led) /\ Tree(led2) /\ Grows(led, led2) /\ held \subseteq h2
        /\ FromLed(led2, m) /\ m \in RaftObject
    BY DecidingFacts, StepTypes
  <1>1. Recorded(led2, h2, c) /\ c \in Seq(Nat) /\ Len(c) \in Nat /\ m.commitIndex \in Nat
    <2>1. Recorded(led2, h2, c)  BY <1>0, RecordedGrows
    <2>2. c \in Seq(Nat)  BY ONLY Recorded(led, held, c) DEF Recorded
    <2>3. Len(c) \in Nat  BY ONLY <2>2, LenProperties
    <2>4. m.commitIndex \in Nat  BY <1>0, FieldTypes
    <2> QED BY <2>1, <2>2, <2>3, <2>4
  <1>2. CASE m.commitIndex <= Len(c) /\ d = c
    BY <1>1, <1>2 DEF Service!IsPrefix
  <1>3. CASE m.commitIndex > Len(c) /\ d = Continued(c, m)
    <2>1. PICK n : Settled(s, n) /\ Deed(s, n, m)  BY <1>0 DEF Stepping, StepOf
    <2>2. m.lastIncludeSnapshotIndex <= Len(c)  BY <1>1, <2>1, DeedSnapshot
    <2>3. Shape(led2, h2, m)  BY <2>1, DeedShape
    <2>4. /\ Kept(led2, h2, m.commitIndex, m) /\ m.commitIndex <= GetLastLogIndex(m)
      BY <2>3 DEF Shape, Within
    <2> PICK l, i : l = Len(c) /\ i = m.commitIndex  OBVIOUS
    <2>5. /\ d \in Seq(Nat) /\ Len(d) = i
          /\ \A k \in 1 .. l : d[k] = c[k]
          /\ \A k \in l + 1 .. i : IsLogIndex(m, k) /\ d[k] = GetLogTermFromIndex(m, k)
      <3>1. Len(c) < m.commitIndex  BY <1>1, <1>3
      <3> QED BY <1>0, <1>1, <1>3, <2>2, <2>4, <3>1, ContinuedShape
    <2>6. l \in Nat /\ i \in Nat /\ l < i  BY <1>1, <1>3
    <2>7. ASSUME NEW k \in 1 .. Len(d)
          PROVE  \E U \in Nat : CommittedAt(led2, h2, U, k, d[k])
      <3>1. CASE k \in 1 .. l  BY <1>1, <2>5, <3>1 DEF Recorded
      <3>2. CASE k \in l + 1 .. i
        <4>1. k \in 1 .. m.commitIndex /\ IsLogIndex(m, k) /\ d[k] = GetLogTermFromIndex(m, k)
          BY <2>5, <2>6, <3>2
        <4>2. m.currentTerm \in Nat  BY <1>0, FieldTypes
        <4>3. CommittedAt(led2, h2, m.currentTerm, k, GetLogTermFromIndex(m, k))
          BY <1>0, <1>1, <2>4, <4>1, TermCommitted
        <4> QED BY <4>1, <4>2, <4>3
      <3> QED BY <2>5, <2>6, <3>1, <3>2
    <2>8. Service!IsPrefix(c, d)
      <3>1. SubSeq(c, 1, l) = SubSeq(d, 1, l)  BY <2>5, <2>6
      <3> QED BY <2>5, <2>6, <3>1 DEF Service!IsPrefix
    <2> QED BY <2>5, <2>6, <2>7, <2>8 DEF Recorded
  <1> QED BY <1>2, <1>3 DEF RecordsOf

\* No server has committed more than is recorded after a step, no request carries more.
LEMMA NoFurtherStep ==
  ASSUME NEW s \in Server, NEW led, NEW held, NEW led2, NEW h2, Deciding(s, led, held, led2, h2),
         Recorded(led, held, committed), NoFurther(raft, late, committed), RecordCommits
  PROVE  /\ Recorded(led2, h2, committed') /\ Service!IsPrefix(committed, committed')
         /\ NoFurther(raft', late', committed')
  <1> PICK c, d : c = committed /\ d = committed'  OBVIOUS
  <1>0. Stepping(s) /\ StepOf(s) /\ Len(c) \in Nat
    BY DecidingFacts, LenProperties DEF Stepping, Recorded
  <1>1. /\ RecordsOf(raft'[s], c, d)
        /\ \A x \in Server \ {s} : raft'[x].commitIndex <= Len(c)
    BY <1>0, RecordsOwn
  <1>2. /\ Recorded(led2, h2, d) /\ Service!IsPrefix(c, d) /\ Len(c) <= Len(d)
        /\ raft'[s].commitIndex <= Len(d)
    BY <1>1, RecordStep
  <1>3. Len(d) \in Nat  BY <1>2, LenProperties DEF Recorded
  <1>4. ASSUME NEW x \in Server  PROVE raft'[x].commitIndex <= Len(d)
    <2>1. raft'[x].commitIndex \in Nat  BY <1>0, StepTypes, FieldTypes
    <2>2. CASE x # s
      <3>1. raft'[x].commitIndex <= Len(c)  BY <1>1, <2>2
      <3> QED BY <1>0, <1>2, <1>3, <2>1, <3>1
    <2> QED BY <1>2, <2>2
  <1>5. ASSUME NEW q \in Request, Carries(c, q)  PROVE Carries(d, q)
    <2>1. q.kind = "InstallSnapshot" => q.lastSnapshotIncludeIndex \in Nat
      BY RequestTypes DEF InstallSnapshotArgs
    <2> QED BY <1>0, <1>2, <1>3, <1>5, <2>1 DEF Carries
  <1>6. ASSUME NEW x \in Server, NEW t \in raft[x].threadPool  PROVE Carries(d, t.request)
    <2>1. t.request \in Request  BY <1>0, CallRequest
    <2>2. Carries(c, t.request)  BY DEF NoFurther
    <2> QED BY <1>5, <2>1, <2>2
  <1>7. ASSUME NEW x \in Server, NEW t \in raft'[x].threadPool  PROVE Carries(d, t.request)
    <2>1. CASE x = s
      <3>1. PICK n : Settled(s, n) /\ Deed(s, n, raft'[s])  BY <1>0 DEF StepOf
      <3>2. \/ t \in raft[s].threadPool
            \/ Built(raft'[s], t.request) \/ Asked(raft'[s], t.request)
        BY <1>7, <2>1, <3>1, DeedCalls
      <3>3. CASE t \in raft[s].threadPool  BY <1>6, <3>3
      <3>4. CASE Built(raft'[s], t.request)
        <4>1. raft'[s].lastIncludeSnapshotIndex <= raft'[s].commitIndex
          BY <3>1, DeedShape DEF Shape, Within
        <4>2. raft'[s].lastIncludeSnapshotIndex \in Nat /\ raft'[s].commitIndex \in Nat
          BY <1>0, StepTypes, FieldTypes
        <4>3. raft'[s].lastIncludeSnapshotIndex <= Len(d)  BY <1>2, <1>3, <4>1, <4>2
        <4> QED BY <3>4, <4>3 DEF Built, Carries
      <3>5. CASE Asked(raft'[s], t.request)  BY <3>5 DEF Asked, Carries
      <3> QED BY <3>2, <3>3, <3>4, <3>5
    <2>2. CASE x # s
      <3>1. Waits(s, x) /\ raft[x] \in RaftObject  BY <1>0, <2>2, StepTypes DEF StepOf
      <3>2. PICK u \in raft[x].threadPool : u.request = t.request  BY <1>7, <3>1, WaitsSame
      <3> QED BY <1>6, <3>2
    <2> QED BY <2>1, <2>2
  <1>8. ASSUME NEW q \in late'  PROVE Carries(d, q)
    <2>1. CASE q \in late
      <3>1. q \in Request  BY <1>0, <2>1 DEF Stepping, VoteInv, TypeInv
      <3> QED BY <1>5, <2>1, <3>1 DEF NoFurther
    <2>2. CASE q \notin late
      <3>1. PICK x \in Server : \E t \in raft[x].threadPool : t.request = q
        BY <1>0, <1>8, <2>2 DEF StepOf, LateCalls
      <3> QED BY <1>6, <3>1
    <2> QED BY <2>1, <2>2
  <1> QED BY <1>2, <1>4, <1>7, <1>8 DEF NoFurther

\* The commands that the object m hands over are those of the record.
LEMMA HandsRecorded ==
  ASSUME NEW led, NEW held, Tree(led), Ruling(led, held), NEW m \in RaftObject, FromLed(led, m),
         Shape(led, held, m), NEW d, Recorded(led, held, d), m.commitIndex <= Len(d),
         NEW n \in RaftObject, Within(n), HandsOver(n, m),
         m.lastIncludeSnapshotIndex = n.lastIncludeSnapshotIndex
  PROVE  m.applyQueue = n.applyQueue \o Service!Commands(d, n.lastApplied, m.lastApplied)
  <1> PICK a, i : a = n.lastApplied /\ i = m.commitIndex  OBVIOUS
  <1>1. /\ Within(m) /\ Kept(led, held, m.commitIndex, m) /\ m.lastApplied = i
    BY DEF Shape, Within
  <1>2. /\ a \in Nat /\ i \in Nat /\ m.lastIncludeSnapshotIndex \in Nat
        /\ m.lastIncludeSnapshotIndex <= a /\ i <= GetLastLogIndex(m)
        /\ GetLastLogIndex(m) \in Nat /\ m.currentTerm \in Nat /\ Len(d) \in Nat
    BY <1>1, FieldTypes, LogTypes, LenProperties DEF Within, Recorded
  <1>3. ASSUME NEW k \in 1 .. i - a
        PROVE  Command(m, a + k) = Service!Command(d, a + k)
    <2>1. PICK j \in Nat : j = a + k  BY <1>2
    <2>2. j \in 1 .. i /\ IsLogIndex(m, j) /\ j \in 1 .. Len(d)
      <3>1. 1 <= j /\ m.lastIncludeSnapshotIndex <= j /\ j <= i  BY <1>2, <2>1
      <3>2. j <= GetLastLogIndex(m)  BY <1>2, <3>1
      <3>3. j <= Len(d)  BY <1>2, <3>1
      <3> QED BY <1>2, <3>1, <3>2, <3>3 DEF IsLogIndex
    <2>3. CommittedAt(led, held, m.currentTerm, j, GetLogTermFromIndex(m, j))
      BY <1>1, <1>2, <2>2, TermCommitted
    <2>4. d[j] = GetLogTermFromIndex(m, j)  BY <1>2, <2>2, <2>3, RecordedOnce
    <2> QED BY <2>1, <2>4 DEF Command, Service!Command
  <1>4. m.applyQueue = n.applyQueue \o [ k \in 1 .. i - a |-> Command(m, a + k) ]
    BY DEF HandsOver
  <1>5. [ k \in 1 .. i - a |-> Command(m, a + k) ]
          = [ k \in 1 .. i - a |-> Service!Command(d, a + k) ]
    BY <1>3
  <1> QED BY <1>1, <1>4, <1>5 DEF Service!Commands

\* The invariant of the logs after a step: a leader's log has what is committed.
LEMMA RulesAfter ==
  ASSUME NEW led, NEW held, LogInv(led, held)'
  PROVE  Ruling(led, held)
  BY CompleteRules DEF LogInv, LeadersComplete, Never, Quorums

\* A step of s leaves alone what the others have applied and handed over.
LEMMA OthersHandNothing ==
  ASSUME NEW s \in Server, Stepping(s)
  PROVE  /\ AppliedUpTo' = [ AppliedUpTo EXCEPT ![s] = raft'[s].lastApplied ]
         /\ HandedOver' = [ HandedOver EXCEPT ![s] = raft'[s].applyQueue ]
         /\ AppliedUpTo[s] = raft[s].lastApplied /\ HandedOver[s] = raft[s].applyQueue
  <1>1. ASSUME NEW x \in Server, x # s
        PROVE  raft'[x].lastApplied = raft[x].lastApplied
               /\ raft'[x].applyQueue = raft[x].applyQueue
    <2>1. Waits(s, x) /\ raft[x] \in RaftObject  BY <1>1, StepTypes DEF Stepping, StepOf
    <2> QED BY <2>1, WaitsSame DEF SameCommit
  <1>2. AppliedUpTo' = [ AppliedUpTo EXCEPT ![s] = raft'[s].lastApplied ]
    BY <1>1 DEF AppliedUpTo
  <1>3. HandedOver' = [ HandedOver EXCEPT ![s] = raft'[s].applyQueue ]
    BY <1>1 DEF HandedOver
  <1> QED BY <1>2, <1>3 DEF AppliedUpTo, HandedOver

\* Every step hands a server the commands that follow, hands it a snapshot, or lets
\* it start again.
LEMMA StepServes ==
  ASSUME NEW s \in Server, NEW led, NEW held, NEW led2, NEW h2, Deciding(s, led, held, led2, h2),
         Ruling(led2, h2), Recorded(led, held, committed), NoFurther(raft, late, committed),
         RecordCommits
  PROVE  Service!Next
  <1> PICK m, d : m = raft'[s] /\ d = committed'  OBVIOUS
  <1>0. Stepping(s) /\ StepOf(s) /\ Tree(led2) /\ FromLed(led2, m) /\ m \in RaftObject
    BY DecidingFacts, StepTypes DEF Stepping
  <1>1. /\ Recorded(led2, h2, d) /\ Service!IsPrefix(committed, d)
        /\ NoFurther(raft', late', d)
    BY NoFurtherStep
  <1>2. d \in Seq(Nat) /\ Len(d) \in Nat /\ m.commitIndex <= Len(d)
    BY <1>1, LenProperties DEF Recorded, NoFurther
  <1> SUFFICES \/ Service!HandCommands(s) \/ Service!HandSnapshot(s) \/ Service!StartAgain(s)
    BY <1>1, <1>2 DEF Service!Next
  <1>3. PICK n : Settled(s, n) /\ Deed(s, n, m)  BY <1>0 DEF StepOf
  <1>4. Ready(led2, h2, n, m) /\ n \in RaftObject /\ Within(n)
    BY <1>3, SettledReady DEF Ready
  <1>5. Shape(led2, h2, m) /\ Within(m)  BY <1>3, DeedShape DEF Shape
  <1> PICK a, u : a = n.lastApplied /\ u = m.lastApplied  OBVIOUS
  <1>6. /\ AppliedUpTo' = [ AppliedUpTo EXCEPT ![s] = u ]
        /\ HandedOver' = [ HandedOver EXCEPT ![s] = m.applyQueue ]
        /\ AppliedUpTo[s] = a /\ HandedOver[s] = n.applyQueue
    <2>1. raft[s].lastApplied = a /\ raft[s].applyQueue = n.applyQueue
      BY <1>3 DEF Settled, Idle, SameProgress, SameCommit
    <2> QED BY <1>0, <2>1, OthersHandNothing
  <1>7. /\ a \in Nat /\ u \in Nat /\ n.applyQueue \in Seq(ApplyMsg)
        /\ n.lastIncludeSnapshotIndex \in Nat
    BY <1>0, <1>4, FieldTypes
  <1>8. u <= Len(d)  BY <1>2, <1>5 DEF Within
  <1>9. ASSUME u >= a, m.applyQueue = n.applyQueue \o Service!Commands(d, a, u)
        PROVE  Service!HandCommands(s)
    <2>1. u \in AppliedUpTo[s] .. Len(d)  BY <1>2, <1>6, <1>7, <1>8, <1>9
    <2>2. HandedOver' = [ HandedOver EXCEPT ![s] = @ \o Service!Commands(d, AppliedUpTo[s], u) ]
      BY <1>6, <1>9
    <2> QED BY <1>6, <2>1, <2>2 DEF Service!HandCommands
  <1>10. CASE u = a /\ m.applyQueue = n.applyQueue
    <2>1. Service!Commands(d, a, a) = << >>
      <3>1. 1 .. a - a = {}  BY <1>7
      <3> QED BY <3>1 DEF Service!Commands
    <2>2. n.applyQueue \o << >> = n.applyQueue  BY <1>7, ConcatEmptySeq
    <2>3. Service!HandCommands(s)  BY <1>7, <1>9, <1>10, <2>1, <2>2
    <2> QED BY <2>3
  <1>11. CASE /\ HandsOver(n, m) /\ u = Larger(a, m.commitIndex)
              /\ m.lastIncludeSnapshotIndex = n.lastIncludeSnapshotIndex
    <2>1. m.applyQueue = n.applyQueue \o Service!Commands(d, n.lastApplied, m.lastApplied)
      <3>1. HandsOver(n, m) /\ m.lastIncludeSnapshotIndex = n.lastIncludeSnapshotIndex
        BY <1>11
      <3>2. /\ Tree(led2) /\ Ruling(led2, h2) /\ m \in RaftObject /\ FromLed(led2, m)
            /\ Shape(led2, h2, m) /\ Recorded(led2, h2, d) /\ m.commitIndex <= Len(d)
            /\ n \in RaftObject /\ Within(n)
        BY <1>0, <1>1, <1>2, <1>4, <1>5
      <3> QED BY ONLY <3>1, <3>2, HandsRecorded
    <2>2. u >= a
      <3>1. m.commitIndex \in Nat  BY <1>0, FieldTypes
      <3> QED BY <1>7, <1>11, <3>1 DEF Larger
    <2> QED BY <1>9, <2>1, <2>2
  <1>12. CASE \E q \in Requests("InstallSnapshot", s) : Installs(n, m, q)
    <2>1. PICK q \in Requests("InstallSnapshot", s) : Installs(n, m, q)  BY <1>12
    <2>2. q \in Request /\ q.kind = "InstallSnapshot" /\ CommitFits(led2, h2, q)
      BY HandledCommits
    <2>3. q \in InstallSnapshotArgs  BY <2>2, RequestTypes
    <2> PICK i, t : i = q.lastSnapshotIncludeIndex /\ t = q.lastSnapshotIncludeTerm  OBVIOUS
    <2>4. i \in Nat /\ q.term \in Nat  BY <2>3 DEF InstallSnapshotArgs
    <2>5. /\ i > n.lastIncludeSnapshotIndex /\ m.lastIncludeSnapshotIndex = i
          /\ u = Larger(a, i)
          /\ m.applyQueue = Append(n.applyQueue, [ snapshot |-> TRUE, index |-> i, term |-> t ])
      BY <2>1 DEF Installs
    <2>6. i \in 1 .. Len(d)
      <3>1. i <= u  BY <1>7, <2>4, <2>5 DEF Larger
      <3> QED BY <1>2, <1>7, <1>8, <2>4, <2>5, <3>1
    <2>7. d[i] = t
      <3>1. CommittedAt(led2, h2, q.term, i, t)  BY <2>2 DEF CommitFits
      <3> QED BY <1>0, <1>1, <2>4, <2>6, <3>1, RecordedOnce
    <2>8. u = IF i > a THEN i ELSE a  BY <1>7, <2>4, <2>5 DEF Larger
    <2>9. m.applyQueue = Append(n.applyQueue, Service!SnapshotOf(d, i))
      BY <2>5, <2>7 DEF Service!SnapshotOf
    <2>10. Service!HandSnapshot(s)
      BY <1>6, <2>6, <2>8, <2>9 DEF Service!HandSnapshot
    <2> QED BY <2>10
  <1>13. CASE Restarts(n, m)
    <2>1. u = n.lastIncludeSnapshotIndex /\ m.applyQueue = << >>  BY <1>13 DEF Restarts
    <2>2. n.lastIncludeSnapshotIndex <= a  BY <1>4 DEF Within
    <2>3. u \in 0 .. AppliedUpTo[s]  BY <1>6, <1>7, <2>1, <2>2
    <2>4. Service!StartAgain(s)  BY <1>6, <2>1, <2>3 DEF Service!StartAgain
    <2> QED BY <2>4
  <1>14. \/ u = a /\ m.applyQueue = n.applyQueue
         \/ /\ HandsOver(n, m) /\ u = Larger(a, m.commitIndex)
            /\ m.lastIncludeSnapshotIndex = n.lastIncludeSnapshotIndex
         \/ \E q \in Requests("InstallSnapshot", s) : Installs(n, m, q)
         \/ Restarts(n, m)
    BY <1>3, <1>4, DeedHands
  <1> QED BY <1>10, <1>11, <1>12, <1>13, <1>14

\* At the start nothing is recorded, applied or handed over.
LEMMA HistoryInit ==
  ASSUME Init, committed = << >>
  PROVE  HistoryInv /\ Service!Init
  <1>1. PICK led, held : LogInv(led, held)  BY LogInvInit
  <1>2. CommitInv(led, held)  BY CommitInvInit
  <1>3. Recorded(led, held, committed)  BY DEF Recorded
  <1>4. \A s \in Server : /\ raft[s].commitIndex = 0 /\ raft[s].threadPool = {}
                          /\ raft[s].lastApplied = 0 /\ raft[s].applyQueue = << >>
    BY DEF Init, Construct, EmptyDisk
  <1>5. NoFurther(raft, late, committed)
    <2>1. late = {} /\ Len(committed) = 0  BY DEF Init
    <2> QED BY <1>4, <2>1 DEF NoFurther
  <1>6. HistoryInv  BY <1>1, <1>2, <1>3, <1>5, VotesInit DEF HistoryInv
  <1>7. Service!Init
    <2>1. /\ AppliedUpTo = [ s \in Server |-> 0 ] /\ HandedOver = [ s \in Server |-> << >> ]
      BY <1>4 DEF AppliedUpTo, HandedOver
    <2>2. Service!Commands(committed, 0, 0) = << >>
      <3>1. 1 .. 0 - 0 = {}  OBVIOUS
      <3> QED BY <3>1 DEF Service!Commands
    <2>3. committed \in Seq(Nat) /\ Len(committed) = 0  OBVIOUS
    <2>4. AppliedUpTo \in [ Server -> 0 .. Len(committed) ]  BY <2>1, <2>3
    <2>5. HandedOver = [ s \in Server |-> Service!Commands(committed, 0, AppliedUpTo[s]) ]
      BY <2>1, <2>2
    <2> QED BY <2>3, <2>4, <2>5 DEF Service!Init
  <1> QED BY <1>6, <1>7

\* Every step preserves the invariant and is one of the replicated log.
LEMMA HistoryStep ==
  ASSUME Overtaken = {}, HistoryInv, [Next /\ RecordCommits]_historyVars
  PROVE  HistoryInv' /\ [Service!Next]_(Service!logVars)
  <1>1. PICK led, held :
          LogInv(led, held) /\ CommitInv(led, held) /\ Recorded(led, held, committed)
    BY DEF HistoryInv
  <1>2. CASE Next /\ RecordCommits
    <2>1. PICK s \in Server : Stepping(s)  BY <1>2, NextStepping DEF HistoryInv
    <2>2. PICK led2, h2 : Recording(s, led, held, led2, h2) /\ LogInv(led2, h2)'
      BY <1>1, <2>1, LogInvStep
    <2>3. Deciding(s, led, held, led2, h2)  BY <1>1, <2>2 DEF Deciding
    <2>4. CommitInv(led2, h2)'  BY <2>3, CommitInvStep
    <2>5. Recorded(led2, h2, committed') /\ NoFurther(raft', late', committed')
      BY <1>1, <1>2, <2>3, NoFurtherStep DEF HistoryInv
    <2>6. VoteInv'  BY <1>2, VotesStep DEF HistoryInv
    <2>7. Recorded(led2, h2, committed)' /\ NoFurther(raft, late, committed)'
      BY <2>5 DEF Recorded, NoFurther, Carries, CommittedAt, Committed, Quorums
    <2>8. HistoryInv'  BY <2>2, <2>4, <2>6, <2>7 DEF HistoryInv
    <2>9. Service!Next
      BY <1>1, <1>2, <2>2, <2>3, RulesAfter, StepServes DEF HistoryInv
    <2> QED BY <2>8, <2>9
  <1>3. CASE UNCHANGED historyVars
    <2>1. UNCHANGED vars /\ committed' = committed /\ raft' = raft /\ late' = late
      BY <1>3 DEF historyVars, vars
    <2>2. LogInv(led, held)' /\ CommitInv(led, held)'
      BY <1>1, <2>1, LogInvStutters, CommitInvStutters
    <2>3. VoteInv'  BY <2>1, VotesStep DEF HistoryInv
    <2>4. Recorded(led, held, committed)' /\ NoFurther(raft, late, committed)'
      BY <1>1, <2>1 DEF HistoryInv, Recorded, NoFurther, Carries
    <2>5. UNCHANGED Service!logVars
      BY <2>1 DEF Service!logVars, AppliedUpTo, HandedOver
    <2> QED BY <2>2, <2>3, <2>4, <2>5 DEF HistoryInv
  <1> QED BY <1>2, <1>3

\* The cluster implements one log of commands that only grows: what the history
\* records is never revised, whoever restarts, and each server hands its state
\* machine the recorded commands one after the other, or snapshots that end with
\* one of them.
THEOREM ClusterImplementsLog ==
  ASSUME Overtaken = {}
  PROVE  HistorySpec => ImplementsReplicatedLog
  <1>1. Init /\ committed = << >> => HistoryInv /\ Service!Init  BY HistoryInit
  <1>2. HistoryInv /\ [Next /\ RecordCommits]_historyVars
          => HistoryInv' /\ [Service!Next]_(Service!logVars)
    BY HistoryStep
  <1> QED BY <1>1, <1>2, PTL DEF HistorySpec, ImplementsReplicatedLog, Service!Spec
=============================================================================
