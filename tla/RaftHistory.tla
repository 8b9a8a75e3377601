----------------------------- MODULE RaftHistory -----------------------------
(***************************************************************************)
(* Module Raft with one more history variable, the log of all that was     *)
(* ever committed, and what it implements: module ReplicatedLog.           *)
(*                                                                         *)
(* A restart forgets what was committed and handed over.  The history does *)
(* not, so that what comes after a restart is compared with what was       *)
(* before it.                                                              *)
(***************************************************************************)
EXTENDS RaftSafety

VARIABLE committed   \* history: the entries that some server has committed

historyVars == << vars, committed >>

\* c and the entries that n has committed beyond it.
Continued(c, n) ==
  c \o [ k \in 1 .. n.commitIndex - Len(c) |-> GetLogTermFromIndex(n, Len(c) + k) ]

\* What a server newly commits is recorded.
RecordCommits ==
  \/ /\ \A s \in Server : raft'[s].commitIndex <= Len(committed)
     /\ committed' = committed
  \/ \E s \in Server :
       /\ raft'[s].commitIndex > Len(committed)
       /\ committed' = Continued(committed, raft'[s])

HistorySpec ==
  Init /\ committed = << >> /\ [][Next /\ RecordCommits]_historyVars

AppliedUpTo == [ s \in Server |-> raft[s].lastApplied ]

HandedOver == [ s \in Server |-> raft[s].applyQueue ]

Service == INSTANCE ReplicatedLog
             WITH Entry <- Nat, log <- committed, applied <- AppliedUpTo, handed <- HandedOver

\* The apply queues are those of one replicated log: what any server commits stays
\* what it is, also when all that knew it have restarted; every server hands over
\* its entries one after the other, none left out, repeated or exchanged, and after
\* a restart from where its snapshot ends (applyCommitted, handleInstallSnapshot,
\* doSnapshot, readPersist).
ImplementsReplicatedLog == Service!Spec
=============================================================================
