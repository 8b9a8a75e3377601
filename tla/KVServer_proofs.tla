-------------------------- MODULE KVServer_proofs --------------------------
(***************************************************************************)
(* The life of a call of PutAppend, for any number of clients, requests,   *)
(* calls, terms and positions of the log: Finish is called once and never  *)
(* through a deleted reactor, no entry of pendingRequests outlives its     *)
(* call, and a call's end removes no other call's entry.  Every member of  *)
(* the server keeps its type, the snapshots, which fold a log, among them. *)
(* And, without snapshots, the refinement: the server implements the       *)
(* service that executes every command at most once.                       *)
(***************************************************************************)
EXTENDS KVServerSafety, SequenceTheorems, NaturalsInduction, WellFoundedInduction, TLAPS

Ops == Request \cup {NoOp}

EntryType == [term : Nat, op : Ops]

MadeType == SUBSET [index : Nat, entry : EntryType]

RaftType ==
  [log : Seq(EntryType), commitIndex : Nat, currentTerm : Nat, leads : BOOLEAN,
   made : MadeType, snapshots : Nat]

MsgType ==
  [snapshotValid : {FALSE}, index : Nat, term : Nat, op : Ops]
    \cup [snapshotValid : {TRUE}, snapshot : { SnapshotOf(log) : log \in Seq(EntryType) }]

CallType ==
  [handler : {"called", "started", "returned", "elsewhere"}, index : Nat, term : Nat,
   gaveUp : BOOLEAN, done : BOOLEAN, cancelled : BOOLEAN, finishes : Nat,
   callback : {"none", "cancelling", "cancelled", "deleted"}]

\* What is applied is a request or a no-op: pendingRequests is looked up by it.
OpsAreRequests ==
  /\ raft \in RaftType /\ raft.commitIndex <= Len(raft.log)
  /\ applyQue \in Seq(MsgType)
  /\ worker.at = "completing" => worker.msg.op \in Request

\* gRPC calls back when the handler has returned; the last time when the call
\* was finished.
CallIsSound(c) ==
  /\ c \in CallType /\ c.finishes <= 1
  /\ c.handler # "returned" => c.finishes = 0 /\ c.callback = "none"
  /\ c.callback = "deleted" => c.finishes = 1

CallsAreSound ==
  /\ calls \in Seq(CallType) /\ asked \in Seq(Request) /\ Len(asked) = Len(calls)
  /\ \A n \in Call : CallIsSound(calls[n])

\* An entry is for a call that is registered, and that nobody has finished.
Waits(n, r) ==
  /\ n \in Call /\ asked[n] = r
  /\ calls[n].handler = "returned" /\ calls[n].callback = "none" /\ calls[n].finishes = 0

\* So is the call that the apply thread is about to finish, unless its client
\* went away; its entry is gone.
Served(n) ==
  /\ n \in Call
  /\ calls[n].handler = "returned" /\ calls[n].finishes = 0
  /\ pendingRequests[asked[n]] # Nil => pendingRequests[asked[n]].call # n

KVInv ==
  /\ OpsAreRequests
  /\ CallsAreSound
  /\ pendingRequests = [r \in Request |-> pendingRequests[r]]
  /\ \A r \in Request : pendingRequests[r] # Nil => Waits(pendingRequests[r].call, r)
  /\ worker.at \in {"finish", "Finish"} => Served(worker.call)

Others == << applyQue, stateMachine, pendingRequests, calls, worker, executed, clientVars >>

-----------------------------------------------------------------------------
(* Raft's steps.                                                           *)

\* A sequence with one more element.
LEMMA Appended ==
  ASSUME NEW S, NEW s \in Seq(S), NEW e \in S
  PROVE  /\ Append(s, e) \in Seq(S) /\ Len(Append(s, e)) = Len(s) + 1
         /\ Append(s, e)[Len(s) + 1] = e
         /\ \A i \in 1 .. Len(s) : Append(s, e)[i] = s[i]
  BY AppendProperties, LenProperties

\* What a leader does to its log keeps the log's type.
LEMMA LeaderAppendsType ==
  ASSUME OpsAreRequests, NEW t \in Nat, NEW op \in Ops
  PROVE  /\ LeaderAppends(t, op) \in RaftType
         /\ LeaderAppends(t, op).commitIndex <= Len(LeaderAppends(t, op).log)
         /\ LastIndex + 1 \in Nat
  <1> DEFINE e == Entry(t, op)
             log == Append(raft.log, e)
             made == raft.made \cup {Made(LastIndex + 1, e)}
  <1>1. e \in EntryType  BY DEF Entry, EntryType
  <1>2. raft.log \in Seq(EntryType) /\ raft.made \in MadeType
    BY DEF OpsAreRequests, RaftType
  <1>3. Len(raft.log) \in Nat /\ log \in Seq(EntryType) /\ Len(log) = Len(raft.log) + 1
    BY <1>1, <1>2, LenProperties, Appended
  <1>4. made \in MadeType
    BY <1>1, <1>2, <1>3 DEF Made, MadeType, LastIndex
  <1>5. LeaderAppends(t, op) = [raft EXCEPT !.currentTerm = t, !.leads = TRUE, !.log = log,
                                            !.made = made]
    BY DEF LeaderAppends
  <1> HIDE DEF log, made, e
  <1>6. raft \in RaftType /\ raft.commitIndex <= Len(raft.log)  BY DEF OpsAreRequests
  <1>7. LeaderAppends(t, op) \in RaftType  BY <1>3, <1>4, <1>5, <1>6 DEF RaftType
  <1>8. /\ LeaderAppends(t, op).commitIndex = raft.commitIndex
        /\ LeaderAppends(t, op).log = log
    BY <1>5, <1>6 DEF RaftType
  <1>9. raft.commitIndex \in Nat  BY <1>6 DEF RaftType
  <1> QED BY <1>3, <1>6, <1>7, <1>8, <1>9 DEF LastIndex

\* A log that is cut at a position and gets a new entry there.
LEMMA CutType ==
  ASSUME OpsAreRequests, NEW i \in 1 .. LastIndex + 1, NEW t \in Nat, NEW op \in Ops
  PROVE  LET log == Append(SubSeq(raft.log, 1, i - 1), Entry(t, op))
         IN log \in Seq(EntryType) /\ Len(log) = i
  <1>1. raft.log \in Seq(EntryType) /\ Len(raft.log) \in Nat
    BY LenProperties DEF OpsAreRequests, RaftType
  <1>2. \A j \in 1 .. i - 1 : raft.log[j] \in EntryType
    BY <1>1, ElementOfSeq DEF LastIndex
  <1>3. SubSeq(raft.log, 1, i - 1) \in Seq(EntryType) /\ Len(SubSeq(raft.log, 1, i - 1)) = i - 1
    BY <1>1, <1>2, SubSeqProperties DEF LastIndex
  <1>4. Entry(t, op) \in EntryType  BY DEF Entry, EntryType
  <1> QED BY <1>3, <1>4, Appended DEF LastIndex

\* Clients ask for requests, so what is in a log is a request or a no-op.
LEMMA CommandTypes ==
  ASSUME CallsAreSound
  PROVE  Commands \subseteq Ops /\ \A n \in Call : asked[n] \in Request
  <1>1. \A n \in Call : asked[n] \in Request
    BY ElementOfSeq DEF CallsAreSound, Call
  <1> QED BY <1>1 DEF Commands, Ops

\* Raft's steps keep the type of the log and of the messages, and nothing else
\* of this server changes.
LEMMA RaftSteps ==
  ASSUME KVInv, RaftStep
  PROVE  OpsAreRequests' /\ UNCHANGED << pendingRequests, calls, asked, worker >>
  <1>1. /\ OpsAreRequests /\ CallsAreSound /\ raft \in RaftType /\ raft.currentTerm \in Nat
        /\ raft.commitIndex \in Nat /\ raft.commitIndex <= LastIndex /\ raft.snapshots \in Nat
        /\ raft.log \in Seq(EntryType) /\ applyQue \in Seq(MsgType) /\ LastIndex \in Nat
    BY LenProperties DEF KVInv, OpsAreRequests, RaftType, LastIndex
  <1>2. Commands \subseteq Ops /\ NoOp \in Ops  BY <1>1, CommandTypes DEF Ops
  <1>3. CASE Elected
    <2>1. PICK t \in raft.currentTerm + 1 .. MaxTerm :
            raft' = LeaderAppends(t, NoOp) /\ UNCHANGED Others
      BY <1>3 DEF Elected, Others
    <2>2. t \in Nat  BY <1>1, KVServerAssumption
    <2>3. raft' \in RaftType /\ raft'.commitIndex <= Len(raft'.log)
      BY <1>1, <1>2, <2>1, <2>2, LeaderAppendsType
    <2> QED BY <1>1, <2>1, <2>3 DEF OpsAreRequests, Others, clientVars
  <1>4. CASE Deposed
    <2>1. PICK t \in raft.currentTerm + 1 .. MaxTerm :
            raft' = [raft EXCEPT !.currentTerm = t, !.leads = FALSE] /\ UNCHANGED Others
      BY <1>4 DEF Deposed, Others
    <2>2. t \in Nat  BY <1>1, KVServerAssumption
    <2>3. raft' \in RaftType /\ raft'.commitIndex = raft.commitIndex /\ raft'.log = raft.log
      BY <1>1, <2>1, <2>2 DEF RaftType
    <2> QED BY <1>1, <2>1, <2>3 DEF OpsAreRequests, Others, clientVars, LastIndex
  <1>5. CASE Follows
    <2>1. PICK op \in Commands, i \in Replaceable, t \in 1 .. MaxTerm :
            /\ raft' = [raft EXCEPT !.log = Append(SubSeq(raft.log, 1, i - 1), Entry(t, op))]
            /\ UNCHANGED Others
      BY <1>5 DEF Follows, Follow, Others
    <2> DEFINE log == Append(SubSeq(raft.log, 1, i - 1), Entry(t, op))
    <2>2. i \in 1 .. LastIndex + 1 /\ i > raft.commitIndex /\ t \in Nat
      BY <1>1, KVServerAssumption DEF Replaceable
    <2>3. log \in Seq(EntryType) /\ Len(log) = i  BY <1>1, <1>2, <2>2, CutType
    <2>4. raft' = [raft EXCEPT !.log = log]  BY <2>1
    <2> HIDE DEF log
    <2>5. raft' \in RaftType /\ raft'.commitIndex = raft.commitIndex /\ raft'.log = log
      BY <1>1, <2>3, <2>4 DEF RaftType
    <2> QED BY <1>1, <2>1, <2>2, <2>3, <2>5 DEF OpsAreRequests, Others, clientVars
  <1>6. CASE Commits
    <2>1. PICK i \in raft.commitIndex + 1 .. LastIndex :
            /\ raft' = [raft EXCEPT !.commitIndex = i]
            /\ applyQue' = applyQue \o [j \in 1 .. i - raft.commitIndex |->
                                          CommandMsg(raft.commitIndex + j)]
            /\ UNCHANGED << stateMachine, pendingRequests, calls, worker, executed, clientVars >>
      BY <1>6 DEF Commits
    <2> DEFINE k == i - raft.commitIndex
               batch == [j \in 1 .. k |-> CommandMsg(raft.commitIndex + j)]
    <2>2. i \in Nat /\ i <= LastIndex /\ k \in Nat  BY <1>1
    <2>3. ASSUME NEW j \in 1 .. k
          PROVE  CommandMsg(raft.commitIndex + j) \in MsgType
      <3>1. raft.commitIndex + j \in 1 .. Len(raft.log)  BY SMTT(30), <1>1, <2>2 DEF LastIndex
      <3>2. raft.log[raft.commitIndex + j] \in EntryType  BY <1>1, <3>1, ElementOfSeq
      <3> DEFINE x == raft.commitIndex + j
      <3>3. x \in Nat /\ raft.log[x].term \in Nat /\ raft.log[x].op \in Ops
        <4>1. x \in Nat  BY <1>1, <3>1 DEF LastIndex
        <4> QED BY <3>2, <4>1 DEF EntryType
      <3>4. CommandMsg(x) \in [snapshotValid : {FALSE}, index : Nat, term : Nat, op : Ops]
        <4> HIDE DEF x
        <4> QED BY <3>3 DEF CommandMsg
      <3> QED BY <3>4 DEF MsgType
    <2>4. batch \in [1 .. k -> MsgType]  BY <2>3
    <2>5. batch \in Seq(MsgType)  BY <2>2, <2>4, SeqDef
    <2> HIDE DEF batch
    <2>6. applyQue' \in Seq(MsgType)  BY <1>1, <2>1, <2>5, ConcatProperties DEF batch
    <2>7. raft' \in RaftType /\ raft'.commitIndex = i /\ raft'.log = raft.log
      BY <1>1, <2>1, <2>2 DEF RaftType
    <2> QED BY <1>1, <2>1, <2>2, <2>6, <2>7 DEF OpsAreRequests, clientVars, LastIndex
  <1>7. CASE InstallsSnapshot
    <2>1. PICK t \in 1 .. MaxTerm, op \in Commands :
            LET i   == raft.commitIndex + 1
                log == Append(SubSeq(raft.log, 1, i - 1), Entry(t, op))
            IN /\ raft' = [raft EXCEPT !.log = log, !.commitIndex = i, !.snapshots = @ + 1]
               /\ applyQue' = Append(applyQue, [snapshotValid |-> TRUE, snapshot |-> SnapshotOf(log)])
               /\ UNCHANGED << stateMachine, pendingRequests, calls, worker, executed, clientVars >>
      BY <1>7 DEF InstallsSnapshot
    <2> DEFINE i   == raft.commitIndex + 1
               log == Append(SubSeq(raft.log, 1, i - 1), Entry(t, op))
               msg == [snapshotValid |-> TRUE, snapshot |-> SnapshotOf(log)]
    <2>2. i \in 1 .. LastIndex + 1 /\ t \in Nat  BY <1>1, KVServerAssumption
    <2>3. log \in Seq(EntryType) /\ Len(log) = i  BY <1>1, <1>2, <2>2, CutType
    <2>4. raft' = [raft EXCEPT !.log = log, !.commitIndex = i, !.snapshots = raft.snapshots + 1]
      BY <2>1
    <2>5. applyQue' = Append(applyQue, msg)  BY <2>1
    <2> HIDE DEF log
    <2>6. msg \in MsgType  BY <2>3 DEF MsgType
    <2>7. applyQue' \in Seq(MsgType)  BY <1>1, <2>5, <2>6, Appended
    <2>8. raft' \in RaftType /\ raft'.commitIndex = i /\ raft'.log = log
      <3>1. raft.snapshots + 1 \in Nat  BY <1>1
      <3>2. i \in Nat  BY <2>2, <1>1
      <3> HIDE DEF i
      <3> QED BY <1>1, <2>3, <2>4, <3>1, <3>2 DEF RaftType
    <2> QED BY SMTT(30), <1>1, <2>1, <2>2, <2>3, <2>7, <2>8 DEF OpsAreRequests, clientVars
  <1> QED BY <1>3, <1>4, <1>5, <1>6, <1>7 DEF RaftStep

-----------------------------------------------------------------------------
(* Calls.                                                                  *)

\* One call changes, soundly.
LEMMA CallChanges ==
  ASSUME CallsAreSound, NEW n \in Call, NEW c, CallIsSound(c),
         calls' = [calls EXCEPT ![n] = c], asked' = asked
  PROVE  /\ CallsAreSound' /\ Call' = Call /\ calls'[n] = c
         /\ \A m \in Call : m # n => calls'[m] = calls[m]
  <1>1. calls \in Seq(CallType) /\ c \in CallType /\ n \in 1 .. Len(calls)
    BY DEF CallsAreSound, CallIsSound, Call
  <1>2. /\ calls' \in Seq(CallType) /\ Len(calls') = Len(calls)
        /\ \A m \in 1 .. Len(calls) : calls'[m] = IF m = n THEN c ELSE calls[m]
    BY <1>1, ExceptSeq
  <1> QED BY <1>1, <1>2 DEF CallsAreSound, Call

\* The fields of a call, for the lemmas below.
LEMMA CallFields ==
  ASSUME CallsAreSound, NEW n \in Call
  PROVE  calls[n] \in CallType /\ CallIsSound(calls[n])
  BY DEF CallsAreSound, CallIsSound

\* A call changes that waits for nobody and that nobody serves, or changes only
\* flags: the invariant stays, whoever's entries go.
LEMMA CallKeeps ==
  ASSUME KVInv, NEW n \in Call, NEW c, CallIsSound(c),
         calls' = [calls EXCEPT ![n] = c],
         pendingRequests' = [r \in Request |-> pendingRequests'[r]],
         \A r \in Request : pendingRequests'[r] # Nil =>
           /\ pendingRequests'[r] = pendingRequests[r]
           /\ pendingRequests[r].call = n => c.callback = "none",
         calls[n].handler = "returned" => c.handler = "returned" /\ c.finishes = calls[n].finishes,
         worker'.at \in {"finish", "Finish"} =>
           worker.at \in {"finish", "Finish"} /\ worker'.call = worker.call,
         asked' = asked, OpsAreRequests'
  PROVE  KVInv'
  <1>1. /\ CallsAreSound' /\ Call' = Call /\ calls'[n] = c
        /\ \A m \in Call : m # n => calls'[m] = calls[m]
    BY CallChanges DEF KVInv
  <1>2. ASSUME NEW r \in Request, pendingRequests'[r] # Nil
        PROVE  Waits(pendingRequests[r].call, r)' /\ pendingRequests'[r] = pendingRequests[r]
    BY <1>1, <1>2 DEF KVInv, Waits
  <1>3. worker'.at \in {"finish", "Finish"} => Served(worker.call)'
    <2> SUFFICES ASSUME worker'.at \in {"finish", "Finish"}
                 PROVE  Served(worker.call)'
      OBVIOUS
    <2>1. Served(worker.call)  BY DEF KVInv
    <2>2. asked[worker.call] \in Request  BY <2>1, CommandTypes DEF KVInv, Served
    <2> QED BY <1>1, <2>1, <2>2 DEF Served
  <1> QED BY <1>1, <1>2, <1>3 DEF KVInv

\* The end of a call takes its own entry away, and no other.
LEMMA WithoutOwn ==
  ASSUME KVInv, NEW n \in Call, pendingRequests' = WithoutCall(n)
  PROVE  /\ pendingRequests' = [r \in Request |-> pendingRequests'[r]]
         /\ \A r \in Request : pendingRequests'[r] # Nil =>
              pendingRequests'[r] = pendingRequests[r] /\ pendingRequests[r].call # n
         /\ \A r \in Request : pendingRequests'[r] # pendingRequests[r] =>
              pendingRequests[r].call = n
  <1>1. asked[n] \in Request  BY CommandTypes DEF KVInv
  <1>2. pendingRequests = [r \in Request |-> pendingRequests[r]]  BY DEF KVInv
  <1>3. \A r \in Request : pendingRequests[r] # Nil => asked[pendingRequests[r].call] = r
    BY DEF KVInv, Waits
  <1> QED BY <1>1, <1>2, <1>3 DEF WithoutCall

\* Steps of the calls and clients, but for the registration.
LEMMA CallSteps ==
  ASSUME KVInv, NEW n \in Call,
         StartPut(n) \/ OnCancel(n) \/ OnDone(n) \/ Cancel(n) \/ GiveUp(n)
  PROVE  KVInv'
  <1>1. /\ calls[n] \in CallType /\ CallIsSound(calls[n]) /\ OpsAreRequests
        /\ asked[n] \in Request
        /\ pendingRequests = [r \in Request |-> pendingRequests[r]]
        /\ \A r \in Request : pendingRequests[r] # Nil => Waits(pendingRequests[r].call, r)
    BY CallFields, CommandTypes DEF KVInv
  <1>2. CASE StartPut(n)
    <2>1. /\ calls[n].handler = "called" /\ calls[n].finishes = 0 /\ calls[n].callback = "none"
          /\ UNCHANGED << applyQue, pendingRequests, worker, asked >>
      BY <1>1, <1>2 DEF StartPut, CallIsSound
    <2>2. CASE raft.leads
      <3> DEFINE c == [calls[n] EXCEPT !.handler = "started", !.index = LastIndex + 1,
                                       !.term = raft.currentTerm]
      <3>1. calls' = [calls EXCEPT ![n] = c] /\ raft' = LeaderAppends(raft.currentTerm, asked[n])
        BY <1>2, <2>2 DEF StartPut
      <3>2. raft.currentTerm \in Nat /\ asked[n] \in Ops
        BY <1>1 DEF OpsAreRequests, RaftType, Ops
      <3>3. raft' \in RaftType /\ raft'.commitIndex <= Len(raft'.log) /\ LastIndex + 1 \in Nat
        BY <1>1, <3>1, <3>2, LeaderAppendsType
      <3>4. OpsAreRequests'  BY <1>1, <2>1, <3>3 DEF OpsAreRequests
      <3>5. /\ c \in CallType /\ c.handler = "started" /\ c.finishes = 0 /\ c.callback = "none"
        BY <1>1, <2>1, <3>2, <3>3 DEF CallType
      <3> HIDE DEF c
      <3>6. CallIsSound(c)  BY <3>5 DEF CallIsSound
      <3> QED BY <1>1, <2>1, <3>1, <3>4, <3>5, <3>6, CallKeeps
    <2>3. CASE ~raft.leads
      <3> DEFINE c == Finished([calls[n] EXCEPT !.handler = "returned"])
      <3>1. calls' = [calls EXCEPT ![n] = c] /\ raft' = raft
        BY <1>2, <2>3 DEF StartPut
      <3>2. OpsAreRequests'  BY <1>1, <2>1, <3>1 DEF OpsAreRequests
      <3> DEFINE d == [calls[n] EXCEPT !.handler = "returned"]
      <3>3. d \in CallType /\ d.handler = "returned" /\ d.finishes = 0 /\ d.callback = "none"
        BY <1>1, <2>1 DEF CallType
      <3>6. c = Finished(d)  OBVIOUS
      <3> HIDE DEF c, d
      <3>4. /\ c \in CallType /\ c.handler = "returned" /\ c.finishes = 1 /\ c.callback = "none"
        <4>1. c = [d EXCEPT !.finishes = 1]  BY <3>3, <3>6 DEF Finished
        <4> QED BY <3>3, <4>1 DEF CallType
      <3>5. CallIsSound(c)  BY <3>4 DEF CallIsSound
      <3> QED BY <1>1, <2>1, <3>1, <3>2, <3>4, <3>5, CallKeeps
    <2> QED BY <2>2, <2>3
  <1>3. CASE OnCancel(n)
    <2> DEFINE c == [calls[n] EXCEPT !.callback = "cancelling"]
    <2>1. /\ calls' = [calls EXCEPT ![n] = c] /\ pendingRequests' = WithoutCall(n)
          /\ calls[n].handler = "returned" /\ UNCHANGED << raft, applyQue, worker, asked >>
      BY <1>3 DEF OnCancel, clientVars
    <2>2. /\ c \in CallType /\ c.handler = calls[n].handler /\ c.finishes = calls[n].finishes
          /\ c.callback = "cancelling"
      BY <1>1 DEF CallType
    <2> HIDE DEF c
    <2>3. CallIsSound(c)  BY <1>1, <2>1, <2>2 DEF CallIsSound
    <2>4. OpsAreRequests'  BY <1>1, <2>1 DEF OpsAreRequests
    <2> QED BY <2>1, <2>2, <2>3, <2>4, WithoutOwn, CallKeeps
  <1>4. CASE OnDone(n)
    <2> DEFINE c == [calls[n] EXCEPT !.cancelled = TRUE, !.callback = "deleted"]
    <2>1. /\ calls' = [calls EXCEPT ![n] = c] /\ pendingRequests' = WithoutCall(n)
          /\ calls[n].handler = "returned" /\ calls[n].finishes > 0
          /\ UNCHANGED << raft, applyQue, worker, asked >>
      BY <1>4 DEF OnDone, clientVars
    <2>2. /\ c \in CallType /\ c.handler = calls[n].handler /\ c.finishes = calls[n].finishes
          /\ c.callback = "deleted"
      BY <1>1 DEF CallType
    <2>5. calls[n].finishes = 1  BY <1>1, <2>1 DEF CallType, CallIsSound
    <2> HIDE DEF c
    <2>3. CallIsSound(c)  BY <1>1, <2>1, <2>2, <2>5 DEF CallIsSound
    <2>4. OpsAreRequests'  BY <1>1, <2>1 DEF OpsAreRequests
    <2> QED BY <2>1, <2>2, <2>3, <2>4, WithoutOwn, CallKeeps
  <1>5. CASE Cancel(n)
    <2> DEFINE c == [calls[n] EXCEPT !.cancelled = TRUE, !.callback = "cancelled"]
    <2>1. /\ calls' = [calls EXCEPT ![n] = c] /\ calls[n].callback = "cancelling"
          /\ UNCHANGED << raft, applyQue, pendingRequests, worker, asked >>
      BY <1>5 DEF Cancel, clientVars
    <2>2. /\ c \in CallType /\ c.handler = calls[n].handler /\ c.finishes = calls[n].finishes
          /\ c.callback = "cancelled" /\ calls[n].handler = "returned"
      BY <1>1, <2>1 DEF CallType, CallIsSound
    <2> HIDE DEF c
    <2>3. CallIsSound(c)  BY <1>1, <2>1, <2>2 DEF CallIsSound
    <2>4. OpsAreRequests'  BY <1>1, <2>1 DEF OpsAreRequests
    <2>5. \A r \in Request : pendingRequests[r] # Nil => pendingRequests[r].call # n
      BY <1>1, <2>1 DEF Waits
    <2> QED BY <1>1, <2>1, <2>2, <2>3, <2>4, <2>5, CallKeeps
  <1>6. CASE GiveUp(n)
    <2> DEFINE c == [calls[n] EXCEPT !.gaveUp = TRUE]
    <2>1. /\ calls' = [calls EXCEPT ![n] = c]
          /\ UNCHANGED << raft, applyQue, pendingRequests, worker, asked >>
      BY <1>6 DEF GiveUp, clientVars
    <2>2. /\ c \in CallType /\ c.handler = calls[n].handler /\ c.finishes = calls[n].finishes
          /\ c.callback = calls[n].callback
      BY <1>1 DEF CallType
    <2> HIDE DEF c
    <2>3. CallIsSound(c)  BY <1>1, <2>2 DEF CallIsSound
    <2>4. OpsAreRequests'  BY <1>1, <2>1 DEF OpsAreRequests
    <2>5. \A r \in Request : pendingRequests[r] # Nil /\ pendingRequests[r].call = n =>
            c.callback = "none"
      BY <1>1, <2>2 DEF Waits
    <2> QED BY <1>1, <2>1, <2>2, <2>3, <2>4, <2>5, CallKeeps
  <1> QED BY <1>2, <1>3, <1>4, <1>5, <1>6

\* A call that is registered waits, unless another attempt at its request does.
LEMMA RegisterSteps ==
  ASSUME KVInv, NEW n \in Call, RegisterPending(n)
  PROVE  KVInv'
  <1> DEFINE r == asked[n]
             c == [calls[n] EXCEPT !.handler = "returned", !.index = 0, !.term = 0]
             e == [logIndex |-> calls[n].index, logTerm |-> calls[n].term, call |-> n]
  <1>1. /\ calls[n] \in CallType /\ CallIsSound(calls[n]) /\ OpsAreRequests /\ CallsAreSound
        /\ r \in Request /\ pendingRequests = [q \in Request |-> pendingRequests[q]]
        /\ \A q \in Request : pendingRequests[q] # Nil => Waits(pendingRequests[q].call, q)
        /\ calls[n].handler = "started" /\ calls' = [calls EXCEPT ![n] = c]
        /\ UNCHANGED << raft, applyQue, worker, asked >>
    BY CallFields, CommandTypes DEF KVInv, RegisterPending, clientVars
  <1>2. /\ c \in CallType /\ c.handler = "returned" /\ c.finishes = 0 /\ c.callback = "none"
    BY <1>1 DEF CallType, CallIsSound
  <1>3. pendingRequests' = pendingRequests \/ pendingRequests' = [pendingRequests EXCEPT ![r] = e]
    BY DEF RegisterPending
  <1>4. e.call = n  OBVIOUS
  <1> HIDE DEF c, e
  <1>5. CallIsSound(c)  BY <1>2 DEF CallIsSound
  <1>6. /\ CallsAreSound' /\ Call' = Call /\ calls'[n] = c
        /\ \A m \in Call : m # n => calls'[m] = calls[m]
    BY <1>1, <1>5, CallChanges
  <1>7. OpsAreRequests'  BY <1>1 DEF OpsAreRequests
  <1>8. pendingRequests' = [q \in Request |-> pendingRequests'[q]]  BY <1>1, <1>3
  <1>9. ASSUME NEW q \in Request, pendingRequests'[q] # Nil
        PROVE  Waits(pendingRequests[q].call, q)'
    <2>1. CASE pendingRequests'[q] = pendingRequests[q]
      <3>1. Waits(pendingRequests[q].call, q)  BY <1>1, <1>9, <2>1
      <3> QED BY <1>1, <1>2, <1>6, <2>1, <3>1 DEF Waits
    <2>2. CASE pendingRequests'[q] # pendingRequests[q]
      <3>1. q = r /\ pendingRequests'[q] = e  BY <1>1, <1>3, <2>2
      <3> QED BY <1>1, <1>2, <1>4, <1>6, <3>1 DEF Waits
    <2> QED BY <2>1, <2>2
  <1>10. worker'.at \in {"finish", "Finish"} => Served(worker.call)'
    <2> SUFFICES ASSUME worker'.at \in {"finish", "Finish"}
                 PROVE  Served(worker.call)'
      OBVIOUS
    <2>1. Served(worker.call)  BY <1>1 DEF KVInv
    <2>2. asked[worker.call] \in Request /\ worker.call # n
      BY <1>1, <2>1, CommandTypes DEF Served
    <2> QED BY <1>1, <1>3, <1>4, <1>6, <2>1, <2>2 DEF Served
  <1> QED BY <1>6, <1>7, <1>8, <1>9, <1>10 DEF KVInv

\* A new call is nobody's yet.
LEMMA AskSteps ==
  ASSUME KVInv, NEW q \in Request, NEW handler \in {"called", "elsewhere"}, Ask(q, handler)
  PROVE  KVInv'
  <1> DEFINE c == NewCall(handler)
  <1>1. /\ calls' = Append(calls, c) /\ asked' = Append(asked, q)
        /\ UNCHANGED << raft, applyQue, pendingRequests, worker >>
        /\ calls \in Seq(CallType) /\ asked \in Seq(Request) /\ Len(asked) = Len(calls)
        /\ \A n \in Call : CallIsSound(calls[n])
    BY DEF Ask, KVInv, CallsAreSound
  <1>2. CallIsSound(c)
    <2>1. c \in CallType /\ c.finishes = 0 /\ c.callback = "none"  BY DEF NewCall, CallType
    <2> HIDE DEF c
    <2> QED BY <2>1 DEF CallIsSound
  <1> HIDE DEF c
  <1>3. /\ calls' \in Seq(CallType) /\ Len(calls') = Len(calls) + 1
        /\ calls'[Len(calls) + 1] = c /\ \A n \in 1 .. Len(calls) : calls'[n] = calls[n]
        /\ Len(calls) \in Nat
    BY <1>1, <1>2, Appended, LenProperties DEF CallIsSound
  <1>4. /\ asked' \in Seq(Request) /\ Len(asked') = Len(asked) + 1
        /\ \A n \in 1 .. Len(asked) : asked'[n] = asked[n]
    BY <1>1, Appended, LenProperties
  <1>5. Call \subseteq Call' /\ \A n \in Call : calls'[n] = calls[n] /\ asked'[n] = asked[n]
    BY <1>1, <1>3, <1>4 DEF Call
  <1>6. \A n \in Call' : n \in Call \/ calls'[n] = c
    BY <1>3 DEF Call
  <1>7. CallsAreSound'
    <2>1. \A n \in Call' : CallIsSound(calls'[n])  BY <1>1, <1>2, <1>5, <1>6
    <2> QED BY <1>1, <1>3, <1>4, <2>1 DEF CallsAreSound
  <1>8. \A r \in Request : pendingRequests'[r] # Nil => Waits(pendingRequests[r].call, r)'
    <2> SUFFICES ASSUME NEW r \in Request, pendingRequests[r] # Nil
                 PROVE  Waits(pendingRequests[r].call, r)'
      BY <1>1
    <2>1. Waits(pendingRequests[r].call, r)  BY DEF KVInv
    <2>2. pendingRequests'[r] = pendingRequests[r]  BY <1>1
    <2> QED BY <1>5, <2>1, <2>2 DEF Waits
  <1>9. worker'.at \in {"finish", "Finish"} => Served(worker.call)'
    BY <1>1, <1>5 DEF KVInv, Served
  <1> QED BY <1>1, <1>7, <1>8, <1>9 DEF KVInv, OpsAreRequests

-----------------------------------------------------------------------------
(* The apply thread.                                                       *)

\* The thread takes a message, or is done with one.
LEMMA TakesMessage ==
  ASSUME KVInv, ApplyCommand \/ Restore
  PROVE  KVInv'
  <1> DEFINE msg == Head(applyQue)
  <1>1. /\ applyQue \in Seq(MsgType) /\ applyQue # << >> /\ applyQue' = Tail(applyQue)
        /\ UNCHANGED << raft, pendingRequests, calls, asked >> /\ worker = Idle
    BY DEF KVInv, OpsAreRequests, ApplyCommand, Restore, clientVars
  <1>2. msg \in MsgType /\ applyQue' \in Seq(MsgType)  BY <1>1, HeadTailProperties
  <1>3. worker' = Idle \/ \E reply : (worker' = Completing(msg, reply) /\ msg.op \in Request)
    <2>1. CASE Restore  BY <1>1, <2>1 DEF Restore
    <2>2. CASE ApplyCommand
      <3>1. ~msg.snapshotValid  BY <2>2 DEF ApplyCommand
      <3>2. msg.op \in Ops  BY <1>2, <3>1 DEF MsgType
      <3>3. worker' = worker \/ (msg.op # NoOp /\ worker' = Completing(msg, Reply(stateMachine, msg.op)))
        BY <2>2 DEF ApplyCommand
      <3> QED BY <1>1, <3>2, <3>3 DEF Ops
    <2> QED BY <2>1, <2>2
  <1> HIDE DEF msg
  <1>4. /\ worker'.at \notin {"finish", "Finish"}
        /\ worker'.at = "completing" => worker'.msg.op \in Request
    BY <1>3 DEF Idle, Completing
  <1>5. OpsAreRequests'  BY <1>1, <1>2, <1>4 DEF KVInv, OpsAreRequests
  <1>6. CallsAreSound'  BY <1>1 DEF KVInv, CallsAreSound, Call
  <1>7. \A r \in Request : pendingRequests'[r] # Nil => Waits(pendingRequests[r].call, r)'
    BY <1>1 DEF KVInv, Waits, Call
  <1> QED BY <1>1, <1>4, <1>5, <1>6, <1>7 DEF KVInv

\* It takes the entry of the request it has applied, and serves its call.
LEMMA CompleteSteps ==
  ASSUME KVInv, CompletePending
  PROVE  KVInv'
  <1> DEFINE r == worker.msg.op
  <1>1. /\ r \in Request /\ pendingRequests = [q \in Request |-> pendingRequests[q]]
        /\ \A q \in Request : pendingRequests[q] # Nil => Waits(pendingRequests[q].call, q)
        /\ pendingRequests' = [pendingRequests EXCEPT ![r] = Nil]
        /\ UNCHANGED << raft, applyQue, calls, asked >>
    BY DEF KVInv, OpsAreRequests, CompletePending, clientVars
  <1>2. \/ worker' = Idle
        \/ /\ pendingRequests[r] # Nil
           /\ worker' = Finishing("finish", pendingRequests[r].call, worker.reply)
    BY DEF CompletePending
  <1> HIDE DEF r
  <1>3. worker'.at # "completing"  BY <1>2 DEF Idle, Finishing
  <1>4. OpsAreRequests'  BY <1>1, <1>3 DEF KVInv, OpsAreRequests
  <1>5. CallsAreSound'  BY <1>1 DEF KVInv, CallsAreSound, Call
  <1>6. pendingRequests' = [q \in Request |-> pendingRequests'[q]]  BY <1>1
  <1>7. \A q \in Request : pendingRequests'[q] # Nil => Waits(pendingRequests[q].call, q)'
    BY <1>1 DEF Waits, Call
  <1>8. worker'.at \in {"finish", "Finish"} => Served(worker.call)'
    <2> SUFFICES ASSUME worker'.at \in {"finish", "Finish"}
                 PROVE  Served(worker.call)'
      OBVIOUS
    <2>1. pendingRequests[r] # Nil /\ worker'.call = pendingRequests[r].call
      BY <1>2 DEF Idle, Finishing
    <2>2. Waits(worker'.call, r)  BY <1>1, <2>1
    <2>3. pendingRequests'[r] = Nil  BY <1>1
    <2> QED BY <1>1, <2>2, <2>3 DEF Waits, Served, Call
  <1> QED BY <1>4, <1>5, <1>6, <1>7, <1>8 DEF KVInv

\* It marks the call done, or leaves it, when it was cancelled.
LEMMA MarkDoneSteps ==
  ASSUME KVInv, MarkDone
  PROVE  KVInv'
  <1> DEFINE n == worker.call
             c == [calls[n] EXCEPT !.done = TRUE]
  <1>1. /\ worker.at = "finish" /\ n \in Call /\ Served(n)
        /\ UNCHANGED << raft, applyQue, pendingRequests, asked >>
        /\ \/ worker' = Idle /\ calls' = calls
           \/ /\ calls' = [calls EXCEPT ![n] = c]
              /\ worker' = Finishing("Finish", n, worker.reply)
    BY DEF KVInv, Served, MarkDone, clientVars
  <1>2. /\ calls[n] \in CallType /\ CallIsSound(calls[n]) /\ calls = [calls EXCEPT ![n] = calls[n]]
        /\ pendingRequests = [r \in Request |-> pendingRequests[r]]
        /\ \A r \in Request : pendingRequests[r] # Nil => Waits(pendingRequests[r].call, r)
    BY <1>1, CallFields, LenProperties DEF KVInv, CallsAreSound, Call
  <1>3. /\ c \in CallType /\ c.handler = calls[n].handler /\ c.finishes = calls[n].finishes
        /\ c.callback = calls[n].callback
    BY <1>2 DEF CallType
  <1> HIDE DEF c, n
  <1>4. CallIsSound(c)  BY <1>2, <1>3 DEF CallIsSound
  <1>5. worker' = Idle \/ worker' = Finishing("Finish", n, worker.reply)  BY <1>1
  <1>6. worker'.at # "completing" /\ (worker'.at \in {"finish", "Finish"} => worker'.call = n)
    BY <1>5 DEF Idle, Finishing
  <1>7. OpsAreRequests'  BY <1>1, <1>6 DEF KVInv, OpsAreRequests
  <1>8. PICK d \in {calls[n], c} : calls' = [calls EXCEPT ![n] = d]
    BY <1>1, <1>2
  <1>9. \A r \in Request : pendingRequests[r] # Nil /\ pendingRequests[r].call = n =>
          d.callback = "none"
    BY <1>2, <1>3 DEF Waits
  <1>10. CallIsSound(d) /\ d.handler = calls[n].handler /\ d.finishes = calls[n].finishes
    BY <1>2, <1>3, <1>4
  <1>11. worker.call = n  BY DEF n
  <1>12. \A r \in Request : pendingRequests'[r] # Nil =>
           /\ pendingRequests'[r] = pendingRequests[r]
           /\ pendingRequests[r].call = n => d.callback = "none"
    BY <1>1, <1>9
  <1>13. pendingRequests' = [r \in Request |-> pendingRequests'[r]]  BY <1>1, <1>2
  <1>14. worker'.at \in {"finish", "Finish"} =>
           worker.at \in {"finish", "Finish"} /\ worker'.call = worker.call
    BY <1>1, <1>6, <1>11
  <1>15. n \in Call /\ asked' = asked  BY <1>1
  <1> QED BY <1>7, <1>8, <1>10, <1>12, <1>13, <1>14, <1>15, CallKeeps

\* And finishes it: nobody has, and nobody else will.
LEMMA FinishSteps ==
  ASSUME KVInv, Finish
  PROVE  KVInv'
  <1> DEFINE n == worker.call
             c == Finished(calls[n])
  <1>1. /\ n \in Call /\ Served(n) /\ worker' = Idle /\ calls' = [calls EXCEPT ![n] = c]
        /\ UNCHANGED << raft, applyQue, pendingRequests, asked >>
    BY DEF KVInv, Served, Finish
  <1>2. /\ calls[n] \in CallType /\ CallIsSound(calls[n]) /\ CallsAreSound
        /\ calls[n].handler = "returned" /\ calls[n].finishes = 0
        /\ pendingRequests = [r \in Request |-> pendingRequests[r]]
        /\ \A r \in Request : pendingRequests[r] # Nil => Waits(pendingRequests[r].call, r)
    BY <1>1, CallFields DEF KVInv, Served
  <1>3. c = [calls[n] EXCEPT !.finishes = 1]  BY <1>2 DEF Finished
  <1> HIDE DEF c, n
  <1>4. c \in CallType /\ c.handler = "returned" /\ c.finishes = 1
    BY <1>2, <1>3 DEF CallType
  <1>5. CallIsSound(c)  BY <1>4 DEF CallIsSound
  <1>6. /\ CallsAreSound' /\ Call' = Call /\ calls'[n] = c
        /\ \A m \in Call : m # n => calls'[m] = calls[m]
    BY <1>1, <1>2, <1>5, CallChanges
  <1>7. worker'.at = "idle"  BY <1>1 DEF Idle
  <1>8. OpsAreRequests'  BY <1>1, <1>7 DEF KVInv, OpsAreRequests
  <1>9. \A r \in Request : pendingRequests[r] # Nil => pendingRequests[r].call # n
    BY <1>1, <1>2 DEF Waits, Served
  <1>10. \A r \in Request : pendingRequests'[r] # Nil => Waits(pendingRequests[r].call, r)'
    BY <1>1, <1>2, <1>6, <1>9 DEF Waits
  <1> QED BY <1>1, <1>2, <1>6, <1>7, <1>8, <1>10 DEF KVInv

-----------------------------------------------------------------------------
(* The results.                                                            *)

\* Nothing is called, pending or applied at first.
LEMMA InitHolds ==
  ASSUME Init
  PROVE  KVInv
  <1>1. /\ raft = [log |-> << >>, commitIndex |-> 0, currentTerm |-> 0, leads |-> FALSE,
                   made |-> {}, snapshots |-> 0]
        /\ applyQue = << >> /\ calls = << >> /\ asked = << >> /\ worker = Idle
        /\ pendingRequests = [r \in Request |-> Nil]
    BY DEF Init
  <1>2. << >> \in Seq(EntryType) /\ Len(<< >>) = 0  BY EmptySeq
  <1>3. raft \in RaftType /\ raft.commitIndex <= Len(raft.log)
    BY <1>1, <1>2 DEF RaftType, MadeType
  <1>4. applyQue \in Seq(MsgType) /\ calls \in Seq(CallType) /\ asked \in Seq(Request)
    BY <1>1, EmptySeq
  <1>5. worker.at = "idle"  BY <1>1 DEF Idle
  <1>6. Call = {} /\ Len(asked) = Len(calls)  BY <1>1, <1>2 DEF Call
  <1> QED BY <1>1, <1>3, <1>4, <1>5, <1>6 DEF KVInv, OpsAreRequests, CallsAreSound

\* Every step keeps the invariant.
LEMMA StepKeeps ==
  ASSUME KVInv, [Next]_kvVars
  PROVE  KVInv'
  <1>1. ASSUME UNCHANGED << pendingRequests, calls, asked, worker >>, OpsAreRequests'
        PROVE  KVInv'
    BY <1>1 DEF KVInv, CallsAreSound, Waits, Served, Call
  <1>2. CASE UNCHANGED kvVars
    <2>1. OpsAreRequests'  BY <1>2 DEF kvVars, KVInv, OpsAreRequests
    <2> QED BY <1>1, <1>2, <2>1 DEF kvVars, clientVars
  <1>3. CASE RaftStep
    BY <1>1, <1>3, RaftSteps
  <1>4. CASE WorkerStep
    BY <1>4, TakesMessage, CompleteSteps, MarkDoneSteps, FinishSteps DEF WorkerStep
  <1>5. CASE ClientStep
    BY <1>5, AskSteps, CallSteps DEF ClientStep, Send, SendElsewhere
  <1>6. ASSUME NEW n \in Call, CallStep(n)
        PROVE  KVInv'
    BY <1>6, CallSteps, RegisterSteps DEF CallStep
  <1> QED BY <1>2, <1>3, <1>4, <1>5, <1>6 DEF Next

\* The invariant holds of every behaviour.
LEMMA CallsStaySound == Spec => []KVInv
  <1>1. Init => KVInv  BY InitHolds
  <1>2. KVInv /\ [Next]_kvVars => KVInv'  BY StepKeeps
  <1> QED BY <1>1, <1>2, PTL DEF Spec

\* Finish is called at most once for a call, by the handler or by the apply
\* thread, and while its reactor is alive, however the apply thread, the end of
\* the call and its retries interleave.
THEOREM CallsFinishSafely == Spec => []FinishIsSafe
  <1>1. KVInv => FinishIsSafe
    BY DEF KVInv, CallsAreSound, CallIsSound, Served, FinishIsSafe
  <1> QED BY <1>1, CallsStaySound, PTL

\* No entry of pendingRequests outlives the call it is for.
THEOREM PendingOnesAreLive == Spec => []PendingIsLive
  <1>1. KVInv => PendingIsLive
    BY DEF KVInv, Waits, PendingIsLive
  <1> QED BY <1>1, CallsStaySound, PTL

\* And none goes before its own call ends or its request is applied.
THEOREM OwnEntriesAreDropped == Spec => OnlyOwnEntryIsDropped
  <1> DEFINE Drops(r) ==
        \/ worker.at = "completing" /\ worker.msg.op = r
        \/ LET n == pendingRequests[r].call IN calls'[n].callback # calls[n].callback
  <1>1. ASSUME KVInv, Next, NEW r \in Request, pendingRequests[r] # Nil,
               pendingRequests'[r] # pendingRequests[r]
        PROVE  Drops(r)
    <2>1. /\ pendingRequests = [q \in Request |-> pendingRequests[q]]
          /\ worker.at = "completing" => worker.msg.op \in Request
          /\ \A n \in Call : asked[n] \in Request
      BY <1>1, CommandTypes DEF KVInv, OpsAreRequests
    <2>2. CASE RaftStep
      BY <1>1, <2>2, RaftSteps
    <2>3. CASE WorkerStep
      <3>1. CompletePending
        BY <1>1, <2>3 DEF WorkerStep, ApplyCommand, Restore, MarkDone, Finish
      <3> QED BY <1>1, <2>1, <3>1 DEF CompletePending
    <2>4. CASE ClientStep
      BY <1>1, <2>4 DEF ClientStep, Send, SendElsewhere, Ask, GiveUp
    <2>5. ASSUME NEW n \in Call, CallStep(n)
          PROVE  Drops(r)
      <3>1. CASE StartPut(n) \/ Cancel(n)
        BY <1>1, <3>1 DEF StartPut, Cancel
      <3>2. CASE RegisterPending(n)
        BY <1>1, <2>1, <3>2 DEF RegisterPending
      <3>3. CASE OnCancel(n) \/ OnDone(n)
        <4>1. pendingRequests[r].call = n
          BY <1>1, <3>3, WithoutOwn DEF OnCancel, OnDone
        <4>2. calls[n].callback # "deleted" /\ calls[n].callback # "cancelling"
          BY <3>3 DEF OnCancel, OnDone
        <4>3. calls'[n].callback \in {"cancelling", "deleted"}
          <5>1. calls[n] \in CallType /\ calls \in Seq(CallType) /\ n \in 1 .. Len(calls)
            BY <1>1, CallFields DEF KVInv, CallsAreSound, Call
          <5>2. DOMAIN calls = 1 .. Len(calls)  BY <5>1, LenProperties
          <5>3. \/ calls'[n] = [calls[n] EXCEPT !.callback = "cancelling"]
                \/ calls'[n] = [calls[n] EXCEPT !.cancelled = TRUE, !.callback = "deleted"]
            BY <3>3, <5>1, <5>2 DEF OnCancel, OnDone
          <5> QED BY <5>1, <5>3 DEF CallType
        <4> QED BY <4>1, <4>2, <4>3
      <3> QED BY <2>5, <3>1, <3>2, <3>3 DEF CallStep
    <2> QED BY <1>1, <2>2, <2>3, <2>4, <2>5 DEF Next
  <1>2. KVInv /\ [Next]_kvVars =>
          [\A r \in Request :
             pendingRequests[r] # Nil /\ pendingRequests'[r] # pendingRequests[r] => Drops(r)]_kvVars
    BY <1>1
  <1> QED BY <1>2, CallsStaySound, PTL DEF Spec, OnlyOwnEntryIsDropped

-----------------------------------------------------------------------------
(* Every call is answered with the outcome of its own request.             *)

Replies == {Success, ExecuteError, Nil}

\* What is in the log was asked for, and so was what is to be applied.
LogAsked ==
  /\ \A i \in 1 .. Len(raft.log) : raft.log[i].op \in Commands
  /\ \A i \in 1 .. Len(applyQue) : ~applyQue[i].snapshotValid /\ applyQue[i].op \in Commands

\* Whether the client of request r has gone on to a later one.
Superseded(r) == \E m \in Call : asked[m][1] = r[1] /\ asked[m][2] > r[2]

\* A client has one call at a time, and nobody was answered but by Finish.
SessionInv ==
  /\ answer \in Seq(Replies \cup {WrongLeader}) /\ Len(answer) = Len(calls)
  /\ \A n \in Call : Superseded(asked[n]) => Over(n)
  /\ \A n \in Call : answer[n] # Nil => calls[n].finishes > 0

\* dedup_ has of each client the outcome of its last executed request.
IsRecord(d, r) ==
  /\ r \in Request /\ d.lastReplyMsg = executed[r] /\ executed[r] # Nil
  /\ \E n \in Call : asked[n] = r

RecordInv ==
  /\ executed \in [Request -> Replies]
  /\ stateMachine.dedup \in [Client -> [lastRequestId : Nat, lastReplyMsg : Replies]]
  /\ stateMachine = [kv |-> stateMachine.kv, dedup |-> stateMachine.dedup]
  /\ \A r \in Request : executed[r] # Nil => IsDuplicate(stateMachine, r)
  /\ \A c \in Client : LET d == stateMachine.dedup[c]
                       IN d.lastRequestId = 0 \/ IsRecord(d, << c, d.lastRequestId >>)

\* The reply is the outcome of request r, unless nobody waits for it any more.
RightReply(r, reply) == (reply = executed[r] /\ reply # Nil) \/ Superseded(r)

WorkerInv ==
  /\ worker.at = "completing" => RightReply(worker.msg.op, worker.reply)
  /\ worker.at \in {"finish", "Finish"} => RightReply(asked[worker.call], worker.reply)

ServiceInv == LogAsked /\ SessionInv /\ RecordInv /\ WorkerInv

\* A request is a client and the number of one of its commands.
LEMMA RequestParts ==
  ASSUME NEW r \in Request
  PROVE  r = << r[1], r[2] >> /\ r[1] \in Client /\ r[2] \in Nat /\ r[2] # 0
  <1>1. PICK c \in Client : r \in {c} \X (1 .. Len(Command[c]))  BY DEF Request
  <1>2. Len(Command[c]) \in Nat  BY CommandAssumption, LenProperties
  <1> QED BY <1>1, <1>2

\* Results are told from no result.
LEMMA ResultIsReply ==
  ASSUME NEW kv, NEW r
  PROVE  Result(kv, r) \in Replies /\ Result(kv, r) # Nil
  <1>1. Nil \notin {Success, ExecuteError}  BY CommandAssumption
  <1>2. Result(kv, r) \in {Success, ExecuteError}  BY DEF Result
  <1> QED BY <1>1, <1>2 DEF Replies

\* A step after which nobody has asked for less.
AskedGrows ==
  /\ Call \subseteq Call' /\ \A n \in Call : asked'[n] = asked[n]

\* What holds of a request that was asked for goes on holding.
LEMMA AskedStays ==
  ASSUME AskedGrows
  PROVE  /\ Commands \subseteq Commands'
         /\ \A r : Superseded(r) => Superseded(r)'
         /\ \A r : (\E n \in Call : asked[n] = r) => (\E n \in Call : asked[n] = r)'
  <1>1. \A n \in Call : n \in Call' /\ asked'[n] = asked[n]  BY DEF AskedGrows
  <1>2. Commands \subseteq Commands'  BY <1>1 DEF Commands
  <1>3. \A r : Superseded(r) => Superseded(r)'  BY <1>1 DEF Superseded
  <1> QED BY <1>1, <1>2, <1>3

\* The records stay when the state machine does.
LEMMA RecordStays ==
  ASSUME RecordInv, AskedGrows, UNCHANGED << stateMachine, executed >>
  PROVE  RecordInv'
  <1>1. \A r : (\E n \in Call : asked[n] = r) => (\E n \in Call : asked[n] = r)'  BY AskedStays
  <1>2. \A c \in Client : LET d == stateMachine.dedup[c]
                          IN d.lastRequestId = 0 \/ IsRecord(d, << c, d.lastRequestId >>)'
    BY <1>1 DEF RecordInv, IsRecord
  <1> QED BY <1>2 DEF RecordInv, IsDuplicate, IsRecord

\* So does the reply when the apply thread waits.
LEMMA WorkerStays ==
  ASSUME WorkerInv, KVInv, AskedGrows, UNCHANGED << worker, executed >>
  PROVE  WorkerInv'
  <1>1. \A r : Superseded(r) => Superseded(r)'  BY AskedStays
  <1>2. \A r, reply : RightReply(r, reply) => RightReply(r, reply)'
    BY <1>1 DEF RightReply
  <1>3. worker.at \in {"finish", "Finish"} => worker.call \in Call  BY DEF KVInv, Served
  <1>4. worker.at \in {"finish", "Finish"} => asked'[worker.call] = asked[worker.call]
    BY <1>3 DEF AskedGrows
  <1> QED BY <1>2, <1>4 DEF WorkerInv

-----------------------------------------------------------------------------
(* The log.                                                                *)

\* A leader's log with what its client asked for.
LEMMA LeaderAppendsAsked ==
  ASSUME KVInv, LogAsked, NEW t \in Nat, NEW op \in Commands, raft' = LeaderAppends(t, op),
         applyQue' = applyQue, AskedGrows
  PROVE  LogAsked'
  <1>1. raft.log \in Seq(EntryType) /\ raft \in RaftType
    BY DEF KVInv, OpsAreRequests, RaftType
  <1>0. op \in Ops  BY CommandTypes DEF KVInv
  <1> PICK e, log : e = Entry(t, op) /\ log = Append(raft.log, e)  OBVIOUS
  <1>2. raft'.log = log  BY <1>1 DEF LeaderAppends, RaftType
  <1>3. e.op = op /\ e \in EntryType  BY <1>0 DEF Entry, EntryType
  <1>4. /\ Len(raft.log) \in Nat /\ Len(log) = Len(raft.log) + 1 /\ log[Len(raft.log) + 1] = e
        /\ \A i \in 1 .. Len(raft.log) : log[i] = raft.log[i]
    BY <1>1, <1>3, Appended, LenProperties
  <1>5. \A i \in 1 .. Len(log) : log[i].op \in Commands
    <2> SUFFICES ASSUME NEW i \in 1 .. Len(log)  PROVE log[i].op \in Commands  OBVIOUS
    <2>1. i = Len(raft.log) + 1 \/ i \in 1 .. Len(raft.log)  BY <1>4
    <2> QED BY <1>3, <1>4, <2>1 DEF LogAsked
  <1>6. Commands \subseteq Commands'  BY AskedStays
  <1> QED BY <1>2, <1>5, <1>6 DEF LogAsked

\* Raft's steps commit and replace only what was asked for, and no snapshots
\* are among them.
LEMMA RaftAsked ==
  ASSUME KVInv, LogAsked, MaxSnapshots = 0, RaftStep
  PROVE  LogAsked'
  <1>1. /\ raft \in RaftType /\ raft.currentTerm \in Nat /\ raft.commitIndex \in Nat
        /\ raft.commitIndex <= Len(raft.log) /\ raft.snapshots \in Nat
        /\ raft.log \in Seq(EntryType) /\ applyQue \in Seq(MsgType) /\ Len(raft.log) \in Nat
    BY LenProperties DEF KVInv, OpsAreRequests, RaftType
  <1>2. AskedGrows /\ calls' = calls /\ asked' = asked
    BY RaftSteps DEF AskedGrows, Call
  <1>3. Commands' = Commands /\ NoOp \in Commands /\ Commands \subseteq Ops
    BY <1>2, CommandTypes DEF Commands, Call, KVInv
  <1>4. CASE Elected
    <2>1. PICK t \in raft.currentTerm + 1 .. MaxTerm :
            raft' = LeaderAppends(t, NoOp) /\ UNCHANGED applyQue
      BY <1>4 DEF Elected
    <2>2. t \in Nat  BY <1>1, KVServerAssumption
    <2> QED BY <1>2, <1>3, <2>1, <2>2, LeaderAppendsAsked
  <1>5. CASE Deposed
    <2>1. raft'.log = raft.log /\ applyQue' = applyQue  BY <1>1, <1>5 DEF Deposed, RaftType
    <2> QED BY <1>3, <2>1 DEF LogAsked
  <1>6. CASE Follows
    <2>1. PICK op \in Commands, i \in Replaceable, t \in 1 .. MaxTerm :
            /\ raft' = [raft EXCEPT !.log = Append(SubSeq(raft.log, 1, i - 1), Entry(t, op))]
            /\ UNCHANGED applyQue
      BY <1>6 DEF Follows, Follow
    <2> PICK cut, e, log : /\ cut = SubSeq(raft.log, 1, i - 1) /\ e = Entry(t, op)
                           /\ log = Append(cut, e)
      OBVIOUS
    <2>2. i \in 1 .. Len(raft.log) + 1 /\ i - 1 \in 0 .. Len(raft.log) /\ t \in Nat
      BY <1>1, KVServerAssumption DEF Replaceable, LastIndex
    <2>3. e \in EntryType /\ e.op = op  BY <1>3, <2>2 DEF Entry, EntryType
    <2>4. \A j \in 1 .. i - 1 : raft.log[j] \in EntryType /\ j \in 1 .. Len(raft.log)
      BY <1>1, <2>2, ElementOfSeq
    <2>5. /\ cut \in Seq(EntryType) /\ Len(cut) = i - 1
          /\ \A j \in 1 .. i - 1 : cut[j] = raft.log[j]
      BY <1>1, <2>2, <2>4, SubSeqProperties
    <2>6. /\ Len(log) = i - 1 + 1 /\ log[i - 1 + 1] = e
          /\ \A j \in 1 .. i - 1 : log[j] = raft.log[j]
      BY <2>3, <2>5, Appended
    <2>7. \A j \in 1 .. Len(log) : log[j].op \in Commands
      <3> SUFFICES ASSUME NEW j \in 1 .. Len(log)  PROVE log[j].op \in Commands  OBVIOUS
      <3>1. j = i - 1 + 1 \/ j \in 1 .. i - 1  BY <2>2, <2>6
      <3> QED BY <2>3, <2>4, <2>6, <3>1 DEF LogAsked
    <2>8. raft'.log = log  BY <1>1, <2>1 DEF RaftType
    <2>9. \A j \in 1 .. Len(raft'.log) : raft'.log[j].op \in Commands'  BY <1>3, <2>7, <2>8
    <2>10. \A j \in 1 .. Len(applyQue') : ~applyQue'[j].snapshotValid /\ applyQue'[j].op \in Commands'
      BY <1>3, <2>1 DEF LogAsked
    <2> QED BY <2>9, <2>10 DEF LogAsked
  <1>7. CASE Commits
    <2>1. PICK i \in raft.commitIndex + 1 .. LastIndex :
            /\ raft' = [raft EXCEPT !.commitIndex = i]
            /\ applyQue' = applyQue \o [j \in 1 .. i - raft.commitIndex |->
                                          CommandMsg(raft.commitIndex + j)]
      BY <1>7 DEF Commits
    <2> PICK k : k = i - raft.commitIndex  OBVIOUS
    <2> PICK batch : batch = [j \in 1 .. k |-> CommandMsg(raft.commitIndex + j)]  OBVIOUS
    <2>2. /\ i \in Nat /\ i <= Len(raft.log) /\ k \in Nat
          /\ \A j \in 1 .. k : raft.commitIndex + j \in 1 .. Len(raft.log)
      BY SMTT(30), <1>1, <2>1 DEF LastIndex
    <2>3. \A j \in 1 .. k :
            batch[j] \in MsgType /\ ~batch[j].snapshotValid /\ batch[j].op \in Commands
      <3> SUFFICES ASSUME NEW j \in 1 .. k
                   PROVE  batch[j] \in MsgType /\ ~batch[j].snapshotValid /\ batch[j].op \in Commands
        OBVIOUS
      <3> PICK x : x = raft.commitIndex + j  OBVIOUS
      <3>1. batch[j] = CommandMsg(x)  OBVIOUS
      <3>2. raft.log[x].op \in Commands  BY <2>2 DEF LogAsked
      <3>3. batch[j].op = raft.log[x].op /\ batch[j].snapshotValid = FALSE
        BY <3>1 DEF CommandMsg
      <3>4. raft.log[x].term \in Nat /\ raft.log[x].op \in Ops /\ x \in Nat
        <4>1. x \in 1 .. Len(raft.log) /\ x \in Nat  BY <1>1, <2>2
        <4>2. raft.log[x] \in EntryType  BY <1>1, <4>1, ElementOfSeq
        <4> QED BY <4>1, <4>2 DEF EntryType
      <3>5. batch[j] \in [snapshotValid : {FALSE}, index : Nat, term : Nat, op : Ops]
        BY <3>1, <3>4 DEF CommandMsg
      <3> QED BY <3>2, <3>3, <3>5 DEF MsgType
    <2>4. batch \in Seq(MsgType) /\ Len(batch) = k
      <3>1. batch \in [1 .. k -> MsgType]  BY <2>3
      <3>2. batch \in Seq(MsgType)  BY <2>2, <3>1, SeqDef
      <3> QED BY <2>2, <3>2, LenProperties
    <2> PICK longer : longer = applyQue \o batch  OBVIOUS
    <2>5. /\ Len(longer) = Len(applyQue) + k /\ Len(applyQue) \in Nat
          /\ \A j \in 1 .. Len(longer) :
               longer[j] = IF j <= Len(applyQue) THEN applyQue[j] ELSE batch[j - Len(applyQue)]
      BY <1>1, <2>2, <2>4, ConcatProperties, LenProperties
    <2>6. \A j \in 1 .. Len(longer) : ~longer[j].snapshotValid /\ longer[j].op \in Commands
      <3> SUFFICES ASSUME NEW j \in 1 .. Len(longer)
                   PROVE  ~longer[j].snapshotValid /\ longer[j].op \in Commands
        OBVIOUS
      <3>1. j \in 1 .. Len(applyQue) \/ (j > Len(applyQue) /\ j - Len(applyQue) \in 1 .. k)
        BY <2>2, <2>5
      <3>2. CASE j \in 1 .. Len(applyQue)
        <4>1. longer[j] = applyQue[j]  BY <2>5, <3>2
        <4> QED BY <3>2, <4>1 DEF LogAsked
      <3>3. CASE j > Len(applyQue) /\ j - Len(applyQue) \in 1 .. k
        <4>1. longer[j] = batch[j - Len(applyQue)]  BY <2>5, <3>3
        <4> QED BY <2>3, <3>3, <4>1
      <3> QED BY <3>1, <3>2, <3>3
    <2>7. raft'.log = raft.log /\ applyQue' = longer  BY <1>1, <2>1 DEF RaftType
    <2> QED BY <1>3, <2>6, <2>7 DEF LogAsked
  <1>8. ~InstallsSnapshot
    <2>1. InstallsSnapshot => raft.snapshots < MaxSnapshots  BY DEF InstallsSnapshot
    <2> QED BY <1>1, <2>1
  <1> QED BY <1>4, <1>5, <1>6, <1>7, <1>8 DEF RaftStep

-----------------------------------------------------------------------------
(* Calls and clients.                                                      *)

\* A call goes on, and its client is told at most once, not to wait longer.
LEMMA SessionStays ==
  ASSUME SessionInv, NEW n \in Call, calls \in Seq(CallType), NEW c \in CallType,
         calls' = [calls EXCEPT ![n] = c], asked' = asked,
         calls[n].gaveUp => c.gaveUp, c.finishes >= calls[n].finishes,
         \/ answer' = answer
         \/ \E reply \in Replies \cup {WrongLeader} :
              answer' = [answer EXCEPT ![n] = reply] /\ reply # Nil /\ c.finishes > 0
  PROVE  SessionInv' /\ AskedGrows
  <1>1. /\ n \in 1 .. Len(calls) /\ calls' \in Seq(CallType) /\ Len(calls') = Len(calls)
        /\ \A m \in 1 .. Len(calls) : calls'[m] = IF m = n THEN c ELSE calls[m]
    BY ExceptSeq DEF Call
  <1>2. Call' = Call /\ AskedGrows /\ \A r : Superseded(r)' <=> Superseded(r)
    BY <1>1 DEF Call, AskedGrows, Superseded
  <1>3. /\ answer' \in Seq(Replies \cup {WrongLeader}) /\ Len(answer') = Len(calls')
        /\ \A m \in 1 .. Len(calls) : answer[m] # Nil => answer'[m] # Nil
        /\ \A m \in 1 .. Len(calls) : answer'[m] # answer[m] => m = n /\ c.finishes > 0
    <2>1. answer \in Seq(Replies \cup {WrongLeader}) /\ Len(answer) = Len(calls)
      BY DEF SessionInv
    <2>2. CASE answer' = answer  BY <1>1, <2>1, <2>2
    <2>3. ASSUME NEW reply \in Replies \cup {WrongLeader}, reply # Nil, c.finishes > 0,
                 answer' = [answer EXCEPT ![n] = reply]
          PROVE  /\ answer' \in Seq(Replies \cup {WrongLeader}) /\ Len(answer') = Len(calls')
                 /\ \A m \in 1 .. Len(calls) : answer[m] # Nil => answer'[m] # Nil
                 /\ \A m \in 1 .. Len(calls) : answer'[m] # answer[m] => m = n /\ c.finishes > 0
      <3>1. /\ answer' \in Seq(Replies \cup {WrongLeader}) /\ Len(answer') = Len(answer)
            /\ \A m \in 1 .. Len(answer) : answer'[m] = IF m = n THEN reply ELSE answer[m]
        BY <1>1, <2>1, <2>3, ExceptSeq
      <3> QED BY <1>1, <2>1, <2>3, <3>1
    <2> QED BY <2>2, <2>3
  <1>4. \A m \in Call : Superseded(asked[m])' => Over(m)'
    <2> SUFFICES ASSUME NEW m \in Call, Superseded(asked[m])  PROVE Over(m)'
      BY <1>2
    <2>1. calls[m].gaveUp \/ answer[m] # Nil  BY DEF SessionInv, Over
    <2>2. m \in 1 .. Len(calls)  BY DEF Call
    <2> QED BY <1>1, <1>3, <2>1, <2>2 DEF Over
  <1>5. \A m \in Call : answer'[m] # Nil => calls'[m].finishes > 0
    <2> SUFFICES ASSUME NEW m \in Call, answer'[m] # Nil  PROVE calls'[m].finishes > 0
      OBVIOUS
    <2>1. m \in 1 .. Len(calls) /\ (answer[m] # Nil => calls[m].finishes > 0)
      BY DEF Call, SessionInv
    <2>2. calls[n].finishes \in Nat /\ c.finishes \in Nat
      <3>1. calls[n] \in CallType  BY <1>1, ElementOfSeq
      <3> QED BY <3>1 DEF CallType
    <2> QED BY <1>1, <1>3, <2>1, <2>2
  <1>6. \A m \in Call : asked'[m] = asked[m]  OBVIOUS
  <1> QED BY <1>2, <1>3, <1>4, <1>5, <1>6 DEF SessionInv

\* The service and the server have the same store.
LEMMA SameStore ==
  ASSUME NEW kv, NEW r
  PROVE  Service!Effect(kv, r) = Effect(kv, r) /\ Service!Result(kv, r) = Result(kv, r)
  BY DEF Service!Effect, Effect, Service!Result, Result, Service!Op, Op, Service!PUT, PUT,
         Service!Insert, Insert, Service!Erase, Erase, Service!Success, Success,
         Service!ExecuteError, ExecuteError

\* A step of which the service sees nothing.
Unseen == stateMachine'.kv = stateMachine.kv /\ UNCHANGED << executed, asked, answer >>

\* Such a step, or one of the service.
Serves == Service!Next \/ Unseen

\* What a call's own steps do to it, and what its client is told.
LEMMA CallEffects ==
  ASSUME KVInv, ServiceInv, NEW n \in Call,
         StartPut(n) \/ RegisterPending(n) \/ OnCancel(n) \/ OnDone(n) \/ Cancel(n) \/ GiveUp(n)
  PROVE  /\ \E c \in CallType :
              /\ calls' = [calls EXCEPT ![n] = c]
              /\ (calls[n].gaveUp => c.gaveUp) /\ c.finishes >= calls[n].finishes
              /\ \/ answer' = answer
                 \/ /\ answer' = [answer EXCEPT ![n] = WrongLeader]
                    /\ calls[n].finishes = 0 /\ c.finishes > 0
         /\ UNCHANGED << applyQue, stateMachine, worker, executed, asked >>
         /\ \/ raft' = raft
            \/ raft' = LeaderAppends(raft.currentTerm, asked[n])
  <1>1. calls[n] \in CallType /\ CallIsSound(calls[n])  BY CallFields DEF KVInv
  <1>2. /\ UNCHANGED << applyQue, stateMachine, worker, executed, asked >>
        /\ raft' = raft \/ raft' = LeaderAppends(raft.currentTerm, asked[n])
    BY DEF StartPut, RegisterPending, OnCancel, OnDone, Cancel, GiveUp, clientVars
  <1>3. CASE StartPut(n)
    <2>1. calls[n].handler = "called" /\ calls[n].finishes = 0
      BY <1>1, <1>3 DEF StartPut, CallIsSound
    <2>2. CASE raft.leads
      <3> PICK c : c = [calls[n] EXCEPT !.handler = "started", !.index = LastIndex + 1,
                                        !.term = raft.currentTerm]
        OBVIOUS
      <3>1. calls' = [calls EXCEPT ![n] = c] /\ answer' = answer
        BY <1>3, <2>2 DEF StartPut
      <3>2. LastIndex + 1 \in Nat /\ raft.currentTerm \in Nat
        BY LenProperties DEF KVInv, OpsAreRequests, RaftType, LastIndex
      <3>3. c \in CallType /\ c.gaveUp = calls[n].gaveUp /\ c.finishes = calls[n].finishes
        BY <1>1, <3>2 DEF CallType
      <3>4. c.finishes >= calls[n].finishes  BY <2>1, <3>3
      <3> QED BY <1>2, <3>1, <3>3, <3>4
    <2>3. CASE ~raft.leads
      <3> PICK c : c = [calls[n] EXCEPT !.handler = "returned", !.finishes = 1]  OBVIOUS
      <3>1. calls' = [calls EXCEPT ![n] = c]
        <4>1. calls' = [calls EXCEPT ![n] = Finished([calls[n] EXCEPT !.handler = "returned"])]
          BY <1>3, <2>3 DEF StartPut
        <4> PICK d : d = [calls[n] EXCEPT !.handler = "returned"]  OBVIOUS
        <4>2. d.finishes = 0 /\ d.finishes + 1 = 1  BY <1>1, <2>1 DEF CallType
        <4>3. Finished(d) = [d EXCEPT !.finishes = 1]  BY <4>2 DEF Finished
        <4>4. [d EXCEPT !.finishes = 1] = c  BY <1>1 DEF CallType
        <4> QED BY <4>1, <4>3, <4>4
      <3>2. answer' = answer \/ answer' = [answer EXCEPT ![n] = WrongLeader]
        BY <1>3, <2>3 DEF StartPut, Told
      <3>3. c \in CallType /\ c.gaveUp = calls[n].gaveUp /\ c.finishes = 1
        BY <1>1 DEF CallType
      <3>4. c.finishes >= calls[n].finishes /\ c.finishes > 0  BY <2>1, <3>3
      <3> QED BY <1>2, <2>1, <3>1, <3>2, <3>3, <3>4
    <2> QED BY <2>2, <2>3
  <1>4. ASSUME NEW c \in {[calls[n] EXCEPT !.handler = "returned", !.index = 0, !.term = 0],
                          [calls[n] EXCEPT !.callback = "cancelling"],
                          [calls[n] EXCEPT !.cancelled = TRUE, !.callback = "deleted"],
                          [calls[n] EXCEPT !.cancelled = TRUE, !.callback = "cancelled"],
                          [calls[n] EXCEPT !.gaveUp = TRUE]}
        PROVE  /\ c \in CallType /\ (calls[n].gaveUp => c.gaveUp)
               /\ c.finishes >= calls[n].finishes
    <2>1. c \in CallType /\ (calls[n].gaveUp => c.gaveUp) /\ c.finishes = calls[n].finishes
      <3>1. CASE c = [calls[n] EXCEPT !.handler = "returned", !.index = 0, !.term = 0]
        BY <1>1, <3>1 DEF CallType
      <3>2. CASE c = [calls[n] EXCEPT !.callback = "cancelling"]
        BY <1>1, <3>2 DEF CallType
      <3>3. CASE c = [calls[n] EXCEPT !.cancelled = TRUE, !.callback = "deleted"]
        BY <1>1, <3>3 DEF CallType
      <3>4. CASE c = [calls[n] EXCEPT !.cancelled = TRUE, !.callback = "cancelled"]
        BY <1>1, <3>4 DEF CallType
      <3>5. CASE c = [calls[n] EXCEPT !.gaveUp = TRUE]
        BY <1>1, <3>5 DEF CallType
      <3> QED BY <1>4, <3>1, <3>2, <3>3, <3>4, <3>5
    <2>2. calls[n].finishes \in Nat  BY <1>1 DEF CallType
    <2> QED BY <2>1, <2>2
  <1>5. CASE RegisterPending(n) \/ OnCancel(n) \/ OnDone(n) \/ Cancel(n) \/ GiveUp(n)
    <2>1. PICK c \in {[calls[n] EXCEPT !.handler = "returned", !.index = 0, !.term = 0],
                      [calls[n] EXCEPT !.callback = "cancelling"],
                      [calls[n] EXCEPT !.cancelled = TRUE, !.callback = "deleted"],
                      [calls[n] EXCEPT !.cancelled = TRUE, !.callback = "cancelled"],
                      [calls[n] EXCEPT !.gaveUp = TRUE]} :
                 calls' = [calls EXCEPT ![n] = c]
      BY <1>5 DEF RegisterPending, OnCancel, OnDone, Cancel, GiveUp
    <2>2. answer' = answer
      BY <1>5 DEF RegisterPending, OnCancel, OnDone, Cancel, GiveUp, clientVars
    <2> QED BY <1>2, <1>4, <2>1, <2>2
  <1> QED BY <1>3, <1>5

\* The calls serve.
LEMMA CallServes ==
  ASSUME KVInv, ServiceInv, NEW n \in Call,
         StartPut(n) \/ RegisterPending(n) \/ OnCancel(n) \/ OnDone(n) \/ Cancel(n) \/ GiveUp(n)
  PROVE  ServiceInv' /\ Serves
  <1>1. PICK c \in CallType :
          /\ calls' = [calls EXCEPT ![n] = c]
          /\ (calls[n].gaveUp => c.gaveUp) /\ c.finishes >= calls[n].finishes
          /\ \/ answer' = answer
             \/ /\ answer' = [answer EXCEPT ![n] = WrongLeader]
                /\ calls[n].finishes = 0 /\ c.finishes > 0
    BY CallEffects
  <1>2. /\ UNCHANGED << applyQue, stateMachine, worker, executed, asked >>
        /\ raft' = raft \/ raft' = LeaderAppends(raft.currentTerm, asked[n])
    BY CallEffects
  <1>3. SessionInv' /\ AskedGrows
    <2>1. calls \in Seq(CallType)  BY DEF KVInv, CallsAreSound
    <2>2. WrongLeader # Nil  BY CommandAssumption
    <2> QED BY <1>1, <1>2, <2>1, <2>2, SessionStays DEF ServiceInv
  <1>4. RecordInv' /\ WorkerInv'
    BY <1>2, <1>3, RecordStays, WorkerStays DEF ServiceInv
  <1>5. LogAsked'
    <2>1. CASE raft' = raft
      <3>1. Commands \subseteq Commands'  BY <1>3, AskedStays
      <3> QED BY <1>2, <2>1, <3>1 DEF ServiceInv, LogAsked
    <2>2. CASE raft' = LeaderAppends(raft.currentTerm, asked[n])
      <3>1. asked[n] \in Commands /\ raft.currentTerm \in Nat
        BY DEF Commands, KVInv, OpsAreRequests, RaftType
      <3> QED BY <1>2, <1>3, <2>2, <3>1, LeaderAppendsAsked DEF ServiceInv
    <2> QED BY <1>2, <2>1, <2>2
  <1>6. Serves
    <2>1. CASE answer' = answer  BY <1>2, <2>1 DEF Serves, Unseen
    <2>2. CASE /\ answer' = [answer EXCEPT ![n] = WrongLeader]
               /\ calls[n].finishes = 0
      <3>1. n \in DOMAIN answer  BY LenProperties DEF ServiceInv, SessionInv, Call
      <3>2. answer[n] = Nil  BY <2>2 DEF ServiceInv, SessionInv
      <3>3. Service!Answer(n)  BY <1>2, <2>2, <3>2 DEF Service!Answer, WrongLeader, Service!WrongLeader
      <3> QED BY <3>1, <3>3 DEF Serves, Service!Next
    <2> QED BY <1>1, <2>1, <2>2
  <1> QED BY <1>3, <1>4, <1>5, <1>6 DEF ServiceInv

\* A client asks when nobody answers it any more, and for no earlier request.
LEMMA AskServes ==
  ASSUME KVInv, ServiceInv, NEW q \in Request, NEW handler \in {"called", "elsewhere"},
         Ask(q, handler)
  PROVE  ServiceInv' /\ Serves
  <1> PICK c : c = NewCall(handler)  OBVIOUS
  <1>1. /\ calls' = Append(calls, c) /\ asked' = Append(asked, q) /\ answer' = Append(answer, Nil)
        /\ UNCHANGED << raft, applyQue, stateMachine, pendingRequests, worker, executed >>
        /\ MayAsk(q)
        /\ calls \in Seq(CallType) /\ asked \in Seq(Request) /\ Len(asked) = Len(calls)
        /\ answer \in Seq(Replies \cup {WrongLeader}) /\ Len(answer) = Len(calls)
    BY DEF Ask, KVInv, CallsAreSound, ServiceInv, SessionInv
  <1>2. c \in CallType  BY DEF NewCall, CallType
  <1> PICK new : new = Len(calls) + 1  OBVIOUS
  <1>3. /\ calls' \in Seq(CallType) /\ Len(calls') = new /\ Len(calls) \in Nat
        /\ \A n \in 1 .. Len(calls) : calls'[n] = calls[n]
    BY <1>1, <1>2, Appended, LenProperties
  <1>4. /\ asked' \in Seq(Request) /\ asked'[new] = q
        /\ \A n \in 1 .. Len(calls) : asked'[n] = asked[n]
    BY <1>1, Appended, LenProperties
  <1>5. /\ answer' \in Seq(Replies \cup {WrongLeader}) /\ Len(answer') = new /\ answer'[new] = Nil
        /\ \A n \in 1 .. Len(calls) : answer'[n] = answer[n]
    BY <1>1, Appended, LenProperties DEF Replies
  <1>6. /\ Call = 1 .. Len(calls) /\ Call' = 1 .. new /\ AskedGrows
        /\ \A n \in Call' : n \in Call \/ n = new
    BY <1>3, <1>4 DEF Call, AskedGrows
  <1>7. \A n \in Call : asked[n] \in Request  BY <1>1, <1>6, ElementOfSeq
  <1>8. \A n \in Call : asked[n][1] = q[1] => Over(n) /\ asked[n][2] <= q[2]
    BY <1>1 DEF MayAsk, CallsOf
  <1>9. \A n \in Call' : Superseded(asked[n])' => Over(n)'
    <2> SUFFICES ASSUME NEW n \in Call', Superseded(asked[n])'  PROVE Over(n)'
      OBVIOUS
    <2>1. PICK m \in Call' : asked'[m][1] = asked'[n][1] /\ asked'[m][2] > asked'[n][2]
      BY DEF Superseded
    <2>2. CASE n \in Call
      <3>1. Over(n)
        <4>1. CASE m \in Call
          <5>1. Superseded(asked[n])  BY <1>4, <1>6, <2>1, <2>2, <4>1 DEF Superseded
          <5> QED BY <2>2, <5>1 DEF ServiceInv, SessionInv
        <4>2. CASE m = new  BY <1>4, <1>6, <1>8, <2>1, <2>2, <4>2
        <4> QED BY <1>6, <4>1, <4>2
      <3> QED BY <1>3, <1>5, <1>6, <2>2, <3>1 DEF Over
    <2>3. CASE n = new
      <3>1. q[2] \in Nat  BY RequestParts
      <3>2. m # new  BY <1>4, <2>1, <2>3, <3>1
      <3>3. m \in Call /\ asked'[m] = asked[m] /\ asked[m][2] \in Nat
        BY <1>4, <1>6, <1>7, <3>2, RequestParts
      <3>4. asked[m][2] <= q[2] /\ asked[m][2] > q[2]  BY <1>4, <1>8, <2>1, <2>3, <3>3
      <3> QED BY <3>1, <3>3, <3>4
    <2> QED BY <1>6, <2>2, <2>3
  <1>10. \A n \in Call' : answer'[n] # Nil => calls'[n].finishes > 0
    <2> SUFFICES ASSUME NEW n \in Call', answer'[n] # Nil  PROVE calls'[n].finishes > 0
      OBVIOUS
    <2>1. n \in Call /\ answer[n] # Nil /\ calls'[n] = calls[n]  BY <1>3, <1>5, <1>6
    <2> QED BY <2>1 DEF ServiceInv, SessionInv
  <1>11. SessionInv'  BY <1>3, <1>5, <1>9, <1>10 DEF SessionInv
  <1>12. RecordInv' /\ WorkerInv'  BY <1>1, <1>6, RecordStays, WorkerStays DEF ServiceInv
  <1>13. LogAsked'
    <2>1. Commands \subseteq Commands'  BY <1>6, AskedStays
    <2> QED BY <1>1, <2>1 DEF ServiceInv, LogAsked
  <1>14. Service!Ask(q)  BY <1>1 DEF Service!Ask
  <1> QED BY <1>11, <1>12, <1>13, <1>14 DEF ServiceInv, Serves, Service!Next, Service!Request, Request

\* Raft's steps are not seen.
LEMMA RaftServes ==
  ASSUME KVInv, ServiceInv, MaxSnapshots = 0, RaftStep
  PROVE  ServiceInv' /\ Serves
  <1>1. UNCHANGED << stateMachine, calls, worker, executed, asked, answer >>
    BY DEF RaftStep, Elected, Deposed, Follows, Follow, Commits, InstallsSnapshot, clientVars
  <1>2. AskedGrows  BY <1>1 DEF AskedGrows, Call
  <1>3. SessionInv'  BY <1>1 DEF ServiceInv, SessionInv, Superseded, Over, Call
  <1>4. RecordInv' /\ WorkerInv'  BY <1>1, <1>2, RecordStays, WorkerStays DEF ServiceInv
  <1>5. LogAsked'  BY RaftAsked DEF ServiceInv
  <1> QED BY <1>1, <1>3, <1>4, <1>5 DEF ServiceInv, Serves, Unseen

-----------------------------------------------------------------------------
(* The apply thread.                                                       *)

\* What is in the queue is taken from its head.
LEMMA TakesAsked ==
  ASSUME KVInv, LogAsked, applyQue # << >>, applyQue' = Tail(applyQue),
         UNCHANGED << raft, calls, asked >>
  PROVE  /\ LogAsked' /\ AskedGrows
         /\ ~Head(applyQue).snapshotValid /\ Head(applyQue).op \in Commands
         /\ Head(applyQue) \in MsgType
  <1>1. applyQue \in Seq(MsgType)  BY DEF KVInv, OpsAreRequests
  <1> PICK rest : rest = Tail(applyQue)  OBVIOUS
  <1>2. /\ Head(applyQue) = applyQue[1] /\ 1 \in 1 .. Len(applyQue) /\ Len(applyQue) \in Nat
        /\ Len(rest) = Len(applyQue) - 1 /\ Head(applyQue) \in MsgType
        /\ \A i \in 1 .. Len(rest) : rest[i] = applyQue[i + 1] /\ i + 1 \in 1 .. Len(applyQue)
    BY <1>1, HeadTailProperties, LenProperties, EmptySeq
  <1>3. Commands' = Commands /\ AskedGrows  BY DEF Commands, Call, AskedGrows
  <1>4. \A i \in 1 .. Len(rest) : ~rest[i].snapshotValid /\ rest[i].op \in Commands
    BY <1>2 DEF LogAsked
  <1> QED BY <1>2, <1>3, <1>4 DEF LogAsked

\* A command is executed for the first time, or its outcome is remembered.
LEMMA ApplyServes ==
  ASSUME KVInv, ServiceInv, ApplyCommand
  PROVE  ServiceInv' /\ Serves
  <1> PICK msg, r, sm : msg = Head(applyQue) /\ r = msg.op /\ sm = stateMachine  OBVIOUS
  <1>1. /\ worker = Idle /\ applyQue # << >> /\ applyQue' = Tail(applyQue)
        /\ stateMachine' = Apply(sm, r)
        /\ IF r = NoOp
           THEN UNCHANGED << worker, executed >>
           ELSE /\ worker' = Completing(msg, Reply(sm, r))
                /\ executed' = IF IsDuplicate(sm, r) \/ executed[r] # Nil THEN executed
                               ELSE [executed EXCEPT ![r] = Result(sm.kv, r)]
        /\ UNCHANGED << raft, calls, asked, answer >>
    BY DEF ApplyCommand, clientVars
  <1>2. LogAsked' /\ AskedGrows /\ r \in Commands
    BY <1>1, TakesAsked DEF ServiceInv
  <1>3. SessionInv'  BY <1>1 DEF ServiceInv, SessionInv, Superseded, Over, Call
  <1>4. CASE r = NoOp
    <2>1. UNCHANGED << stateMachine, worker, executed >>  BY <1>1, <1>4 DEF Apply
    <2>2. RecordInv' /\ WorkerInv'  BY <1>2, <2>1, RecordStays, WorkerStays DEF ServiceInv
    <2> QED BY <1>1, <1>2, <1>3, <2>1, <2>2 DEF ServiceInv, Serves, Unseen
  <1>5. CASE r # NoOp
    <2>1. /\ r \in Request /\ (\E n \in Call : asked[n] = r)
          /\ r = << r[1], r[2] >> /\ r[1] \in Client /\ r[2] \in Nat /\ r[2] # 0
      <3>1. \E n \in Call : asked[n] = r  BY <1>2, <1>5 DEF Commands
      <3>2. r \in Request  BY <3>1, CommandTypes DEF KVInv
      <3> QED BY <3>1, <3>2, RequestParts
    <2> PICK d : d = sm.dedup[r[1]]  OBVIOUS
    <2>2. /\ d \in [lastRequestId : Nat, lastReplyMsg : Replies]
          /\ d.lastRequestId = 0 \/ IsRecord(d, << r[1], d.lastRequestId >>)
          /\ executed \in [Request -> Replies]
          /\ \A q \in Request : executed[q] # Nil => IsDuplicate(sm, q)
      BY <2>1 DEF ServiceInv, RecordInv
    <2>3. worker' = Completing(msg, Reply(sm, r))  BY <1>1, <1>5
    <2>4. WorkerInv' <=> RightReply(r, Reply(sm, r))'
      BY <2>3 DEF WorkerInv, Completing
    <2>5. CASE IsDuplicate(sm, r)
      <3>1. UNCHANGED << stateMachine, executed >>  BY <1>1, <1>5, <2>5 DEF Apply
      <3>2. RecordInv'  BY <1>2, <3>1, RecordStays DEF ServiceInv
      <3>3. r[2] <= d.lastRequestId /\ Reply(sm, r) = d.lastReplyMsg
        BY <2>5 DEF IsDuplicate, Reply
      <3>4. IsRecord(d, << r[1], d.lastRequestId >>)  BY <2>1, <2>2, <3>3
      <3>5. RightReply(r, d.lastReplyMsg)
        <4>1. CASE r[2] = d.lastRequestId
          <5>1. << r[1], d.lastRequestId >> = r  BY <2>1, <4>1
          <5> QED BY <3>4, <5>1 DEF IsRecord, RightReply
        <4>2. CASE r[2] # d.lastRequestId
          <5>1. PICK n \in Call : asked[n] = << r[1], d.lastRequestId >>  BY <3>4 DEF IsRecord
          <5>2. d.lastRequestId > r[2]  BY <2>1, <2>2, <3>3, <4>2
          <5> QED BY <5>1, <5>2 DEF RightReply, Superseded
        <4> QED BY <4>1, <4>2
      <3>6. RightReply(r, d.lastReplyMsg)'
        <4>1. Superseded(r) => Superseded(r)'  BY <1>2, AskedStays
        <4> QED BY <3>1, <3>5, <4>1 DEF RightReply
      <3>7. WorkerInv'
        <4>1. Reply(sm, r)' = d.lastReplyMsg  BY <3>3
        <4> QED BY <2>3, <3>3, <3>6 DEF WorkerInv, Completing
      <3> QED BY <1>1, <1>2, <1>3, <3>1, <3>2, <3>7 DEF ServiceInv, Serves, Unseen
    <2>6. CASE ~IsDuplicate(sm, r)
      <3> PICK result, e : /\ result = Result(sm.kv, r)
                           /\ e = [lastRequestId |-> r[2], lastReplyMsg |-> result]
        OBVIOUS
      <3>1. result \in Replies /\ result # Nil  BY ResultIsReply
      <3>2. executed[r] = Nil /\ executed' = [executed EXCEPT ![r] = result]
        BY <1>1, <1>5, <2>1, <2>2, <2>6
      <3>3. /\ stateMachine'.kv = Effect(sm.kv, r)
            /\ stateMachine'.dedup = [sm.dedup EXCEPT ![r[1]] = e]
            /\ stateMachine' = [kv |-> stateMachine'.kv, dedup |-> stateMachine'.dedup]
        BY <1>1, <1>5, <2>6 DEF Apply
      <3>4. Reply(sm, r) = result  BY <2>6 DEF Reply
      <3>5. WorkerInv'
        <4>1. executed'[r] = result  BY <2>1, <2>2, <3>2
        <4>2. RightReply(r, result)'  BY <3>1, <4>1 DEF RightReply
        <4> QED BY <2>3, <3>4, <4>2 DEF WorkerInv, Completing
      <3>6. RecordInv'
        <4>1. executed' \in [Request -> Replies]  BY <2>2, <3>1, <3>2
        <4>2. /\ sm.dedup \in [Client -> [lastRequestId : Nat, lastReplyMsg : Replies]]
              /\ e \in [lastRequestId : Nat, lastReplyMsg : Replies]
          BY <2>1, <3>1 DEF ServiceInv, RecordInv
        <4>3. /\ stateMachine'.dedup \in [Client -> [lastRequestId : Nat, lastReplyMsg : Replies]]
              /\ stateMachine'.dedup[r[1]] = e
              /\ \A c \in Client : c # r[1] => stateMachine'.dedup[c] = sm.dedup[c]
          BY <2>1, <3>3, <4>2
        <4>4. \A q \in Request : executed'[q] # Nil => IsDuplicate(stateMachine', q)
          <5> SUFFICES ASSUME NEW q \in Request, executed'[q] # Nil
                       PROVE  q[2] <= stateMachine'.dedup[q[1]].lastRequestId
            BY DEF IsDuplicate
          <5>1. q[1] \in Client /\ q[2] \in Nat  BY RequestParts
          <5>2. CASE q = r
            <6>1. e.lastRequestId = r[2]  OBVIOUS
            <6> QED BY <4>3, <5>1, <5>2, <6>1
          <5>3. CASE q # r
            <6>1. q[2] <= sm.dedup[q[1]].lastRequestId
              BY <2>2, <3>2, <5>3 DEF IsDuplicate
            <6>2. CASE q[1] = r[1]
              <7>1. d.lastRequestId < r[2]  BY <2>1, <2>2, <2>6 DEF IsDuplicate
              <7>2. q[2] <= d.lastRequestId /\ d.lastRequestId \in Nat  BY <2>2, <6>1, <6>2
              <7>3. e.lastRequestId = r[2]  OBVIOUS
              <7> QED BY <2>1, <4>3, <5>1, <6>2, <7>1, <7>2, <7>3
            <6>3. CASE q[1] # r[1]  BY <4>3, <5>1, <6>1, <6>3
            <6> QED BY <6>2, <6>3
          <5> QED BY <5>2, <5>3
        <4>5. ASSUME NEW c \in Client
              PROVE  \E x : /\ x = stateMachine'.dedup[c]
                            /\ x.lastRequestId = 0 \/ IsRecord(x, << c, x.lastRequestId >>)'
          <5>1. CASE c = r[1]
            <6>1. /\ stateMachine'.dedup[c] = e /\ e.lastRequestId = r[2] /\ e.lastReplyMsg = result
                  /\ << c, e.lastRequestId >> = r
              BY <2>1, <4>3, <5>1
            <6>2. executed'[r] = result /\ \E n \in Call' : asked'[n] = r
              BY <1>1, <2>1, <2>2, <3>2 DEF Call
            <6>3. IsRecord(e, r)'  BY <2>1, <3>1, <6>1, <6>2 DEF IsRecord
            <6> QED BY <6>1, <6>3
          <5>2. CASE c # r[1]
            <6> PICK x : x = sm.dedup[c]  OBVIOUS
            <6>1. x.lastRequestId = 0 \/ IsRecord(x, << c, x.lastRequestId >>)
              BY DEF ServiceInv, RecordInv
            <6>2. << c, x.lastRequestId >> # r  BY <5>2
            <6>3. IsRecord(x, << c, x.lastRequestId >>) => IsRecord(x, << c, x.lastRequestId >>)'
              BY <1>1, <2>2, <3>2, <6>2 DEF IsRecord, Call
            <6>4. stateMachine'.dedup[c] = x  BY <4>3, <5>2
            <6> QED BY <6>1, <6>3, <6>4
          <5> QED BY <5>1, <5>2
        <4>6. (\A c \in Client : LET x == stateMachine.dedup[c]
                                 IN x.lastRequestId = 0 \/ IsRecord(x, << c, x.lastRequestId >>))'
          BY ZenonT(30), <4>5 DEF IsRecord
        <4> QED BY <3>3, <4>1, <4>3, <4>4, <4>6 DEF RecordInv
      <3>7. Service!Execute(r)
        <4>1. \E n \in DOMAIN asked : asked[n] = r
          BY <2>1, LenProperties DEF KVInv, CallsAreSound, Call
        <4>2. /\ Service!Effect(stateMachine.kv, r) = stateMachine'.kv
              /\ Service!Result(stateMachine.kv, r) = result
          BY <3>3, SameStore
        <4> QED BY <1>1, <3>2, <4>1, <4>2 DEF Service!Execute
      <3> QED BY <1>2, <1>3, <2>1, <3>5, <3>6, <3>7
              DEF ServiceInv, Serves, Service!Next, Service!Request, Request
    <2> QED BY <2>5, <2>6
  <1> QED BY <1>4, <1>5

\* No snapshot is restored, a call is completed, and finish() marks it.
LEMMA WaitingServes ==
  ASSUME KVInv, ServiceInv, Restore \/ CompletePending \/ MarkDone
  PROVE  ServiceInv' /\ Serves
  <1>1. ~Restore
    <2> SUFFICES ASSUME Restore  PROVE FALSE  OBVIOUS
    <2>1. /\ applyQue # << >> /\ Head(applyQue).snapshotValid
      BY DEF Restore
    <2>2. applyQue \in Seq(MsgType)  BY DEF KVInv, OpsAreRequests
    <2>3. Head(applyQue) = applyQue[1] /\ 1 \in 1 .. Len(applyQue)
      BY <2>1, <2>2, HeadTailProperties, LenProperties, EmptySeq
    <2> QED BY <2>1, <2>3 DEF ServiceInv, LogAsked
  <1>2. UNCHANGED << raft, applyQue, stateMachine, executed, asked, answer >>
    BY <1>1 DEF CompletePending, MarkDone, clientVars
  <1>3. CASE CompletePending
    <2> PICK r : r = worker.msg.op  OBVIOUS
    <2>1. /\ worker.at = "completing" /\ calls' = calls
          /\ \/ worker' = Idle
             \/ /\ pendingRequests[r] # Nil
                /\ worker' = Finishing("finish", pendingRequests[r].call, worker.reply)
      BY <1>3 DEF CompletePending
    <2>2. AskedGrows  BY <1>2, <2>1 DEF AskedGrows, Call
    <2>3. LogAsked' /\ SessionInv'
      BY <1>2, <2>1 DEF ServiceInv, LogAsked, Commands, SessionInv, Superseded, Over, Call
    <2>4. RecordInv'  BY <1>2, <2>2, RecordStays DEF ServiceInv
    <2>5. RightReply(r, worker.reply)  BY <2>1 DEF ServiceInv, WorkerInv
    <2>6. RightReply(r, worker.reply) => \A reply : reply = worker.reply => RightReply(r, reply)'
      BY <1>2, <2>2, AskedStays DEF RightReply
    <2>7. WorkerInv'
      <3>1. CASE worker' = Idle  BY <3>1 DEF Idle, WorkerInv
      <3>2. CASE /\ pendingRequests[r] # Nil
                 /\ worker' = Finishing("finish", pendingRequests[r].call, worker.reply)
        <4>1. r \in Request  BY <2>1 DEF KVInv, OpsAreRequests
        <4>2. asked[pendingRequests[r].call] = r  BY <3>2, <4>1 DEF KVInv, Waits
        <4>3. /\ worker'.at = "finish" /\ worker'.call = pendingRequests[r].call
              /\ worker'.reply = worker.reply
          BY <3>2 DEF Finishing
        <4> QED BY <1>2, <2>5, <2>6, <4>2, <4>3 DEF WorkerInv
      <3> QED BY <2>1, <3>1, <3>2
    <2> QED BY <1>2, <2>3, <2>4, <2>7 DEF ServiceInv, Serves, Unseen
  <1>4. CASE MarkDone
    <2> PICK n : n = worker.call  OBVIOUS
    <2>1. /\ worker.at = "finish" /\ n \in Call
          /\ \/ worker' = Idle /\ calls' = calls
             \/ /\ worker' = Finishing("Finish", n, worker.reply)
                /\ calls' = [calls EXCEPT ![n].done = TRUE]
      BY <1>4 DEF MarkDone, KVInv, Served
    <2>2. SessionInv' /\ AskedGrows
      <3>1. calls \in Seq(CallType) /\ calls[n] \in CallType
        BY <2>1, CallFields DEF KVInv, CallsAreSound
      <3>2. CASE calls' = calls
        BY <1>2, <3>2 DEF ServiceInv, SessionInv, Superseded, Over, Call, AskedGrows
      <3>3. CASE calls' = [calls EXCEPT ![n].done = TRUE]
        <4> PICK c : c = [calls[n] EXCEPT !.done = TRUE]  OBVIOUS
        <4>1. c \in CallType /\ c.gaveUp = calls[n].gaveUp /\ c.finishes = calls[n].finishes
          BY <3>1 DEF CallType
        <4>2. c.finishes >= calls[n].finishes  BY <3>1, <4>1 DEF CallType
        <4>3. calls' = [calls EXCEPT ![n] = c]  BY <3>3
        <4> QED BY <1>2, <2>1, <3>1, <4>1, <4>2, <4>3, SessionStays DEF ServiceInv
      <3> QED BY <2>1, <3>2, <3>3
    <2>3. RecordInv'  BY <1>2, <2>2, RecordStays DEF ServiceInv
    <2>4. LogAsked'
      <3>1. Commands \subseteq Commands'  BY <2>2, AskedStays
      <3> QED BY <1>2, <3>1 DEF ServiceInv, LogAsked
    <2>5. RightReply(asked[n], worker.reply)  BY <2>1 DEF ServiceInv, WorkerInv
    <2>6. \A r, reply : RightReply(r, reply) => RightReply(r, reply)'
      BY <1>2, <2>2, AskedStays DEF RightReply
    <2>7. WorkerInv'
      <3>1. CASE worker' = Idle  BY <3>1 DEF Idle, WorkerInv
      <3>2. CASE worker' = Finishing("Finish", n, worker.reply)
        <4>1. worker'.at = "Finish" /\ worker'.call = n /\ worker'.reply = worker.reply
          BY <3>2 DEF Finishing
        <4> QED BY <1>2, <2>5, <2>6, <4>1 DEF WorkerInv
      <3> QED BY <2>1, <3>1, <3>2
    <2> QED BY <1>2, <2>2, <2>3, <2>4, <2>7 DEF ServiceInv, Serves, Unseen
  <1> QED BY <1>1, <1>3, <1>4

\* The client that still waits is told the outcome of its own request.
LEMMA FinishServes ==
  ASSUME KVInv, ServiceInv, Finish
  PROVE  ServiceInv' /\ Serves
  <1> PICK n, reply : n = worker.call /\ reply = worker.reply  OBVIOUS
  <1> PICK c : c = [calls[n] EXCEPT !.finishes = 1]  OBVIOUS
  <1>1. /\ worker.at = "Finish" /\ n \in Call /\ calls[n].finishes = 0
        /\ calls' = [calls EXCEPT ![n] = Finished(calls[n])]
        /\ answer' = Told(n, reply) /\ worker' = Idle
        /\ UNCHANGED << raft, applyQue, stateMachine, executed, asked >>
    BY DEF Finish, KVInv, Served
  <1>2. calls \in Seq(CallType) /\ calls[n] \in CallType
    BY <1>1, CallFields DEF KVInv, CallsAreSound
  <1>3. calls' = [calls EXCEPT ![n] = c]
    <2>1. calls[n].finishes + 1 = 1  BY <1>1
    <2> QED BY <1>1, <2>1 DEF Finished
  <1>4. c \in CallType /\ c.gaveUp = calls[n].gaveUp /\ c.finishes > 0
        /\ c.finishes >= calls[n].finishes
    <2>1. c \in CallType /\ c.gaveUp = calls[n].gaveUp /\ c.finishes = 1
      BY <1>2 DEF CallType
    <2> QED BY <1>1, <2>1
  <1>5. answer[n] = Nil /\ n \in DOMAIN answer
    BY <1>1, LenProperties DEF ServiceInv, SessionInv, Call
  <1>6. \/ answer' = answer
        \/ /\ answer' = [answer EXCEPT ![n] = reply]
           /\ reply = executed[asked[n]] /\ reply # Nil /\ reply \in Replies
    <2>1. CASE calls[n].gaveUp  BY <1>1, <2>1 DEF Told
    <2>2. CASE ~calls[n].gaveUp
      <3>1. ~Superseded(asked[n])  BY <1>1, <1>5, <2>2 DEF ServiceInv, SessionInv, Over
      <3>2. RightReply(asked[n], reply)  BY <1>1 DEF ServiceInv, WorkerInv
      <3>3. reply = executed[asked[n]] /\ reply # Nil  BY <3>1, <3>2 DEF RightReply
      <3>4. asked[n] \in Request  BY <1>1, CommandTypes DEF KVInv
      <3>5. executed[asked[n]] \in Replies  BY <3>4 DEF ServiceInv, RecordInv
      <3> QED BY <1>1, <2>2, <3>3, <3>5 DEF Told
    <2> QED BY <2>1, <2>2
  <1>7. SessionInv' /\ AskedGrows
    <2>1. \/ answer' = answer
          \/ \E told \in Replies \cup {WrongLeader} :
               answer' = [answer EXCEPT ![n] = told] /\ told # Nil /\ c.finishes > 0
      BY <1>4, <1>6
    <2>2. SessionInv /\ asked' = asked  BY <1>1 DEF ServiceInv
    <2>3. calls[n].gaveUp => c.gaveUp  BY <1>4
    <2> QED BY ZenonT(30), <1>1, <1>2, <1>3, <1>4, <2>1, <2>2, <2>3, SessionStays
  <1>8. RecordInv'  BY <1>1, <1>7, RecordStays DEF ServiceInv
  <1>9. WorkerInv'  BY <1>1 DEF WorkerInv, Idle
  <1>10. LogAsked'
    <2>1. Commands \subseteq Commands'  BY <1>7, AskedStays
    <2> QED BY <1>1, <2>1 DEF ServiceInv, LogAsked
  <1>11. Serves
    <2>1. CASE answer' = answer  BY <1>1, <2>1 DEF Serves, Unseen
    <2>2. CASE /\ answer' = [answer EXCEPT ![n] = reply]
               /\ reply = executed[asked[n]] /\ reply # Nil
      <3>1. Service!Answer(n)  BY <1>1, <1>5, <2>2 DEF Service!Answer
      <3> QED BY <1>5, <3>1 DEF Serves, Service!Next
    <2> QED BY <1>6, <2>1, <2>2
  <1> QED BY <1>7, <1>8, <1>9, <1>10, <1>11 DEF ServiceInv

-----------------------------------------------------------------------------
(* The refinement.                                                         *)

\* A server that has not been asked for anything is a service that has not.
LEMMA InitServes ==
  ASSUME Init
  PROVE  ServiceInv /\ Service!Init
  <1>1. /\ Len(raft.log) = 0 /\ Len(applyQue) = 0 /\ Len(calls) = 0
        /\ answer = << >> /\ worker = Idle
        /\ stateMachine = EmptyStateMachine /\ executed = [r \in Request |-> Nil]
    BY EmptySeq DEF Init
  <1>2. LogAsked /\ WorkerInv  BY <1>1 DEF LogAsked, WorkerInv, Idle
  <1>3. SessionInv  BY <1>1, EmptySeq DEF SessionInv, Call
  <1>4. RecordInv
    <2>1. NoRecord \in [lastRequestId : Nat, lastReplyMsg : Replies] /\ NoRecord.lastRequestId = 0
      BY DEF NoRecord, Replies
    <2>2. executed \in [Request -> Replies] /\ \A r \in Request : executed[r] = Nil
      BY <1>1 DEF Replies
    <2>3. \A c \in Client : stateMachine.dedup[c] = NoRecord
      BY <1>1 DEF EmptyStateMachine
    <2>4. stateMachine.dedup \in [Client -> [lastRequestId : Nat, lastReplyMsg : Replies]]
      BY <1>1, <2>1 DEF EmptyStateMachine
    <2>5. stateMachine = [kv |-> stateMachine.kv, dedup |-> stateMachine.dedup]
      BY <1>1 DEF EmptyStateMachine
    <2> QED BY <2>1, <2>2, <2>3, <2>4, <2>5 DEF RecordInv
  <1>5. Service!Init
    BY <1>1 DEF Init, Service!Init, EmptyStateMachine, EmptyStore, Service!EmptyStore,
                Request, Service!Request
  <1> QED BY <1>2, <1>3, <1>4, <1>5 DEF ServiceInv

\* Every step keeps the invariant, and is a step of the service or unseen.
LEMMA StepServes ==
  ASSUME KVInv, ServiceInv, MaxSnapshots = 0, [Next]_kvVars
  PROVE  ServiceInv' /\ Serves
  <1>1. CASE UNCHANGED kvVars
    <2>1. UNCHANGED << raft, applyQue, stateMachine, calls, asked, answer, worker, executed >>
      BY <1>1 DEF kvVars, clientVars
    <2>2. AskedGrows  BY <2>1 DEF AskedGrows, Call
    <2>3. RecordInv' /\ WorkerInv'  BY <2>1, <2>2, RecordStays, WorkerStays DEF ServiceInv
    <2>4. LogAsked' /\ SessionInv'
      BY <2>1 DEF ServiceInv, LogAsked, Commands, SessionInv, Superseded, Over, Call
    <2> QED BY <2>1, <2>3, <2>4 DEF ServiceInv, Serves, Unseen
  <1>2. CASE RaftStep  BY <1>2, RaftServes
  <1>3. CASE WorkerStep
    BY <1>3, ApplyServes, WaitingServes, FinishServes DEF WorkerStep
  <1>4. CASE ClientStep
    BY <1>4, AskServes, CallServes DEF ClientStep, Send, SendElsewhere
  <1>5. ASSUME NEW n \in Call, CallStep(n)  PROVE ServiceInv' /\ Serves
    BY <1>5, CallServes DEF CallStep
  <1> QED BY <1>1, <1>2, <1>3, <1>4, <1>5 DEF Next

\* PutAppend implements the service KVService, as long as no snapshot of a
\* leader is restored: every command is executed at most once, after it was
\* asked for, and no client is told anything but the outcome of its own command
\* or to ask elsewhere.
THEOREM ServerImplementsService ==
  ASSUME MaxSnapshots = 0
  PROVE  Spec => ImplementsKVService
  <1>1. Init => ServiceInv /\ Service!Init  BY InitServes
  <1>2. KVInv /\ ServiceInv /\ [Next]_kvVars => ServiceInv'  BY StepServes
  <1>3. KVInv /\ ServiceInv /\ [Next]_kvVars => [Service!Next]_(Service!serviceVars)
    <2> SUFFICES ASSUME KVInv, ServiceInv, [Next]_kvVars
                 PROVE  [Service!Next]_(Service!serviceVars)
      OBVIOUS
    <2>1. Serves  BY StepServes
    <2>2. Unseen => UNCHANGED Service!serviceVars  BY DEF Unseen, Service!serviceVars
    <2> QED BY <2>1, <2>2 DEF Serves
  <1>4. Spec => []KVInv  BY CallsStaySound
  <1> QED BY <1>1, <1>2, <1>3, <1>4, PTL DEF Spec, ImplementsKVService, Service!Spec

-----------------------------------------------------------------------------
(* The type of the server's members, with snapshots.                       *)

\* What the state machine may be.
MachineType ==
  [kv : Stores, dedup : [Client -> [lastRequestId : Nat, lastReplyMsg : Replies]]]

\* A set of numbers that is not empty has a smallest.
LEMMA SmallestOf ==
  ASSUME NEW S, S \subseteq Nat, S # {}
  PROVE  \E i \in S : \A j \in S : i <= j
  <1>1. PICK x \in S : \A y \in S : ~ (<< y, x >> \in OpToRel(<, Nat))
    BY NatLessThanWellFounded, WFMin
  <1>2. \A y \in S : ~(y < x)
    BY <1>1 DEF OpToRel
  <1> QED BY <1>2

\* A command that writes has a value.
LEMMA WrittenValue ==
  ASSUME NEW r \in Request, Op(r).operation = PUT
  PROVE  Op(r).value \in Value
  <1>1. PICK c \in Client : r \in {c} \X (1 .. Len(Command[c]))  BY DEF Request
  <1>2. PICK i : r = << c, i >> /\ i \in 1 .. Len(Command[c])  BY <1>1
  <1>3. Command[c] \in Seq(CommandType)  BY CommandAssumption
  <1>4. Command[c][i] \in CommandType  BY <1>2, <1>3, ElementOfSeq
  <1>5. Op(r) \in CommandType  BY <1>2, <1>4 DEF Op
  <1> QED BY <1>5 DEF CommandType, PUT, DEL

\* A store that a command is applied to stays a store, and so do the records.
LEMMA ApplyType ==
  ASSUME NEW sm \in MachineType, NEW op \in Ops
  PROVE  Apply(sm, op) \in MachineType
  <1>1. CASE op = NoOp \/ IsDuplicate(sm, op)  BY <1>1 DEF Apply
  <1>2. CASE op # NoOp /\ ~IsDuplicate(sm, op)
    <2>1. op \in Request  BY <1>2 DEF Ops
    <2>2. op[1] \in Client /\ op[2] \in Nat  BY <2>1, RequestParts
    <2>3. Result(sm.kv, op) \in Replies  BY ResultIsReply
    <2>4. Effect(sm.kv, op) \in Stores
      <3>1. CASE Op(op).operation = PUT
        <4>1. Op(op).value \in Value  BY <2>1, <3>1, WrittenValue
        <4>2. sm.kv \in Stores  BY DEF MachineType
        <4>3. [sm.kv EXCEPT ![Op(op).key] = Op(op).value] \in Stores
          BY <4>1, <4>2 DEF Stores
        <4> QED BY <3>1, <4>3 DEF Effect, Insert
      <3>2. CASE Op(op).operation # PUT
        <4>2. sm.kv \in Stores  BY DEF MachineType
        <4>3. [sm.kv EXCEPT ![Op(op).key] = Nil] \in Stores
          BY <4>2 DEF Stores
        <4> QED BY <3>2, <4>3 DEF Effect, Erase
      <3> QED BY <3>1, <3>2
    <2> DEFINE d == [lastRequestId |-> op[2], lastReplyMsg |-> Result(sm.kv, op)]
    <2>5. d \in [lastRequestId : Nat, lastReplyMsg : Replies]  BY <2>2, <2>3
    <2> HIDE DEF d
    <2>6. [sm.dedup EXCEPT ![op[1]] = d]
            \in [Client -> [lastRequestId : Nat, lastReplyMsg : Replies]]
      BY <2>2, <2>5 DEF MachineType
    <2>7. Apply(sm, op) = [kv |-> Effect(sm.kv, op), dedup |-> [sm.dedup EXCEPT ![op[1]] = d]]
      BY <1>2 DEF Apply, d
    <2> QED BY <2>4, <2>6, <2>7 DEF MachineType
  <1> QED BY <1>1, <1>2

\* What the fold over a log does at a set of its positions, when it knows what
\* it has for those without the last.
FoldStep(g, log, s) ==
  IF s = {} THEN EmptyStateMachine ELSE Apply(g[s \ {Max(s)}], log[Max(s)].op)

\* The last of the first positions.
LEMMA LastOfFirst ==
  ASSUME NEW m \in Nat, NEW s, s \subseteq 1 .. m + 1
  PROVE  /\ m + 1 \in s => Max(s) = m + 1
         /\ m + 1 \notin s => s \in SUBSET (1 .. m)
         /\ s \ {m + 1} \in SUBSET (1 .. m)
  <1>1. \A i \in s : i \in Nat /\ i <= m + 1  OBVIOUS
  <1>2. ASSUME m + 1 \in s  PROVE Max(s) = m + 1
    <2>1. \A i \in s : m + 1 >= i  BY <1>1
    <2>2. \A x \in s : (\A y \in s : x >= y) => x = m + 1  BY <1>1, <1>2
    <2> QED BY <1>2, <2>1, <2>2 DEF Max
  <1> QED BY <1>2

\* A set of numbers that are bounded has a last.
LEMMA LastIsIn ==
  ASSUME NEW n \in Nat, NEW s, s \subseteq 1 .. n, s # {}
  PROVE  Max(s) \in s /\ \A i \in s : i <= Max(s)
  <1> DEFINE T == { i \in Nat : \A j \in s : j <= i }
  <1>1. n \in T  OBVIOUS
  <1>2. PICK t \in T : \A u \in T : t <= u  BY <1>1, SmallestOf
  <1>3. t \in s
    <2>1. SUFFICES ASSUME t \notin s PROVE FALSE  OBVIOUS
    <2>2. PICK i \in s : TRUE  OBVIOUS
    <2>3. i \in Nat /\ i <= t /\ i # t /\ i >= 1  BY <2>1, <1>2
    <2>4. \A j \in s : j <= t - 1  BY <1>2, <2>1
    <2>5. t - 1 \in T  BY <2>3, <2>4
    <2> QED BY <1>2, <2>5
  <1>4. \A j \in s : t >= j  BY <1>2
  <1> QED BY <1>3, <1>4 DEF Max

\* The fold over a log has a value for every set of its positions.
LEMMA FoldExists ==
  ASSUME NEW log, NEW n \in Nat
  PROVE  \E g : g = [s \in SUBSET (1 .. n) |-> FoldStep(g, log, s)]
  <1> DEFINE Folds(g, m) == g = [s \in SUBSET (1 .. m) |-> FoldStep(g, log, s)]
             Bad == { m \in Nat : ~ \E g : Folds(g, m) }
  <1>1. 0 \notin Bad
    <2> DEFINE g == [s \in {{}} |-> EmptyStateMachine]
    <2>1. SUBSET (1 .. 0) = {{}}
      <3>1. 1 .. 0 = {}  OBVIOUS
      <3> QED BY <3>1
    <2>2. Folds(g, 0)  BY <2>1 DEF FoldStep
    <2> HIDE DEF g
    <2> QED BY <2>2
  <1>2. ASSUME NEW m \in Nat, m \notin Bad  PROVE m + 1 \notin Bad
    <2>1. PICK g : Folds(g, m)  BY <1>2
    <2> DEFINE h == [s \in SUBSET (1 .. m + 1) |->
                       IF m + 1 \in s THEN Apply(g[s \ {m + 1}], log[m + 1].op) ELSE g[s]]
    <2>2. \A s \in SUBSET (1 .. m) : h[s] = g[s] /\ s \in SUBSET (1 .. m + 1)  OBVIOUS
    <2>3. ASSUME NEW s \in SUBSET (1 .. m + 1)  PROVE h[s] = FoldStep(h, log, s)
      <3>1. CASE m + 1 \in s
        <4>1. Max(s) = m + 1 /\ s \ {m + 1} \in SUBSET (1 .. m) /\ s # {}
          BY <3>1, LastOfFirst
        <4>2. h[s \ {m + 1}] = g[s \ {m + 1}]  BY <2>2, <4>1
        <4>3. h[s] = Apply(g[s \ {m + 1}], log[m + 1].op)  BY <3>1
        <4> HIDE DEF h
        <4> QED BY <4>1, <4>2, <4>3 DEF FoldStep
      <3>2. CASE m + 1 \notin s
        <4>1. s \in SUBSET (1 .. m)  BY <3>2, LastOfFirst
        <4>2. h[s] = g[s] /\ g[s] = FoldStep(g, log, s)  BY <2>1, <2>2, <4>1
        <4>3. h[s \ {Max(s)}] = g[s \ {Max(s)}]  BY <2>2, <4>1
        <4> HIDE DEF h
        <4> QED BY <4>2, <4>3 DEF FoldStep
      <3> QED BY <3>1, <3>2
    <2>4. h = [s \in SUBSET (1 .. m + 1) |-> h[s]]  OBVIOUS
    <2> HIDE DEF h
    <2>5. Folds(h, m + 1)  BY <2>3, <2>4
    <2> QED BY <2>5
  <1>3. Bad = {}
    <2>1. SUFFICES ASSUME Bad # {} PROVE FALSE  OBVIOUS
    <2>2. PICK i \in Bad : \A j \in Bad : i <= j
      <3>1. Bad \subseteq Nat  OBVIOUS
      <3> HIDE DEF Bad
      <3> QED BY <2>1, <3>1, SmallestOf
    <2>3. i \in Nat /\ i # 0  BY <1>1
    <2>4. i - 1 \in Nat /\ i - 1 \notin Bad  
      <3> HIDE DEF Bad
      <3> QED BY <2>2, <2>3
    <2>5. (i - 1) + 1 = i  BY <2>3
    <2> HIDE DEF Bad
    <2> QED BY <1>2, <2>2, <2>4, <2>5
  <1> QED BY <1>3

\* The state after the commands of a log is one of the state machine.
LEMMA SnapshotType ==
  ASSUME NEW log \in Seq(EntryType)
  PROVE  SnapshotOf(log) \in MachineType
  <1>1. PICK n \in Nat : DOMAIN log = 1 .. n /\ \A i \in 1 .. n : log[i] \in EntryType
    BY LenProperties, ElementOfSeq
  <1> DEFINE g == CHOOSE g : g = [s \in SUBSET (DOMAIN log) |-> FoldStep(g, log, s)]
  <1>2. g = [s \in SUBSET (1 .. n) |-> FoldStep(g, log, s)]
    BY <1>1, FoldExists
  <1>3. SnapshotOf(log) = g[DOMAIN log]
    BY DEF SnapshotOf, FoldLeft, MapThenFoldSet, FoldStep
  <1> HIDE DEF g
  <1> DEFINE Bad == { m \in Nat : \E s \in SUBSET (1 .. n) : s \subseteq 1 .. m /\ g[s] \notin MachineType }
  <1>4. EmptyStateMachine \in MachineType
    BY DEF EmptyStateMachine, EmptyStore, MachineType, Stores, NoRecord, Replies
  <1>5. Bad = {}
    <2>1. SUFFICES ASSUME Bad # {} PROVE FALSE  OBVIOUS
    <2>2. PICK m \in Bad : \A j \in Bad : m <= j
      <3>1. Bad \subseteq Nat  OBVIOUS
      <3> HIDE DEF Bad
      <3> QED BY <2>1, <3>1, SmallestOf
    <2>3. PICK s \in SUBSET (1 .. n) : s \subseteq 1 .. m /\ g[s] \notin MachineType
      OBVIOUS
    <2>4. g[s] = FoldStep(g, log, s)  BY <1>2
    <2>5. s # {}  BY <1>4, <2>3, <2>4 DEF FoldStep
    <2>6. PICK x : x = Max(s)  OBVIOUS
    <2> DEFINE r == s \ {x}
    <2>7. x \in s /\ m \in Nat /\ \A i \in s : i \in Nat /\ i >= 1 /\ i <= m /\ i <= x
      <3>0. m \in Nat  OBVIOUS
      <3> HIDE DEF Bad
      <3>1. m \in Nat /\ \A i \in s : i \in Nat /\ i >= 1 /\ i <= m  BY <2>3, <3>0
      <3>2. x \in s /\ \A i \in s : i <= x  BY <2>3, <2>5, <2>6, LastIsIn
      <3> QED BY <3>1, <3>2
    <2>8. r \subseteq 1 .. m - 1 /\ m - 1 \in Nat /\ r \in SUBSET (1 .. n)
      <3> HIDE DEF Bad
      <3>1. \A i \in r : i \in Nat /\ i >= 1 /\ i < x  BY <2>7
      <3> QED BY <2>7, <3>1
    <2>10. g[r] \in MachineType
      <3>1. m - 1 \notin Bad
        <4> HIDE DEF Bad
        <4> QED BY <2>2, <2>7, <2>8
      <3> HIDE DEF r
      <3> QED BY <2>8, <3>1
    <2>9. log[x].op \in Ops
      <3>1. log[x] \in EntryType  BY <1>1, <2>3, <2>7
      <3> QED BY <3>1 DEF EntryType
    <2> QED BY <2>3, <2>4, <2>5, <2>6, <2>10, <2>9, ApplyType DEF FoldStep
  <1>6. g[1 .. n] \in MachineType
    <2>1. n \notin Bad  BY <1>5
    <2> QED BY <2>1
  <1> QED BY <1>1, <1>3, <1>6

\* The log and the terms keep their bounds.
RaftBounded ==
  /\ raft.currentTerm <= MaxTerm /\ (raft.leads => raft.currentTerm # 0)
  /\ Len(raft.log) <= MaxIndex
  /\ \A i \in 1 .. Len(raft.log) : raft.log[i].term \in 1 .. MaxTerm

\* A position that start() returned.
IsPosition(i, t) == i \in 1 .. MaxIndex /\ t \in 1 .. MaxTerm

CallsBounded ==
  /\ answer \in Seq(Replies \cup {WrongLeader}) /\ Len(answer) = Len(calls)
  /\ \A n \in Call : calls[n].handler = "started" => IsPosition(calls[n].index, calls[n].term)

PendingBounded ==
  \A r \in Request : pendingRequests[r] # Nil =>
    pendingRequests[r] \in [logIndex : 1 .. MaxIndex, logTerm : 1 .. MaxTerm, call : Nat]

WorkerBounded ==
  \/ worker = Idle
  \/ worker.at \in {"completing", "finish", "Finish"} /\ worker.reply \in Replies

TypeInv ==
  /\ RaftBounded /\ CallsBounded /\ PendingBounded /\ WorkerBounded
  /\ stateMachine \in MachineType

\* The members that KVInv gives a type, for the lemmas below.
LEMMA Members ==
  ASSUME KVInv
  PROVE  /\ OpsAreRequests /\ CallsAreSound /\ raft \in RaftType /\ raft.currentTerm \in Nat
         /\ raft.commitIndex \in Nat /\ raft.commitIndex <= LastIndex /\ LastIndex = Len(raft.log)
         /\ raft.log \in Seq(EntryType) /\ LastIndex \in Nat
         /\ calls \in Seq(CallType) /\ Len(calls) \in Nat /\ Call = 1 .. Len(calls)
  BY LenProperties DEF KVInv, OpsAreRequests, CallsAreSound, RaftType, LastIndex, Call

\* A log that a bounded entry replaces the end of.
LEMMA CutBounded ==
  ASSUME KVInv, RaftBounded, NEW i \in 1 .. LastIndex + 1, i <= MaxIndex,
         NEW t \in 1 .. MaxTerm, NEW op \in Ops
  PROVE  LET log == Append(SubSeq(raft.log, 1, i - 1), Entry(t, op))
         IN Len(log) <= MaxIndex /\ \A j \in 1 .. Len(log) : log[j].term \in 1 .. MaxTerm
  <1>1. /\ raft.log \in Seq(EntryType) /\ Len(raft.log) \in Nat /\ LastIndex = Len(raft.log)
        /\ i \in Nat /\ i - 1 \in 0 .. Len(raft.log) /\ t \in Nat
    BY Members, KVServerAssumption
  <1> DEFINE head == SubSeq(raft.log, 1, i - 1)
  <1>2. \A j \in 1 .. i - 1 : raft.log[j] \in EntryType
    BY <1>1, ElementOfSeq
  <1>3. /\ head \in Seq(EntryType) /\ Len(head) = i - 1
        /\ \A j \in 1 .. i - 1 : head[j] = raft.log[j]
    BY <1>1, <1>2, SubSeqProperties
  <1>4. Entry(t, op) \in EntryType /\ Entry(t, op).term = t  BY <1>1 DEF Entry, EntryType
  <1> HIDE DEF head
  <1> DEFINE log == Append(head, Entry(t, op))
  <1>5. /\ Len(log) = i /\ log[i] = Entry(t, op)
        /\ \A j \in 1 .. i - 1 : log[j] = head[j]
    <2>1. (i - 1) + 1 = i  BY <1>1
    <2> QED BY <1>3, <1>4, <2>1, Appended
  <1> HIDE DEF log
  <1>6. \A j \in 1 .. i : log[j].term \in 1 .. MaxTerm
    <2> TAKE j \in 1 .. i
    <2>1. CASE j = i  BY <1>4, <1>5, <2>1
    <2>2. CASE j # i
      <3>1. j \in 1 .. i - 1 /\ j \in 1 .. Len(raft.log)  BY <1>1, <2>2
      <3>2. log[j] = raft.log[j]  BY <1>3, <1>5, <3>1
      <3> QED BY <3>1, <3>2 DEF RaftBounded
    <2> QED BY <2>1, <2>2
  <1> QED BY <1>5, <1>6 DEF log, head

\* A leader that appends in a term of its own.
LEMMA LeaderBounded ==
  ASSUME KVInv, RaftBounded, NEW t \in 1 .. MaxTerm, NEW op \in Ops, LastIndex < MaxIndex,
         raft' = LeaderAppends(t, op)
  PROVE  RaftBounded'
  <1>1. raft \in RaftType /\ raft.log \in Seq(EntryType) /\ LastIndex \in Nat
        /\ LastIndex = Len(raft.log) /\ t \in Nat /\ t # 0 /\ t <= MaxTerm
    BY Members, KVServerAssumption
  <1> DEFINE log == Append(raft.log, Entry(t, op))
  <1>2. Entry(t, op) \in EntryType /\ Entry(t, op).term = t  BY <1>1 DEF Entry, EntryType
  <1>3. /\ Len(log) = LastIndex + 1 /\ log[LastIndex + 1] = Entry(t, op)
        /\ \A i \in 1 .. LastIndex : log[i] = raft.log[i]
    BY <1>1, <1>2, Appended
  <1>4. raft'.currentTerm = t /\ raft'.log = log
    BY <1>1 DEF LeaderAppends, RaftType
  <1> HIDE DEF log
  <1>5. \A i \in 1 .. LastIndex + 1 : log[i].term \in 1 .. MaxTerm
    <2> TAKE i \in 1 .. LastIndex + 1
    <2>1. CASE i = LastIndex + 1  BY <1>2, <1>3, <2>1
    <2>2. CASE i # LastIndex + 1
      <3>1. i \in 1 .. LastIndex  BY <1>1, <2>2
      <3> QED BY <1>1, <1>3, <3>1 DEF RaftBounded
    <2> QED BY <2>1, <2>2
  <1> QED BY <1>1, <1>3, <1>4, <1>5, KVServerAssumption DEF RaftBounded

\* Raft's steps keep the bounds.
LEMMA RaftTypes ==
  ASSUME KVInv, TypeInv, RaftStep
  PROVE  TypeInv'
  <1>0. RaftBounded /\ UNCHANGED << stateMachine, pendingRequests, calls, worker, answer >>
    BY DEF TypeInv, RaftStep, Elected, Deposed, Follows, Follow, Commits, InstallsSnapshot,
           clientVars
  <1>1. /\ raft \in RaftType /\ raft.currentTerm \in Nat /\ raft.commitIndex \in Nat
        /\ raft.commitIndex <= LastIndex /\ LastIndex = Len(raft.log) /\ LastIndex \in Nat
    BY Members
  <1>2. Commands \subseteq Ops /\ NoOp \in Ops  BY CommandTypes DEF KVInv, Ops
  <1>3. RaftBounded'
    <2>1. CASE Elected
      <3>1. PICK t \in raft.currentTerm + 1 .. MaxTerm :
              LastIndex < MaxIndex /\ raft' = LeaderAppends(t, NoOp)
        BY <2>1 DEF Elected
      <3>2. t \in 1 .. MaxTerm  BY <1>1, KVServerAssumption
      <3> QED BY <1>0, <1>2, <3>1, <3>2, LeaderBounded
    <2>2. CASE Deposed
      <3>1. PICK t \in raft.currentTerm + 1 .. MaxTerm :
              raft' = [raft EXCEPT !.currentTerm = t, !.leads = FALSE]
        BY <2>2 DEF Deposed
      <3>2. raft'.currentTerm = t /\ raft'.leads = FALSE /\ raft'.log = raft.log
        BY <1>1, <3>1 DEF RaftType
      <3> QED BY <1>0, <1>1, <3>2, KVServerAssumption DEF RaftBounded
    <2>3. CASE Follows
      <3>1. PICK op \in Commands, i \in Replaceable, t \in 1 .. MaxTerm :
              /\ i <= MaxIndex
              /\ raft' = [raft EXCEPT !.log = Append(SubSeq(raft.log, 1, i - 1), Entry(t, op))]
        BY <2>3 DEF Follows, Follow
      <3> DEFINE log == Append(SubSeq(raft.log, 1, i - 1), Entry(t, op))
      <3>2. i \in 1 .. LastIndex + 1 /\ op \in Ops  BY <1>1, <1>2 DEF Replaceable
      <3>3. Len(log) <= MaxIndex /\ \A j \in 1 .. Len(log) : log[j].term \in 1 .. MaxTerm
        BY <1>0, <3>1, <3>2, CutBounded
      <3>4. raft' = [raft EXCEPT !.log = log]  BY <3>1
      <3> HIDE DEF log
      <3>5. /\ raft'.log = log /\ raft'.currentTerm = raft.currentTerm
            /\ raft'.leads = raft.leads
        BY <1>1, <3>4 DEF RaftType
      <3> QED BY <1>0, <3>3, <3>5 DEF RaftBounded
    <2>4. CASE Commits
      <3>1. PICK i : raft' = [raft EXCEPT !.commitIndex = i]  BY <2>4 DEF Commits
      <3>2. /\ raft'.log = raft.log /\ raft'.currentTerm = raft.currentTerm
            /\ raft'.leads = raft.leads
        BY <1>1, <3>1 DEF RaftType
      <3> QED BY <1>0, <3>2 DEF RaftBounded
    <2>5. CASE InstallsSnapshot
      <3>1. PICK t \in 1 .. MaxTerm, op \in Commands :
              LET i   == raft.commitIndex + 1
                  log == Append(SubSeq(raft.log, 1, i - 1), Entry(t, op))
              IN /\ i <= MaxIndex
                 /\ raft' = [raft EXCEPT !.log = log, !.commitIndex = i, !.snapshots = @ + 1]
        BY <2>5 DEF InstallsSnapshot
      <3>2. PICK i : i = raft.commitIndex + 1  OBVIOUS
      <3> DEFINE log == Append(SubSeq(raft.log, 1, i - 1), Entry(t, op))
      <3>3. i \in 1 .. LastIndex + 1 /\ op \in Ops /\ i <= MaxIndex
        BY <1>1, <1>2, <3>1, <3>2
      <3>4. Len(log) <= MaxIndex /\ \A j \in 1 .. Len(log) : log[j].term \in 1 .. MaxTerm
        BY <1>0, <3>1, <3>3, CutBounded
      <3>5. raft' = [raft EXCEPT !.log = log, !.commitIndex = i,
                                 !.snapshots = raft.snapshots + 1]
        BY <3>1, <3>2
      <3> HIDE DEF log
      <3>6. /\ raft'.log = log /\ raft'.currentTerm = raft.currentTerm
            /\ raft'.leads = raft.leads
        BY <1>1, <3>5 DEF RaftType
      <3> QED BY <1>0, <3>4, <3>6 DEF RaftBounded
    <2> QED BY <2>1, <2>2, <2>3, <2>4, <2>5 DEF RaftStep
  <1>4. CallsBounded' /\ PendingBounded' /\ WorkerBounded' /\ (stateMachine \in MachineType)'
    <2>1. CallsBounded /\ PendingBounded /\ WorkerBounded /\ stateMachine \in MachineType
      BY DEF TypeInv
    <2>2. CallsBounded'  BY <1>0, <2>1 DEF CallsBounded, Call
    <2>3. PendingBounded'  BY <1>0, <2>1 DEF PendingBounded
    <2>4. WorkerBounded'  BY <1>0, <2>1 DEF WorkerBounded
    <2> QED BY <1>0, <2>1, <2>2, <2>3, <2>4
  <1> QED BY <1>3, <1>4 DEF TypeInv

\* A call changes, and its client may be told something.
LEMMA CallBounded ==
  ASSUME KVInv, CallsBounded, NEW n \in Call, NEW c \in CallType,
         calls' = [calls EXCEPT ![n] = c],
         c.handler = "started" => IsPosition(c.index, c.term),
         \/ answer' = answer
         \/ \E reply \in Replies \cup {WrongLeader} : answer' = [answer EXCEPT ![n] = reply]
  PROVE  CallsBounded'
  <1>1. calls \in Seq(CallType) /\ n \in 1 .. Len(calls)  BY Members
  <1>2. /\ calls' \in Seq(CallType) /\ Len(calls') = Len(calls)
        /\ \A m \in 1 .. Len(calls) : calls'[m] = IF m = n THEN c ELSE calls[m]
    BY <1>1, ExceptSeq
  <1>3. Call' = Call /\ Call = 1 .. Len(calls)  BY <1>2 DEF Call
  <1>4. answer' \in Seq(Replies \cup {WrongLeader}) /\ Len(answer') = Len(answer)
    <2>1. answer \in Seq(Replies \cup {WrongLeader}) /\ n \in 1 .. Len(answer)
      BY <1>1 DEF CallsBounded
    <2>2. CASE answer' = answer  BY <2>1, <2>2
    <2>3. CASE \E reply \in Replies \cup {WrongLeader} : answer' = [answer EXCEPT ![n] = reply]
      BY <2>1, <2>3, ExceptSeq
    <2> QED BY <2>2, <2>3
  <1>5. \A m \in Call : calls'[m].handler = "started" => IsPosition(calls'[m].index, calls'[m].term)
    BY <1>2, <1>3 DEF CallsBounded
  <1> QED BY <1>2, <1>3, <1>4, <1>5 DEF CallsBounded

\* The calls' own steps keep the types.
LEMMA CallTypes ==
  ASSUME KVInv, TypeInv, NEW n \in Call,
         StartPut(n) \/ RegisterPending(n) \/ OnCancel(n) \/ OnDone(n) \/ Cancel(n) \/ GiveUp(n)
  PROVE  TypeInv'
  <1>0. /\ RaftBounded /\ CallsBounded /\ PendingBounded /\ WorkerBounded
        /\ stateMachine \in MachineType
        /\ UNCHANGED << stateMachine, worker >>
    BY DEF TypeInv, StartPut, RegisterPending, OnCancel, OnDone, Cancel, GiveUp, clientVars
  <1>1. /\ calls[n] \in CallType /\ calls[n].finishes \in Nat /\ calls \in Seq(CallType)
        /\ raft.currentTerm \in Nat /\ LastIndex \in Nat /\ LastIndex = Len(raft.log)
    BY Members, CallFields DEF KVInv, CallType
  <1>2. asked[n] \in Request  BY CommandTypes DEF KVInv
  <1>3. WorkerBounded' /\ (stateMachine \in MachineType)'
    BY <1>0 DEF WorkerBounded
  <1>4. CASE StartPut(n)
    <2>1. UNCHANGED pendingRequests  BY <1>4 DEF StartPut
    <2>2. PendingBounded'  BY <1>0, <2>1 DEF PendingBounded
    <2>3. CASE raft.leads
      <3> DEFINE c == [calls[n] EXCEPT !.handler = "started", !.index = LastIndex + 1,
                                       !.term = raft.currentTerm]
      <3>1. /\ LastIndex < MaxIndex /\ raft' = LeaderAppends(raft.currentTerm, asked[n])
            /\ calls' = [calls EXCEPT ![n] = c] /\ answer' = answer
        BY <1>4, <2>3 DEF StartPut
      <3>2. raft.currentTerm \in 1 .. MaxTerm
        BY <1>0, <1>1, <2>3, KVServerAssumption DEF RaftBounded
      <3>3. LastIndex + 1 \in 1 .. MaxIndex  BY <1>1, <3>1, KVServerAssumption
      <3>4. /\ c \in CallType /\ c.index = LastIndex + 1 /\ c.term = raft.currentTerm
        <4>1. PICK i, t : i = LastIndex + 1 /\ t = raft.currentTerm  OBVIOUS
        <4>2. calls[n] \in CallType /\ i \in Nat /\ t \in Nat  BY <1>1, <4>1
        <4>3. c = [calls[n] EXCEPT !.handler = "started", !.index = i, !.term = t]  BY <4>1
        <4> HIDE DEF c
        <4> QED BY <4>1, <4>2, <4>3 DEF CallType
      <3> HIDE DEF c
      <3>5. IsPosition(c.index, c.term)  BY <3>2, <3>3, <3>4 DEF IsPosition
      <3>6. CallsBounded'  BY <1>0, <3>1, <3>4, <3>5, CallBounded
      <3>7. asked[n] \in Ops  BY <1>2 DEF Ops
      <3>8. RaftBounded'  BY <1>0, <3>1, <3>2, <3>7, LeaderBounded
      <3> QED BY <1>3, <2>2, <3>6, <3>8 DEF TypeInv
    <2>4. CASE ~raft.leads
      <3> DEFINE c == [calls[n] EXCEPT !.handler = "returned", !.finishes = calls[n].finishes + 1]
      <3>1. /\ calls' = [calls EXCEPT ![n] = Finished([calls[n] EXCEPT !.handler = "returned"])]
            /\ raft' = raft /\ answer' = Told(n, WrongLeader)
        BY <1>4, <2>4 DEF StartPut
      <3>2. Finished([calls[n] EXCEPT !.handler = "returned"]) = c
        BY <1>1 DEF Finished, CallType
      <3>3. c \in CallType /\ c.handler = "returned"
        <4>1. PICK f : f = calls[n].finishes + 1  OBVIOUS
        <4>2. calls[n] \in CallType /\ f \in Nat  BY <1>1, <4>1
        <4>3. c = [calls[n] EXCEPT !.handler = "returned", !.finishes = f]  BY <4>1
        <4> HIDE DEF c
        <4> QED BY <4>2, <4>3 DEF CallType
      <3> HIDE DEF c
      <3>4. answer' = answer \/ answer' = [answer EXCEPT ![n] = WrongLeader]
        BY <3>1 DEF Told
      <3>5. CallsBounded'  BY <1>0, <3>1, <3>2, <3>3, <3>4, CallBounded
      <3>6. RaftBounded'  BY <1>0, <3>1 DEF RaftBounded
      <3> QED BY <1>3, <2>2, <3>5, <3>6 DEF TypeInv
    <2> QED BY <2>3, <2>4
  <1>5. CASE RegisterPending(n)
    <2>1. /\ calls[n].handler = "started" /\ raft' = raft /\ answer' = answer
          /\ calls' = [calls EXCEPT ![n] = [calls[n] EXCEPT !.handler = "returned",
                                                            !.index = 0, !.term = 0]]
      BY <1>5 DEF RegisterPending, clientVars
    <2>2. PICK c : c = [calls[n] EXCEPT !.handler = "returned", !.index = 0, !.term = 0]
      OBVIOUS
    <2>3. c \in CallType /\ c.handler = "returned"  BY <1>1, <2>2 DEF CallType
    <2>4. CallsBounded'  BY <1>0, <2>1, <2>2, <2>3, CallBounded
    <2>5. RaftBounded'  BY <1>0, <2>1 DEF RaftBounded
    <2>6. PICK p : p = [logIndex |-> calls[n].index, logTerm |-> calls[n].term, call |-> n]
      OBVIOUS
    <2>7. pendingRequests' = pendingRequests
          \/ pendingRequests' = [pendingRequests EXCEPT ![asked[n]] = p]
      BY <1>5, <2>6 DEF RegisterPending
    <2>8. p \in [logIndex : 1 .. MaxIndex, logTerm : 1 .. MaxTerm, call : Nat]
      BY <1>0, <2>1, <2>6, Members DEF CallsBounded, IsPosition
    <2>9. pendingRequests = [r \in Request |-> pendingRequests[r]]  BY DEF KVInv
    <2>10. PendingBounded'  BY <1>0, <2>7, <2>8, <2>9 DEF PendingBounded
    <2> QED BY <1>3, <2>4, <2>5, <2>10 DEF TypeInv
  <1>6. CASE OnCancel(n) \/ OnDone(n) \/ Cancel(n) \/ GiveUp(n)
    <2>1. PICK c \in CallType : c.handler = calls[n].handler /\ c.index = calls[n].index
                                /\ c.term = calls[n].term /\ calls' = [calls EXCEPT ![n] = c]
      <3>1. CASE OnCancel(n)
        BY <1>1, <3>1 DEF OnCancel, CallType
      <3>2. CASE OnDone(n)
        BY <1>1, <3>2 DEF OnDone, CallType
      <3>3. CASE Cancel(n)
        BY <1>1, <3>3 DEF Cancel, CallType
      <3>4. CASE GiveUp(n)
        BY <1>1, <3>4 DEF GiveUp, CallType
      <3> QED BY <1>6, <3>1, <3>2, <3>3, <3>4
    <2>2. raft' = raft /\ answer' = answer
      BY <1>6 DEF OnCancel, OnDone, Cancel, GiveUp, clientVars
    <2>3. pendingRequests' = pendingRequests
          \/ pendingRequests' = [pendingRequests EXCEPT ![asked[n]] = Nil]
      BY <1>6 DEF OnCancel, OnDone, Cancel, GiveUp, WithoutCall
    <2>4. c.handler = "started" => IsPosition(c.index, c.term)
      BY <1>0, <2>1 DEF CallsBounded
    <2>5. CallsBounded'  BY <1>0, <2>1, <2>2, <2>4, CallBounded
    <2>6. RaftBounded'  BY <1>0, <2>2 DEF RaftBounded
    <2>7. pendingRequests = [r \in Request |-> pendingRequests[r]]  BY DEF KVInv
    <2>8. PendingBounded'  BY <1>0, <2>3, <2>7 DEF PendingBounded
    <2> QED BY <1>3, <2>5, <2>6, <2>8 DEF TypeInv
  <1> QED BY <1>4, <1>5, <1>6

\* A new call has no position yet.
LEMMA AskTypes ==
  ASSUME KVInv, TypeInv, NEW q \in Request, NEW handler \in {"called", "elsewhere"},
         Ask(q, handler)
  PROVE  TypeInv'
  <1>1. /\ calls' = Append(calls, NewCall(handler)) /\ answer' = Append(answer, Nil)
        /\ UNCHANGED << raft, stateMachine, pendingRequests, worker >>
    BY DEF Ask
  <1>2. calls \in Seq(CallType) /\ Call = 1 .. Len(calls) /\ Len(calls) \in Nat  BY Members
  <1>3. NewCall(handler) \in CallType /\ NewCall(handler).handler # "started"
    BY DEF NewCall, CallType
  <1>4. /\ Len(calls') = Len(calls) + 1 /\ calls'[Len(calls) + 1] = NewCall(handler)
        /\ \A m \in 1 .. Len(calls) : calls'[m] = calls[m]
    BY <1>1, <1>2, <1>3, Appended
  <1>5. answer' \in Seq(Replies \cup {WrongLeader}) /\ Len(answer') = Len(calls) + 1
    <2>1. answer \in Seq(Replies \cup {WrongLeader}) /\ Len(answer) = Len(calls)
          /\ Nil \in Replies \cup {WrongLeader}
      BY DEF TypeInv, CallsBounded, Replies
    <2> QED BY <1>1, <2>1, Appended
  <1>6. \A m \in Call' : calls'[m].handler = "started" => IsPosition(calls'[m].index, calls'[m].term)
    <2> SUFFICES ASSUME NEW m \in Call', calls'[m].handler = "started"
                 PROVE  IsPosition(calls'[m].index, calls'[m].term)
      OBVIOUS
    <2>1. m \in 1 .. Len(calls) + 1  BY <1>4 DEF Call
    <2>2. m # Len(calls) + 1  BY <1>3, <1>4
    <2>3. m \in 1 .. Len(calls)  BY <1>2, <2>1, <2>2
    <2> QED BY <1>2, <1>4, <2>3 DEF TypeInv, CallsBounded
  <1>7. CallsBounded'  BY <1>4, <1>5, <1>6 DEF CallsBounded
  <1>8. RaftBounded' /\ PendingBounded' /\ WorkerBounded' /\ (stateMachine \in MachineType)'
    BY <1>1 DEF TypeInv, RaftBounded, PendingBounded, WorkerBounded
  <1> QED BY <1>7, <1>8 DEF TypeInv

\* The apply thread replies with what the state machine made of a command.
LEMMA WorkerTypes ==
  ASSUME KVInv, TypeInv, WorkerStep
  PROVE  TypeInv'
  <1>0. /\ RaftBounded /\ CallsBounded /\ PendingBounded /\ WorkerBounded
        /\ stateMachine \in MachineType /\ raft' = raft /\ applyQue \in Seq(MsgType)
    BY DEF TypeInv, WorkerStep, ApplyCommand, Restore, CompletePending, MarkDone, Finish,
           KVInv, OpsAreRequests
  <1>1. RaftBounded'  BY <1>0 DEF RaftBounded
  <1>2. applyQue # << >> => Head(applyQue) \in MsgType
    BY <1>0, HeadTailProperties
  <1>3. pendingRequests = [r \in Request |-> pendingRequests[r]]  BY DEF KVInv
  <1>4. CASE ApplyCommand
    <2>1. PICK msg, r : msg = Head(applyQue) /\ r = msg.op  OBVIOUS
    <2>2. /\ ~msg.snapshotValid /\ stateMachine' = Apply(stateMachine, r)
          /\ r # NoOp => worker' = Completing(msg, Reply(stateMachine, r))
          /\ r = NoOp => worker' = worker
          /\ UNCHANGED << pendingRequests, calls, answer >>
      BY <1>4, <2>1 DEF ApplyCommand, clientVars
    <2>3. r \in Ops
      <3>1. msg \in MsgType  BY <1>2, <1>4, <2>1 DEF ApplyCommand
      <3> QED BY <2>1, <2>2, <3>1 DEF MsgType
    <2>4. stateMachine' \in MachineType  BY <1>0, <2>2, <2>3, ApplyType
    <2>5. WorkerBounded'
      <3>1. CASE r = NoOp  BY <1>0, <2>2, <3>1 DEF WorkerBounded
      <3>2. CASE r # NoOp
        <4>1. r[1] \in Client  BY <2>3, <3>2, RequestParts DEF Ops
        <4>2. stateMachine.dedup[r[1]].lastReplyMsg \in Replies
          BY <1>0, <4>1 DEF MachineType
        <4>3. Result(stateMachine.kv, r) \in Replies  BY ResultIsReply
        <4>4. Reply(stateMachine, r) \in Replies  BY <4>2, <4>3 DEF Reply
        <4>5. worker'.at = "completing" /\ worker'.reply = Reply(stateMachine, r)
          BY <2>2, <3>2 DEF Completing
        <4> QED BY <4>4, <4>5 DEF WorkerBounded
      <3> QED BY <3>1, <3>2
    <2>6. CallsBounded' /\ PendingBounded'
      BY <1>0, <2>2 DEF CallsBounded, PendingBounded, Call
    <2> QED BY <1>1, <2>4, <2>5, <2>6 DEF TypeInv
  <1>5. CASE Restore
    <2>1. PICK msg : msg = Head(applyQue)  OBVIOUS
    <2>2. /\ msg.snapshotValid /\ msg \in MsgType
          /\ stateMachine' \in Restorations(stateMachine, msg.snapshot)
          /\ UNCHANGED << pendingRequests, calls, worker, answer >>
      BY <1>2, <1>5, <2>1 DEF Restore, clientVars
    <2>3. msg.snapshot \in MachineType
      <3>1. PICK log \in Seq(EntryType) : msg.snapshot = SnapshotOf(log)
        BY <2>2 DEF MsgType
      <3> QED BY <3>1, SnapshotType
    <2>4. PICK kv \in Loads(stateMachine.kv, msg.snapshot.kv) :
            stateMachine' = [stateMachine EXCEPT !.kv = kv]
      BY <2>2 DEF Restorations
    <2>5. kv \in Stores  BY <2>4 DEF Loads, Rereads
    <2>6. stateMachine' \in MachineType  BY <1>0, <2>4, <2>5 DEF MachineType
    <2>7. CallsBounded' /\ PendingBounded' /\ WorkerBounded'
      BY <1>0, <2>2 DEF CallsBounded, PendingBounded, WorkerBounded, Call
    <2> QED BY <1>1, <2>6, <2>7 DEF TypeInv
  <1>6. CASE CompletePending
    <2>1. /\ worker.at = "completing" /\ UNCHANGED << stateMachine, calls, answer >>
          /\ pendingRequests' = [pendingRequests EXCEPT ![worker.msg.op] = Nil]
          /\ \/ worker' = Idle
             \/ \E n : worker' = Finishing("finish", n, worker.reply)
      BY <1>6 DEF CompletePending, clientVars
    <2>2. WorkerBounded'
      <3>1. worker # Idle  BY <2>1 DEF Idle
      <3>2. worker.reply \in Replies  BY <1>0, <3>1 DEF WorkerBounded
      <3> QED BY <2>1, <3>2 DEF WorkerBounded, Finishing
    <2>3. PendingBounded'  BY <1>0, <1>3, <2>1 DEF PendingBounded
    <2>4. CallsBounded' /\ stateMachine' \in MachineType  BY <1>0, <2>1 DEF CallsBounded, Call
    <2> QED BY <1>1, <2>2, <2>3, <2>4 DEF TypeInv
  <1>7. CASE MarkDone
    <2>1. PICK n : n = worker.call  OBVIOUS
    <2>2. /\ worker.at = "finish" /\ UNCHANGED << stateMachine, pendingRequests, answer >>
          /\ \/ worker' = Idle /\ calls' = calls
             \/ /\ calls' = [calls EXCEPT ![n].done = TRUE]
                /\ worker' = Finishing("Finish", n, worker.reply)
      BY <1>7, <2>1 DEF MarkDone, clientVars
    <2>3. n \in Call /\ calls[n].handler = "returned"  BY <2>1, <2>2 DEF KVInv, Served
    <2>4. WorkerBounded'
      <3>1. worker # Idle  BY <2>2 DEF Idle
      <3>2. worker.reply \in Replies  BY <1>0, <3>1 DEF WorkerBounded
      <3> QED BY <2>2, <3>2 DEF WorkerBounded, Finishing
    <2>5. CallsBounded'
      <3>1. CASE calls' = calls  BY <1>0, <2>2, <3>1 DEF CallsBounded, Call
      <3>2. CASE calls' = [calls EXCEPT ![n].done = TRUE]
        <4>1. PICK c : c = [calls[n] EXCEPT !.done = TRUE]  OBVIOUS
        <4>2. calls[n] \in CallType  BY <2>3, CallFields DEF KVInv
        <4>3. c \in CallType /\ c.handler = "returned"  BY <2>3, <4>1, <4>2 DEF CallType
        <4>4. calls' = [calls EXCEPT ![n] = c]  BY <3>2, <4>1
        <4> QED BY <1>0, <2>2, <2>3, <4>3, <4>4, CallBounded
      <3> QED BY <2>2, <3>1, <3>2
    <2>6. PendingBounded' /\ stateMachine' \in MachineType  BY <1>0, <2>2 DEF PendingBounded
    <2> QED BY <1>1, <2>4, <2>5, <2>6 DEF TypeInv
  <1>8. CASE Finish
    <2>1. PICK n, reply : n = worker.call /\ reply = worker.reply  OBVIOUS
    <2>2. /\ worker.at = "Finish" /\ UNCHANGED << stateMachine, pendingRequests >>
          /\ calls' = [calls EXCEPT ![n] = Finished(calls[n])]
          /\ answer' = Told(n, reply) /\ worker' = Idle
      BY <1>8, <2>1 DEF Finish
    <2>3. n \in Call /\ calls[n].handler = "returned"  BY <2>1, <2>2 DEF KVInv, Served
    <2>4. reply \in Replies
      <3>1. worker # Idle  BY <2>2 DEF Idle
      <3> QED BY <1>0, <2>1, <3>1 DEF WorkerBounded
    <2>5. PICK c : c = Finished(calls[n])  OBVIOUS
    <2>6. calls[n] \in CallType  BY <2>3, CallFields DEF KVInv
    <2>7. c \in CallType /\ c.handler = "returned"
      BY <2>3, <2>5, <2>6 DEF CallType, Finished
    <2>8. answer' = answer \/ answer' = [answer EXCEPT ![n] = reply]  BY <2>2 DEF Told
    <2>9. CallsBounded'  BY <1>0, <2>2, <2>3, <2>4, <2>5, <2>7, <2>8, CallBounded
    <2>10. PendingBounded' /\ WorkerBounded' /\ stateMachine' \in MachineType
      BY <1>0, <2>2 DEF PendingBounded, WorkerBounded
    <2> QED BY <1>1, <2>9, <2>10 DEF TypeInv
  <1> QED BY <1>4, <1>5, <1>6, <1>7, <1>8 DEF WorkerStep

\* Nothing is applied, pending or asked for at first.
LEMMA InitTypes ==
  ASSUME Init
  PROVE  TypeInv
  <1>1. /\ raft.currentTerm = 0 /\ raft.leads = FALSE /\ raft.log = << >>
        /\ calls = << >> /\ answer = << >> /\ worker = Idle
        /\ pendingRequests = [r \in Request |-> Nil] /\ stateMachine = EmptyStateMachine
    BY DEF Init
  <1>2. RaftBounded  BY <1>1, EmptySeq, KVServerAssumption DEF RaftBounded
  <1>3. CallsBounded  BY <1>1, EmptySeq DEF CallsBounded, Call
  <1>4. PendingBounded /\ WorkerBounded  BY <1>1 DEF PendingBounded, WorkerBounded
  <1>5. stateMachine \in MachineType
    BY <1>1 DEF EmptyStateMachine, EmptyStore, MachineType, Stores, NoRecord, Replies
  <1> QED BY <1>2, <1>3, <1>4, <1>5 DEF TypeInv

\* Every step keeps the types.
LEMMA StepTypesKept ==
  ASSUME KVInv, TypeInv, [Next]_kvVars
  PROVE  TypeInv'
  <1>1. CASE UNCHANGED kvVars
    BY <1>1 DEF kvVars, clientVars, TypeInv, RaftBounded, CallsBounded, PendingBounded,
                WorkerBounded, Call
  <1>2. CASE RaftStep  BY <1>2, RaftTypes
  <1>3. CASE WorkerStep  BY <1>3, WorkerTypes
  <1>4. CASE ClientStep
    BY <1>4, AskTypes, CallTypes DEF ClientStep, Send, SendElsewhere
  <1>5. ASSUME NEW n \in Call, CallStep(n)  PROVE TypeInv'
    BY <1>5, CallTypes DEF CallStep
  <1> QED BY <1>1, <1>2, <1>3, <1>4, <1>5 DEF Next

\* The invariants give the types.
LEMMA TypesHold ==
  ASSUME KVInv, TypeInv
  PROVE  KVTypeOK
  <1>1. /\ raft \in RaftType /\ raft.currentTerm \in Nat /\ raft.leads \in BOOLEAN
        /\ raft.commitIndex \in Nat /\ raft.commitIndex <= LastIndex /\ LastIndex = Len(raft.log)
        /\ raft.log \in Seq(EntryType) /\ LastIndex \in Nat /\ Call = 1 .. Len(calls)
    BY Members DEF RaftType
  <1>2. raft.currentTerm \in 0 .. MaxTerm
    BY <1>1, KVServerAssumption DEF TypeInv, RaftBounded
  <1>3. ASSUME NEW i \in 1 .. Len(raft.log)
        PROVE  raft.log[i] \in [term : 1 .. MaxTerm, op : Request \cup {NoOp}]
    <2>1. raft.log[i] \in EntryType  BY <1>1, ElementOfSeq
    <2>2. raft.log[i].term \in 1 .. MaxTerm  BY DEF TypeInv, RaftBounded
    <2> QED BY <2>1, <2>2 DEF EntryType, Ops
  <1>4. MachineType = StateMachineType  BY DEF MachineType, StateMachineType, Replies
  <1>5. stateMachine \in StateMachineType  BY <1>4 DEF TypeInv
  <1>6. ASSUME NEW i \in 1 .. Len(applyQue)
        PROVE  IF applyQue[i].snapshotValid THEN applyQue[i].snapshot \in StateMachineType
               ELSE applyQue[i].op \in Request \cup {NoOp}
    <2>1. applyQue[i] \in MsgType  BY ElementOfSeq DEF KVInv, OpsAreRequests
    <2>2. CASE applyQue[i].snapshotValid
      <3>1. PICK log \in Seq(EntryType) : applyQue[i].snapshot = SnapshotOf(log)
        BY <2>1, <2>2 DEF MsgType
      <3> QED BY <1>4, <2>2, <3>1, SnapshotType
    <2>3. CASE ~applyQue[i].snapshotValid  BY <2>1, <2>3 DEF MsgType, Ops
    <2> QED BY <2>2, <2>3
  <1>7. \A n \in Call : answer[n] \in {Success, ExecuteError, WrongLeader, Nil}
    <2>1. answer \in Seq(Replies \cup {WrongLeader}) /\ Len(answer) = Len(calls)
      BY DEF TypeInv, CallsBounded
    <2>2. \A n \in Call : answer[n] \in Replies \cup {WrongLeader}
      BY <1>1, <2>1, ElementOfSeq
    <2> QED BY <2>2 DEF Replies
  <1>8. ASSUME NEW r \in Request, pendingRequests[r] # Nil
        PROVE  pendingRequests[r] \in [logIndex : 1 .. MaxIndex, logTerm : 1 .. MaxTerm, call : Call]
    <2>1. pendingRequests[r] \in [logIndex : 1 .. MaxIndex, logTerm : 1 .. MaxTerm, call : Nat]
      BY <1>8 DEF TypeInv, PendingBounded
    <2>2. pendingRequests[r].call \in Call  BY <1>8 DEF KVInv, Waits
    <2> QED BY <2>1, <2>2
  <1>9. worker.at \in {"idle", "completing", "finish", "Finish"}
    BY DEF TypeInv, WorkerBounded, Idle
  <1> QED BY <1>1, <1>2, <1>3, <1>5, <1>6, <1>7, <1>8, <1>9 DEF KVTypeOK

\* The members of the server keep their types: the store, and every snapshot that
\* waits for the apply thread, holds values that clients have written, as they
\* wrote them or as >> cuts them; a client is told one of the service's replies;
\* and what waits in pendingRequests has a position and a call, whatever was
\* cancelled, replaced or restored meanwhile.
THEOREM ServerTypes == Spec => []KVTypeOK
  <1>1. Init => TypeInv  BY InitTypes
  <1>2. KVInv /\ TypeInv /\ [Next]_kvVars => TypeInv'  BY StepTypesKept
  <1>3. KVInv /\ TypeInv => KVTypeOK  BY TypesHold
  <1> QED BY <1>1, <1>2, <1>3, CallsStaySound, PTL DEF Spec
=============================================================================
