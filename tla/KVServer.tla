------------------------------ MODULE KVServer ------------------------------
(***************************************************************************)
(* One KVServer between its clients and its Raft object: the calls of      *)
(* PutAppend, the table of pending requests, the thread that applies what  *)
(* Raft commits, and the callbacks by which gRPC reports the end of a call.*)
(*                                                                         *)
(* Three kinds of thread meet here: gRPC's (one per call at a time), the   *)
(* apply thread, and Raft's event loop.  They share pendingRequests under  *)
(* pendingMutex_, each call's RpcCompletion under its own mutex, and the   *)
(* apply queue.  One action is one critical section, or one call across a  *)
(* component's boundary.                                                   *)
(*                                                                         *)
(* Raft appears as this server sees it: a log of which a prefix is         *)
(* committed and whose rest another leader may replace.  Module Raft says  *)
(* how the cluster comes to that.                                          *)
(***************************************************************************)
EXTENDS KVStore, SequencesExt

CONSTANTS
  MaxCalls,       \* bound: calls made by all clients
  MaxIndex,       \* bound: length of the log
  MaxTerm,        \* bound: terms
  MaxSnapshots    \* bound: snapshots received from a leader

ASSUME KVServerAssumption ==
  MaxCalls \in Nat /\ MaxIndex \in Nat /\ MaxTerm \in Nat /\ MaxSnapshots \in Nat

VARIABLES
  raft,            \* the Raft object: log, commitIndex, term, whether it leads
  applyQue,        \* applyQue_: ApplyMsg's from the event loop to the apply thread
  stateMachine,    \* stateMachine_: kv_ and dedup_
  pendingRequests, \* of each RequestKey, its PendingRequest or Nil
  calls,           \* the calls of PutAppend, in the order they were made
  asked,           \* clients: of each call, the request it is made for
  answer,          \* clients: of each call, what its client was told, or Nil
  worker,          \* where the apply thread is in applyWorkerLoop
  executed         \* history: of each request, the result of its first execution

clientVars == << asked, answer >>

kvVars == << raft, applyQue, stateMachine, pendingRequests, calls, worker, executed, clientVars >>

NoOp == Nil      \* the command a new leader appends

Call == 1 .. Len(calls)

----------------------------------------------------------------------------
(* The state machine                                                       *)

\* dedup_ of a client that never had a command applied: an id below all others.
NoRecord == [lastRequestId |-> 0, lastReplyMsg |-> Nil]

EmptyStateMachine == [kv |-> EmptyStore, dedup |-> [c \in Client |-> NoRecord]]

\* Mutant: a repeated request is recognised only after a later one.
IsDuplicate_Older(sm, r) == r[2] < sm.dedup[r[1]].lastRequestId

\* Whether apply() answers from dedup_ instead of executing.
IsDuplicate(sm, r) == r[2] <= sm.dedup[r[1]].lastRequestId

Reply(sm, r) ==
  IF IsDuplicate(sm, r) THEN sm.dedup[r[1]].lastReplyMsg ELSE Result(sm.kv, r)

\* The no-op has no client: it changes neither kv_ nor a client's record.
Apply(sm, op) ==
  IF op = NoOp \/ IsDuplicate(sm, op) THEN sm
  ELSE [kv |-> Effect(sm.kv, op),
        dedup |-> [sm.dedup EXCEPT ![op[1]] =
                     [lastRequestId |-> op[2], lastReplyMsg |-> Result(sm.kv, op)]]]

\* What a snapshot holds that covers `log': the state after its commands, at a
\* leader that has applied them all.
SnapshotOf(log) == FoldLeft(LAMBDA sm, e : Apply(sm, e.op), EmptyStateMachine, log)

\* root["deduplication"] is never an array and an object at once: dedup_ stays.
Restorations(sm, snapshot) == { [sm EXCEPT !.kv = kv] : kv \in Loads(sm.kv, snapshot.kv) }

----------------------------------------------------------------------------
(* Raft, as this server sees it                                            *)

LastIndex == Len(raft.log)

Entry(t, op) == [term |-> t, op |-> op]

\* Terms this server has led: it alone made their entries.
Led(t) == \E m \in raft.made : m.entry.term = t

Made(i, e) == [index |-> i, entry |-> e]

\* Raft::start on the event loop, and becomeLeader's no-op: a leader appends.
LeaderAppends(t, op) ==
  LET e == Entry(t, op)
  IN [raft EXCEPT !.currentTerm = t, !.leads = TRUE, !.log = Append(@, e),
                  !.made = @ \cup {Made(LastIndex + 1, e)}]

Elected ==
  \E t \in raft.currentTerm + 1 .. MaxTerm :
    /\ LastIndex < MaxIndex
    /\ raft' = LeaderAppends(t, NoOp)
    /\ UNCHANGED << applyQue, stateMachine, pendingRequests, calls, worker, executed, clientVars >>

Deposed ==
  \E t \in raft.currentTerm + 1 .. MaxTerm :
    /\ raft' = [raft EXCEPT !.currentTerm = t, !.leads = FALSE]
    /\ UNCHANGED << applyQue, stateMachine, pendingRequests, calls, worker, executed, clientVars >>

\* Commands that may be in another server's log: a client may have sent its
\* request to any server.
Commands == {NoOp} \cup { asked[n] : n \in Call }

\* An entry that another leader of this term may have sent for position i:
\* one of a term that this server did not lead, or one that it made itself.
Sendable(i, e) ==
  /\ e.term <= raft.currentTerm
  /\ i > 1 => raft.log[i - 1].term <= e.term
  /\ Led(e.term) => Made(i, e) \in raft.made

\* Positions at which the leader's entry may take another's place.  The handler
\* compares terms only (Raft.cc:525): that no leader sends an entry that differs
\* from a committed one is what CommittedIsKept says of module Raft.
Replaceable == raft.commitIndex + 1 .. LastIndex + 1

\* handleAppendEntries: what is not committed gives way to the leader's entry.
Follow(op) ==
  \E i \in Replaceable, t \in 1 .. MaxTerm :
    /\ ~raft.leads /\ i <= MaxIndex
    /\ Sendable(i, Entry(t, op))
    /\ raft' = [raft EXCEPT !.log = Append(SubSeq(@, 1, i - 1), Entry(t, op))]
    /\ UNCHANGED << applyQue, stateMachine, pendingRequests, calls, worker, executed, clientVars >>

Follows == \E op \in Commands : Follow(op)

CommandMsg(i) ==
  [snapshotValid |-> FALSE, index |-> i, term |-> raft.log[i].term, op |-> raft.log[i].op]

\* updateCommitIndex or leadercommit, then applyCommitted.
Commits ==
  \E i \in raft.commitIndex + 1 .. LastIndex :
    /\ raft.leads => raft.log[i].term = raft.currentTerm
    /\ raft' = [raft EXCEPT !.commitIndex = i]
    /\ applyQue' = applyQue \o [j \in 1 .. i - raft.commitIndex |-> CommandMsg(raft.commitIndex + j)]
    /\ UNCHANGED << stateMachine, pendingRequests, calls, worker, executed, clientVars >>

\* handleInstallSnapshot with a snapshot one entry ahead of what is committed.
InstallsSnapshot ==
  \E t \in 1 .. MaxTerm, op \in Commands :
    LET i   == raft.commitIndex + 1
        log == Append(SubSeq(raft.log, 1, i - 1), Entry(t, op))
    IN /\ ~raft.leads /\ raft.snapshots < MaxSnapshots /\ i <= MaxIndex
       /\ Sendable(i, Entry(t, op))
       /\ raft' = [raft EXCEPT !.log = log, !.commitIndex = i, !.snapshots = @ + 1]
       /\ applyQue' = Append(applyQue, [snapshotValid |-> TRUE, snapshot |-> SnapshotOf(log)])
       /\ UNCHANGED << stateMachine, pendingRequests, calls, worker, executed, clientVars >>

RaftStep == Elected \/ Deposed \/ Follows \/ Commits \/ InstallsSnapshot

----------------------------------------------------------------------------
(* Clients and their calls                                                 *)
(*                                                                         *)
(* handler    "called" (the request is on its way), "started" (raft_->start *)
(*            returned a position), "returned" (the constructor of          *)
(*            PutAppendReactor is over), "elsewhere" (a call of another     *)
(*            server, of which only the request matters here)               *)
(* index,term the position that start() returned, until it is registered    *)
(* gaveUp     the client's deadline passed, or it cancelled                 *)
(* done, cancelled   the flags of the call's RpcCompletion                  *)
(* finishes   how often Finish was called                                   *)
(* callback   "none", then OnCancel: "cancelling" (entry erased),           *)
(*            "cancelled"; then OnDone: "deleted"                           *)

NewCall(handler) ==
  [handler |-> handler, index |-> 0, term |-> 0, gaveUp |-> handler = "elsewhere",
   done |-> FALSE, cancelled |-> FALSE, finishes |-> 0, callback |-> "none"]

\* On the client's side the call is over.
Over(n) == calls[n].gaveUp \/ answer[n] # Nil

CallsOf(c) == { n \in Call : asked[n][1] = c }

\* A client makes one call at a time and numbers its requests in order.  It
\* repeats the last one, or goes on to the next, when its last call is over.
MayAsk(r) ==
  /\ \A n \in CallsOf(r[1]) : Over(n) /\ asked[n][2] <= r[2]
  /\ r[2] > 1 => \E n \in CallsOf(r[1]) : asked[n][2] = r[2] - 1

Ask(r, handler) ==
  /\ Len(calls) < MaxCalls /\ MayAsk(r)
  /\ calls' = Append(calls, NewCall(handler))
  /\ asked' = Append(asked, r)
  /\ answer' = Append(answer, Nil)
  /\ UNCHANGED << raft, applyQue, stateMachine, pendingRequests, worker, executed >>

Send(r) == Ask(r, "called")

\* A call of another server is over as soon as this server can tell.
SendElsewhere(r) == Ask(r, "elsewhere")

\* The client's deadline passes before it has an answer.
GiveUp(n) ==
  /\ ~Over(n)
  /\ calls' = [calls EXCEPT ![n].gaveUp = TRUE]
  /\ UNCHANGED << raft, applyQue, stateMachine, pendingRequests, worker, executed, clientVars >>

\* gRPC's Finish: the status and the reply go to the client if it still waits.
Finished(call) == [call EXCEPT !.finishes = @ + 1]

Told(n, reply) == IF calls[n].gaveUp THEN answer ELSE [answer EXCEPT ![n] = reply]

\* PutAppendReactor::Start until raft_->start returns.
StartPut(n) ==
  /\ calls[n].handler = "called"
  /\ IF raft.leads
     THEN /\ LastIndex < MaxIndex
          /\ raft' = LeaderAppends(raft.currentTerm, asked[n])
          /\ calls' = [calls EXCEPT ![n] = [@ EXCEPT !.handler = "started",
                         !.index = LastIndex + 1, !.term = raft.currentTerm]]
          /\ UNCHANGED answer
     ELSE /\ calls' = [calls EXCEPT ![n] = Finished([@ EXCEPT !.handler = "returned"])]
          /\ answer' = Told(n, WrongLeader)
          /\ UNCHANGED raft
  /\ UNCHANGED << applyQue, stateMachine, pendingRequests, worker, executed, asked >>

\* Mutant: the position is forgotten before it is registered.
RegisterPending_Forgets(n) ==
  LET r == asked[n]
  IN /\ calls[n].handler = "started"
     /\ calls' = [calls EXCEPT ![n] = [@ EXCEPT !.handler = "returned", !.index = 0, !.term = 0]]
     /\ IF pendingRequests[r] = Nil
        THEN pendingRequests' = [pendingRequests EXCEPT ![r] =
               [logIndex |-> calls'[n].index, logTerm |-> calls'[n].term, call |-> n]]
        ELSE UNCHANGED pendingRequests
     /\ UNCHANGED << raft, applyQue, stateMachine, worker, executed, clientVars >>

\* The rest of it: an entry for a request that has one already is not made.
RegisterPending(n) ==
  LET r == asked[n]
  IN /\ calls[n].handler = "started"
     /\ calls' = [calls EXCEPT ![n] = [@ EXCEPT !.handler = "returned", !.index = 0, !.term = 0]]
     /\ IF pendingRequests[r] = Nil
        THEN pendingRequests' = [pendingRequests EXCEPT ![r] =
               [logIndex |-> calls[n].index, logTerm |-> calls[n].term, call |-> n]]
        ELSE UNCHANGED pendingRequests
     /\ UNCHANGED << raft, applyQue, stateMachine, worker, executed, clientVars >>

----------------------------------------------------------------------------
(* gRPC's callbacks                                                        *)

\* Mutant: the request's entry is removed, whichever call it is for.
WithoutCall_Any(n) == [pendingRequests EXCEPT ![asked[n]] = Nil]

\* Mutant: the completion is cancelled and its entry forgotten.
WithoutCall_Left(n) == pendingRequests

\* The critical section of cancelPending: the call's own entry is removed.
WithoutCall(n) ==
  LET r == asked[n]
  IN IF pendingRequests[r] # Nil /\ pendingRequests[r].call = n
     THEN [pendingRequests EXCEPT ![r] = Nil]
     ELSE pendingRequests

\* Mutant: a cancelled call is finished there and then, beside the apply thread.
OnCancel_Finishes(n) ==
  /\ calls[n].handler = "returned" /\ calls[n].gaveUp /\ calls[n].callback = "none"
  /\ pendingRequests' = WithoutCall(n)
  /\ calls' = [calls EXCEPT ![n] = Finished([@ EXCEPT !.callback = "cancelling"])]
  /\ UNCHANGED << raft, applyQue, stateMachine, worker, executed, clientVars >>

\* gRPC runs OnCancel once, after the handler has returned, and OnDone last,
\* after Finish and after OnCancel has returned.
OnCancel(n) ==
  /\ calls[n].handler = "returned" /\ calls[n].gaveUp /\ calls[n].callback = "none"
  /\ pendingRequests' = WithoutCall(n)
  /\ calls' = [calls EXCEPT ![n].callback = "cancelling"]
  /\ UNCHANGED << raft, applyQue, stateMachine, worker, executed, clientVars >>

\* completion->cancel(), at the end of cancelPending and again after it.
Cancel(n) ==
  /\ calls[n].callback = "cancelling"
  /\ calls' = [calls EXCEPT ![n] = [@ EXCEPT !.cancelled = TRUE, !.callback = "cancelled"]]
  /\ UNCHANGED << raft, applyQue, stateMachine, pendingRequests, worker, executed, clientVars >>

\* Nothing but OnDone touches a finished call's entry or completion, so its
\* two critical sections are one step.
OnDone(n) ==
  /\ calls[n].handler = "returned" /\ calls[n].finishes > 0
  /\ calls[n].callback \in {"none", "cancelled"}
  /\ pendingRequests' = WithoutCall(n)
  /\ calls' = [calls EXCEPT ![n] = [@ EXCEPT !.cancelled = TRUE, !.callback = "deleted"]]
  /\ UNCHANGED << raft, applyQue, stateMachine, worker, executed, clientVars >>

----------------------------------------------------------------------------
(* The apply thread                                                        *)

Idle == [at |-> "idle"]

\* Where completePending has a result and looks for its call.
Completing(msg, reply) == [at |-> "completing", msg |-> msg, reply |-> reply]

\* In finish(): before its critical section, and between it and Finish.
Finishing(at, n, reply) == [at |-> at, call |-> n, reply |-> reply]

\* stateMachine_.apply, and the filter of no-ops in completePending.
ApplyCommand ==
  LET msg == Head(applyQue)
      r   == msg.op
  IN /\ worker = Idle /\ applyQue # << >> /\ ~msg.snapshotValid
     /\ applyQue' = Tail(applyQue)
     /\ stateMachine' = Apply(stateMachine, r)
     /\ IF r = NoOp
        THEN UNCHANGED << worker, executed >>
        ELSE /\ worker' = Completing(msg, Reply(stateMachine, r))
             /\ executed' = IF IsDuplicate(stateMachine, r) \/ executed[r] # Nil THEN executed
                            ELSE [executed EXCEPT ![r] = Result(stateMachine.kv, r)]
     /\ UNCHANGED << raft, pendingRequests, calls, clientVars >>

Restore ==
  /\ worker = Idle /\ applyQue # << >> /\ Head(applyQue).snapshotValid
  /\ applyQue' = Tail(applyQue)
  /\ stateMachine' \in Restorations(stateMachine, Head(applyQue).snapshot)
  /\ UNCHANGED << raft, pendingRequests, calls, worker, executed, clientVars >>

\* Mutant: positions are counted from zero on one side.
Awaits_OffByOne(pending, msg) == pending.logIndex = msg.index + 1 /\ pending.logTerm = msg.term

\* Whether the entry waits for what was applied here.
Awaits(pending, msg) == pending.logIndex = msg.index /\ pending.logTerm = msg.term

\* The critical section of completePending: an entry goes in any case, and
\* its call is to be answered if the position is its own.
CompletePending ==
  LET r       == worker.msg.op
      pending == pendingRequests[r]
  IN /\ worker.at = "completing"
     /\ pendingRequests' = [pendingRequests EXCEPT ![r] = Nil]
     /\ worker' = IF pending # Nil /\ Awaits(pending, worker.msg)
                  THEN Finishing("finish", pending.call, worker.reply)
                  ELSE Idle
     /\ UNCHANGED << raft, applyQue, stateMachine, calls, executed, clientVars >>

\* The critical section of finish().
MarkDone ==
  LET n == worker.call
  IN /\ worker.at = "finish"
     /\ IF calls[n].done \/ calls[n].cancelled
        THEN worker' = Idle /\ UNCHANGED calls
        ELSE /\ calls' = [calls EXCEPT ![n].done = TRUE]
             /\ worker' = Finishing("Finish", n, worker.reply)
     /\ UNCHANGED << raft, applyQue, stateMachine, pendingRequests, executed, clientVars >>

\* r->Finish(grpc::Status::OK).
Finish ==
  /\ worker.at = "Finish"
  /\ calls' = [calls EXCEPT ![worker.call] = Finished(@)]
  /\ answer' = Told(worker.call, worker.reply)
  /\ worker' = Idle
  /\ UNCHANGED << raft, applyQue, stateMachine, pendingRequests, executed, asked >>

WorkerStep == ApplyCommand \/ Restore \/ CompletePending \/ MarkDone \/ Finish

----------------------------------------------------------------------------
Init ==
  /\ raft = [log |-> << >>, commitIndex |-> 0, currentTerm |-> 0, leads |-> FALSE,
             made |-> {}, snapshots |-> 0]
  /\ applyQue = << >>
  /\ stateMachine = EmptyStateMachine
  /\ pendingRequests = [r \in Request |-> Nil]
  /\ calls = << >> /\ asked = << >> /\ answer = << >>
  /\ worker = Idle
  /\ executed = [r \in Request |-> Nil]

CallStep(n) ==
  StartPut(n) \/ RegisterPending(n) \/ OnCancel(n) \/ OnDone(n) \/ Cancel(n)

ClientStep ==
  \/ \E r \in Request : Send(r) \/ SendElsewhere(r)
  \/ \E n \in Call : GiveUp(n)

Next == RaftStep \/ WorkerStep \/ ClientStep \/ \E n \in Call : CallStep(n)

Spec == Init /\ [][Next]_kvVars
=============================================================================
