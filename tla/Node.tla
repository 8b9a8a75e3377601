-------------------------------- MODULE Node --------------------------------
(***************************************************************************)
(* The threads of one server and how it is taken down: the event loop of   *)
(* its Raft object with its two queues and its deadlines, the thread pool, *)
(* the apply thread of its KVServer, the threads on which gRPC runs its    *)
(* handlers, and the thread that destroys the KVServer.                    *)
(*                                                                         *)
(* What the handlers of events do to terms and logs is module Raft's; here *)
(* they answer who waits for them, may change the role, set deadlines, and *)
(* submit calls.                                                           *)
(***************************************************************************)
EXTENDS ThreadPool, Sequences

CONSTANTS
  Client,         \* handler threads that are in raft_->start()
  Peer,           \* handler threads that are in OnRequestVote() or OnPreVote()
  Reader,         \* threads that are in debugDumpState()
  MaxCallers,     \* bound: how many of them, and the apply thread, call
  MaxSurprises,   \* bound: deadlines that pass, and workers that wake up for nothing
  ControlBatch,   \* ControlBatchSize
  CommandBatch    \* CommandBatchSize

VARIABLES
  caller,         \* of each of these threads, and the apply thread as one that
                  \* asks the event loop:  "none", "waiting", "told"
  apply,          \* the apply thread:  "idle", "draining", "exited"
  queries,        \* stateMachineQueue_
  controlQueue, commandQueue,
  eventLoopStopping,
  loop,           \* where the event loop is, and its count of the batch
  launching,      \* the handler has read stop_ and goes on to submit a call
  leads,          \* status_ is RAFT_LEADER
  passed,         \* the deadlines that have passed
  surprises,      \* how often one did, or a worker woke up for nothing
  activeRead,     \* a read round is open
  stopping,       \* stopping_ of the KVServer
  stop,           \* stop_ of the Raft object
  main,           \* where the thread is that destroys the KVServer
  broken          \* why the process has ended before its time, or "no"

queueVars == << controlQueue, commandQueue, eventLoopStopping >>
loopVars == << loop, launching, leads, passed, activeRead >>
callVars == << caller, apply, queries >>
mainVars == << stopping, stop, main >>

nodeVars == << poolVars, queueVars, loopVars, callVars, mainVars, surprises, broken >>

\* needSnapshot() and snapshot(), by the apply thread.
Ask == "ask"

Caller == Client \cup Peer \cup Reader \cup {Ask}

ASSUME CallerAssumption ==
  /\ Client \cap Peer = {} /\ Client \cap Reader = {} /\ Peer \cap Reader = {}
  /\ Ask \notin Client \cup Peer \cup Reader

Deadline == {"quorum", "heartbeat", "election"}

\* The event that has what became of a call.  Others are named by who waits.
Reply == "reply"

Waiting(callers) == { c \in callers : caller[c] = "waiting" }

Tell(c) == caller' = [caller EXCEPT ![c] = "told"]

At(place) == loop.at = place /\ ~launching

GoTo(place) == loop' = [at |-> place, count |-> 0]

\* One more of the batch; the last one leads to the next place.
CountTo(batch, next) ==
  IF loop.count + 1 = batch THEN GoTo(next) ELSE loop' = [loop EXCEPT !.count = @ + 1]

----------------------------------------------------------------------------
(* Posting.  Once the loop is stopping, an event is dropped.               *)

PostControl(event) ==
  controlQueue' = IF eventLoopStopping THEN controlQueue ELSE Append(controlQueue, event)

PostCommand(event) ==
  commandQueue' = IF eventLoopStopping THEN commandQueue ELSE Append(commandQueue, event)

\* The first of the few calls that c makes here.
MayCall(c) == caller[c] = "none" /\ Cardinality({ d \in Caller : caller[d] # "none" }) < MaxCallers

Waits(c) == MayCall(c) /\ caller' = [caller EXCEPT ![c] = "waiting"]

\* Raft::start, from a handler of the KVServer's service while it is open.
CallStart(c) ==
  /\ main = "running" /\ Waits(c)
  /\ PostCommand(c)
  /\ UNCHANGED << poolVars, controlQueue, eventLoopStopping, loopVars, apply, queries, mainVars, surprises, broken >>

\* OnRequestVote, OnPreVote, while the Raft object's service is open.
CallVote(c) ==
  /\ main \in {"running", "stopping", "joining", "server"} /\ Waits(c)
  /\ PostControl(c)
  /\ UNCHANGED << poolVars, commandQueue, eventLoopStopping, loopVars, apply, queries, mainVars, surprises, broken >>

\* queryStateMachine: postQuery refuses once stopping_ is set.
Query(c) ==
  /\ main # "over" /\ MayCall(c)
  /\ IF stopping THEN Tell(c) /\ UNCHANGED queries
     ELSE caller' = [caller EXCEPT ![c] = "waiting"] /\ queries' = queries \cup {c}
  /\ UNCHANGED << poolVars, queueVars, loopVars, apply, mainVars, surprises, broken >>

----------------------------------------------------------------------------
(* The apply thread                                                        *)

ApplyIs(from, to) ==
  /\ apply = from /\ apply' = to /\ caller[Ask] # "waiting"
  /\ UNCHANGED << poolVars, commandQueue, eventLoopStopping, loopVars, mainVars, surprises, broken >>

BeginTurn == ApplyIs("idle", "draining") /\ ~stopping /\ UNCHANGED << caller, queries, controlQueue >>

\* A turn starts with all queries; debugDumpState's function is run.
AnswerQuery ==
  /\ ApplyIs("draining", "draining")
  /\ \E c \in queries : queries' = queries \ {c} /\ Tell(c)
  /\ UNCHANGED controlQueue

\* Then maybeSnapshot may ask the Raft object: after 50 commands, here once.
AskRaft ==
  /\ ApplyIs("draining", "draining") /\ queries = {}
  /\ Waits(Ask)
  /\ PostControl(Ask)
  /\ UNCHANGED queries

EndTurn ==
  /\ ApplyIs("draining", "idle") /\ queries = {}
  /\ UNCHANGED << caller, queries, controlQueue >>

ApplyExits == ApplyIs("idle", "exited") /\ stopping /\ UNCHANGED << caller, queries, controlQueue >>

----------------------------------------------------------------------------
(* The event loop                                                          *)

\* A handler that launches calls has looked at stop_ before.
MayLaunch == \/ launching' = FALSE
             \/ ~stop /\ accepted < MaxTasks /\ launching' = TRUE

Stays(deadlines) == leads' = leads /\ passed' = passed \ deadlines

\* becomeFollower and stepDown fail the open read round.
Follows == leads' = FALSE /\ passed' = passed \ {"election"} /\ activeRead' = FALSE

\* becomeLeader, with its no-op.
Leads == leads' = TRUE /\ passed' = passed \ {"quorum", "heartbeat"} /\ UNCHANGED activeRead

\* handleRequestVote, handlePreVote.
HandlePeer(c) ==
  /\ Tell(c) /\ UNCHANGED launching
  /\ \/ Follows
     \/ (Stays({}) \/ Stays({"election"})) /\ UNCHANGED activeRead

HandleAsk == Tell(Ask) /\ Stays({}) /\ UNCHANGED << launching, activeRead >>

\* The four reply handlers; one of them may complete the open round.
HandleReply ==
  /\ UNCHANGED caller
  /\ \/ Stays({}) /\ MayLaunch /\ activeRead' \in {activeRead, activeRead /\ ~leads}
     \/ ~leads /\ Stays({"election"}) /\ MayLaunch /\ UNCHANGED activeRead
     \/ Follows /\ launching' = FALSE
     \/ ~leads /\ Leads /\ MayLaunch

\* start(): a leader appends and replicates.
HandleStart(c) ==
  /\ Tell(c) /\ UNCHANGED activeRead
  /\ Stays({})
  /\ IF leads THEN MayLaunch ELSE launching' = FALSE

HandleControl ==
  /\ At("control") /\ controlQueue # << >>
  /\ controlQueue' = Tail(controlQueue)
  /\ CountTo(ControlBatch, "command")
  /\ \/ \E c \in Peer : Head(controlQueue) = c /\ HandlePeer(c)
     \/ Head(controlQueue) = Ask /\ HandleAsk
     \/ Head(controlQueue) = Reply /\ HandleReply
  /\ UNCHANGED << poolVars, commandQueue, eventLoopStopping, apply, queries, mainVars, surprises, broken >>

ControlDone ==
  /\ At("control") /\ controlQueue = << >>
  /\ GoTo("command")
  /\ UNCHANGED << poolVars, queueVars, launching, leads, passed, activeRead, callVars, mainVars, surprises, broken >>

\* The deadline that the role waits for.
RoleDeadline == IF leads THEN "heartbeat" ELSE "election"

\* Control events and a deadline that has passed come first.
MayTakeCommand ==
  /\ controlQueue = << >> /\ commandQueue # << >>
  /\ RoleDeadline \notin passed

HandleCommand ==
  /\ At("command") /\ MayTakeCommand
  /\ commandQueue' = Tail(commandQueue)
  /\ CountTo(CommandBatch, "deadlines")
  /\ HandleStart(Head(commandQueue))
  /\ UNCHANGED << poolVars, controlQueue, eventLoopStopping, apply, queries, mainVars, surprises, broken >>

\* handleDeadlines at a leader.
LeaderDeadlines ==
  \/ "quorum" \in passed /\ Follows /\ launching' = FALSE
  \/ /\ Stays({"quorum", "heartbeat"}) /\ UNCHANGED activeRead
     /\ IF "heartbeat" \in passed THEN MayLaunch ELSE launching' = FALSE

\* beginPreVote does nothing once stop_ is set.
FollowerDeadlines ==
  /\ UNCHANGED << leads, activeRead >>
  /\ IF "election" \in passed /\ ~stop
     THEN passed' = passed \ {"election"} /\ MayLaunch
     ELSE UNCHANGED << passed, launching >>

\* It follows on the last command of the batch.
HandleDeadlines ==
  /\ At("deadlines") \/ (At("command") /\ ~MayTakeCommand)
  /\ GoTo("check")
  /\ IF leads THEN LeaderDeadlines ELSE FollowerDeadlines
  /\ UNCHANGED << poolVars, queueVars, callVars, mainVars, surprises, broken >>

\* threadPool_->submit(): in a pool that has been stopped it throws, on the
\* event thread, where nothing catches it.
SubmitCall ==
  /\ launching /\ launching' = FALSE
  /\ \/ Submit /\ UNCHANGED broken
     \/ SubmitFails /\ broken' = "submit" /\ UNCHANGED poolVars
  /\ UNCHANGED << queueVars, loop, leads, passed, activeRead, callVars, mainVars, surprises >>

\* The end of a turn, under queueMutex_.
CheckQueues ==
  /\ At("check")
  /\ LET empty == controlQueue = << >> /\ commandQueue = << >>
     IN GoTo(IF empty /\ eventLoopStopping THEN "exited" ELSE IF empty THEN "waiting" ELSE "control")
  /\ UNCHANGED << poolVars, queueVars, launching, leads, passed, activeRead, callVars, mainVars, surprises, broken >>

\* Mutant: a follower sleeps until the deadline of a leader.
SleepsUntil_Quorum == {"quorum"}

\* Of which the first ends the sleep.
SleepsUntil == {"quorum", RoleDeadline}

\* Mutant: the end of the loop is not in the predicate.
WakeUp_Deaf ==
  /\ At("waiting")
  /\ controlQueue # << >> \/ commandQueue # << >> \/ SleepsUntil \cap passed # {}
  /\ GoTo("control")
  /\ UNCHANGED << poolVars, queueVars, launching, leads, passed, activeRead, callVars, mainVars, surprises, broken >>

WakeUp ==
  /\ At("waiting")
  /\ \/ eventLoopStopping \/ controlQueue # << >> \/ commandQueue # << >>
     \/ SleepsUntil \cap passed # {}
  /\ GoTo("control")
  /\ UNCHANGED << poolVars, queueVars, launching, leads, passed, activeRead, callVars, mainVars, surprises, broken >>

LoopStep ==
  \/ HandleControl \/ ControlDone \/ HandleCommand
  \/ HandleDeadlines \/ SubmitCall \/ CheckQueues \/ WakeUp

DeadlinePasses ==
  /\ surprises < MaxSurprises /\ surprises' = surprises + 1
  /\ \E d \in Deadline \ passed : passed' = passed \cup {d}
  /\ UNCHANGED << poolVars, queueVars, loop, launching, leads, activeRead, callVars, mainVars, broken >>

----------------------------------------------------------------------------
(* The pool's workers, whose tasks are calls to peers.                     *)

\* A call ends with an answer or at its deadline, and its task posts what it got.
CallReturns(w) ==
  /\ FinishTask(w)
  /\ PostControl(Reply)
  /\ UNCHANGED << commandQueue, eventLoopStopping, loopVars, callVars, mainVars, surprises, broken >>

Works(w) == WorkerStep(w) /\ UNCHANGED << queueVars, loopVars, callVars, mainVars, surprises, broken >>

WakesForNothing(w) ==
  /\ surprises < MaxSurprises /\ surprises' = surprises + 1
  /\ SpuriousWake(w)
  /\ UNCHANGED << queueVars, loopVars, callVars, mainVars, broken >>

----------------------------------------------------------------------------
(* ~KVServer and, in it, ~Raft                                             *)

MainIs(from, to) == main = from /\ main' = to

OnlyMain == UNCHANGED << poolVars, queueVars, loopVars, callVars, surprises, broken >>

\* shutDown(): no more calls of clients, and those that run come to their end.
BeginShutDown == MainIs("running", "stopping") /\ OnlyMain /\ UNCHANGED << stopping, stop >>

\* Mutant: calls that run are not waited for.
SetStopping_AtOnce ==
  /\ MainIs("stopping", "joining")
  /\ stopping' = TRUE
  /\ OnlyMain /\ UNCHANGED stop

SetStopping ==
  /\ MainIs("stopping", "joining") /\ Waiting(Client) = {}
  /\ stopping' = TRUE
  /\ OnlyMain /\ UNCHANGED stop

\* applyThread_->join(), and ~Raft begins.
JoinApply ==
  /\ MainIs("joining", "server") /\ apply = "exited"
  /\ stop' = TRUE
  /\ OnlyMain /\ UNCHANGED stopping

\* server_->shutdown() waits for its handlers.
ShutServer ==
  /\ MainIs("server", "read") /\ Waiting(Peer) = {}
  /\ OnlyMain /\ UNCHANGED << stopping, stop >>

\* failAllPendingReadIndexInEventLoop, here on another thread: it looks at the
\* round ...
LookAtRead ==
  /\ MainIs("read", IF activeRead THEN "failing" ELSE "pool")
  /\ OnlyMain /\ UNCHANGED << stopping, stop >>

\* ... and moves it out, which the event loop may have done by then.
FailRead ==
  /\ MainIs("failing", "pool")
  /\ activeRead' = FALSE
  /\ broken' = IF activeRead THEN broken ELSE "read"
  /\ UNCHANGED << poolVars, queueVars, loop, launching, leads, passed, callVars, stopping, stop, surprises >>

StopPool ==
  /\ MainIs("pool", "workers") /\ SetStopped
  /\ UNCHANGED << queueVars, loopVars, callVars, stopping, stop, surprises, broken >>

PoolStops ==
  /\ main = "workers" /\ StopStep
  /\ UNCHANGED << queueVars, loopVars, callVars, mainVars, surprises, broken >>

\* Mutant: the loop is stopped without waiting for the pool.
StopLoop_First ==
  /\ MainIs("workers", "loop")
  /\ eventLoopStopping' = TRUE
  /\ UNCHANGED << poolVars, controlQueue, commandQueue, loopVars, callVars, stopping, stop, surprises, broken >>

StopLoop ==
  /\ MainIs("workers", "loop") /\ stopper = "over"
  /\ eventLoopStopping' = TRUE
  /\ UNCHANGED << poolVars, controlQueue, commandQueue, loopVars, callVars, stopping, stop, surprises, broken >>

\* eventThread_.join(), the last persist(), and the members go.
JoinLoop ==
  /\ MainIs("loop", "over") /\ loop.at = "exited"
  /\ OnlyMain /\ UNCHANGED << stopping, stop >>

MainStep ==
  \/ SetStopping \/ JoinApply \/ ShutServer \/ LookAtRead \/ FailRead
  \/ StopPool \/ PoolStops \/ StopLoop \/ JoinLoop

----------------------------------------------------------------------------
\* A KVServer that has run for some time: it leads or not, and a leader may have
\* a read round open, as one that readIndex() was called for.
NodeInit ==
  /\ PoolInit
  /\ caller = [c \in Caller |-> "none"]
  /\ apply = "idle" /\ queries = {}
  /\ controlQueue = << >> /\ commandQueue = << >> /\ eventLoopStopping = FALSE
  /\ loop = [at |-> "control", count |-> 0] /\ launching = FALSE
  /\ leads \in BOOLEAN /\ activeRead \in {FALSE, leads}
  /\ passed = {} /\ surprises = 0
  /\ stopping = FALSE /\ stop = FALSE /\ main = "running"
  /\ broken = "no"

WorkStep == \E w \in Worker : Works(w) \/ CallReturns(w)

ApplyStep == BeginTurn \/ AnswerQuery \/ EndTurn \/ ApplyExits

Callers ==
  \/ \E c \in Client : CallStart(c)
  \/ \E c \in Peer : CallVote(c)
  \/ \E c \in Reader : Query(c)

Runs == broken = "no"

NodeNext ==
  /\ Runs
  /\ \/ Callers \/ ApplyStep \/ AskRaft
     \/ LoopStep \/ DeadlinePasses
     \/ WorkStep \/ \E w \in Worker : WakesForNothing(w)
     \/ BeginShutDown \/ MainStep

NodeSpec == NodeInit /\ [][NodeNext]_nodeVars

(***************************************************************************)
(* Every thread that can go on does, the tasks of the pool among them: each*)
(* call to a peer has a deadline.  Nobody need call, no deadline pass, and *)
(* nobody destroy the server.                                              *)
(***************************************************************************)
NodeFairSpec ==
  /\ NodeSpec
  /\ WF_nodeVars(Runs /\ LoopStep)
  /\ WF_nodeVars(Runs /\ ApplyStep)
  /\ WF_nodeVars(Runs /\ (WorkStep \/ MainStep))
=============================================================================
