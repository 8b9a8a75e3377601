---------------------------- MODULE Node_proofs ----------------------------
(***************************************************************************)
(* Proofs about the thread pool, whichever threads use it, and about how a *)
(* server with such a pool is taken down.                                  *)
(***************************************************************************)
EXTENDS NodeSafety, FiniteSetTheorems, TLAPS

PoolTypeOK ==
  /\ worker \in [Worker -> WorkerPlace]
  /\ tasks \in Nat /\ accepted \in Nat /\ finished \in Nat
  /\ stopped \in BOOLEAN /\ stopper \in StopperPlace

\* A task is in the queue, run by a worker, or finished.
TasksAccounted == accepted = tasks + Cardinality(WorkersAt("running")) + finished

\* Whoever found the queue empty and holds mutex_ still finds it so.
EmptyWhileHeld == WorkersAt("blocking") # {} => tasks = 0

ExitedAfterStop == WorkersAt("exited") # {} => stopped /\ tasks = 0

Joined ==
  /\ stopper # "none" => stopped
  /\ stopper \in {"clearing", "over"} => WorkersAt("exited") = Worker

PoolInv ==
  /\ PoolTypeOK /\ TasksAccounted /\ EmptyWhileHeld /\ ExitedAfterStop /\ Joined
  /\ NoTaskBesideASleeper

----------------------------------------------------------------------------
\* The workers at one place are finitely many.
LEMMA PlacesFinite ==
  ASSUME NEW place
  PROVE  IsFiniteSet(WorkersAt(place)) /\ Cardinality(WorkersAt(place)) \in Nat
  <1>1. WorkersAt(place) \subseteq Worker  BY DEF WorkersAt
  <1>2. IsFiniteSet(WorkersAt(place))  BY <1>1, WorkerAssumption, FS_Subset
  <1> QED BY <1>2, FS_CardinalityType

\* What a worker that goes from one place to another changes.
LEMMA WorkerMoves ==
  ASSUME worker \in [Worker -> WorkerPlace], NEW w \in Worker,
         NEW from \in WorkerPlace, NEW to \in WorkerPlace \ {from},
         worker[w] = from, WorkerIs(w, to)
  PROVE  /\ worker' \in [Worker -> WorkerPlace]
         /\ WorkersAt(to)' = WorkersAt(to) \cup {w} /\ w \notin WorkersAt(to)
         /\ WorkersAt(from)' = WorkersAt(from) \ {w} /\ w \in WorkersAt(from)
         /\ \A place \in WorkerPlace \ {from, to} : WorkersAt(place)' = WorkersAt(place)
         /\ Cardinality(WorkersAt(to)') = Cardinality(WorkersAt(to)) + 1
         /\ Cardinality(WorkersAt(from)') = Cardinality(WorkersAt(from)) - 1
  <1>1. /\ worker' \in [Worker -> WorkerPlace]
        /\ \A v \in Worker : worker'[v] = IF v = w THEN to ELSE worker[v]
    BY DEF WorkerIs
  <1>2. WorkersAt(to)' = WorkersAt(to) \cup {w} /\ w \notin WorkersAt(to)
    BY <1>1 DEF WorkersAt
  <1>3. WorkersAt(from)' = WorkersAt(from) \ {w} /\ w \in WorkersAt(from)
    BY <1>1 DEF WorkersAt
  <1>4. \A place \in WorkerPlace \ {from, to} : WorkersAt(place)' = WorkersAt(place)
    BY <1>1 DEF WorkersAt
  <1>5. Cardinality(WorkersAt(to) \cup {w}) = Cardinality(WorkersAt(to)) + 1
    BY <1>2, PlacesFinite, FS_AddElement
  <1>6. Cardinality(WorkersAt(from) \ {w}) = Cardinality(WorkersAt(from)) - 1
    BY <1>3, PlacesFinite, FS_RemoveElement
  <1> QED BY <1>1, <1>2, <1>3, <1>4, <1>5, <1>6

\* The invariant holds when the pool is made.
LEMMA PoolInitially ==
  ASSUME PoolInit
  PROVE  PoolInv
  <1>1. /\ WorkersAt("running") = {} /\ WorkersAt("blocking") = {}
        /\ WorkersAt("exited") = {} /\ WorkersAt("waiting") = {}
    BY DEF PoolInit, WorkersAt
  <1>2. PoolTypeOK  BY DEF PoolInit, PoolTypeOK, WorkerPlace, StopperPlace
  <1>3. Cardinality(WorkersAt("running")) = 0  BY <1>1, FS_EmptySet
  <1>4. TasksAccounted  BY <1>3 DEF PoolInit, TasksAccounted
  <1> QED
    BY <1>1, <1>2, <1>4
    DEF PoolInit, PoolInv, EmptyWhileHeld, ExitedAfterStop, Joined, NoTaskBesideASleeper

\* submit() gives its task to the queue, and wakes somebody for it.
LEMMA SubmitKeeps ==
  ASSUME PoolInv, Submit
  PROVE  PoolInv'
  <1>1. /\ PoolTypeOK /\ TasksAccounted /\ EmptyWhileHeld /\ ExitedAfterStop /\ Joined
        /\ NoTaskBesideASleeper
        /\ WorkersAt("blocking") = {} /\ WorkersAt("exited") = {} /\ ~stopped
        /\ tasks' = tasks + 1 /\ accepted' = accepted + 1
        /\ stopped' = stopped /\ stopper' = stopper /\ finished' = finished
        /\ NotifyOne
    BY DEF PoolInv, Submit, MutexFree, ExitedAfterStop
  <1>2. CASE WorkersAt("waiting") = {}
    <2>1. worker' = worker  BY <1>1, <1>2 DEF NotifyOne
    <2>2. \A place \in WorkerPlace : WorkersAt(place)' = WorkersAt(place)
      BY <2>1 DEF WorkersAt
    <2> QED
      BY <1>1, <1>2, <2>1, <2>2, PlacesFinite
      DEF PoolInv, PoolTypeOK, TasksAccounted, EmptyWhileHeld, ExitedAfterStop, Joined,
          NoTaskBesideASleeper, WorkerPlace
  <1>3. CASE WorkersAt("waiting") # {}
    <2>1. PICK w \in WorkersAt("waiting") : WorkerIs(w, "ready")
      BY <1>1, <1>3 DEF NotifyOne
    <2>2. w \in Worker /\ worker[w] = "waiting"  BY <2>1 DEF WorkersAt
    <2>3. /\ worker' \in [Worker -> WorkerPlace]
          /\ \A place \in WorkerPlace \ {"ready", "waiting"} : WorkersAt(place)' = WorkersAt(place)
          /\ Cardinality(WorkersAt("ready")') = Cardinality(WorkersAt("ready")) + 1
      BY <1>1, <2>1, <2>2, WorkerMoves DEF PoolTypeOK, WorkerPlace
    <2>4. tasks' <= Cardinality(WorkersAt("ready")')
      BY <1>1, <1>3, <2>3, PlacesFinite DEF NoTaskBesideASleeper, PoolTypeOK
    <2>5. /\ WorkersAt("blocking")' = WorkersAt("blocking")
          /\ WorkersAt("exited")' = WorkersAt("exited")
          /\ WorkersAt("running")' = WorkersAt("running")
      BY <2>3 DEF WorkerPlace
    <2>6. NoTaskBesideASleeper'  BY <2>4 DEF NoTaskBesideASleeper
    <2> QED
      BY <1>1, <2>3, <2>5, <2>6, PlacesFinite
      DEF PoolInv, PoolTypeOK, TasksAccounted, EmptyWhileHeld, ExitedAfterStop, Joined
  <1> QED BY <1>2, <1>3

\* A worker goes from one place to another; what that takes, for each place.
LEMMA WorkerKeeps ==
  ASSUME PoolInv, NEW w \in Worker,
         WorkerStep(w) \/ FinishTask(w) \/ SpuriousWake(w)
  PROVE  PoolInv'
  <1>1. /\ PoolTypeOK /\ TasksAccounted /\ EmptyWhileHeld /\ ExitedAfterStop /\ Joined
        /\ NoTaskBesideASleeper
        /\ worker \in [Worker -> WorkerPlace]
    BY DEF PoolInv, PoolTypeOK
  <1>p. \A place \in WorkerPlace : Cardinality(WorkersAt(place)) \in Nat  BY PlacesFinite
  <1>q. Cardinality(WorkersAt("ready")') \in Nat
    <2>1. WorkersAt("ready")' \subseteq Worker  BY DEF WorkersAt
    <2> QED BY <2>1, WorkerAssumption, FS_Subset, FS_CardinalityType
  <1>2. CASE Take(w)
    <2>1. /\ worker[w] = "ready" /\ WorkerIs(w, "running") /\ tasks > 0 /\ tasks' = tasks - 1
          /\ stopped' = stopped /\ stopper' = stopper /\ accepted' = accepted /\ finished' = finished
          /\ WorkersAt("blocking") = {}
      BY <1>2 DEF Take, MutexFree
    <2>2. /\ worker' \in [Worker -> WorkerPlace]
          /\ WorkersAt("blocking")' = WorkersAt("blocking")
          /\ WorkersAt("exited")' = WorkersAt("exited")
          /\ WorkersAt("waiting")' = WorkersAt("waiting")
          /\ Cardinality(WorkersAt("running")') = Cardinality(WorkersAt("running")) + 1
          /\ Cardinality(WorkersAt("ready")') = Cardinality(WorkersAt("ready")) - 1
      BY <1>1, <2>1, WorkerMoves DEF WorkerPlace
    <2>3. PoolTypeOK' /\ TasksAccounted'
      BY <1>1, <1>p, <2>1, <2>2 DEF PoolTypeOK, TasksAccounted, WorkerPlace
    <2>4. WorkersAt("exited") = {}  BY <1>1, <2>1 DEF ExitedAfterStop, PoolTypeOK
    <2>5. EmptyWhileHeld' /\ ExitedAfterStop' /\ Joined'
      BY <1>1, <2>1, <2>2, <2>4 DEF EmptyWhileHeld, ExitedAfterStop, Joined
    <2>6. NoTaskBesideASleeper'
      BY <1>1, <1>p, <2>1, <2>2 DEF NoTaskBesideASleeper, PoolTypeOK, WorkerPlace
    <2> QED BY <2>3, <2>5, <2>6 DEF PoolInv
  <1>3. CASE Exit(w)
    <2>1. /\ worker[w] = "ready" /\ WorkerIs(w, "exited") /\ stopped /\ tasks = 0 /\ tasks' = tasks
          /\ stopped' = stopped /\ stopper' = stopper /\ accepted' = accepted /\ finished' = finished
      BY <1>3 DEF Exit
    <2>2. /\ worker' \in [Worker -> WorkerPlace]
          /\ WorkersAt("running")' = WorkersAt("running")
          /\ WorkersAt("exited")' = WorkersAt("exited") \cup {w}
          /\ WorkersAt("ready")' = WorkersAt("ready") \ {w}
      BY <1>1, <2>1, WorkerMoves DEF WorkerPlace
    <2>3. PoolTypeOK' /\ TasksAccounted' /\ EmptyWhileHeld' /\ ExitedAfterStop'
      BY <1>1, <2>1, <2>2 DEF PoolTypeOK, TasksAccounted, EmptyWhileHeld, ExitedAfterStop
    <2>4. Joined'  BY <1>1, <2>1, <2>2 DEF Joined, WorkersAt
    <2>5. NoTaskBesideASleeper'
      BY <1>q, <2>1 DEF NoTaskBesideASleeper
    <2> QED BY <2>3, <2>4, <2>5 DEF PoolInv
  <1>4. CASE FindNothing(w)
    <2>1. /\ worker[w] = "ready" /\ WorkerIs(w, "blocking") /\ ~stopped /\ tasks = 0 /\ tasks' = tasks
          /\ stopped' = stopped /\ stopper' = stopper /\ accepted' = accepted /\ finished' = finished
      BY <1>4 DEF FindNothing
    <2>2. /\ worker' \in [Worker -> WorkerPlace]
          /\ WorkersAt("running")' = WorkersAt("running")
          /\ WorkersAt("exited")' = WorkersAt("exited")
      BY <1>1, <2>1, WorkerMoves DEF WorkerPlace
    <2>3. PoolTypeOK' /\ TasksAccounted' /\ EmptyWhileHeld' /\ ExitedAfterStop' /\ Joined'
      BY <1>1, <2>1, <2>2 DEF PoolTypeOK, TasksAccounted, EmptyWhileHeld, ExitedAfterStop, Joined
    <2>4. NoTaskBesideASleeper'
      BY <1>q, <2>1 DEF NoTaskBesideASleeper
    <2> QED BY <2>3, <2>4 DEF PoolInv
  <1>5. CASE Sleep(w)
    <2>1. /\ worker[w] = "blocking" /\ WorkerIs(w, "waiting") /\ tasks' = tasks
          /\ stopped' = stopped /\ stopper' = stopper /\ accepted' = accepted /\ finished' = finished
      BY <1>5 DEF Sleep
    <2>2. /\ worker' \in [Worker -> WorkerPlace]
          /\ WorkersAt("running")' = WorkersAt("running")
          /\ WorkersAt("exited")' = WorkersAt("exited")
          /\ w \in WorkersAt("blocking")
      BY <1>1, <2>1, WorkerMoves DEF WorkerPlace
    <2>3. tasks = 0  BY <1>1, <2>2 DEF EmptyWhileHeld
    <2>4. PoolTypeOK' /\ TasksAccounted' /\ EmptyWhileHeld' /\ ExitedAfterStop' /\ Joined'
      BY <1>1, <2>1, <2>2, <2>3
      DEF PoolTypeOK, TasksAccounted, EmptyWhileHeld, ExitedAfterStop, Joined
    <2>5. NoTaskBesideASleeper'
      BY <1>q, <2>1, <2>3 DEF NoTaskBesideASleeper
    <2> QED BY <2>4, <2>5 DEF PoolInv
  <1>6. CASE FinishTask(w)
    <2>1. /\ worker[w] = "running" /\ WorkerIs(w, "ready") /\ tasks' = tasks
          /\ stopped' = stopped /\ stopper' = stopper /\ accepted' = accepted
          /\ finished' = finished + 1
      BY <1>6 DEF FinishTask
    <2>2. /\ worker' \in [Worker -> WorkerPlace]
          /\ WorkersAt("blocking")' = WorkersAt("blocking")
          /\ WorkersAt("exited")' = WorkersAt("exited")
          /\ WorkersAt("waiting")' = WorkersAt("waiting")
          /\ Cardinality(WorkersAt("running")') = Cardinality(WorkersAt("running")) - 1
          /\ Cardinality(WorkersAt("ready")') = Cardinality(WorkersAt("ready")) + 1
      BY <1>1, <2>1, WorkerMoves DEF WorkerPlace
    <2>3. PoolTypeOK' /\ TasksAccounted'
      BY <1>1, <1>p, <2>1, <2>2 DEF PoolTypeOK, TasksAccounted, WorkerPlace
    <2>4. EmptyWhileHeld' /\ ExitedAfterStop' /\ Joined'
      BY <1>1, <2>1, <2>2 DEF EmptyWhileHeld, ExitedAfterStop, Joined
    <2>5. NoTaskBesideASleeper'
      BY <1>1, <1>p, <2>1, <2>2 DEF NoTaskBesideASleeper, PoolTypeOK, WorkerPlace
    <2> QED BY <2>3, <2>4, <2>5 DEF PoolInv
  <1>7. CASE SpuriousWake(w)
    <2>1. /\ worker[w] = "waiting" /\ WorkerIs(w, "ready") /\ tasks' = tasks
          /\ stopped' = stopped /\ stopper' = stopper /\ accepted' = accepted /\ finished' = finished
      BY <1>7 DEF SpuriousWake
    <2>2. /\ worker' \in [Worker -> WorkerPlace]
          /\ WorkersAt("blocking")' = WorkersAt("blocking")
          /\ WorkersAt("exited")' = WorkersAt("exited")
          /\ WorkersAt("running")' = WorkersAt("running")
          /\ w \in WorkersAt("waiting")
          /\ Cardinality(WorkersAt("ready")') = Cardinality(WorkersAt("ready")) + 1
      BY <1>1, <2>1, WorkerMoves DEF WorkerPlace
    <2>3. PoolTypeOK' /\ TasksAccounted' /\ EmptyWhileHeld' /\ ExitedAfterStop' /\ Joined'
      BY <1>1, <2>1, <2>2 DEF PoolTypeOK, TasksAccounted, EmptyWhileHeld, ExitedAfterStop, Joined
    <2>4. NoTaskBesideASleeper'
      BY <1>1, <1>p, <2>1, <2>2 DEF NoTaskBesideASleeper, PoolTypeOK, WorkerPlace
    <2> QED BY <2>3, <2>4 DEF PoolInv
  <1> QED BY <1>2, <1>3, <1>4, <1>5, <1>6, <1>7 DEF WorkerStep

\* stop() and its steps; Clear finds nothing, for every worker had exited.
LEMMA StopKeeps ==
  ASSUME PoolInv, SetStopped \/ StopStep
  PROVE  PoolInv'
  <1>1. /\ PoolTypeOK /\ TasksAccounted /\ EmptyWhileHeld /\ ExitedAfterStop /\ Joined
        /\ NoTaskBesideASleeper
    BY DEF PoolInv
  <1>2. CASE worker' = worker /\ tasks' = tasks /\ (SetStopped \/ Join)
    <2>1. \A place \in WorkerPlace : WorkersAt(place)' = WorkersAt(place)
      BY <1>2 DEF WorkersAt
    <2>2. /\ stopped' /\ stopper' \in StopperPlace \ {"none", "over"}
          /\ stopper' = "clearing" => WorkersAt("exited") = Worker
          /\ accepted' = accepted /\ finished' = finished /\ stopped' \in BOOLEAN
      BY <1>1, <1>2 DEF SetStopped, Join, StopperIs, StopperPlace, Joined, PoolTypeOK, WorkersAt
    <2> QED
      BY <1>1, <1>2, <2>1, <2>2
      DEF PoolInv, PoolTypeOK, TasksAccounted, EmptyWhileHeld, ExitedAfterStop, Joined,
          NoTaskBesideASleeper, WorkerPlace
  <1>3. CASE NotifyAll
    <2>1. /\ stopper = "notifying" /\ stopper' = "joining" /\ tasks' = tasks /\ stopped' = stopped
          /\ accepted' = accepted /\ finished' = finished
          /\ worker' \in [Worker -> WorkerPlace]
          /\ \A w \in Worker : worker'[w] = IF worker[w] = "waiting" THEN "ready" ELSE worker[w]
      BY <1>1, <1>3 DEF NotifyAll, StopperIs, PoolTypeOK, WorkerPlace
    <2>2. /\ WorkersAt("running")' = WorkersAt("running")
          /\ WorkersAt("blocking")' = WorkersAt("blocking")
          /\ WorkersAt("exited")' = WorkersAt("exited")
          /\ WorkersAt("waiting")' = {}
      BY <2>1 DEF WorkersAt
    <2> QED
      BY <1>1, <2>1, <2>2
      DEF PoolInv, PoolTypeOK, TasksAccounted, EmptyWhileHeld, ExitedAfterStop, Joined,
          NoTaskBesideASleeper, StopperPlace
  <1>4. CASE Clear
    <2>1. /\ stopper = "clearing" /\ stopper' = "over" /\ tasks' = 0 /\ stopped' = stopped
          /\ accepted' = accepted /\ finished' = finished /\ worker' = worker
      BY <1>4 DEF Clear, StopperIs
    <2>2. WorkersAt("exited") = Worker /\ tasks = 0
      BY <1>1, <2>1, WorkerAssumption DEF Joined, ExitedAfterStop
    <2>3. \A place \in WorkerPlace : WorkersAt(place)' = WorkersAt(place)
      BY <2>1 DEF WorkersAt
    <2> QED
      BY <1>1, <2>1, <2>2, <2>3
      DEF PoolInv, PoolTypeOK, TasksAccounted, EmptyWhileHeld, ExitedAfterStop, Joined,
          NoTaskBesideASleeper, StopperPlace, WorkerPlace
  <1>5. (SetStopped \/ Join) => worker' = worker /\ tasks' = tasks  BY DEF SetStopped, Join
  <1> QED BY <1>2, <1>3, <1>4, <1>5 DEF StopStep

\* Every step of the pool preserves the invariant.
LEMMA PoolSteps ==
  ASSUME PoolInv, [PoolNext]_poolVars
  PROVE  PoolInv'
  <1>1. CASE UNCHANGED poolVars
    BY <1>1
    DEF poolVars, PoolInv, PoolTypeOK, TasksAccounted, EmptyWhileHeld, ExitedAfterStop, Joined,
        NoTaskBesideASleeper, WorkersAt
  <1>2. CASE PoolNext
    BY <1>2, SubmitKeeps, StopKeeps, WorkerKeeps DEF PoolNext
  <1> QED BY <1>1, <1>2

\* The invariant has both properties of the pool.
LEMMA PoolInvImplies ==
  ASSUME PoolInv
  PROVE  AcceptedTasksAreRun /\ NoTaskBesideASleeper
  <1>1. CASE stopper \in {"clearing", "over"}
    <2>1. WorkersAt("exited") = Worker /\ tasks = 0
      BY <1>1, WorkerAssumption DEF PoolInv, Joined, ExitedAfterStop
    <2>2. WorkersAt("running") = {}  BY <2>1 DEF WorkersAt
    <2>3. Cardinality(WorkersAt("running")) = 0  BY <2>2, FS_EmptySet
    <2>4. finished = accepted
      BY <2>1, <2>3 DEF PoolInv, PoolTypeOK, TasksAccounted
    <2> QED BY <2>1, <2>4 DEF AcceptedTasksAreRun, PoolInv
  <1>2. CASE stopper \notin {"clearing", "over"}
    BY <1>2 DEF AcceptedTasksAreRun, PoolInv
  <1> QED BY <1>1, <1>2

----------------------------------------------------------------------------
\* The server uses its pool as a pool may be used: each step of the server is a
\* step of the pool or leaves it alone.
LEMMA NodeStepsPool ==
  ASSUME [NodeNext]_nodeVars
  PROVE  [PoolNext]_poolVars
  <1>1. CASE UNCHANGED nodeVars  BY <1>1 DEF nodeVars
  <1>2. CASE LoopStep
    <2>1. CASE SubmitCall  BY <2>1 DEF SubmitCall, PoolNext
    <2>2. CASE HandleControl \/ ControlDone \/ HandleCommand \/ HandleDeadlines
               \/ CheckQueues \/ WakeUp
      BY <2>2 DEF HandleControl, ControlDone, HandleCommand, HandleDeadlines, CheckQueues, WakeUp
    <2> QED BY <1>2, <2>1, <2>2 DEF LoopStep
  <1>3. CASE MainStep \/ BeginShutDown
    <2>1. CASE StopPool  BY <2>1 DEF StopPool, PoolNext
    <2>2. CASE PoolStops  BY <2>2 DEF PoolStops, PoolNext
    <2>3. CASE \/ SetStopping \/ JoinApply \/ ShutServer \/ LookAtRead \/ FailRead
               \/ StopLoop \/ JoinLoop \/ BeginShutDown
      BY <2>3
      DEF SetStopping, JoinApply, ShutServer, LookAtRead, FailRead, StopLoop, JoinLoop,
          BeginShutDown, OnlyMain
    <2> QED BY <1>3, <2>1, <2>2, <2>3 DEF MainStep
  <1>4. CASE WorkStep \/ \E w \in Worker : WakesForNothing(w)
    BY <1>4 DEF WorkStep, Works, CallReturns, WakesForNothing, PoolNext
  <1>5. CASE Callers \/ ApplyStep \/ AskRaft \/ DeadlinePasses
    BY <1>5
    DEF Callers, CallStart, CallVote, Query, ApplyStep, BeginTurn, AnswerQuery, EndTurn,
        ApplyExits, AskRaft, ApplyIs, DeadlinePasses
  <1> QED BY <1>1, <1>2, <1>3, <1>4, <1>5 DEF NodeNext

\* The threads of a server implement what the thread pool expects of its users.
THEOREM NodeImplementsPool == NodeSpec => PoolSpec
  <1>1. NodeInit => PoolInit  BY DEF NodeInit
  <1> QED BY <1>1, NodeStepsPool, PTL DEF NodeSpec, PoolSpec

\* The invariant of the pool always holds.
LEMMA PoolInvAlways == PoolSpec => []PoolInv
  <1> QED BY PoolInitially, PoolSteps, PTL DEF PoolSpec

\* stop() returns with every task that submit() accepted run, however many
\* workers there are and however they are interleaved with submit() and stop():
\* a worker exits only when it sees an empty queue that nobody can fill again.
THEOREM TasksAreNotDropped == NodeSpec => []AcceptedTasksAreRun
  <1> QED BY NodeImplementsPool, PoolInvAlways, PoolInvImplies, PTL

\* No call to a peer waits in the queue while a worker that could make it sleeps:
\* submit() appends under mutex_, so that no worker is between its look at the
\* queue and its sleep, and notifies one worker for each task.
THEOREM TasksHaveWorkers == NodeSpec => []NoTaskBesideASleeper
  <1> QED BY NodeImplementsPool, PoolInvAlways, PoolInvImplies, PTL

----------------------------------------------------------------------------
(* How far the destructor is says who is gone.                             *)

CallerTypes == caller \in [Caller -> {"none", "waiting", "told"}]

LoopTypes ==
  loop \in [at : {"control", "command", "deadlines", "check", "waiting", "exited"}, count : Nat]

ClientsGone == main \notin {"running", "stopping"} => Waiting(Client) = {}

ApplyGone == main \notin {"running", "stopping", "joining"} => apply = "exited"

PeersGone == main \notin {"running", "stopping", "joining", "server"} => Waiting(Peer) = {}

ReadersTold == main \in {"pool", "workers", "loop", "over"} => ~activeRead

LoopStops ==
  /\ eventLoopStopping <=> main \in {"loop", "over"}
  /\ main \in {"loop", "over"} => stopper = "over"
  /\ main = "over" => loop.at = "exited"

\* The loop exits with empty queues, and they stay empty.
LoopIsGone ==
  loop.at = "exited" =>
    eventLoopStopping /\ controlQueue = << >> /\ commandQueue = << >> /\ ~launching

DestructorInv ==
  /\ CallerTypes /\ ClientsGone /\ ApplyGone /\ PeersGone /\ ReadersTold
  /\ LoopTypes /\ LoopStops /\ LoopIsGone

\* It holds of a server that runs.
LEMMA DestructorInitially ==
  ASSUME NodeInit
  PROVE  DestructorInv
  <1> QED
    BY DEF NodeInit, DestructorInv, CallerTypes, ClientsGone, ApplyGone, PeersGone, ReadersTold,
           LoopTypes, LoopStops, LoopIsGone

\* Who is told does not wait any more; nobody else starts to.
LEMMA TellKeeps ==
  ASSUME CallerTypes, NEW c, Tell(c)
  PROVE  /\ CallerTypes'
         /\ Waiting(Client)' \subseteq Waiting(Client)
         /\ Waiting(Peer)' \subseteq Waiting(Peer)
  <1>1. /\ caller' \in [Caller -> {"none", "waiting", "told"}]
        /\ \A d \in Caller : caller'[d] = IF d = c THEN "told" ELSE caller[d]
    BY DEF Tell, CallerTypes
  <1>2. Client \subseteq Caller /\ Peer \subseteq Caller  BY DEF Caller
  <1> QED BY <1>1, <1>2 DEF CallerTypes, Waiting

\* Only c starts to wait.
LEMMA WaitsAdds ==
  ASSUME CallerTypes, NEW c \in Caller, caller' = [caller EXCEPT ![c] = "waiting"]
  PROVE  /\ CallerTypes'
         /\ c \notin Client => Waiting(Client)' = Waiting(Client)
         /\ c \notin Peer => Waiting(Peer)' = Waiting(Peer)
  <1>1. /\ caller' \in [Caller -> {"none", "waiting", "told"}]
        /\ \A d \in Caller : caller'[d] = IF d = c THEN "waiting" ELSE caller[d]
    BY DEF CallerTypes
  <1>2. Client \subseteq Caller /\ Peer \subseteq Caller  BY DEF Caller
  <1> QED BY <1>1, <1>2 DEF CallerTypes, Waiting

\* Steps of callers and of the apply thread.
LEMMA CallersKeep ==
  ASSUME DestructorInv, Callers \/ ApplyStep \/ AskRaft
  PROVE  DestructorInv'
  <1>1. /\ UNCHANGED << stopper, loop, launching, activeRead, main, eventLoopStopping >>
        /\ \/ UNCHANGED << controlQueue, commandQueue >>
           \/ ~eventLoopStopping
    BY DEF Callers, CallStart, CallVote, Query, ApplyStep, BeginTurn, AnswerQuery, EndTurn,
           ApplyExits, AskRaft, ApplyIs, PostControl, PostCommand, loopVars, mainVars, queueVars,
           poolVars
  <1>2. /\ ReadersTold' /\ LoopTypes' /\ LoopStops' /\ LoopIsGone'
    BY <1>1 DEF DestructorInv, ReadersTold, LoopTypes, LoopStops, LoopIsGone
  <1>3. ApplyGone'
    BY <1>1
    DEF DestructorInv, ApplyGone, Callers, CallStart, CallVote, Query, ApplyStep, BeginTurn,
        AnswerQuery, EndTurn, ApplyExits, AskRaft, ApplyIs
  <1>4. CallerTypes' /\ ClientsGone' /\ PeersGone'
    <2>1. CASE \E c \in Client : CallStart(c)
      <3>1. PICK c \in Client : CallStart(c)  BY <2>1
      <3>2. main = "running" /\ c \in Caller /\ c \notin Peer
            /\ caller' = [caller EXCEPT ![c] = "waiting"]
        BY <3>1, CallerAssumption DEF CallStart, Waits, Caller
      <3> QED BY <1>1, <3>2, WaitsAdds DEF DestructorInv, ClientsGone, PeersGone
    <2>2. CASE \E c \in Peer : CallVote(c)
      <3>1. PICK c \in Peer : CallVote(c)  BY <2>2
      <3>2. main \in {"running", "stopping", "joining", "server"} /\ c \in Caller /\ c \notin Client
            /\ caller' = [caller EXCEPT ![c] = "waiting"]
        BY <3>1, CallerAssumption DEF CallVote, Waits, Caller
      <3> QED BY <1>1, <3>2, WaitsAdds DEF DestructorInv, ClientsGone, PeersGone
    <2>3. CASE \E c \in Reader : Query(c)
      <3>1. PICK c \in Reader : Query(c)  BY <2>3
      <3>2. c \in Caller /\ c \notin Client /\ c \notin Peer
            /\ (Tell(c) \/ caller' = [caller EXCEPT ![c] = "waiting"])
        BY <3>1, CallerAssumption DEF Query, Caller
      <3> QED BY <1>1, <3>2, WaitsAdds, TellKeeps DEF DestructorInv, ClientsGone, PeersGone
    <2>4. CASE AskRaft
      <3>1. Ask \in Caller /\ Ask \notin Client /\ Ask \notin Peer
            /\ caller' = [caller EXCEPT ![Ask] = "waiting"]
        BY <2>4, CallerAssumption DEF AskRaft, Waits, Caller
      <3> QED BY <1>1, <3>1, WaitsAdds DEF DestructorInv, ClientsGone, PeersGone
    <2>5. CASE ApplyStep
      <3>1. UNCHANGED caller \/ \E c : Tell(c)
        BY <2>5 DEF ApplyStep, BeginTurn, AnswerQuery, EndTurn, ApplyExits
      <3>2. CASE UNCHANGED caller
        BY <1>1, <3>2 DEF DestructorInv, CallerTypes, ClientsGone, PeersGone, Waiting
      <3>3. CASE \E c : Tell(c)
        BY <1>1, <3>3, TellKeeps DEF DestructorInv, ClientsGone, PeersGone
      <3> QED BY <3>1, <3>2, <3>3
    <2> QED BY <2>1, <2>2, <2>3, <2>4, <2>5 DEF Callers
  <1> QED BY <1>2, <1>3, <1>4 DEF DestructorInv

\* Steps of the event loop: they tell who waits, and complete or fail the round.
LEMMA LoopKeeps ==
  ASSUME DestructorInv, LoopStep
  PROVE  DestructorInv'
  <1>1. UNCHANGED << apply, main, eventLoopStopping >>
    BY DEF LoopStep, HandleControl, ControlDone, HandleCommand, HandleDeadlines, SubmitCall,
           CheckQueues, WakeUp, callVars, mainVars, queueVars
  <1>2. UNCHANGED stopper
    BY DEF LoopStep, HandleControl, ControlDone, HandleCommand, HandleDeadlines, SubmitCall,
           CheckQueues, WakeUp, Submit, poolVars
  <1>3. UNCHANGED caller \/ \E c : Tell(c)
    BY DEF LoopStep, HandleControl, ControlDone, HandleCommand, HandleDeadlines, SubmitCall,
           CheckQueues, WakeUp, callVars, HandlePeer, HandleAsk, HandleReply, HandleStart
  <1>4. CallerTypes' /\ ClientsGone' /\ PeersGone' /\ ApplyGone'
    <2>1. CASE UNCHANGED caller
      BY <1>1, <2>1 DEF DestructorInv, CallerTypes, ClientsGone, PeersGone, ApplyGone, Waiting
    <2>2. CASE \E c : Tell(c)
      BY <1>1, <2>2, TellKeeps DEF DestructorInv, ClientsGone, PeersGone, ApplyGone
    <2> QED BY <1>3, <2>1, <2>2
  <1>5. ~activeRead => ~activeRead'
    BY DEF LoopStep, HandleControl, ControlDone, HandleCommand, HandleDeadlines, SubmitCall,
           CheckQueues, WakeUp, HandlePeer, HandleAsk, HandleReply, HandleStart, Follows, Leads,
           LeaderDeadlines, FollowerDeadlines
  <1>6. ReadersTold'  BY <1>1, <1>5 DEF DestructorInv, ReadersTold
  <1>7. loop.at # "exited"
    BY DEF LoopStep, HandleControl, ControlDone, HandleCommand, HandleDeadlines, SubmitCall,
           CheckQueues, WakeUp, At, DestructorInv, LoopIsGone
  <1>8. LoopStops'  BY <1>1, <1>2, <1>7 DEF DestructorInv, LoopStops
  <1>t. LoopTypes'
    <2>1. loop' = loop \/ (\E place : GoTo(place)) \/ loop' = [loop EXCEPT !.count = @ + 1]
      BY DEF LoopStep, HandleControl, ControlDone, HandleCommand, HandleDeadlines, SubmitCall,
             CheckQueues, WakeUp, CountTo
    <2>2. CASE \E place : GoTo(place)
      BY <2>2, <1>7
      DEF LoopStep, HandleControl, ControlDone, HandleCommand, HandleDeadlines, SubmitCall,
          CheckQueues, WakeUp, CountTo, GoTo, LoopTypes, DestructorInv
    <2>3. CASE loop' = loop \/ loop' = [loop EXCEPT !.count = @ + 1]
      BY <2>3 DEF LoopTypes, DestructorInv
    <2> QED BY <2>1, <2>2, <2>3
  <1>9. LoopIsGone'
    <2>1. CASE HandleControl
      <3>1. loop.at = "control" /\ (loop' = [at |-> "command", count |-> 0] \/ loop' = [loop EXCEPT !.count = @ + 1])
        BY <2>1 DEF HandleControl, At, CountTo, GoTo
      <3> QED BY <3>1, <1>7 DEF LoopIsGone, LoopTypes, DestructorInv
    <2>2. CASE HandleCommand
      <3>1. loop.at = "command" /\ (loop' = [at |-> "deadlines", count |-> 0] \/ loop' = [loop EXCEPT !.count = @ + 1])
        BY <2>2 DEF HandleCommand, At, CountTo, GoTo
      <3> QED BY <3>1, <1>7 DEF LoopIsGone, LoopTypes, DestructorInv
    <2>3. CASE ControlDone \/ HandleDeadlines \/ WakeUp
      BY <2>3 DEF ControlDone, HandleDeadlines, WakeUp, GoTo, LoopIsGone
    <2>4. CASE SubmitCall
      BY <2>4, <1>7 DEF SubmitCall, LoopIsGone
    <2>5. CASE CheckQueues
      BY <2>5 DEF CheckQueues, GoTo, LoopIsGone, At, queueVars
    <2> QED BY <2>1, <2>2, <2>3, <2>4, <2>5 DEF LoopStep
  <1> QED BY <1>4, <1>6, <1>8, <1>9, <1>t DEF DestructorInv

\* Steps of the destructor itself.
LEMMA MainKeeps ==
  ASSUME DestructorInv, MainStep \/ BeginShutDown
  PROVE  DestructorInv'
  <1>1. /\ UNCHANGED << caller, apply, controlQueue, commandQueue, loop, launching >>
    BY DEF MainStep, BeginShutDown, SetStopping, JoinApply, ShutServer, LookAtRead, FailRead,
           StopPool, PoolStops, StopLoop, JoinLoop, OnlyMain, queueVars, loopVars, callVars
  <1>2. /\ CallerTypes' /\ Waiting(Client)' = Waiting(Client) /\ Waiting(Peer)' = Waiting(Peer)
    BY <1>1 DEF DestructorInv, CallerTypes, Waiting
  <1>3. CASE PoolStops
    <2>1. UNCHANGED << main, activeRead, eventLoopStopping >> /\ main = "workers"
      BY <1>3 DEF PoolStops, queueVars, loopVars, mainVars
    <2> QED
      BY <1>1, <1>2, <2>1
      DEF DestructorInv, ClientsGone, ApplyGone, PeersGone, ReadersTold, LoopTypes, LoopStops, LoopIsGone
  <1>4. CASE StopLoop
    BY <1>1, <1>2, <1>4
    DEF StopLoop, MainIs, DestructorInv, ClientsGone, ApplyGone, PeersGone, ReadersTold, LoopTypes, LoopStops,
        LoopIsGone, loopVars, poolVars
  <1>5. CASE StopPool
    BY <1>1, <1>2, <1>5
    DEF StopPool, MainIs, DestructorInv, ClientsGone, ApplyGone, PeersGone, ReadersTold, LoopTypes, LoopStops,
        LoopIsGone, loopVars, queueVars
  <1>6. CASE FailRead
    BY <1>1, <1>2, <1>6
    DEF FailRead, MainIs, DestructorInv, ClientsGone, ApplyGone, PeersGone, ReadersTold, LoopTypes, LoopStops,
        LoopIsGone, queueVars, poolVars
  <1>7. CASE LookAtRead
    BY <1>1, <1>2, <1>7
    DEF LookAtRead, MainIs, OnlyMain, DestructorInv, ClientsGone, ApplyGone, PeersGone, ReadersTold,
        LoopTypes, LoopStops, LoopIsGone, queueVars, poolVars, loopVars
  <1>8. CASE SetStopping \/ JoinApply \/ ShutServer \/ JoinLoop \/ BeginShutDown
    BY <1>1, <1>2, <1>8
    DEF SetStopping, JoinApply, ShutServer, JoinLoop, BeginShutDown, MainIs, OnlyMain, DestructorInv,
        ClientsGone, ApplyGone, PeersGone, ReadersTold, LoopTypes, LoopStops, LoopIsGone, queueVars, poolVars,
        loopVars
  <1> QED BY <1>3, <1>4, <1>5, <1>6, <1>7, <1>8 DEF MainStep

\* Steps of the workers and of time.
LEMMA OthersKeep ==
  ASSUME DestructorInv,
         WorkStep \/ DeadlinePasses \/ \E w \in Worker : WakesForNothing(w)
  PROVE  DestructorInv'
  <1>1. UNCHANGED << caller, apply, commandQueue, eventLoopStopping, loop, launching, activeRead, main >>
    BY DEF WorkStep, Works, CallReturns, DeadlinePasses, WakesForNothing, queueVars, loopVars,
           callVars, mainVars
  <1>2. UNCHANGED controlQueue \/ ~eventLoopStopping
    BY DEF WorkStep, Works, CallReturns, DeadlinePasses, WakesForNothing, queueVars, PostControl
  <1>3. UNCHANGED stopper
    BY DEF WorkStep, Works, CallReturns, DeadlinePasses, WakesForNothing, WorkerStep, Take, Exit,
           FindNothing, Sleep, FinishTask, SpuriousWake, poolVars
  <1> QED
    BY <1>1, <1>2, <1>3
    DEF DestructorInv, CallerTypes, ClientsGone, ApplyGone, PeersGone, ReadersTold, LoopTypes, LoopStops,
        LoopIsGone, Waiting

\* Every step preserves the invariant.
LEMMA DestructorSteps ==
  ASSUME DestructorInv, [NodeNext]_nodeVars
  PROVE  DestructorInv'
  <1>1. CASE UNCHANGED nodeVars
    BY <1>1
    DEF nodeVars, poolVars, queueVars, loopVars, callVars, mainVars, DestructorInv, CallerTypes,
        ClientsGone, ApplyGone, PeersGone, ReadersTold, LoopTypes, LoopStops, LoopIsGone, Waiting
  <1>2. CASE NodeNext
    BY <1>2, CallersKeep, LoopKeeps, MainKeeps, OthersKeep DEF NodeNext
  <1> QED BY <1>1, <1>2

\* When ~KVServer ends, nothing of the server is in use or left undone, for any
\* number of threads and any batch sizes: who could still add to a queue, or wait
\* for it, is gone before the thread that works on it.
THEOREM ShutdownIsClean == NodeSpec => []NothingIsLeft
  <1>1. PoolInv /\ DestructorInv => NothingIsLeft
    <2> SUFFICES ASSUME PoolInv, DestructorInv, main = "over"
                 PROVE  NothingIsLeft
      BY DEF NothingIsLeft
    <2>1. /\ loop.at = "exited" /\ stopper = "over" /\ apply = "exited" /\ ~activeRead
          /\ Waiting(Client) = {} /\ Waiting(Peer) = {}
      BY DEF DestructorInv, LoopStops, ApplyGone, ReadersTold, ClientsGone, PeersGone
    <2>2. controlQueue = << >> /\ commandQueue = << >>
      BY <2>1 DEF DestructorInv, LoopIsGone
    <2>3. WorkersAt("exited") = Worker /\ tasks = 0
      BY <2>1, WorkerAssumption DEF PoolInv, Joined, ExitedAfterStop
    <2>4. Waiting(Client \cup Peer) = {}  BY <2>1 DEF Waiting
    <2> QED BY <2>1, <2>2, <2>3, <2>4 DEF NothingIsLeft
  <1> QED
    BY <1>1, DestructorInitially, DestructorSteps, NodeImplementsPool, PoolInvAlways, PTL DEF NodeSpec
=============================================================================
