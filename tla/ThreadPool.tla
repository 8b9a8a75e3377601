----------------------------- MODULE ThreadPool -----------------------------
(***************************************************************************)
(* The thread pool: submit(), workerLoop() and stop().                     *)
(*                                                                         *)
(* A worker's condition_.wait evaluates its predicate under mutex_ and     *)
(* then, if it is false, gives mutex_ up and sleeps in one step: from the  *)
(* evaluation to the sleep ("blocking") it keeps mutex_.  submit() needs   *)
(* mutex_; stop() sets stopped_ and notifies without it.                   *)
(***************************************************************************)
EXTENDS Naturals, FiniteSets

CONSTANTS
  Worker,     \* the threads
  MaxTasks    \* bound: tasks submitted

\* At least one thread, whatever the constructor is asked for.
ASSUME WorkerAssumption == IsFiniteSet(Worker) /\ Worker # {}

ASSUME MaxTasksAssumption == MaxTasks \in Nat

VARIABLES
  worker,     \* where each worker is in workerLoop()
  tasks,      \* number of tasks in tasks_
  stopped,    \* stopped_
  stopper,    \* where the thread is that called stop()
  accepted,   \* history: number of tasks that submit() took
  finished    \* history: number of tasks that were run

poolVars == << worker, tasks, stopped, stopper, accepted, finished >>

WorkerPlace == {"ready", "blocking", "waiting", "running", "exited"}
StopperPlace == {"none", "notifying", "joining", "clearing", "over"}

WorkersAt(place) == { w \in Worker : worker[w] = place }

MutexFree == WorkersAt("blocking") = {}

WorkerIs(w, place) == worker' = [worker EXCEPT ![w] = place]

PoolInit ==
  /\ worker = [w \in Worker |-> "ready"]
  /\ tasks = 0 /\ accepted = 0 /\ finished = 0
  /\ stopped = FALSE /\ stopper = "none"

----------------------------------------------------------------------------
(* submit()                                                                *)

\* condition_.notify_one().
NotifyOne ==
  IF WorkersAt("waiting") = {} THEN UNCHANGED worker
  ELSE \E w \in WorkersAt("waiting") : WorkerIs(w, "ready")

\* Mutant: nobody is notified.
Submit_Silent ==
  /\ accepted < MaxTasks
  /\ MutexFree /\ ~stopped
  /\ tasks' = tasks + 1 /\ accepted' = accepted + 1
  /\ UNCHANGED << worker, stopped, stopper, finished >>

\* The notification comes after mutex_ is released.  What other threads do in
\* between makes it a spurious one, which SpuriousWake covers.
Submit ==
  /\ accepted < MaxTasks
  /\ MutexFree /\ ~stopped
  /\ tasks' = tasks + 1 /\ accepted' = accepted + 1
  /\ NotifyOne
  /\ UNCHANGED << stopped, stopper, finished >>

\* It throws.
SubmitFails == MutexFree /\ stopped

----------------------------------------------------------------------------
(* workerLoop()                                                            *)

Take(w) ==
  /\ worker[w] = "ready" /\ MutexFree
  /\ tasks > 0
  /\ tasks' = tasks - 1
  /\ WorkerIs(w, "running")
  /\ UNCHANGED << stopped, stopper, accepted, finished >>

\* Mutant: tasks that are left keep nobody.
Exit_Early(w) ==
  /\ worker[w] = "ready" /\ MutexFree
  /\ stopped
  /\ WorkerIs(w, "exited")
  /\ UNCHANGED << tasks, stopped, stopper, accepted, finished >>

Exit(w) ==
  /\ worker[w] = "ready" /\ MutexFree
  /\ stopped /\ tasks = 0
  /\ WorkerIs(w, "exited")
  /\ UNCHANGED << tasks, stopped, stopper, accepted, finished >>

\* The predicate is false.
FindNothing(w) ==
  /\ worker[w] = "ready" /\ MutexFree
  /\ ~stopped /\ tasks = 0
  /\ WorkerIs(w, "blocking")
  /\ UNCHANGED << tasks, stopped, stopper, accepted, finished >>

Sleep(w) ==
  /\ worker[w] = "blocking"
  /\ WorkerIs(w, "waiting")
  /\ UNCHANGED << tasks, stopped, stopper, accepted, finished >>

\* A condition variable may return from its wait for no reason.
SpuriousWake(w) ==
  /\ worker[w] = "waiting"
  /\ WorkerIs(w, "ready")
  /\ UNCHANGED << tasks, stopped, stopper, accepted, finished >>

FinishTask(w) ==
  /\ worker[w] = "running"
  /\ WorkerIs(w, "ready")
  /\ finished' = finished + 1
  /\ UNCHANGED << tasks, stopped, stopper, accepted >>

----------------------------------------------------------------------------
(* stop()                                                                  *)

StopperIs(from, to) == stopper = from /\ stopper' = to

\* compare_exchange_strong: who comes second returns.
SetStopped ==
  /\ ~stopped /\ StopperIs("none", "notifying")
  /\ stopped' = TRUE
  /\ UNCHANGED << worker, tasks, accepted, finished >>

\* condition_.notify_all(): a worker that is still blocking does not hear it.
NotifyAll ==
  /\ StopperIs("notifying", "joining")
  /\ worker' = [w \in Worker |-> IF worker[w] = "waiting" THEN "ready" ELSE worker[w]]
  /\ UNCHANGED << tasks, stopped, accepted, finished >>

Join ==
  /\ StopperIs("joining", "clearing")
  /\ \A w \in Worker : worker[w] = "exited"
  /\ UNCHANGED << worker, tasks, stopped, accepted, finished >>

Clear ==
  /\ StopperIs("clearing", "over")
  /\ tasks' = 0
  /\ UNCHANGED << worker, stopped, accepted, finished >>

----------------------------------------------------------------------------
\* What a worker does besides running tasks.
WorkerStep(w) == Take(w) \/ Exit(w) \/ FindNothing(w) \/ Sleep(w)

StopStep == NotifyAll \/ Join \/ Clear

PoolNext ==
  \/ Submit \/ SetStopped \/ StopStep
  \/ \E w \in Worker : WorkerStep(w) \/ FinishTask(w) \/ SpuriousWake(w)

PoolSpec == PoolInit /\ [][PoolNext]_poolVars

----------------------------------------------------------------------------
\* stop() "waits until all submitted tasks are finished" (ThreadPool.h:43,
\* comment): what it clears afterwards is empty.
AcceptedTasksAreRun == stopper \in {"clearing", "over"} => tasks = 0 /\ finished = accepted

\* A task does not lie in the queue beside a worker that sleeps: there is
\* somebody awake for each of them, or nobody asleep.
NoTaskBesideASleeper ==
  \/ WorkersAt("waiting") = {}
  \/ tasks <= Cardinality(WorkersAt("ready"))
=============================================================================
