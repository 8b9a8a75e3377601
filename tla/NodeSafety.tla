----------------------------- MODULE NodeSafety -----------------------------
(***************************************************************************)
(* What the threads of a server owe to each other, while it runs and when  *)
(* it is taken down.                                                       *)
(***************************************************************************)
EXTENDS Node

\* A deadline that has passed is acted on, whether the loop sleeps, works on a
\* queue that others fill, or changes its role meanwhile; not if it is stopping.
DeadlinesAreNoticed == <>[](RoleDeadline \in passed => stop \/ broken # "no")

\* Nothing is used after it is gone: when ~KVServer ends, no thread is left in
\* it, no event undone, no task unrun and no reader of the open round untold.
NothingIsLeft ==
  main = "over" =>
    /\ loop.at = "exited" /\ apply = "exited" /\ WorkersAt("exited") = Worker
    /\ Waiting(Client \cup Peer) = {}
    /\ controlQueue = << >> /\ commandQueue = << >> /\ tasks = 0
    /\ ~activeRead

\* Who waits for the event loop's promise gets it, whatever is in the other
\* queue, whichever deadlines pass, and if the server is taken down meanwhile;
\* a query is only answered by an apply thread that is not on its way out.
EveryCallerIsTold ==
  <>[](broken # "no" \/ \A c \in Caller : caller[c] = "waiting" => c \in Reader /\ stopping)

\* A worker that went to sleep although stop() had been called, and missed its
\* notification.
WakeUpMissed == stopper = "joining" /\ WorkersAt("waiting") # {}

\* ~KVServer comes to its end, except for the two races in the code.
ShutdownEnds == <>[](main \in {"running", "over"} \/ broken # "no" \/ WakeUpMissed)

\* "Then all workers exit" (ThreadPool.h:43, comment of stop()).
StopReturns == stopped ~> stopper = "over" \/ broken # "no"

\* Nothing that the destructor does makes the process end before its time.
NeverBroken == broken = "no"

\* The loop does not wake up from a sleep before there is anything to do.
NoBusyWaiting ==
  At("waiting") /\ passed \cap {RoleDeadline} = {} => SleepsUntil \cap passed = {}

\* A query that was accepted is answered.
EveryQueryIsAnswered == \A c \in Reader : caller[c] = "waiting" ~> caller[c] = "told"
=============================================================================
