--------------------------- MODULE ReplicatedLog ---------------------------
(***************************************************************************)
(* What Raft promises to the state machines: one log of commands that only *)
(* grows, of which every state machine is handed one command after the     *)
(* other, or a snapshot of its beginning.  Nothing is said of leaders,     *)
(* terms of leaders, calls, disks or who knows of the log.                 *)
(***************************************************************************)
EXTENDS Naturals, SequencesExt

CONSTANTS
  Server,
  Entry       \* what can be in the log

VARIABLES
  log,        \* the commands, in their order
  applied,    \* of each server, up to where it has had them
  handed      \* of each server, what its state machine was handed since it started

logVars == << log, applied, handed >>

\* Command i of l, or a snapshot up to it, which ends with it.
Command(l, i) == [ snapshot |-> FALSE, index |-> i, term |-> l[i] ]

SnapshotOf(l, i) == [ snapshot |-> TRUE, index |-> i, term |-> l[i] ]

\* The commands of l after i, up to j.
Commands(l, i, j) == [ k \in 1 .. j - i |-> Command(l, i + k) ]

\* Some commands may be in the log already.
Init ==
  /\ log \in Seq(Entry)
  /\ applied \in [ Server -> 0 .. Len(log) ]
  /\ handed = [ s \in Server |-> Commands(log, 0, applied[s]) ]

\* s is handed the commands that follow those it has had.
HandCommands(s) ==
  \E j \in applied[s] .. Len(log') :
    /\ applied' = [ applied EXCEPT ![s] = j ]
    /\ handed' = [ handed EXCEPT ![s] = @ \o Commands(log', applied[s], j) ]

\* s is handed a snapshot: one that is newer than its last snapshot may still be
\* older than what it has had.
HandSnapshot(s) ==
  \E i \in 1 .. Len(log') :
    /\ applied' = [ applied EXCEPT ![s] = IF i > @ THEN i ELSE @ ]
    /\ handed' = [ handed EXCEPT ![s] = Append(@, SnapshotOf(log', i)) ]

\* s starts again from some earlier position.
StartAgain(s) ==
  \E i \in 0 .. applied[s] :
    /\ applied' = [ applied EXCEPT ![s] = i ]
    /\ handed' = [ handed EXCEPT ![s] = << >> ]

Next ==
  /\ log' \in Seq(Entry) /\ IsPrefix(log, log')
  /\ \E s \in Server : HandCommands(s) \/ HandSnapshot(s) \/ StartAgain(s)

Spec == Init /\ [][Next]_logVars
=============================================================================
