----------------------------- MODULE Persister ------------------------------
(***************************************************************************)
(* The Persister, as a value: its two files, and what its two writers hold *)
(* in their buffers.  A file or a buffer is the sequence of what was       *)
(* written, so that an empty file is << >>.                                *)
(*                                                                         *)
(* save() and saveRaftState() are lists of steps, between which the        *)
(* process may die; mutex_ keeps readers out meanwhile.                    *)
(***************************************************************************)
EXTENDS Sequences

CONSTANTS
  NoFile,     \* what readRaftState() returns of an empty file
  ParseError  \* what readSnapShot() throws over an empty file

RaftState == "raftState"
SnapShot  == "snapShot"
Files     == {RaftState, SnapShot}

\* The constructor opens both files with ios_base::trunc.
NewPersister ==
  [ file |-> [f \in Files |-> << >>], writer |-> [f \in Files |-> << >>] ]

----------------------------------------------------------------------------
(* Steps on one file                                                       *)

Truncate(f) == [ step |-> "truncate", file |-> f, data |-> << >> ]
Write(f, d) == [ step |-> "write", file |-> f, data |-> << d >> ]
Flush(f)    == [ step |-> "flush", file |-> f, data |-> << >> ]

\* close() writes what is in the buffer; open() with trunc empties the file.
Do(p, s) ==
  CASE s.step = "truncate" -> [ p EXCEPT !.file[s.file] = << >>, !.writer[s.file] = << >> ]
    [] s.step = "write"    -> [ p EXCEPT !.writer[s.file] = @ \o s.data ]
    [] s.step = "flush"    -> [ p EXCEPT !.file[s.file] = @ \o p.writer[s.file],
                                         !.writer[s.file] = << >> ]

----------------------------------------------------------------------------
(* The operations                                                          *)

\* Mutant: nothing is flushed before the next write.
SaveRaftState_Buffered(state) == << Truncate(RaftState), Write(RaftState, state) >>

SaveRaftState(state) ==
  << Truncate(RaftState), Write(RaftState, state), Flush(RaftState) >>

Save(state, snapshot) ==
  << Truncate(RaftState), Truncate(SnapShot), Write(RaftState, state),
     Write(SnapShot, snapshot), Flush(RaftState), Flush(SnapShot) >>

\* A reader parses the first value in the file.
FirstIn(file, nothing) == IF file = << >> THEN nothing ELSE Head(file)

\* It catches the parse error of a file without a value, and returns "".
ReadRaftState(p) == FirstIn(p.file[RaftState], NoFile)

\* Closes the writer, which flushes it, reads the file, and opens the writer
\* to append.  Nothing catches the parse error of a file without a value.
Reopened(p) == Do(p, Flush(SnapShot))

ReadSnapShot(p) == FirstIn(Reopened(p).file[SnapShot], ParseError)
=============================================================================
