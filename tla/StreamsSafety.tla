--------------------------- MODULE StreamsSafety ---------------------------
(***************************************************************************)
(* What the reactors owe to gRPC, and the streams to the two servers.      *)
(***************************************************************************)
EXTENDS Streams

\* A reactor calls Finish once, whichever of its callbacks and the event loop
\* come together at its end ("avoid repeated finish", RaftRpcUtil.cc:546), and
\* gRPC has it until then.  OnWriteDone does not keep to it (RaftRpcUtil.cc:573):
\* once a failed write was the first that a stream's reactor heard of its end,
\* that stream may be finished again, and nothing is said of what follows.
FinishedOnce ==
  failedFirst \/
  \A i \in Stream : call[i].finishes <= 1 /\ (call[i].life = "deleted" => call[i].finishes = 1)

\* Whether a step starts an operation of stream i.
Starts(i) ==
  \/ call[i]'.sending > call[i].sending
  \/ call[i]'.reading /\ ~call[i].reading

\* No write is started while another is under way (TOO_MANY_OPERATIONS, the
\* comment at RaftRpcUtil.cc:652), the stream is not finished during a write
\* (the comment of TryFinish), and nothing is started on a stream that was
\* finished or through a reactor that was deleted (the comment at
\* RaftRpcUtil.cc:414): the callbacks of one stream run beside each other and
\* beside the event loop, which has no way to know of either.  As above, it says
\* nothing of what follows a write that failed first.
GrpcContract ==
  [][failedFirst' \/
     \A i \in Stream :
       /\ call[i]'.sending <= 1
       /\ call[i]'.finishes # call[i].finishes => call[i]'.sending = 0
       /\ Starts(i) => call[i].finishes = 0 /\ call[i].life # "deleted"]_streamVars

\* The peer reads the reply to the request it wrote, though one responder per
\* peer serves all its streams: what module Raft assumes of servers that are
\* not in Overtaken.
AnswersOwnRequest ==
  \A i \in Stream : ~overtaking /\ client[i].reply # None => client[i].reply = i

\* Every stream comes to its end, and with the bound on their number so do all:
\* OnDone deletes the reactor.  One that is never finished makes
\* RaftServer::shutdown wait for ever.
EveryStreamEnds == <>[](failedFirst \/ \A i \in Stream : ~overtaking => call[i].life # "open")

\* A request is answered on its own stream, as long as that stream is open.
OwnResponder ==
  IsNext("Request") =>
    LET i == Head(controlQueue).stream IN ~reactor[i].closed => responder = i
=============================================================================
