------------------------------ MODULE Streams ------------------------------
(***************************************************************************)
(* The streams on which one peer sends its requests, AppendEntries or      *)
(* InstallSnapshot, and this server its replies.                           *)
(*                                                                         *)
(* The peer opens a stream for each request (launchAppendEntries,          *)
(* launchSnapshot), and the next one when it is done with the last.  Here, *)
(* each stream has a reactor, whose callbacks gRPC runs on its threads;    *)
(* they and the event loop share the reactor under its mutex_, and hand    *)
(* what happened to the event loop as events.  The loop keeps one responder*)
(* per peer and kind, in streamServer_, and answers through it.            *)
(*                                                                         *)
(* Streams are numbered in the order in which the peer opens them; request *)
(* i is the one written to stream i, and reply i the answer to it.         *)
(***************************************************************************)
EXTENDS Naturals, Sequences

CONSTANTS
  MaxStreams,   \* bound: streams the peer opens
  Overtaking    \* kinds whose streams may overtake each other

Kind == {"AppendEntries", "InstallSnapshot"}

ASSUME StreamsAssumption == MaxStreams \in Nat /\ Overtaking \subseteq Kind

VARIABLES
  kind,         \* what the streams are for; it never changes
  overtaking,   \* whether a new stream may start before an old one is read
  client,       \* of each stream, its end at the peer
  call,         \* of each stream, what gRPC knows of it here
  reactor,      \* of each stream, the members of its reactor and StreamState
  responder,    \* the stream of the responder in streamServer_, or None
  controlQueue, \* the control queue of the event loop
  failedFirst   \* history: whether the first that the reactor of an AppendEntries
                \* stream heard of its end was a failed write

streamVars == << kind, overtaking, client, call, reactor, responder, controlQueue, failedFirst >>

\* What only OnWriteDone changes, or nothing.
unchanging == << kind, overtaking, failedFirst >>

Stream == 1 .. MaxStreams

None == 0

(***************************************************************************)
(* client:  at  "none", "waiting" (in Write and Read), "closing" (in       *)
(*              Close), "over"                                             *)
(*          reply     the reply it read                                    *)
(*          expired   its deadline passed, or the connection broke         *)
(*                                                                         *)
(* call:    life      "none", "open", "deleted" (OnDone has run)           *)
(*          unread    the request was not read yet                         *)
(*          reading   a StartRead without its OnReadDone                   *)
(*          sending   number of StartWrite's without their OnWriteDone     *)
(*          wire      the first reply written, for the client to read      *)
(*          finishes  number of Finish's                                   *)
(*          read, cancel   where OnReadDone and OnCancel are:  "none",     *)
(*                         "TryFinish", and "returned"                     *)
(*          after     what OnWriteDone does when it has left mutex_        *)
(*                                                                         *)
(* reactor: closed, writing, finished, pending     as closed_ etc.         *)
(*          reachable  the StreamState is alive, not closed, and has its   *)
(*                     reactor                                             *)
(***************************************************************************)
Nothing == [write |-> None, finish |-> FALSE]

NoClient == [at |-> "none", reply |-> None, expired |-> FALSE]

NoCall ==
  [life |-> "none", unread |-> FALSE, reading |-> FALSE, sending |-> 0, wire |-> None,
   finishes |-> 0, read |-> "none", cancel |-> "none", after |-> Nothing]

NewReactor ==
  [closed |-> FALSE, writing |-> FALSE, finished |-> FALSE, pending |-> << >>, reachable |-> TRUE]

\* A deleted one, and what its StreamState says of it.
NoReactor ==
  [closed |-> TRUE, writing |-> FALSE, finished |-> TRUE, pending |-> << >>, reachable |-> FALSE]

Event(what, i) == [what |-> what, stream |-> i]

\* Mutant: the last event first.
Post_Front(event) == controlQueue' = << event >> \o controlQueue

Post(event) == controlQueue' = Append(controlQueue, event)

\* What a reactor asks of gRPC.
StartWrite(c, reply) == [c EXCEPT !.sending = @ + 1, !.wire = IF @ = None THEN reply ELSE @]

Finish(c) == [c EXCEPT !.finishes = @ + 1]

----------------------------------------------------------------------------
(* The peer                                                                *)

ClientIs(i, at) ==
  /\ client' = [client EXCEPT ![i].at = at]
  /\ UNCHANGED << unchanging, call, reactor, responder, controlQueue >>

Open(i) ==
  /\ client[i].at = "none" /\ \A j \in 1 .. i - 1 : client[j].at = "over"
  /\ ClientIs(i, "waiting")

ReadReply(i) ==
  /\ client[i].at = "waiting" /\ call[i].wire # None
  /\ client' = [client EXCEPT ![i] = [@ EXCEPT !.at = "closing", !.reply = call[i].wire]]
  /\ UNCHANGED << unchanging, call, reactor, responder, controlQueue >>

\* Close(): WritesDone, then it waits for the status that Finish sends.
Closed(i) ==
  /\ client[i].at = "closing" /\ call[i].finishes > 0
  /\ ClientIs(i, "over")

\* Its deadline passed, or the connection broke: Write, Read or Close returns
\* without what it waited for.  Nothing else ends a call before a reply.
Expire(i) ==
  /\ client[i].at \in {"waiting", "closing"}
  /\ client' = [client EXCEPT ![i] = [@ EXCEPT !.at = "over", !.expired = TRUE]]
  /\ UNCHANGED << unchanging, call, reactor, responder, controlQueue >>

ClientStep(i) == ReadReply(i) \/ Closed(i) \/ Expire(i)

----------------------------------------------------------------------------
(* The reactor                                                             *)

\* Streams that do not overtake start one after the other, each when the
\* request of the one before has been read.
InOrder(i) ==
  /\ \A j \in i + 1 .. MaxStreams : call[j].life = "none"
  /\ \A j \in 1 .. i - 1 : call[j].life = "open" => ~call[j].unread

\* The constructor, on the thread on which gRPC accepts the call.
Construct(i) ==
  /\ client[i].at # "none" /\ call[i].life = "none"
  /\ overtaking \/ InOrder(i)
  /\ call' = [call EXCEPT ![i] = [@ EXCEPT !.life = "open", !.unread = TRUE, !.reading = TRUE]]
  /\ reactor' = [reactor EXCEPT ![i] = NewReactor]
  /\ Post(Event("StreamOn", i))
  /\ UNCHANGED << unchanging, client, responder >>

\* OnReadDone with a request: it is handed over, and the next one asked for.
OnReadDone(i) ==
  /\ call[i].life = "open" /\ call[i].reading /\ call[i].unread
  /\ call' = [call EXCEPT ![i] = [@ EXCEPT !.unread = FALSE,
                !.reading = ~reactor[i].closed /\ ~reactor[i].finished]]
  /\ Post(Event("Request", i))
  /\ UNCHANGED << unchanging, client, reactor, responder >>

\* Both critical sections: that of mutex_, and that of the StreamState.
Close(r) == [r EXCEPT !.closed = TRUE, !.reachable = FALSE]

\* The end is reported by the callback that learns of it first.
ReportClose(i) ==
  IF reactor[i].closed THEN UNCHANGED controlQueue ELSE Post(Event("StreamClose", i))

\* OnReadDone without one: the peer is done writing, or the call is over.
OnReadEnd(i) ==
  /\ call[i].life = "open" /\ call[i].reading
  /\ \/ client[i].at = "closing" /\ ~call[i].unread
     \/ client[i].at = "over" \/ call[i].finishes > 0
  /\ reactor' = [reactor EXCEPT ![i] = Close(@)]
  /\ ReportClose(i)
  /\ call' = [call EXCEPT ![i] = [@ EXCEPT !.unread = FALSE, !.reading = FALSE, !.read = "TryFinish"]]
  /\ UNCHANGED << unchanging, client, responder >>

\* gRPC calls it at any time after the call was cut off, but only once.
OnCancel(i) ==
  /\ call[i].life = "open" /\ client[i].expired /\ call[i].cancel = "none"
  /\ reactor' = [reactor EXCEPT ![i] = Close(@)]
  /\ ReportClose(i)
  /\ call' = [call EXCEPT ![i].cancel = "TryFinish"]
  /\ UNCHANGED << unchanging, client, responder >>

\* Mutant: a reply that is being written does not keep the stream.
MayFinish_Writing(r) == ~r.finished /\ r.closed

\* Mutant: whether another callback has finished it already is not asked.
MayFinish_Again(r) == ~r.writing /\ r.closed

\* An AppendEntries stream is not finished before its replies are sent.
MayFinish(r) ==
  /\ ~r.finished /\ ~r.writing /\ r.closed
  /\ kind = "AppendEntries" => r.pending = << >>

\* TryFinish, as it ends the callback that c is about.
TryFinish(i, c) ==
  /\ IF MayFinish(reactor[i])
     THEN /\ reactor' = [reactor EXCEPT ![i].finished = TRUE]
          /\ call' = [call EXCEPT ![i] = Finish(c)]
     ELSE call' = [call EXCEPT ![i] = c] /\ UNCHANGED reactor
  /\ UNCHANGED << unchanging, client, responder, controlQueue >>

ReadTryFinish(i) ==
  call[i].read = "TryFinish" /\ TryFinish(i, [call[i] EXCEPT !.read = "returned"])

CancelTryFinish(i) ==
  call[i].cancel = "TryFinish" /\ TryFinish(i, [call[i] EXCEPT !.cancel = "returned"])

\* Mutant: a stream that was closed during its last write is left to others.
EndsWithWrite_Never(r) == FALSE

EndsWithWrite(r) == r.closed /\ ~r.finished /\ r.pending = << >>

WritesNext(r) == ~r.closed /\ ~r.finished /\ r.pending # << >>

\* What the critical section of OnWriteDone leaves, after a failure or not.
AfterWrite(r) ==
  IF WritesNext(r) THEN [r EXCEPT !.writing = TRUE, !.pending = Tail(@)]
  ELSE [r EXCEPT !.finished = @ \/ EndsWithWrite(r)]

\* A first failure closes an InstallSnapshot stream; an AppendEntries stream
\* is finished instead, without closed_ and finished_.
OnWriteDone(i, ok) ==
  LET fails == ~ok /\ ~reactor[i].closed
      r     == [reactor[i] EXCEPT !.writing = FALSE,
                                  !.closed = @ \/ (fails /\ kind = "InstallSnapshot")]
  IN /\ call[i].sending > 0 /\ call[i].after = Nothing
     /\ ok \/ client[i].expired
     /\ reactor' = [reactor EXCEPT ![i] = AfterWrite(r)]
     /\ call' = [call EXCEPT ![i] = [call[i] EXCEPT !.sending = @ - 1,
                   !.after = [write  |-> IF WritesNext(r) THEN Head(r.pending) ELSE None,
                              finish |-> \/ fails /\ kind = "AppendEntries"
                                         \/ ~WritesNext(r) /\ EndsWithWrite(r)]]]
     /\ IF fails THEN Post(Event("StreamClose", i)) ELSE UNCHANGED controlQueue
     /\ failedFirst' = (failedFirst \/ (fails /\ kind = "AppendEntries"))
     /\ UNCHANGED << kind, overtaking, client, responder >>

\* The rest of OnWriteDone.
AfterWriteDone(i) ==
  LET a == call[i].after
      c == [call[i] EXCEPT !.after = Nothing]
      w == IF a.write # None THEN StartWrite(c, a.write) ELSE c
  IN /\ a # Nothing
     /\ call' = [call EXCEPT ![i] = IF a.finish THEN Finish(w) ELSE w]
     /\ UNCHANGED << unchanging, client, reactor, responder, controlQueue >>

\* The last callback, when nothing is under way: the end is reported, again.
OnDone(i) ==
  LET c == call[i]
  IN /\ c.life = "open" /\ c.finishes > 0
     /\ ~c.reading /\ c.sending = 0 /\ c.after = Nothing
     /\ c.read # "TryFinish" /\ c.cancel # "TryFinish"
     /\ reactor' = [reactor EXCEPT ![i] = NoReactor]
     /\ call' = [call EXCEPT ![i] = [NoCall EXCEPT !.life = "deleted", !.wire = c.wire,
                                                   !.finishes = c.finishes]]
     /\ Post(Event("StreamClose", i))
     /\ UNCHANGED << unchanging, client, responder >>

Callback(i) ==
  \/ OnReadDone(i) \/ OnReadEnd(i) \/ ReadTryFinish(i)
  \/ OnCancel(i) \/ CancelTryFinish(i)
  \/ \E ok \in BOOLEAN : OnWriteDone(i, ok)
  \/ AfterWriteDone(i) \/ OnDone(i)

----------------------------------------------------------------------------
(* The event loop                                                          *)

\* The reactor's SendReply: nothing at its end, or queued, or written.
SendReply(i, reply) ==
  LET r == reactor[i]
  IN IF r.closed \/ r.finished THEN UNCHANGED << call, reactor >>
     ELSE IF r.writing
     THEN reactor' = [reactor EXCEPT ![i].pending = Append(@, reply)] /\ UNCHANGED call
     ELSE /\ reactor' = [reactor EXCEPT ![i].writing = TRUE]
          /\ call' = [call EXCEPT ![i] = StartWrite(@, reply)]

IsNext(what) == controlQueue # << >> /\ Head(controlQueue).what = what

\* streamServer_[server].AEResponder.reset(raw)
HandleStreamOn ==
  /\ IsNext("StreamOn")
  /\ responder' = Head(controlQueue).stream
  /\ controlQueue' = Tail(controlQueue)
  /\ UNCHANGED << unchanging, client, call, reactor >>

\* Whichever responder is there goes.
HandleStreamClose ==
  /\ IsNext("StreamClose")
  /\ responder' = None
  /\ controlQueue' = Tail(controlQueue)
  /\ UNCHANGED << unchanging, client, call, reactor >>

\* The end of handleAppendEntries, handleReadHeartBeat, handleInstallSnapshot:
\* the reply goes to the responder of that time, if it still has its reactor.
HandleRequest ==
  /\ IsNext("Request")
  /\ IF responder # None /\ reactor[responder].reachable
     THEN SendReply(responder, Head(controlQueue).stream)
     ELSE UNCHANGED << call, reactor >>
  /\ controlQueue' = Tail(controlQueue)
  /\ UNCHANGED << unchanging, client, responder >>

EventStep == HandleStreamOn \/ HandleStreamClose \/ HandleRequest

----------------------------------------------------------------------------
Init ==
  /\ kind \in Kind
  /\ overtaking \in BOOLEAN /\ (overtaking => kind \in Overtaking)
  /\ client = [i \in Stream |-> NoClient]
  /\ call = [i \in Stream |-> NoCall]
  /\ reactor = [i \in Stream |-> NoReactor]
  /\ responder = None
  /\ controlQueue = << >>
  /\ failedFirst = FALSE

Next ==
  \/ EventStep
  \/ \E i \in Stream : Open(i) \/ ClientStep(i) \/ Construct(i) \/ Callback(i)

Spec == Init /\ [][Next]_streamVars

(***************************************************************************)
(* gRPC runs the callbacks it owes, the event loop its events, and a peer  *)
(* does not wait longer than its deadline; in which order is left open.  No*)
(* stream need be opened, nor arrive here.                                 *)
(***************************************************************************)
Owed == EventStep \/ \E i \in Stream : ClientStep(i) \/ Callback(i)

FairSpec == Spec /\ WF_streamVars(Owed)
=============================================================================
