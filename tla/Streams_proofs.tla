--------------------------- MODULE Streams_proofs ---------------------------
(***************************************************************************)
(* A stream of the server is finished once, and gRPC's contract is kept,   *)
(* for any number of streams, however they overtake each other, as long as *)
(* a failed write is never the first sign that an AppendEntries stream     *)
(* has ended.                                                              *)
(* And as long as no stream has overtaken another, the peer reads on each  *)
(* the reply to the request it wrote there.                                *)
(***************************************************************************)
EXTENDS StreamsSafety, SequenceTheorems, TLAPS

AfterType == [write : Nat, finish : BOOLEAN]

CallType ==
  [life : {"none", "open", "deleted"}, unread : BOOLEAN, reading : BOOLEAN, sending : Nat,
   wire : Nat, finishes : Nat, read : {"none", "TryFinish", "returned"},
   cancel : {"none", "TryFinish", "returned"}, after : AfterType]

ReactorType ==
  [closed : BOOLEAN, writing : BOOLEAN, finished : BOOLEAN, pending : Seq(Stream),
   reachable : BOOLEAN]

EventType == [what : {"StreamOn", "Request", "StreamClose"}, stream : Stream]

\* How the reactor's members go with what gRPC has been asked for.  writing_ is
\* set from the call of StartWrite until its OnWriteDone, also between its
\* critical section and the next write; finished_ from the moment when Finish
\* is certain.
OpenIsSound(c, r) ==
  /\ r.writing <=> c.sending = 1 \/ c.after.write # None
  /\ c.sending = 1 => c.after.write = None /\ ~c.after.finish
  /\ c.after.finish => c.after.write = None /\ c.finishes = 0
  /\ r.finished <=> c.finishes = 1 \/ c.after.finish
  /\ c.finishes <= 1
  /\ r.finished => r.closed /\ ~r.writing

ClosedIsSound(c, r) ==
  /\ r.closed /\ r.finished /\ ~r.reachable
  /\ c.sending = 0 /\ c.after.write = None /\ ~c.after.finish /\ ~c.reading
  /\ c.finishes = IF c.life = "deleted" THEN 1 ELSE 0

Sound(c, r) ==
  /\ c \in CallType /\ r \in ReactorType /\ c.sending <= 1
  /\ IF c.life = "open" THEN OpenIsSound(c, r) ELSE ClosedIsSound(c, r)

StreamInv ==
  /\ call = [i \in Stream |-> call[i]] /\ reactor = [i \in Stream |-> reactor[i]]
  /\ \A i \in Stream : Sound(call[i], reactor[i])
  /\ responder \in Stream \cup {None}
  /\ controlQueue \in Seq(EventType)
  /\ kind \in Kind

\* What GrpcContract and the end of the stream ask of one step of a call.
Contract(c, d) ==
  /\ d.sending <= 1
  /\ d.finishes # c.finishes => d.sending = 0
  /\ d.sending > c.sending \/ (d.reading /\ ~c.reading) => c.finishes = 0 /\ c.life # "deleted"

-----------------------------------------------------------------------------
\* Nothing to do is something OnWriteDone may leave.
LEMMA NothingType == Nothing \in AfterType
  BY DEF Nothing, AfterType, None

\* A sound call that does not change keeps the contract.
LEMMA Unchanged ==
  ASSUME NEW c, NEW r, Sound(c, r)
  PROVE  Contract(c, c)
  BY DEF Sound, Contract, CallType

\* A step that changes one stream soundly keeps the invariant and the contract.
LEMMA OneStream ==
  ASSUME StreamInv, NEW i \in Stream, NEW c, NEW r,
         call' = [call EXCEPT ![i] = c], reactor' = [reactor EXCEPT ![i] = r],
         Sound(c, r), Contract(call[i], c), kind' = kind,
         responder' \in Stream \cup {None}, controlQueue' \in Seq(EventType)
  PROVE  StreamInv' /\ \A j \in Stream : Contract(call[j], call'[j])
  <1>1. /\ call'[i] = c /\ reactor'[i] = r
        /\ \A j \in Stream \ {i} : call'[j] = call[j] /\ reactor'[j] = reactor[j]
        /\ call' = [j \in Stream |-> call'[j]] /\ reactor' = [j \in Stream |-> reactor'[j]]
    BY DEF StreamInv
  <1>2. \A j \in Stream : Sound(call'[j], reactor'[j])  BY <1>1 DEF StreamInv
  <1>3. \A j \in Stream : Contract(call[j], call'[j])  BY <1>1, Unchanged DEF StreamInv
  <1> QED BY <1>1, <1>2, <1>3 DEF StreamInv

\* A step that changes no stream keeps them too.
LEMMA NoStream ==
  ASSUME StreamInv, UNCHANGED << call, reactor, kind >>,
         responder' \in Stream \cup {None}, controlQueue' \in Seq(EventType)
  PROVE  StreamInv' /\ \A j \in Stream : Contract(call[j], call'[j])
  BY Unchanged DEF StreamInv

\* Events that are posted are events.
LEMMA PostTypes ==
  ASSUME StreamInv, NEW i \in Stream, NEW what \in {"StreamOn", "Request", "StreamClose"},
         Post(Event(what, i)) \/ UNCHANGED controlQueue
  PROVE  controlQueue' \in Seq(EventType)
  <1>1. Event(what, i) \in EventType  BY DEF Event, EventType
  <1> QED BY <1>1, AppendProperties DEF StreamInv, Post

-----------------------------------------------------------------------------
(* The callbacks of one reactor.                                           *)

\* A new reactor is sound.
LEMMA ConstructSteps ==
  ASSUME StreamInv, NEW i \in Stream, Construct(i)
  PROVE  StreamInv' /\ \A j \in Stream : Contract(call[j], call'[j])
  <1> DEFINE c == [call[i] EXCEPT !.life = "open", !.unread = TRUE, !.reading = TRUE]
  <1>1. /\ call' = [call EXCEPT ![i] = c] /\ reactor' = [reactor EXCEPT ![i] = NewReactor]
        /\ kind' = kind /\ responder' = responder /\ Post(Event("StreamOn", i))
        /\ call[i].life = "none" /\ Sound(call[i], reactor[i])
    BY DEF Construct, unchanging, StreamInv
  <1>2. Sound(c, NewReactor)
    <2>1. /\ call[i] \in CallType /\ call[i].sending = 0 /\ call[i].after.write = None
          /\ ~call[i].after.finish /\ call[i].finishes = 0
      BY <1>1 DEF Sound, ClosedIsSound
    <2>2. /\ c \in CallType /\ c.life = "open" /\ c.sending = call[i].sending
          /\ c.after = call[i].after /\ c.finishes = call[i].finishes
      BY <2>1 DEF CallType
    <2>3. NewReactor \in ReactorType  BY EmptySeq DEF ReactorType, NewReactor
    <2>4. ~NewReactor.writing /\ ~NewReactor.finished  BY DEF NewReactor
    <2> HIDE DEF c
    <2> QED BY <2>1, <2>2, <2>3, <2>4 DEF Sound, OpenIsSound
  <1>3. Contract(call[i], c)  BY <1>1 DEF Sound, ClosedIsSound, CallType, Contract
  <1>4. controlQueue' \in Seq(EventType)  BY <1>1, PostTypes
  <1> HIDE DEF c
  <1> QED BY <1>1, <1>2, <1>3, <1>4, OneStream DEF StreamInv

\* Reading a request changes neither writes nor the end.
LEMMA OnReadDoneSteps ==
  ASSUME StreamInv, NEW i \in Stream, OnReadDone(i)
  PROVE  StreamInv' /\ \A j \in Stream : Contract(call[j], call'[j])
  <1> DEFINE c == [call[i] EXCEPT !.unread = FALSE,
                     !.reading = ~reactor[i].closed /\ ~reactor[i].finished]
  <1>1. /\ call' = [call EXCEPT ![i] = c] /\ reactor' = [reactor EXCEPT ![i] = reactor[i]]
        /\ kind' = kind /\ responder' = responder /\ Post(Event("Request", i))
        /\ call[i].life = "open" /\ call[i].reading /\ Sound(call[i], reactor[i])
    BY DEF OnReadDone, unchanging, StreamInv
  <1>2. Sound(c, reactor[i])  BY <1>1 DEF Sound, OpenIsSound, CallType, ReactorType
  <1>3. Contract(call[i], c)  BY <1>1 DEF Sound, OpenIsSound, CallType, Contract
  <1>4. controlQueue' \in Seq(EventType)  BY <1>1, PostTypes
  <1> HIDE DEF c
  <1> QED BY <1>1, <1>2, <1>3, <1>4, OneStream DEF StreamInv

\* Closing a reactor leaves it sound.
LEMMA CloseSound ==
  ASSUME NEW c, NEW r, Sound(c, r), c.life = "open"
  PROVE  Sound(c, Close(r)) /\ Close(r).closed
  BY DEF Sound, OpenIsSound, Close, ReactorType

\* So do the ends of OnReadDone and of OnCancel before they try to finish.
LEMMA CloseSteps ==
  ASSUME StreamInv, NEW i \in Stream, OnReadEnd(i) \/ OnCancel(i)
  PROVE  StreamInv' /\ \A j \in Stream : Contract(call[j], call'[j])
  <1> DEFINE c == [call[i] EXCEPT !.unread = FALSE, !.reading = FALSE, !.read = "TryFinish"]
             d == [call[i] EXCEPT !.cancel = "TryFinish"]
             r == Close(reactor[i])
  <1>1. /\ call' = [call EXCEPT ![i] = c] \/ call' = [call EXCEPT ![i] = d]
        /\ reactor' = [reactor EXCEPT ![i] = r]
        /\ kind' = kind /\ responder' = responder
        /\ Post(Event("StreamClose", i)) \/ UNCHANGED controlQueue
        /\ call[i].life = "open" /\ Sound(call[i], reactor[i])
    BY DEF OnReadEnd, OnCancel, ReportClose, unchanging, StreamInv
  <1>2. Sound(call[i], r)  BY <1>1, CloseSound
  <1>3. controlQueue' \in Seq(EventType)  BY <1>1, PostTypes
  <1> HIDE DEF r
  <1>4. ASSUME NEW e \in {c, d}
        PROVE  Sound(e, r) /\ Contract(call[i], e)
    <2>1. call[i] \in CallType  BY <1>1 DEF Sound
    <2>2. /\ e \in CallType /\ e.life = call[i].life /\ e.sending = call[i].sending
          /\ e.after = call[i].after /\ e.finishes = call[i].finishes
          /\ e.reading => call[i].reading
      BY <2>1 DEF CallType
    <2> HIDE DEF c, d
    <2>3. Sound(e, r)  BY <1>1, <1>2, <2>2 DEF Sound, OpenIsSound
    <2>4. Contract(call[i], e)  BY <1>1, <2>1, <2>2 DEF Sound, CallType, Contract
    <2> QED BY <2>3, <2>4
  <1>5. Sound(c, r) /\ Contract(call[i], c) /\ Sound(d, r) /\ Contract(call[i], d)
    BY <1>4
  <1> HIDE DEF c, d
  <1> QED BY <1>1, <1>3, <1>5, OneStream DEF StreamInv

\* TryFinish asks for the end once, when no write is under way.
LEMMA TryFinishSteps ==
  ASSUME StreamInv, NEW i \in Stream, ReadTryFinish(i) \/ CancelTryFinish(i)
  PROVE  StreamInv' /\ \A j \in Stream : Contract(call[j], call'[j])
  <1>1. PICK c \in { [call[i] EXCEPT !.read = "returned"], [call[i] EXCEPT !.cancel = "returned"] } :
          TryFinish(i, c)
    BY DEF ReadTryFinish, CancelTryFinish
  <1>2. Sound(call[i], reactor[i]) /\ Sound(c, reactor[i]) /\ Contract(call[i], c)
    <2>1. Sound(call[i], reactor[i]) /\ call[i] \in CallType  BY DEF StreamInv, Sound
    <2>2. /\ c \in CallType /\ c.life = call[i].life /\ c.sending = call[i].sending
          /\ c.after = call[i].after /\ c.finishes = call[i].finishes
          /\ c.reading = call[i].reading
      BY <2>1 DEF CallType
    <2>3. Sound(c, reactor[i])  BY <2>1, <2>2 DEF Sound, OpenIsSound, ClosedIsSound
    <2>4. Contract(call[i], c)  BY <2>1, <2>2 DEF Sound, CallType, Contract
    <2> QED BY <2>1, <2>3, <2>4
  <1>3. /\ kind' = kind /\ responder' = responder /\ controlQueue' = controlQueue
        /\ c.finishes = call[i].finishes /\ c.sending = call[i].sending
        /\ c.reading = call[i].reading /\ c.life = call[i].life
    BY <1>1, <1>2 DEF TryFinish, unchanging, Sound, CallType
  <1>4. CASE MayFinish(reactor[i])
    <2> DEFINE r == [reactor[i] EXCEPT !.finished = TRUE]
    <2>1. call' = [call EXCEPT ![i] = Finish(c)] /\ reactor' = [reactor EXCEPT ![i] = r]
      BY <1>1, <1>4 DEF TryFinish
    <2>2. reactor[i].closed /\ ~reactor[i].writing /\ ~reactor[i].finished  BY <1>4 DEF MayFinish
    <2>3. c.life = "open" /\ c.sending = 0 /\ c.finishes = 0
      BY <1>2, <2>2 DEF Sound, OpenIsSound, ClosedIsSound, CallType, ReactorType
    <2>4. Sound(Finish(c), r)
      <3>1. c \in CallType /\ reactor[i] \in ReactorType /\ OpenIsSound(c, reactor[i])
        BY <1>2, <2>3 DEF Sound
      <3>2. /\ Finish(c) \in CallType /\ Finish(c).life = "open" /\ Finish(c).sending = 0
            /\ Finish(c).finishes = 1 /\ Finish(c).after = c.after
        BY <2>3, <3>1 DEF CallType, Finish
      <3>3. r \in ReactorType /\ r.closed /\ r.finished /\ ~r.writing
        BY <2>2, <3>1 DEF ReactorType
      <3> HIDE DEF r
      <3>4. c.after.write = None /\ ~c.after.finish
        BY <2>2, <2>3, <3>1 DEF OpenIsSound
      <3> QED BY <3>2, <3>3, <3>4 DEF Sound, OpenIsSound
    <2>5. Contract(call[i], Finish(c))
      BY <1>2, <1>3, <2>3 DEF Sound, CallType, Finish, Contract
    <2> HIDE DEF r
    <2> QED BY <1>3, <2>1, <2>4, <2>5, OneStream DEF StreamInv
  <1>5. CASE ~MayFinish(reactor[i])
    <2>1. call' = [call EXCEPT ![i] = c] /\ reactor' = [reactor EXCEPT ![i] = reactor[i]]
      BY <1>1, <1>5 DEF TryFinish, StreamInv
    <2> QED BY <1>2, <1>3, <2>1, OneStream DEF StreamInv
  <1> QED BY <1>4, <1>5

-----------------------------------------------------------------------------
(* Writes.                                                                 *)

\* OnWriteDone hands on the next reply, or the end, and never both: a failure
\* that comes first closes the stream, because it is no AppendEntries stream.
LEMMA OnWriteDoneSteps ==
  ASSUME StreamInv, ~failedFirst',
         NEW i \in Stream, NEW ok \in BOOLEAN, OnWriteDone(i, ok)
  PROVE  StreamInv' /\ \A j \in Stream : Contract(call[j], call'[j])
  <1> DEFINE fails == ~ok /\ ~reactor[i].closed
             r == [reactor[i] EXCEPT !.writing = FALSE,
                                     !.closed = @ \/ (fails /\ kind = "InstallSnapshot")]
             a == [write  |-> IF WritesNext(r) THEN Head(r.pending) ELSE None,
                   finish |-> ~WritesNext(r) /\ EndsWithWrite(r)]
             c == [call[i] EXCEPT !.sending = @ - 1, !.after = a]
  <1>1. /\ reactor' = [reactor EXCEPT ![i] = AfterWrite(r)]
        /\ call' = [call EXCEPT ![i] = [call[i] EXCEPT !.sending = @ - 1,
                      !.after = [write  |-> IF WritesNext(r) THEN Head(r.pending) ELSE None,
                                 finish |-> \/ fails /\ kind = "AppendEntries"
                                            \/ ~WritesNext(r) /\ EndsWithWrite(r)]]]
        /\ failedFirst' = (failedFirst \/ (fails /\ kind = "AppendEntries"))
        /\ Post(Event("StreamClose", i)) \/ UNCHANGED controlQueue
        /\ kind' = kind /\ responder' = responder
        /\ call[i].sending > 0 /\ call[i].after = Nothing /\ Sound(call[i], reactor[i])
    BY DEF OnWriteDone, unchanging, StreamInv
  <1>2. fails => kind # "AppendEntries"  BY <1>1
  <1>3. call' = [call EXCEPT ![i] = c]  BY <1>1, <1>2
  <1>4. /\ call[i] \in CallType /\ reactor[i] \in ReactorType
        /\ call[i].life = "open" /\ call[i].sending = 1 /\ call[i].finishes = 0
        /\ ~reactor[i].finished
    BY <1>1 DEF Sound, OpenIsSound, ClosedIsSound, CallType, ReactorType
  <1>5. r \in ReactorType /\ ~r.writing /\ ~r.finished  BY <1>4 DEF ReactorType
  <1> HIDE DEF r
  <1>c. c = [call[i] EXCEPT !.sending = 0, !.after = a]
    <2>1. call[i].sending - 1 = 0  BY <1>4
    <2> HIDE DEF a
    <2> QED BY <2>1
  <1>6. Contract(call[i], c)  BY <1>4 DEF CallType, Contract
  <1>7. Sound(c, AfterWrite(r))
    <2>1. CASE WritesNext(r)
      <3>1. r.pending \in Seq(Stream) /\ r.pending # << >>  BY <1>5, <2>1 DEF WritesNext, ReactorType
      <3>2. Head(r.pending) \in Stream /\ Tail(r.pending) \in Seq(Stream)
        BY <3>1, HeadTailProperties
      <3>3. Head(r.pending) \in Nat /\ Head(r.pending) # None
        BY <3>2, StreamsAssumption DEF Stream, None
      <3>4. a = [write |-> Head(r.pending), finish |-> FALSE]  BY <2>1
      <3>5. AfterWrite(r) = [r EXCEPT !.writing = TRUE, !.pending = Tail(@)]
        BY <2>1 DEF AfterWrite
      <3> HIDE DEF a
      <3>6. a \in AfterType /\ a.write # None /\ ~a.finish
        BY <3>3, <3>4 DEF AfterType
      <3>7. /\ c \in CallType /\ c.life = "open" /\ c.sending = 0 /\ c.finishes = 0
            /\ c.after.write # None /\ ~c.after.finish
        <4> HIDE DEF a, c
        <4>1. c \in CallType /\ c.after = a  BY <1>4, <1>c, <3>6 DEF CallType
        <4> QED BY <1>4, <1>c, <3>6, <4>1 DEF CallType
      <3>8. AfterWrite(r) \in ReactorType /\ AfterWrite(r).writing /\ ~AfterWrite(r).finished
        BY <1>5, <3>2, <3>5 DEF ReactorType
      <3> HIDE DEF c
      <3> QED BY <3>7, <3>8 DEF Sound, OpenIsSound
    <2>2. CASE ~WritesNext(r)
      <3>1. a = [write |-> None, finish |-> EndsWithWrite(r)]
        BY <2>2 DEF EndsWithWrite
      <3>2. AfterWrite(r) = [r EXCEPT !.finished = EndsWithWrite(r)]
        BY <1>5, <2>2 DEF AfterWrite, EndsWithWrite, ReactorType
      <3>3. EndsWithWrite(r) \in BOOLEAN /\ (EndsWithWrite(r) => r.closed)
        BY DEF EndsWithWrite
      <3> HIDE DEF a
      <3>4. /\ a \in AfterType /\ a.write = None
            /\ a.finish = EndsWithWrite(r)
        BY <3>1, <3>3 DEF AfterType, None
      <3>5. /\ c \in CallType /\ c.life = "open" /\ c.sending = 0 /\ c.finishes = 0
            /\ c.after.write = None /\ c.after.finish = EndsWithWrite(r)
        <4> HIDE DEF a, c
        <4>1. c \in CallType /\ c.after = a  BY <1>4, <1>c, <3>4 DEF CallType
        <4> QED BY <1>4, <1>c, <3>4, <4>1 DEF CallType
      <3>6. /\ AfterWrite(r) \in ReactorType /\ ~AfterWrite(r).writing
            /\ AfterWrite(r).finished = EndsWithWrite(r) /\ AfterWrite(r).closed = r.closed
        BY <1>5, <3>2, <3>3 DEF ReactorType
      <3> HIDE DEF c
      <3> QED BY <3>3, <3>5, <3>6 DEF Sound, OpenIsSound
    <2> QED BY <2>1, <2>2
  <1>8. controlQueue' \in Seq(EventType)  BY <1>1, PostTypes
  <1> HIDE DEF c
  <1> QED BY <1>1, <1>3, <1>6, <1>7, <1>8, OneStream DEF StreamInv

\* The rest of OnWriteDone starts the one or asks for the other.
LEMMA AfterWriteDoneSteps ==
  ASSUME StreamInv, NEW i \in Stream, AfterWriteDone(i)
  PROVE  StreamInv' /\ \A j \in Stream : Contract(call[j], call'[j])
  <1> DEFINE a == call[i].after
             c == [call[i] EXCEPT !.after = Nothing]
             w == IF a.write # None THEN StartWrite(c, a.write) ELSE c
             d == IF a.finish THEN Finish(w) ELSE w
  <1>1. /\ a # Nothing /\ call' = [call EXCEPT ![i] = d]
        /\ reactor' = [reactor EXCEPT ![i] = reactor[i]]
        /\ kind' = kind /\ responder' = responder /\ controlQueue' = controlQueue
        /\ Sound(call[i], reactor[i])
    BY DEF AfterWriteDone, unchanging, StreamInv
  <1>2. /\ call[i] \in CallType /\ a \in AfterType /\ a.write \in Nat
        /\ a.write # None \/ a.finish
    BY <1>1 DEF Sound, CallType, AfterType, Nothing
  <1>3. call[i].life = "open" /\ OpenIsSound(call[i], reactor[i])
    BY <1>1, <1>2 DEF Sound, ClosedIsSound
  <1>4. Sound(d, reactor[i]) /\ Contract(call[i], d)
    <2>1. CASE a.write # None
      <3>1. ~a.finish /\ call[i].sending = 0 /\ call[i].finishes = 0
        BY <1>1, <1>2, <1>3, <2>1 DEF Sound, OpenIsSound, CallType
      <3>2. d = StartWrite(c, a.write)  BY <2>1, <3>1
      <3> HIDE DEF d, w
      <3>3. /\ d \in CallType /\ d.life = "open" /\ d.sending = 1 /\ d.finishes = 0
            /\ d.after = Nothing /\ d.reading = call[i].reading
        <4>1. /\ c \in CallType /\ c.life = "open" /\ c.sending = 0 /\ c.finishes = 0
              /\ c.after = Nothing /\ c.reading = call[i].reading
          BY <1>2, <1>3, <3>1, NothingType DEF CallType
        <4> HIDE DEF c
        <4>2. PICK x \in Nat : d = [c EXCEPT !.sending = 1, !.wire = x]
          <5> DEFINE x == IF c.wire = None THEN a.write ELSE c.wire
          <5>1. x \in Nat /\ c.sending + 1 = 1  BY <1>2, <4>1 DEF CallType
          <5>2. d = [c EXCEPT !.sending = 1, !.wire = x]  BY <3>2, <5>1 DEF StartWrite
          <5> HIDE DEF x, d
          <5> QED BY <5>1, <5>2
        <4> HIDE DEF d
        <4> QED BY <4>1, <4>2 DEF CallType
      <3>4. d.after.write = None /\ ~d.after.finish  BY <3>3 DEF Nothing
      <3>5. reactor[i].writing /\ ~reactor[i].finished
        BY <1>3, <2>1, <3>1 DEF OpenIsSound
      <3>6. Sound(d, reactor[i])  BY <1>1, <3>3, <3>4, <3>5 DEF Sound, OpenIsSound
      <3>7. Contract(call[i], d)  BY <1>2, <1>3, <3>1, <3>3 DEF CallType, Contract
      <3> QED BY <3>6, <3>7
    <2>2. CASE a.write = None
      <3>1. a.finish /\ call[i].sending = 0 /\ call[i].finishes = 0
        BY <1>1, <1>2, <1>3, <2>2 DEF Sound, OpenIsSound, CallType, ReactorType
      <3>2. d = Finish(c)  BY <2>2, <3>1
      <3> HIDE DEF d, w
      <3>3. /\ d \in CallType /\ d.life = "open" /\ d.sending = 0 /\ d.finishes = 1
            /\ d.after = Nothing /\ d.reading = call[i].reading
        <4>1. /\ c \in CallType /\ c.life = "open" /\ c.sending = 0 /\ c.finishes = 0
              /\ c.after = Nothing /\ c.reading = call[i].reading
          BY <1>2, <1>3, <3>1, NothingType DEF CallType
        <4> HIDE DEF c
        <4> QED BY <3>2, <4>1 DEF CallType, Finish
      <3>4. d.after.write = None /\ ~d.after.finish  BY <3>3 DEF Nothing
      <3>5. ~reactor[i].writing /\ reactor[i].finished /\ reactor[i].closed
        BY <1>3, <2>2, <3>1 DEF OpenIsSound
      <3>6. Sound(d, reactor[i])  BY <1>1, <3>3, <3>4, <3>5 DEF Sound, OpenIsSound
      <3>7. Contract(call[i], d)  BY <1>2, <1>3, <3>1, <3>3 DEF CallType, Contract
      <3> QED BY <3>6, <3>7
    <2> QED BY <2>1, <2>2
  <1> HIDE DEF d
  <1> QED BY <1>1, <1>4, OneStream DEF StreamInv

\* A stream that OnDone deletes has been finished, once.
LEMMA OnDoneSteps ==
  ASSUME StreamInv, NEW i \in Stream, OnDone(i)
  PROVE  StreamInv' /\ \A j \in Stream : Contract(call[j], call'[j])
  <1> DEFINE d == [NoCall EXCEPT !.life = "deleted", !.wire = call[i].wire,
                                 !.finishes = call[i].finishes]
  <1>1. /\ call' = [call EXCEPT ![i] = d] /\ reactor' = [reactor EXCEPT ![i] = NoReactor]
        /\ kind' = kind /\ responder' = responder /\ Post(Event("StreamClose", i))
        /\ call[i].life = "open" /\ call[i].finishes > 0 /\ Sound(call[i], reactor[i])
    BY DEF OnDone, unchanging, StreamInv
  <1>2. call[i].finishes = 1 /\ call[i].wire \in Nat
    BY <1>1 DEF Sound, OpenIsSound, CallType
  <1>3. Sound(d, NoReactor)
    <2>1. /\ d \in CallType /\ d.life = "deleted" /\ d.sending = 0 /\ d.finishes = 1
          /\ d.after = Nothing /\ ~d.reading
      <3>1. NoCall \in CallType  BY NothingType DEF CallType, NoCall, None
      <3>2. NoCall.sending = 0 /\ NoCall.after = Nothing /\ ~NoCall.reading  BY DEF NoCall
      <3>3. d = [NoCall EXCEPT !.life = "deleted", !.wire = call[i].wire, !.finishes = 1]
        BY <1>2
      <3> HIDE DEF d
      <3> QED BY <1>2, <3>1, <3>2, <3>3 DEF CallType
    <2>2. NoReactor \in ReactorType  BY EmptySeq DEF ReactorType, NoReactor
    <2>3. NoReactor.closed /\ NoReactor.finished /\ ~NoReactor.reachable  BY DEF NoReactor
    <2> HIDE DEF d
    <2> QED BY <2>1, <2>2, <2>3 DEF Sound, ClosedIsSound, Nothing
  <1>4. Contract(call[i], d)
    <2>1. d.sending = 0 /\ d.finishes = 1 /\ ~d.reading  BY <1>2 DEF NoCall
    <2>2. call[i].sending \in Nat  BY <1>1 DEF Sound, CallType
    <2> HIDE DEF d
    <2> QED BY <1>2, <2>1, <2>2 DEF Contract
  <1>5. controlQueue' \in Seq(EventType)  BY <1>1, PostTypes
  <1> HIDE DEF d
  <1> QED BY <1>1, <1>3, <1>4, <1>5, OneStream DEF StreamInv

-----------------------------------------------------------------------------
(* The event loop.                                                         *)

\* A reply is written when nothing else is, and before the end.
LEMMA SendReplySteps ==
  ASSUME StreamInv, NEW i \in Stream, NEW reply \in Stream, SendReply(i, reply),
         kind' = kind, responder' = responder, controlQueue' \in Seq(EventType)
  PROVE  StreamInv' /\ \A j \in Stream : Contract(call[j], call'[j])
  <1> DEFINE r == reactor[i]
             q == [r EXCEPT !.pending = Append(@, reply)]
             w == [r EXCEPT !.writing = TRUE]
             c == StartWrite(call[i], reply)
  <1>1. Sound(call[i], r) /\ call = [call EXCEPT ![i] = call[i]]  BY DEF StreamInv
  <1>2. CASE r.closed \/ r.finished
    BY <1>2, NoStream DEF SendReply, StreamInv
  <1>3. CASE ~r.closed /\ ~r.finished /\ r.writing
    <2>1. reactor' = [reactor EXCEPT ![i] = q] /\ call' = [call EXCEPT ![i] = call[i]]
      BY <1>1, <1>3 DEF SendReply
    <2>2. Append(r.pending, reply) \in Seq(Stream)
      BY <1>1, AppendProperties DEF Sound, ReactorType
    <2>3. Sound(call[i], q)
      BY <1>1, <1>3, <2>2 DEF Sound, OpenIsSound, ClosedIsSound, ReactorType
    <2>4. Contract(call[i], call[i])  BY <1>1, Unchanged
    <2> HIDE DEF q
    <2> QED BY <2>1, <2>3, <2>4, OneStream DEF StreamInv
  <1>4. CASE ~r.closed /\ ~r.finished /\ ~r.writing
    <2>1. reactor' = [reactor EXCEPT ![i] = w] /\ call' = [call EXCEPT ![i] = c]
      BY <1>4 DEF SendReply
    <2>2. /\ call[i] \in CallType /\ call[i].life = "open" /\ call[i].sending = 0
          /\ call[i].finishes = 0 /\ reply \in Nat
      BY <1>1, <1>4, StreamsAssumption DEF Sound, OpenIsSound, ClosedIsSound, CallType, Stream
    <2>3. Sound(c, w)
      <3>1. r \in ReactorType /\ OpenIsSound(call[i], r)  BY <1>1, <2>2 DEF Sound
      <3>2. /\ c \in CallType /\ c.life = "open" /\ c.sending = 1 /\ c.finishes = 0
            /\ c.after = call[i].after
        <4>1. PICK x \in Nat : c = [call[i] EXCEPT !.sending = 1, !.wire = x]
          <5> DEFINE x == IF call[i].wire = None THEN reply ELSE call[i].wire
          <5>1. x \in Nat /\ call[i].sending + 1 = 1  BY <2>2 DEF CallType
          <5>2. c = [call[i] EXCEPT !.sending = 1, !.wire = x]  BY <5>1 DEF StartWrite
          <5> HIDE DEF x, c
          <5> QED BY <5>1, <5>2
        <4> HIDE DEF c
        <4> QED BY <2>2, <4>1 DEF CallType
      <3>3. w \in ReactorType /\ w.writing /\ ~w.finished
        BY <1>4, <3>1 DEF ReactorType
      <3>4. call[i].after.write = None /\ ~call[i].after.finish
        BY <1>4, <2>2, <3>1 DEF OpenIsSound
      <3> HIDE DEF c, w
      <3> QED BY <3>2, <3>3, <3>4 DEF Sound, OpenIsSound
    <2>4. Contract(call[i], c)  BY <2>2 DEF CallType, StartWrite, Contract
    <2> HIDE DEF w, c
    <2> QED BY <2>1, <2>3, <2>4, OneStream DEF StreamInv
  <1> QED BY <1>2, <1>3, <1>4

\* The event loop keeps the invariant, whichever responder answers.
LEMMA EventSteps ==
  ASSUME StreamInv, EventStep
  PROVE  StreamInv' /\ \A j \in Stream : Contract(call[j], call'[j])
  <1>1. controlQueue # << >> /\ controlQueue' = Tail(controlQueue)
    BY DEF EventStep, HandleStreamOn, HandleStreamClose, HandleRequest, IsNext
  <1>2. /\ controlQueue' \in Seq(EventType) /\ Head(controlQueue) \in EventType
        /\ Head(controlQueue).stream \in Stream
    <2>1. controlQueue \in Seq(EventType)  BY DEF StreamInv
    <2>2. controlQueue' \in Seq(EventType) /\ Head(controlQueue) \in EventType
      BY <1>1, <2>1, HeadTailProperties
    <2> QED BY <2>2 DEF EventType
  <1>3. CASE HandleStreamOn
    BY <1>2, <1>3, NoStream DEF HandleStreamOn, unchanging
  <1>4. CASE HandleStreamClose
    BY <1>2, <1>4, NoStream DEF HandleStreamClose, unchanging
  <1>5. CASE HandleRequest
    <2>1. kind' = kind /\ responder' = responder  BY <1>5 DEF HandleRequest, unchanging
    <2>2. CASE responder # None /\ reactor[responder].reachable
      <3>1. SendReply(responder, Head(controlQueue).stream)  BY <1>5, <2>2 DEF HandleRequest
      <3> QED BY <1>2, <2>1, <2>2, <3>1, SendReplySteps DEF StreamInv
    <2>3. CASE ~(responder # None /\ reactor[responder].reachable)
      BY <1>2, <1>5, <2>1, <2>3, NoStream DEF HandleRequest, StreamInv
    <2> QED BY <2>2, <2>3
  <1> QED BY <1>3, <1>4, <1>5 DEF EventStep

-----------------------------------------------------------------------------
(* The results.                                                            *)

\* No stream is sound but unknown to gRPC at first.
LEMMA InitHolds ==
  ASSUME Init
  PROVE  StreamInv
  <1>1. Sound(NoCall, NoReactor)
    <2>1. NoCall \in CallType  BY NothingType DEF CallType, NoCall, None
    <2>2. NoReactor \in ReactorType  BY EmptySeq DEF ReactorType, NoReactor
    <2> QED BY <2>1, <2>2 DEF Sound, ClosedIsSound, NoCall, NoReactor, Nothing
  <1>2. controlQueue \in Seq(EventType)  BY EmptySeq DEF Init
  <1> QED BY <1>1, <1>2 DEF Init, StreamInv

\* Every step keeps the invariant, and gRPC's contract with it.
LEMMA StepKeeps ==
  ASSUME StreamInv, ~failedFirst', [Next]_streamVars
  PROVE  StreamInv' /\ \A j \in Stream : Contract(call[j], call'[j])
  <1>1. CASE UNCHANGED streamVars
    BY <1>1, NoStream DEF streamVars, StreamInv
  <1>2. CASE EventStep
    BY <1>2, EventSteps
  <1>3. ASSUME NEW i \in Stream, Open(i) \/ ClientStep(i)
        PROVE  StreamInv' /\ \A j \in Stream : Contract(call[j], call'[j])
    BY <1>3, NoStream
       DEF Open, ClientStep, ReadReply, Closed, Expire, ClientIs, unchanging, StreamInv
  <1>4. ASSUME NEW i \in Stream, Construct(i)
        PROVE  StreamInv' /\ \A j \in Stream : Contract(call[j], call'[j])
    BY <1>4, ConstructSteps
  <1>5. ASSUME NEW i \in Stream, Callback(i)
        PROVE  StreamInv' /\ \A j \in Stream : Contract(call[j], call'[j])
    BY <1>5, OnReadDoneSteps, CloseSteps, TryFinishSteps, OnWriteDoneSteps, AfterWriteDoneSteps,
       OnDoneSteps DEF Callback
  <1> QED BY <1>1, <1>2, <1>3, <1>4, <1>5 DEF Next

\* What happened stays so.
LEMMA FailedFirstStays ==
  ASSUME failedFirst, [Next]_streamVars
  PROVE  failedFirst'
  BY DEF Next, EventStep, HandleStreamOn, HandleStreamClose, HandleRequest, Open, ClientStep,
         ReadReply, Closed, Expire, ClientIs, Construct, Callback, OnReadDone, OnReadEnd,
         ReadTryFinish, OnCancel, CancelTryFinish, TryFinish, OnWriteDone, AfterWriteDone,
         OnDone, unchanging, streamVars

\* The invariant holds of every behaviour, as long as no write failed first.
LEMMA StreamsAreSound == Spec => [](failedFirst \/ StreamInv)
  <1>1. Init => failedFirst \/ StreamInv  BY InitHolds
  <1>2. (failedFirst \/ StreamInv) /\ [Next]_streamVars => failedFirst' \/ StreamInv'
    BY StepKeeps, FailedFirstStays
  <1> QED BY <1>1, <1>2, PTL DEF Spec

\* However many streams a peer opens, in whatever order they are served, each
\* is finished at most once, and one that OnDone deletes was: the callbacks that
\* see the stream end, up to three at a time, agree on one Finish.  It holds until
\* an AppendEntries write fails before anything else ends its stream:
\* OnWriteDone (RaftRpcUtil.cc:573) then finishes it without a trace.
THEOREM StreamsFinishOnce == Spec => []FinishedOnce
  <1>1. failedFirst \/ StreamInv => FinishedOnce
    BY DEF StreamInv, Sound, OpenIsSound, ClosedIsSound, CallType, FinishedOnce
  <1> QED BY <1>1, StreamsAreSound, PTL

\* And no reactor ever has two writes under way, or finishes during one, or
\* starts a write or a read on a stream that has been finished or deleted, until
\* a write fails first.
THEOREM StreamsKeepContract == Spec => GrpcContract
  <1>1. (failedFirst \/ StreamInv) /\ [Next]_streamVars =>
          [failedFirst' \/
           \A i \in Stream :
             /\ call[i]'.sending <= 1
             /\ call[i]'.finishes # call[i].finishes => call[i]'.sending = 0
             /\ Starts(i) => call[i].finishes = 0 /\ call[i].life # "deleted"]_streamVars
    BY StepKeeps, FailedFirstStays DEF Contract, Starts
  <1> QED BY <1>1, StreamsAreSound, PTL DEF Spec, GrpcContract

-----------------------------------------------------------------------------
(* Streams that do not overtake each other: replies on their own streams.  *)

\* Whoever is the responder when all before event k of the queue is handled is
\* stream i's, unless there is none: the last StreamOn before k is i's.
Meets(queue, resp, k, i) ==
  /\ \A j \in 1 .. k - 1 :
       queue[j].what = "StreamOn" =>
         queue[j].stream = i \/ \E l \in j + 1 .. k - 1 : queue[l] = Event("StreamOn", i)
  /\ resp \in {None, i} \/ \E l \in 1 .. k - 1 : queue[l] = Event("StreamOn", i)

\* Every request that is queued, or not read yet, will meet its own responder.
InTurn(queue, resp, calls) ==
  /\ \A k \in 1 .. Len(queue) :
       queue[k].what = "Request" => Meets(queue, resp, k, queue[k].stream)
  /\ \A i \in Stream : calls[i].unread => Meets(queue, resp, Len(queue) + 1, i)

ClientType == [at : {"none", "waiting", "closing", "over"}, reply : Nat, expired : BOOLEAN]

\* Every reply of stream i, on its way or read, is the one to its request.
Mine(i, l, c, r) ==
  /\ l \in ClientType /\ c \in CallType /\ r \in ReactorType
  /\ c.unread => c.life = "open"
  /\ l.reply \in {None, i} /\ c.wire \in {None, i} /\ c.after.write \in {None, i}
  /\ \A k \in 1 .. Len(r.pending) : r.pending[k] = i

\* The invariant of streams that start in order.
OrderInv ==
  overtaking \/
  /\ client = [i \in Stream |-> client[i]]
  /\ call = [i \in Stream |-> call[i]] /\ reactor = [i \in Stream |-> reactor[i]]
  /\ \A i \in Stream : Mine(i, client[i], call[i], reactor[i])
  /\ responder \in Stream \cup {None} /\ controlQueue \in Seq(EventType)
  /\ InTurn(controlQueue, responder, call)

\* An event at the end of the queue leaves what happens before it as it was.
LEMMA MeetsAppend ==
  ASSUME NEW queue \in Seq(EventType), NEW e \in EventType, NEW resp, NEW i,
         NEW k \in 1 .. Len(queue) + 1, Meets(queue, resp, k, i)
  PROVE  /\ Meets(Append(queue, e), resp, k, i)
         /\ k = Len(queue) + 1 /\ e.what # "StreamOn" => Meets(Append(queue, e), resp, k + 1, i)
  <1> PICK longer : longer = Append(queue, e)  OBVIOUS
  <1>1. /\ Len(queue) \in Nat /\ \A j \in 1 .. Len(queue) : longer[j] = queue[j]
        /\ longer[Len(queue) + 1] = e
    BY AppendProperties, LenProperties
  <1>2. Meets(longer, resp, k, i)  BY <1>1 DEF Meets
  <1>3. ASSUME k = Len(queue) + 1, e.what # "StreamOn"  PROVE Meets(longer, resp, k + 1, i)
    <2>1. k - 1 \in Nat /\ k + 1 - 1 = k /\ \A j \in 1 .. k : j \in 1 .. k - 1 \/ j = k
      BY <1>1, <1>3
    <2>2. ASSUME NEW j \in 1 .. k, longer[j].what = "StreamOn"
          PROVE  longer[j].stream = i \/ \E l \in j + 1 .. k : longer[l] = Event("StreamOn", i)
      <3>1. j \in 1 .. k - 1  BY <1>1, <1>3, <2>1, <2>2
      <3>2. longer[j].stream = i \/ \E l \in j + 1 .. k - 1 : longer[l] = Event("StreamOn", i)
        BY <1>2, <2>2, <3>1 DEF Meets
      <3>3. \A l \in j + 1 .. k - 1 : l \in j + 1 .. k  BY <2>1
      <3> QED BY <3>2, <3>3
    <2>3. resp \in {None, i} \/ \E l \in 1 .. k : longer[l] = Event("StreamOn", i)
      <3>1. resp \in {None, i} \/ \E l \in 1 .. k - 1 : longer[l] = Event("StreamOn", i)
        BY <1>2 DEF Meets
      <3>2. \A l \in 1 .. k - 1 : l \in 1 .. k  BY <2>1
      <3> QED BY <3>1, <3>2
    <2> QED BY <2>1, <2>2, <2>3 DEF Meets
  <1> QED BY <1>2, <1>3

\* When its own StreamOn is the last, it meets its own responder.
LEMMA MeetsOwn ==
  ASSUME NEW queue \in Seq(EventType), NEW i \in Stream, NEW resp,
         NEW longer, longer = Append(queue, Event("StreamOn", i))
  PROVE  Meets(longer, resp, Len(queue) + 2, i)
  <1>1. Event("StreamOn", i) \in EventType  BY DEF Event, EventType
  <1> PICK k : k = Len(queue) + 1  OBVIOUS
  <1>2. k \in Nat /\ k >= 1 /\ longer[k] = Event("StreamOn", i) /\ Len(queue) + 2 - 1 = k
    BY <1>1, AppendProperties, LenProperties
  <1>3. longer[k].stream = i  BY <1>2 DEF Event
  <1>4. \A j \in 1 .. k : j = k \/ k \in j + 1 .. k  BY <1>2
  <1>5. k \in 1 .. k  BY <1>2
  <1> QED BY <1>2, <1>3, <1>4, <1>5 DEF Meets

\* The responder after an event is handled.
After(e, resp) ==
  CASE e.what = "StreamOn"    -> e.stream
    [] e.what = "StreamClose" -> None
    [] OTHER                  -> resp

\* What is met stays when the first event is handled.
LEMMA MeetsTail ==
  ASSUME NEW queue \in Seq(EventType), queue # << >>, NEW resp, NEW i \in Stream,
         NEW k \in 2 .. Len(queue) + 1, Meets(queue, resp, k, i)
  PROVE  Meets(Tail(queue), After(Head(queue), resp), k - 1, i)
  <1> PICK rest, e : rest = Tail(queue) /\ e = queue[1]  OBVIOUS
  <1>1. /\ Len(queue) \in Nat /\ e = Head(queue)
        /\ \A j \in 1 .. Len(queue) - 1 : rest[j] = queue[j + 1]
    BY HeadTailProperties, LenProperties
  <1>2. /\ k - 1 \in Nat /\ k - 1 - 1 \in Nat /\ k - 1 - 1 + 1 = k - 1
        /\ \A j \in 1 .. k - 1 - 1 : j \in 1 .. Len(queue) - 1 /\ j + 1 \in 1 .. k - 1
    BY <1>1
  <1>3. \A j \in 1 .. k - 1 - 1 : rest[j] = queue[j + 1]  BY <1>1, <1>2
  <1>4. ASSUME NEW j \in 1 .. k - 1 - 1, rest[j].what = "StreamOn"
        PROVE  rest[j].stream = i \/ \E l \in j + 1 .. k - 1 - 1 : rest[l] = Event("StreamOn", i)
    <2> SUFFICES ASSUME rest[j].stream # i
                 PROVE  \E l \in j + 1 .. k - 1 - 1 : rest[l] = Event("StreamOn", i)
      OBVIOUS
    <2>1. queue[j + 1].what = "StreamOn" /\ queue[j + 1].stream # i /\ j + 1 \in 1 .. k - 1
      BY <1>2, <1>3, <1>4
    <2>2. PICK l \in j + 1 + 1 .. k - 1 : queue[l] = Event("StreamOn", i)  BY <2>1 DEF Meets
    <2>3. l - 1 \in j + 1 .. k - 1 - 1 /\ l - 1 \in 1 .. k - 1 - 1 /\ l - 1 + 1 = l  BY <1>2
    <2> QED BY <1>3, <2>2, <2>3
  <1>5. \/ After(e, resp) \in {None, i}
        \/ \E l \in 1 .. k - 1 - 1 : rest[l] = Event("StreamOn", i)
    <2>1. ASSUME NEW l \in 2 .. k - 1, queue[l] = Event("StreamOn", i)
          PROVE  \E x \in 1 .. k - 1 - 1 : rest[x] = Event("StreamOn", i)
      <3>1. l - 1 \in 1 .. k - 1 - 1 /\ l - 1 + 1 = l  BY <1>2
      <3> QED BY <1>3, <2>1, <3>1
    <2>2. CASE e.what = "StreamOn"
      <3>1. After(e, resp) = e.stream  BY <2>2 DEF After
      <3>2. 1 \in 1 .. k - 1 /\ 1 + 1 = 2  BY <1>2
      <3>3. e.stream = i \/ \E l \in 1 + 1 .. k - 1 : queue[l] = Event("StreamOn", i)
        BY <2>2, <3>2 DEF Meets
      <3>4. e.stream = i \/ \E l \in 2 .. k - 1 : queue[l] = Event("StreamOn", i)
        BY <3>2, <3>3
      <3> QED BY <2>1, <3>1, <3>4
    <2>3. CASE e.what = "StreamClose"  BY <2>3 DEF After
    <2>4. CASE e.what # "StreamOn" /\ e.what # "StreamClose"
      <3>1. After(e, resp) = resp  BY <2>4 DEF After
      <3>2. resp \in {None, i} \/ \E l \in 1 .. k - 1 : queue[l] = Event("StreamOn", i)
        BY DEF Meets
      <3>3. \A l \in 1 .. k - 1 : queue[l] = Event("StreamOn", i) => l \in 2 .. k - 1
        <4>1. e # Event("StreamOn", i)  BY <2>4 DEF Event
        <4> QED BY <1>2, <4>1
      <3> QED BY <2>1, <3>1, <3>2, <3>3
    <2> QED BY <2>2, <2>3, <2>4
  <1> QED BY <1>1, <1>4, <1>5 DEF Meets

\* A step that posts nothing, a new request neither.
LEMMA TurnStays ==
  ASSUME NEW queue, NEW resp, NEW calls, NEW calls2, InTurn(queue, resp, calls),
         \A i \in Stream : calls2[i].unread => calls[i].unread
  PROVE  InTurn(queue, resp, calls2)
  BY DEF InTurn

\* A request, or the end of a stream, is posted.
LEMMA TurnPosts ==
  ASSUME NEW queue \in Seq(EventType), NEW e \in EventType, NEW resp, NEW calls, NEW calls2,
         InTurn(queue, resp, calls), \A i \in Stream : calls2[i].unread => calls[i].unread,
         e.what = "StreamClose" \/ (e.what = "Request" /\ calls[e.stream].unread)
  PROVE  InTurn(Append(queue, e), resp, calls2)
  <1> PICK longer, k : longer = Append(queue, e) /\ k = Len(queue) + 1  OBVIOUS
  <1>1. /\ Len(queue) \in Nat /\ Len(longer) = k /\ k \in 1 .. Len(queue) + 1 /\ longer[k] = e
        /\ \A j \in 1 .. Len(queue) : longer[j] = queue[j] /\ j \in 1 .. Len(queue) + 1
        /\ \A j \in 1 .. k : j = k \/ j \in 1 .. Len(queue)
    BY AppendProperties, LenProperties
  <1>2. ASSUME NEW j \in 1 .. k, longer[j].what = "Request"
        PROVE  Meets(longer, resp, j, longer[j].stream)
    <2>1. CASE j \in 1 .. Len(queue)
      <3>1. Meets(queue, resp, j, queue[j].stream)  BY <1>1, <1>2, <2>1 DEF InTurn
      <3> QED BY <1>1, <2>1, <3>1, MeetsAppend
    <2>2. CASE j = k
      <3>1. e.what = "Request" /\ e.stream \in Stream  BY <1>1, <1>2, <2>2 DEF EventType
      <3>2. calls[e.stream].unread  BY <3>1
      <3>3. Meets(queue, resp, k, e.stream)  BY <3>1, <3>2 DEF InTurn
      <3> QED BY <1>1, <2>2, <3>3, MeetsAppend
    <2> QED BY <1>1, <2>1, <2>2
  <1>3. ASSUME NEW i \in Stream, calls2[i].unread  PROVE Meets(longer, resp, k + 1, i)
    <2>1. Meets(queue, resp, k, i)  BY <1>3 DEF InTurn
    <2> QED BY <1>1, <2>1, MeetsAppend
  <1> QED BY <1>1, <1>2, <1>3 DEF InTurn

\* A stream starts when no other's request is unread.
LEMMA TurnStarts ==
  ASSUME NEW queue \in Seq(EventType), NEW i \in Stream, NEW resp, NEW calls, NEW calls2,
         InTurn(queue, resp, calls), \A j \in Stream : calls2[j].unread => j = i
  PROVE  InTurn(Append(queue, Event("StreamOn", i)), resp, calls2)
  <1> PICK e : e = Event("StreamOn", i)  OBVIOUS
  <1>0. e \in EventType /\ e.what = "StreamOn"  BY DEF Event, EventType
  <1> PICK longer, k : longer = Append(queue, e) /\ k = Len(queue) + 1  OBVIOUS
  <1>1. /\ Len(queue) \in Nat /\ Len(longer) = k /\ longer[k] = e
        /\ \A j \in 1 .. Len(queue) : longer[j] = queue[j] /\ j \in 1 .. Len(queue) + 1
        /\ \A j \in 1 .. k : j = k \/ j \in 1 .. Len(queue)
        /\ k + 1 = Len(queue) + 2
    BY <1>0, AppendProperties, LenProperties
  <1>2. ASSUME NEW j \in 1 .. k, longer[j].what = "Request"
        PROVE  Meets(longer, resp, j, longer[j].stream)
    <2>1. j \in 1 .. Len(queue)  BY <1>0, <1>1, <1>2
    <2>2. Meets(queue, resp, j, queue[j].stream)  BY <1>1, <1>2, <2>1 DEF InTurn
    <2> QED BY <1>0, <1>1, <2>1, <2>2, MeetsAppend
  <1>3. Meets(longer, resp, k + 1, i)  BY <1>1, MeetsOwn
  <1> QED BY <1>1, <1>2, <1>3 DEF InTurn

\* The first event is handled.
LEMMA TurnHandles ==
  ASSUME NEW queue \in Seq(EventType), queue # << >>, NEW resp, NEW calls, NEW calls2,
         InTurn(queue, resp, calls), \A i \in Stream : calls2[i].unread => calls[i].unread
  PROVE  InTurn(Tail(queue), After(Head(queue), resp), calls2)
  <1> PICK rest, next : rest = Tail(queue) /\ next = After(Head(queue), resp)  OBVIOUS
  <1>1. /\ Len(queue) \in Nat /\ Len(queue) >= 1 /\ Len(rest) = Len(queue) - 1
        /\ \A j \in 1 .. Len(queue) - 1 : rest[j] = queue[j + 1]
    BY HeadTailProperties, LenProperties, EmptySeq
  <1>2. ASSUME NEW k \in 1 .. Len(rest), rest[k].what = "Request"
        PROVE  Meets(rest, next, k, rest[k].stream)
    <2>1. k + 1 \in 1 .. Len(queue) /\ k + 1 \in 2 .. Len(queue) + 1 /\ k + 1 - 1 = k
      BY <1>1
    <2>0. queue[k + 1] \in EventType  BY <2>1, ElementOfSeq
    <2>2. rest[k] = queue[k + 1] /\ queue[k + 1].stream \in Stream
      BY <1>1, <2>0 DEF EventType
    <2>3. Meets(queue, resp, k + 1, queue[k + 1].stream)  BY <1>2, <2>1, <2>2 DEF InTurn
    <2> QED BY <2>1, <2>2, <2>3, MeetsTail
  <1>3. ASSUME NEW i \in Stream, calls2[i].unread  PROVE Meets(rest, next, Len(rest) + 1, i)
    <2>1. Meets(queue, resp, Len(queue) + 1, i)  BY <1>3 DEF InTurn
    <2>2. /\ Len(queue) + 1 \in 2 .. Len(queue) + 1
          /\ Len(queue) + 1 - 1 = Len(rest) + 1
      BY <1>1
    <2> QED BY <2>1, <2>2, MeetsTail
  <1> QED BY <1>2, <1>3 DEF InTurn

\* A step that changes one stream, keeping its replies its own.
LEMMA OneTurn ==
  ASSUME OrderInv, ~overtaking, NEW i \in Stream,
         client' = client \/ client' = [client EXCEPT ![i] = client'[i]],
         call' = call \/ call' = [call EXCEPT ![i] = call'[i]],
         reactor' = reactor \/ reactor' = [reactor EXCEPT ![i] = reactor'[i]],
         Mine(i, client'[i], call'[i], reactor'[i]),
         overtaking' = overtaking, responder' \in Stream \cup {None},
         controlQueue' \in Seq(EventType), InTurn(controlQueue', responder', call')
  PROVE  OrderInv'
  <1>1. /\ client = [j \in Stream |-> client[j]] /\ call = [j \in Stream |-> call[j]]
        /\ reactor = [j \in Stream |-> reactor[j]]
        /\ \A j \in Stream : Mine(j, client[j], call[j], reactor[j])
    BY DEF OrderInv
  <1>2. client' = [j \in Stream |-> client'[j]] /\ \A j \in Stream \ {i} : client'[j] = client[j]
    BY <1>1
  <1>3. call' = [j \in Stream |-> call'[j]] /\ \A j \in Stream \ {i} : call'[j] = call[j]
    BY <1>1
  <1>4. reactor' = [j \in Stream |-> reactor'[j]] /\ \A j \in Stream \ {i} : reactor'[j] = reactor[j]
    BY <1>1
  <1>5. \A j \in Stream : Mine(j, client'[j], call'[j], reactor'[j])  BY <1>1, <1>2, <1>3, <1>4
  <1> QED BY <1>2, <1>3, <1>4, <1>5 DEF OrderInv

\* What the invariant says of stream i and of the queue.
LEMMA OrderFacts ==
  ASSUME OrderInv, ~overtaking, NEW i \in Stream
  PROVE  /\ Mine(i, client[i], call[i], reactor[i])
         /\ client[i] \in ClientType /\ call[i] \in CallType /\ reactor[i] \in ReactorType
         /\ client = [j \in Stream |-> client[j]] /\ call = [j \in Stream |-> call[j]]
         /\ reactor = [j \in Stream |-> reactor[j]]
         /\ responder \in Stream \cup {None} /\ controlQueue \in Seq(EventType)
         /\ InTurn(controlQueue, responder, call)
  BY DEF OrderInv, Mine

\* The peer's own steps.
LEMMA ClientTurns ==
  ASSUME OrderInv, ~overtaking, NEW i \in Stream, Open(i) \/ ClientStep(i)
  PROVE  OrderInv'
  <1>0. /\ Mine(i, client[i], call[i], reactor[i]) /\ client[i] \in ClientType
        /\ client = [j \in Stream |-> client[j]] /\ responder \in Stream \cup {None}
        /\ controlQueue \in Seq(EventType) /\ InTurn(controlQueue, responder, call)
    BY OrderFacts
  <1>1. /\ overtaking' = overtaking /\ call' = call /\ reactor' = reactor
        /\ responder' = responder /\ controlQueue' = controlQueue
    BY DEF Open, ClientStep, ReadReply, Closed, Expire, ClientIs, unchanging
  <1>2. PICK l : client' = [client EXCEPT ![i] = l] /\ l \in ClientType /\ l.reply \in {None, i}
    <2>0. client[i].reply \in {None, i} /\ call[i].wire \in {None, i} /\ call[i].wire \in Nat
      BY <1>0 DEF Mine, CallType
    <2>1. CASE ReadReply(i)
      <3> PICK l : l = [client[i] EXCEPT !.at = "closing", !.reply = call[i].wire]  OBVIOUS
      <3>1. client' = [client EXCEPT ![i] = l]  BY <2>1 DEF ReadReply
      <3>2. l \in ClientType /\ l.reply = call[i].wire  BY <1>0, <2>0 DEF ClientType
      <3> QED BY <2>0, <3>1, <3>2
    <2>2. ASSUME NEW at \in {"waiting", "over"}, ClientIs(i, at)
          PROVE  \E l : client' = [client EXCEPT ![i] = l] /\ l \in ClientType /\ l.reply \in {None, i}
      <3> PICK l : l = [client[i] EXCEPT !.at = at]  OBVIOUS
      <3>1. client' = [client EXCEPT ![i] = l]  BY <2>2 DEF ClientIs
      <3>2. l \in ClientType /\ l.reply = client[i].reply  BY <1>0 DEF ClientType
      <3> QED BY <2>0, <3>1, <3>2
    <2>3. CASE Expire(i)
      <3> PICK l : l = [client[i] EXCEPT !.at = "over", !.expired = TRUE]  OBVIOUS
      <3>1. client' = [client EXCEPT ![i] = l]  BY <2>3 DEF Expire
      <3>2. l \in ClientType /\ l.reply = client[i].reply  BY <1>0 DEF ClientType
      <3> QED BY <2>0, <3>1, <3>2
    <2>4. Open(i) \/ Closed(i) => \E at \in {"waiting", "over"} : ClientIs(i, at)
      BY DEF Open, Closed
    <2> QED BY <2>1, <2>2, <2>3, <2>4 DEF ClientStep
  <1>3. client'[i] = l  BY <1>0, <1>2
  <1>4. Mine(i, l, call[i], reactor[i])  BY <1>0, <1>2 DEF Mine
  <1> QED BY <1>0, <1>1, <1>2, <1>3, <1>4, OneTurn

\* A callback that posts nothing but ends of streams, and leaves the replies alone.
LEMMA QuietTurns ==
  ASSUME OrderInv, ~overtaking, NEW i \in Stream, NEW c, NEW r,
         call' = [call EXCEPT ![i] = c], reactor' = reactor \/ reactor' = [reactor EXCEPT ![i] = r],
         Mine(i, client[i], c, reactor'[i]), c.unread => call[i].unread,
         client' = client, overtaking' = overtaking, responder' = responder,
         Post(Event("StreamClose", i)) \/ UNCHANGED controlQueue
  PROVE  OrderInv'
  <1>0. /\ call = [j \in Stream |-> call[j]] /\ reactor = [j \in Stream |-> reactor[j]]
        /\ responder \in Stream \cup {None}
        /\ controlQueue \in Seq(EventType) /\ InTurn(controlQueue, responder, call)
    BY OrderFacts
  <1>1. call'[i] = c /\ \A j \in Stream \ {i} : call'[j] = call[j]  BY <1>0
  <1>2. \A j \in Stream : call'[j].unread => call[j].unread  BY <1>1
  <1>3. reactor' = reactor \/ reactor' = [reactor EXCEPT ![i] = reactor'[i]]  BY <1>0
  <1>4. InTurn(controlQueue', responder', call') /\ controlQueue' \in Seq(EventType)
    <2>1. CASE UNCHANGED controlQueue
      <3>1. InTurn(controlQueue, responder, call')  BY <1>0, <1>2, TurnStays
      <3> QED BY <1>0, <2>1, <3>1
    <2>2. CASE Post(Event("StreamClose", i))
      <3> PICK e : e = Event("StreamClose", i)  OBVIOUS
      <3>1. e \in EventType /\ e.what = "StreamClose"  BY DEF Event, EventType
      <3>2. InTurn(Append(controlQueue, e), responder, call')  BY <1>0, <1>2, <3>1, TurnPosts
      <3> QED BY <1>0, <2>2, <3>1, <3>2, AppendProperties DEF Post
    <2> QED BY <2>1, <2>2
  <1> QED BY <1>0, <1>1, <1>3, <1>4, OneTurn

\* The constructor: no other stream's request is unread.
LEMMA ConstructTurns ==
  ASSUME OrderInv, ~overtaking, NEW i \in Stream, Construct(i)
  PROVE  OrderInv'
  <1>0. /\ Mine(i, client[i], call[i], reactor[i]) /\ call[i] \in CallType
        /\ call = [j \in Stream |-> call[j]] /\ reactor = [j \in Stream |-> reactor[j]]
        /\ responder \in Stream \cup {None}
        /\ controlQueue \in Seq(EventType) /\ InTurn(controlQueue, responder, call)
    BY OrderFacts
  <1> DEFINE c == [call[i] EXCEPT !.life = "open", !.unread = TRUE, !.reading = TRUE]
  <1>1. /\ call' = [call EXCEPT ![i] = c] /\ reactor' = [reactor EXCEPT ![i] = NewReactor]
        /\ overtaking' = overtaking /\ responder' = responder /\ client' = client
        /\ controlQueue' = Append(controlQueue, Event("StreamOn", i))
        /\ InOrder(i)
    BY DEF Construct, unchanging, Post
  <1>2. Mine(i, client[i], c, NewReactor)
    <2>1. NewReactor \in ReactorType /\ Len(NewReactor.pending) = 0
      BY EmptySeq DEF ReactorType, NewReactor
    <2>2. /\ c \in CallType /\ c.life = "open" /\ c.wire = call[i].wire /\ c.after = call[i].after
      BY <1>0 DEF CallType
    <2> HIDE DEF c
    <2> QED BY <1>0, <2>1, <2>2 DEF Mine
  <1> HIDE DEF c
  <1>3. call'[i] = c /\ reactor'[i] = NewReactor /\ \A j \in Stream \ {i} : call'[j] = call[j]
    BY <1>0, <1>1
  <1>4. \A j \in Stream : call'[j].unread => j = i
    <2> SUFFICES ASSUME NEW j \in Stream, j # i, call[j].unread  PROVE FALSE  BY <1>3
    <2>1. call[j].life = "open"  BY OrderFacts DEF Mine
    <2>2. j \in i + 1 .. MaxStreams \/ j \in 1 .. i - 1  BY DEF Stream
    <2> QED BY <1>1, <2>1, <2>2 DEF InOrder
  <1>5. InTurn(controlQueue', responder', call')  BY <1>0, <1>1, <1>4, TurnStarts
  <1>6. controlQueue' \in Seq(EventType)
    <2>1. Event("StreamOn", i) \in EventType  BY DEF Event, EventType
    <2> QED BY <1>0, <1>1, <2>1, AppendProperties
  <1> QED BY <1>0, <1>1, <1>2, <1>3, <1>5, <1>6, OneTurn

\* OnReadDone hands over the request.
LEMMA OnReadDoneTurns ==
  ASSUME OrderInv, ~overtaking, NEW i \in Stream, OnReadDone(i)
  PROVE  OrderInv'
  <1>0. /\ Mine(i, client[i], call[i], reactor[i]) /\ call[i] \in CallType
        /\ reactor[i] \in ReactorType
        /\ call = [j \in Stream |-> call[j]] /\ responder \in Stream \cup {None}
        /\ controlQueue \in Seq(EventType) /\ InTurn(controlQueue, responder, call)
    BY OrderFacts
  <1> DEFINE c == [call[i] EXCEPT !.unread = FALSE,
                     !.reading = ~reactor[i].closed /\ ~reactor[i].finished]
  <1> PICK e : e = Event("Request", i)  OBVIOUS
  <1>1. /\ call' = [call EXCEPT ![i] = c] /\ reactor' = reactor
        /\ overtaking' = overtaking /\ responder' = responder /\ client' = client
        /\ controlQueue' = Append(controlQueue, e) /\ call[i].unread
    BY DEF OnReadDone, unchanging, Post
  <1>2. Mine(i, client[i], c, reactor[i]) /\ ~c.unread
    BY <1>0 DEF Mine, CallType, ReactorType
  <1> HIDE DEF c
  <1>3. call'[i] = c /\ \A j \in Stream \ {i} : call'[j] = call[j]  BY <1>0, <1>1
  <1>4. e \in EventType /\ e.what = "Request" /\ e.stream = i  BY DEF Event, EventType
  <1>5. \A j \in Stream : call'[j].unread => call[j].unread  BY <1>2, <1>3
  <1>6. InTurn(controlQueue', responder', call')  BY <1>0, <1>1, <1>4, <1>5, TurnPosts
  <1>7. controlQueue' \in Seq(EventType)  BY <1>0, <1>1, <1>4, AppendProperties
  <1> QED BY <1>0, <1>1, <1>2, <1>3, <1>6, <1>7, OneTurn

\* The ends of a stream, and what follows its writes.
LEMMA CallbackTurns ==
  ASSUME OrderInv, ~overtaking, NEW i \in Stream,
         \/ OnReadEnd(i) \/ ReadTryFinish(i) \/ OnCancel(i) \/ CancelTryFinish(i)
         \/ (\E ok \in BOOLEAN : OnWriteDone(i, ok)) \/ AfterWriteDone(i) \/ OnDone(i)
  PROVE  OrderInv'
  <1>0. /\ Mine(i, client[i], call[i], reactor[i]) /\ call[i] \in CallType
        /\ reactor[i] \in ReactorType
        /\ call = [j \in Stream |-> call[j]] /\ reactor = [j \in Stream |-> reactor[j]]
    BY OrderFacts
  <1>1. CASE OnReadEnd(i)
    <2> PICK c, r : /\ c = [call[i] EXCEPT !.unread = FALSE, !.reading = FALSE, !.read = "TryFinish"]
                    /\ r = Close(reactor[i])
      OBVIOUS
    <2>1. call' = [call EXCEPT ![i] = c] /\ reactor' = [reactor EXCEPT ![i] = r]
      BY <1>1 DEF OnReadEnd
    <2>2. Mine(i, client[i], c, r) /\ ~c.unread  BY <1>0 DEF Mine, CallType, ReactorType, Close
    <2>3. reactor'[i] = r  BY <1>0, <2>1
    <2>4. /\ client' = client /\ overtaking' = overtaking /\ responder' = responder
          /\ Post(Event("StreamClose", i)) \/ UNCHANGED controlQueue
      BY <1>1 DEF OnReadEnd, ReportClose, unchanging
    <2> QED BY <2>1, <2>2, <2>3, <2>4, QuietTurns
  <1>2. CASE OnCancel(i)
    <2> PICK c, r : c = [call[i] EXCEPT !.cancel = "TryFinish"] /\ r = Close(reactor[i])  OBVIOUS
    <2>1. call' = [call EXCEPT ![i] = c] /\ reactor' = [reactor EXCEPT ![i] = r]
      BY <1>0, <1>2 DEF OnCancel
    <2>2. Mine(i, client[i], c, r) /\ c.unread = call[i].unread
      BY <1>0 DEF Mine, CallType, ReactorType, Close
    <2>3. reactor'[i] = r  BY <1>0, <2>1
    <2>4. /\ client' = client /\ overtaking' = overtaking /\ responder' = responder
          /\ Post(Event("StreamClose", i)) \/ UNCHANGED controlQueue
      BY <1>2 DEF OnCancel, ReportClose, unchanging
    <2> QED BY <2>1, <2>2, <2>3, <2>4, QuietTurns
  <1>3. CASE ReadTryFinish(i) \/ CancelTryFinish(i)
    <2>1. PICK b : /\ b \in {[call[i] EXCEPT !.read = "returned"], [call[i] EXCEPT !.cancel = "returned"]}
                   /\ TryFinish(i, b)
      BY <1>3 DEF ReadTryFinish, CancelTryFinish
    <2>2. PICK c : c \in {b, Finish(b)} /\ call' = [call EXCEPT ![i] = c]
      BY <2>1 DEF TryFinish
    <2>3. \/ reactor' = reactor
          \/ reactor' = [reactor EXCEPT ![i] = [reactor[i] EXCEPT !.finished = TRUE]]
      BY <1>0, <2>1 DEF TryFinish
    <2>4. reactor'[i] \in {reactor[i], [reactor[i] EXCEPT !.finished = TRUE]}  BY <1>0, <2>3
    <2>5. /\ c \in CallType /\ c.unread = call[i].unread /\ c.life = call[i].life
          /\ c.wire = call[i].wire /\ c.after = call[i].after
      BY <1>0, <2>1, <2>2 DEF CallType, Finish
    <2>6. reactor'[i] \in ReactorType /\ reactor'[i].pending = reactor[i].pending
      BY <1>0, <2>4 DEF ReactorType
    <2>7. Mine(i, client[i], c, reactor'[i])  BY <1>0, <2>5, <2>6 DEF Mine
    <2>8. /\ client' = client /\ overtaking' = overtaking /\ responder' = responder
          /\ UNCHANGED controlQueue
      BY <2>1 DEF TryFinish, unchanging
    <2> QED BY <2>2, <2>3, <2>5, <2>7, <2>8, QuietTurns
  <1>4. CASE \E ok \in BOOLEAN : OnWriteDone(i, ok)
    <2> PICK ok \in BOOLEAN : OnWriteDone(i, ok)  BY <1>4
    <2> PICK fails \in BOOLEAN : fails = (~ok /\ ~reactor[i].closed)  BY <1>0 DEF ReactorType
    <2> PICK r : r = [reactor[i] EXCEPT !.writing = FALSE,
                        !.closed = @ \/ (fails /\ kind = "InstallSnapshot")]
      OBVIOUS
    <2> PICK done \in BOOLEAN : done = ((fails /\ kind = "AppendEntries")
                                         \/ (~WritesNext(r) /\ EndsWithWrite(r)))
      BY DEF EndsWithWrite
    <2> PICK next : next = IF WritesNext(r) THEN Head(r.pending) ELSE None  OBVIOUS
    <2> PICK a : a = [write |-> next, finish |-> done]  OBVIOUS
    <2> PICK c : c = [call[i] EXCEPT !.sending = @ - 1, !.after = a]  OBVIOUS
    <2>1. /\ call' = [call EXCEPT ![i] = c] /\ reactor' = [reactor EXCEPT ![i] = AfterWrite(r)]
          /\ client' = client /\ overtaking' = overtaking /\ responder' = responder
          /\ Post(Event("StreamClose", i)) \/ UNCHANGED controlQueue
          /\ call[i].sending > 0
      <3>1. /\ reactor' = [reactor EXCEPT ![i] = AfterWrite(r)]
            /\ call' = [call EXCEPT ![i] = [call[i] EXCEPT !.sending = @ - 1,
                          !.after = [write  |-> IF WritesNext(r) THEN Head(r.pending) ELSE None,
                                     finish |-> \/ fails /\ kind = "AppendEntries"
                                                \/ ~WritesNext(r) /\ EndsWithWrite(r)]]]
        <4> DEFINE f == ~ok /\ ~reactor[i].closed
                   q == [reactor[i] EXCEPT !.writing = FALSE,
                                           !.closed = @ \/ (f /\ kind = "InstallSnapshot")]
        <4>1. /\ reactor' = [reactor EXCEPT ![i] = AfterWrite(q)]
              /\ call' = [call EXCEPT ![i] = [call[i] EXCEPT !.sending = @ - 1,
                            !.after = [write  |-> IF WritesNext(q) THEN Head(q.pending) ELSE None,
                                       finish |-> \/ f /\ kind = "AppendEntries"
                                                  \/ ~WritesNext(q) /\ EndsWithWrite(q)]]]
          BY DEF OnWriteDone
        <4>2. f = fails  OBVIOUS
        <4> HIDE DEF f
        <4>3. q = r  BY <4>2
        <4> HIDE DEF q
        <4> QED BY <4>1, <4>2, <4>3
      <3>2. /\ client' = client /\ overtaking' = overtaking /\ responder' = responder
            /\ Post(Event("StreamClose", i)) \/ UNCHANGED controlQueue
            /\ call[i].sending > 0
        BY DEF OnWriteDone, unchanging
      <3>3. a = [write  |-> IF WritesNext(r) THEN Head(r.pending) ELSE None,
                 finish |-> \/ fails /\ kind = "AppendEntries"
                            \/ ~WritesNext(r) /\ EndsWithWrite(r)]
        OBVIOUS
      <3> QED BY <3>1, <3>2, <3>3
    <2>2. r \in ReactorType /\ r.pending = reactor[i].pending
      <3> PICK closed \in BOOLEAN : closed = (reactor[i].closed \/ (fails /\ kind = "InstallSnapshot"))
        BY <1>0 DEF ReactorType
      <3>1. r = [reactor[i] EXCEPT !.writing = FALSE, !.closed = closed]  OBVIOUS
      <3> QED BY <1>0, <3>1 DEF ReactorType
    <2>3. \A k \in 1 .. Len(r.pending) : r.pending[k] = i  BY <1>0, <2>2 DEF Mine
    <2>4. a.write \in {None, i} /\ a \in AfterType
      <3>1. CASE WritesNext(r)
        <4>1. r.pending # << >> /\ r.pending \in Seq(Stream)
          BY <2>2, <3>1 DEF WritesNext, ReactorType
        <4>2. Head(r.pending) = i
          <5>1. Head(r.pending) = r.pending[1] /\ 1 \in 1 .. Len(r.pending)
            BY <4>1, HeadTailProperties, LenProperties, EmptySeq
          <5> QED BY <2>3, <5>1
        <4>3. i \in Nat  BY StreamsAssumption DEF Stream
        <4> QED BY <3>1, <4>2, <4>3 DEF AfterType
      <3>2. CASE ~WritesNext(r)
        BY <3>2 DEF AfterType, None
      <3> QED BY <3>1, <3>2
    <2>5. /\ c \in CallType /\ c.unread = call[i].unread /\ c.life = call[i].life
          /\ c.wire = call[i].wire /\ c.after = a
      <3>1. PICK n \in Nat : n = call[i].sending - 1  BY <1>0, <2>1 DEF CallType
      <3>2. c = [call[i] EXCEPT !.sending = n, !.after = a]  BY <3>1
      <3> QED BY <1>0, <2>4, <3>2 DEF CallType
    <2>6. /\ AfterWrite(r) \in ReactorType
          /\ \A k \in 1 .. Len(AfterWrite(r).pending) : AfterWrite(r).pending[k] = i
      <3>1. CASE WritesNext(r)
        <4>1. r.pending # << >> /\ r.pending \in Seq(Stream)
          BY <2>2, <3>1 DEF WritesNext, ReactorType
        <4> PICK rest : rest = Tail(r.pending)  OBVIOUS
        <4>2. /\ rest \in Seq(Stream) /\ Len(rest) = Len(r.pending) - 1 /\ Len(r.pending) \in Nat
              /\ \A k \in 1 .. Len(rest) : rest[k] = r.pending[k + 1]
          BY <4>1, HeadTailProperties, LenProperties
        <4>3. \A k \in 1 .. Len(rest) : rest[k] = i
          <5>1. \A k \in 1 .. Len(rest) : k + 1 \in 1 .. Len(r.pending)  BY <4>2
          <5> QED BY <2>3, <4>2, <5>1
        <4>4. AfterWrite(r) = [r EXCEPT !.writing = TRUE, !.pending = rest]
          BY <3>1 DEF AfterWrite
        <4>5. AfterWrite(r) \in ReactorType /\ AfterWrite(r).pending = rest
          BY ZenonT(30), <2>2, <4>2, <4>4 DEF ReactorType
        <4> QED BY <4>3, <4>5
      <3>2. CASE ~WritesNext(r)
        <4>1. AfterWrite(r) = [r EXCEPT !.finished = @ \/ EndsWithWrite(r)]
          BY <3>2 DEF AfterWrite
        <4>2. EndsWithWrite(r) \in BOOLEAN  BY DEF EndsWithWrite
        <4>3. PICK f \in BOOLEAN : f = (r.finished \/ EndsWithWrite(r))
          BY <2>2, <4>2 DEF ReactorType
        <4>4. AfterWrite(r) = [r EXCEPT !.finished = f]  BY <4>1, <4>3
        <4>5. AfterWrite(r) \in ReactorType /\ AfterWrite(r).pending = r.pending
          BY <2>2, <4>4 DEF ReactorType
        <4> QED BY <2>3, <4>5
      <3> QED BY <3>1, <3>2
    <2>7. Mine(i, client[i], c, AfterWrite(r))  BY <1>0, <2>4, <2>5, <2>6 DEF Mine
    <2>8. reactor'[i] = AfterWrite(r)  BY <1>0, <2>1
    <2> QED BY <2>1, <2>5, <2>7, <2>8, QuietTurns
  <1>5. CASE AfterWriteDone(i)
    <2> PICK a, b : a = call[i].after /\ b = [call[i] EXCEPT !.after = Nothing]  OBVIOUS
    <2> PICK w : w = IF a.write # None THEN StartWrite(b, a.write) ELSE b  OBVIOUS
    <2>1. PICK c : c = (IF a.finish THEN Finish(w) ELSE w) /\ call' = [call EXCEPT ![i] = c]
      BY <1>5 DEF AfterWriteDone
    <2>2. a.write \in {None, i} /\ a \in AfterType /\ call[i].wire \in {None, i}
      BY <1>0 DEF Mine, CallType
    <2>3. /\ b \in CallType /\ b.unread = call[i].unread /\ b.life = call[i].life
          /\ b.wire = call[i].wire /\ b.after = Nothing
      BY <1>0, NothingType DEF CallType
    <2>4. /\ w \in CallType /\ w.unread = b.unread /\ w.life = b.life
          /\ w.wire \in {None, i} /\ w.after = Nothing
      <3>1. CASE a.write # None
        <4>1. PICK n, x : n = b.sending + 1 /\ x = IF b.wire = None THEN a.write ELSE b.wire
          OBVIOUS
        <4>2. n \in Nat /\ x \in Nat /\ x \in {None, i}
          BY <2>2, <2>3, <4>1 DEF CallType, AfterType
        <4>3. w = [b EXCEPT !.sending = n, !.wire = x]  BY <3>1, <4>1 DEF StartWrite
        <4> QED BY <2>3, <4>2, <4>3 DEF CallType
      <3>2. CASE a.write = None  BY <2>2, <2>3, <3>2
      <3> QED BY <3>1, <3>2
    <2>5. /\ c \in CallType /\ c.unread = w.unread /\ c.life = w.life
          /\ c.wire = w.wire /\ c.after = Nothing
      <3>1. CASE a.finish
        <4>1. c = Finish(w)  BY <2>1, <3>1
        <4> QED BY <2>4, <4>1 DEF CallType, Finish
      <3>2. CASE ~a.finish  BY <2>1, <2>4, <3>2
      <3> QED BY <3>1, <3>2
    <2>6. Mine(i, client[i], c, reactor[i])  BY <1>0, <2>3, <2>4, <2>5 DEF Mine, Nothing
    <2>7. /\ client' = client /\ overtaking' = overtaking /\ responder' = responder
          /\ UNCHANGED controlQueue /\ reactor' = reactor
      BY <1>5 DEF AfterWriteDone, unchanging
    <2> QED BY <2>1, <2>3, <2>4, <2>5, <2>6, <2>7, QuietTurns
  <1>6. CASE OnDone(i)
    <2> PICK c : c = [NoCall EXCEPT !.life = "deleted", !.wire = call[i].wire,
                                    !.finishes = call[i].finishes]
      OBVIOUS
    <2>1. /\ call' = [call EXCEPT ![i] = c] /\ reactor' = [reactor EXCEPT ![i] = NoReactor]
          /\ client' = client /\ overtaking' = overtaking /\ responder' = responder
          /\ Post(Event("StreamClose", i))
      BY <1>6 DEF OnDone, unchanging
    <2>2. /\ c \in CallType /\ ~c.unread /\ c.wire = call[i].wire /\ c.after = Nothing
      BY <1>0, NothingType DEF CallType, NoCall, None
    <2>3. NoReactor \in ReactorType /\ Len(NoReactor.pending) = 0
      BY EmptySeq DEF ReactorType, NoReactor
    <2>4. Mine(i, client[i], c, NoReactor)  BY <1>0, <2>2, <2>3 DEF Mine, Nothing
    <2>5. reactor'[i] = NoReactor  BY <1>0, <2>1
    <2> QED BY <2>1, <2>2, <2>4, <2>5, QuietTurns
  <1> QED BY <1>1, <1>2, <1>3, <1>4, <1>5, <1>6

\* A reply goes to the responder's stream, which is that of its request.
LEMMA SendReplyTurns ==
  ASSUME OrderInv, ~overtaking, NEW i \in Stream, SendReply(i, i),
         client' = client, overtaking' = overtaking, responder' \in Stream \cup {None},
         controlQueue' \in Seq(EventType),
         \A calls : (\A j \in Stream : calls[j].unread => call[j].unread)
                      => InTurn(controlQueue', responder', calls)
  PROVE  OrderInv'
  <1>0. /\ Mine(i, client[i], call[i], reactor[i]) /\ call[i] \in CallType
        /\ reactor[i] \in ReactorType
        /\ call = [j \in Stream |-> call[j]] /\ reactor = [j \in Stream |-> reactor[j]]
    BY OrderFacts
  <1>1. CASE reactor[i].closed \/ reactor[i].finished
    <2>1. call' = call /\ reactor' = reactor  BY <1>1 DEF SendReply
    <2> QED BY <1>0, <2>1, OneTurn
  <1>2. CASE ~reactor[i].closed /\ ~reactor[i].finished /\ reactor[i].writing
    <2> PICK p : p = Append(reactor[i].pending, i)  OBVIOUS
    <2> PICK r : r = [reactor[i] EXCEPT !.pending = p]  OBVIOUS
    <2>1. call' = call /\ reactor' = [reactor EXCEPT ![i] = r]  BY <1>2 DEF SendReply
    <2>2. p \in Seq(Stream) /\ \A k \in 1 .. Len(p) : p[k] = i
      <3>1. reactor[i].pending \in Seq(Stream)  BY <1>0 DEF ReactorType
      <3>2. /\ p \in Seq(Stream) /\ Len(p) = Len(reactor[i].pending) + 1
            /\ Len(reactor[i].pending) \in Nat /\ p[Len(p)] = i
            /\ \A k \in 1 .. Len(reactor[i].pending) : p[k] = reactor[i].pending[k]
        BY <3>1, AppendProperties, LenProperties
      <3>3. \A k \in 1 .. Len(p) : k = Len(p) \/ k \in 1 .. Len(reactor[i].pending)  BY <3>2
      <3> QED BY <1>0, <3>2, <3>3 DEF Mine
    <2>3. r \in ReactorType /\ r.pending = p  BY <1>0, <2>2 DEF ReactorType
    <2>4. Mine(i, client[i], call[i], r)  BY <1>0, <2>2, <2>3 DEF Mine
    <2>5. reactor'[i] = r  BY <1>0, <2>1
    <2> QED BY <2>1, <2>4, <2>5, OneTurn
  <1>3. CASE ~reactor[i].closed /\ ~reactor[i].finished /\ ~reactor[i].writing
    <2> PICK r : r = [reactor[i] EXCEPT !.writing = TRUE]  OBVIOUS
    <2> PICK n, x : /\ n = call[i].sending + 1
                    /\ x = IF call[i].wire = None THEN i ELSE call[i].wire
      OBVIOUS
    <2> PICK c : c = [call[i] EXCEPT !.sending = n, !.wire = x]  OBVIOUS
    <2>1. call' = [call EXCEPT ![i] = c] /\ reactor' = [reactor EXCEPT ![i] = r]
      BY <1>0, <1>3 DEF SendReply, StartWrite
    <2>2. n \in Nat /\ x \in Nat /\ x \in {None, i}
      BY <1>0, StreamsAssumption DEF Mine, CallType, Stream
    <2>3. /\ c \in CallType /\ c.unread = call[i].unread /\ c.life = call[i].life /\ c.wire = x
          /\ c.after = call[i].after
      BY <1>0, <2>2 DEF CallType
    <2>4. r \in ReactorType /\ r.pending = reactor[i].pending  BY <1>0 DEF ReactorType
    <2>5. Mine(i, client[i], c, r)  BY <1>0, <2>2, <2>3, <2>4 DEF Mine
    <2>6. reactor'[i] = r /\ call'[i] = c /\ \A j \in Stream \ {i} : call'[j] = call[j]
      BY <1>0, <2>1
    <2>7. \A j \in Stream : call'[j].unread => call[j].unread  BY <2>3, <2>6
    <2> QED BY <1>0, <2>1, <2>5, <2>6, <2>7, OneTurn
  <1> QED BY <1>1, <1>2, <1>3

\* The event loop takes the first event.
LEMMA EventTurns ==
  ASSUME OrderInv, ~overtaking, EventStep
  PROVE  OrderInv'
  <1>0. /\ client = [j \in Stream |-> client[j]] /\ call = [j \in Stream |-> call[j]]
        /\ reactor = [j \in Stream |-> reactor[j]]
        /\ \A j \in Stream : Mine(j, client[j], call[j], reactor[j])
        /\ responder \in Stream \cup {None} /\ controlQueue \in Seq(EventType)
        /\ InTurn(controlQueue, responder, call)
    BY DEF OrderInv
  <1>1. /\ controlQueue # << >> /\ controlQueue' = Tail(controlQueue)
        /\ client' = client /\ overtaking' = overtaking
    BY DEF EventStep, HandleStreamOn, HandleStreamClose, HandleRequest, IsNext, unchanging
  <1> PICK e : e = Head(controlQueue)  OBVIOUS
  <1>2. controlQueue' \in Seq(EventType) /\ e \in EventType /\ e = controlQueue[1]
    BY <1>0, <1>1, HeadTailProperties
  <1>3. responder' = After(e, responder)
    BY <1>2 DEF EventStep, HandleStreamOn, HandleStreamClose, HandleRequest, IsNext, After,
                EventType
  <1>4. responder' \in Stream \cup {None}  BY <1>0, <1>2, <1>3 DEF After, EventType
  <1>5. \A calls : (\A j \in Stream : calls[j].unread => call[j].unread)
                     => InTurn(controlQueue', responder', calls)
    BY <1>0, <1>1, <1>3, TurnHandles
  <1>6. CASE UNCHANGED << call, reactor >>
    <2>1. call' = call /\ reactor' = reactor  BY <1>6
    <2>2. InTurn(controlQueue', responder', call')  BY <1>5, <2>1
    <2> QED BY <1>0, <1>1, <1>2, <1>4, <2>1, <2>2 DEF OrderInv
  <1>7. CASE /\ e.what = "Request" /\ responder # None
             /\ SendReply(responder, e.stream)
    <2>1. 1 \in 1 .. Len(controlQueue)  BY <1>0, <1>1, LenProperties, EmptySeq
    <2>2. Meets(controlQueue, responder, 1, e.stream)  BY <1>0, <1>2, <1>7, <2>1 DEF InTurn
    <2>3. responder = e.stream  BY <1>7, <2>2 DEF Meets
    <2>4. responder \in Stream  BY <1>0, <1>7
    <2> QED BY <1>1, <1>2, <1>4, <1>5, <1>7, <2>3, <2>4, SendReplyTurns
  <1> QED BY <1>6, <1>7 DEF EventStep, HandleStreamOn, HandleStreamClose, HandleRequest, IsNext

\* No stream has been opened.
LEMMA OrderInit ==
  ASSUME Init
  PROVE  OrderInv
  <1>1. \A i \in Stream : Mine(i, NoClient, NoCall, NoReactor)
    <2>1. NoCall \in CallType /\ ~NoCall.unread /\ NoCall.wire = None /\ NoCall.after.write = None
      BY NothingType DEF CallType, NoCall, None, Nothing
    <2>2. NoReactor \in ReactorType /\ Len(NoReactor.pending) = 0
      BY EmptySeq DEF ReactorType, NoReactor
    <2>3. NoClient \in ClientType /\ NoClient.reply = None  BY DEF ClientType, NoClient, None
    <2> QED BY <2>1, <2>2, <2>3 DEF Mine
  <1>2. controlQueue \in Seq(EventType) /\ Len(controlQueue) = 0  BY EmptySeq DEF Init
  <1>3. InTurn(controlQueue, responder, call)
    <2>1. \A i \in Stream : ~call[i].unread  BY DEF Init, NoCall
    <2> QED BY <1>2, <2>1 DEF InTurn
  <1> QED BY <1>1, <1>2, <1>3 DEF Init, OrderInv

\* Every step keeps every request in turn.
LEMMA OrderStep ==
  ASSUME OrderInv, [Next]_streamVars
  PROVE  OrderInv'
  <1>1. CASE UNCHANGED streamVars
    BY <1>1 DEF streamVars, OrderInv, InTurn, Meets
  <1>2. CASE overtaking /\ Next
    <2>1. overtaking' = overtaking
      BY ZenonT(30), <1>2 DEF Next, EventStep, HandleStreamOn, HandleStreamClose, HandleRequest, Open,
                  ClientStep, ReadReply, Closed, Expire, ClientIs, Construct, Callback, OnReadDone,
                  OnReadEnd, ReadTryFinish, OnCancel, CancelTryFinish, TryFinish, OnWriteDone,
                  AfterWriteDone, OnDone, unchanging
    <2> QED BY <1>2, <2>1 DEF OrderInv
  <1>3. CASE ~overtaking /\ EventStep
    BY <1>3, EventTurns
  <1>4. ASSUME ~overtaking, NEW i \in Stream,
               Open(i) \/ ClientStep(i) \/ Construct(i) \/ Callback(i)
        PROVE  OrderInv'
    BY <1>4, ClientTurns, ConstructTurns, OnReadDoneTurns, CallbackTurns DEF Callback
  <1> QED BY <1>1, <1>2, <1>3, <1>4 DEF Next

\* The invariant of streams in order holds of every behaviour.
LEMMA StreamsAreInTurn == Spec => []OrderInv
  <1>1. Init => OrderInv  BY OrderInit
  <1>2. OrderInv /\ [Next]_streamVars => OrderInv'  BY OrderStep
  <1> QED BY <1>1, <1>2, PTL DEF Spec

\* The peer never reads another request's reply on its stream, unless its
\* streams overtake each other: one responder per peer is enough, whenever the
\* old stream's end reaches the event loop, and whichever callback reports it.
THEOREM RepliesAreOwn == Spec => []AnswersOwnRequest
  <1>1. OrderInv => AnswersOwnRequest  BY DEF OrderInv, Mine, AnswersOwnRequest
  <1> QED BY <1>1, StreamsAreInTurn, PTL
=============================================================================
