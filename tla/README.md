# RaftStorage: specification and proofs

TLA+ modules for RaftStorage, a replicated key-value store: a Raft
implementation over gRPC streams (`src/Raft`, `src/include/Raft.h`), a
key-value server on top of it (`src/Server`) and a skip list as the store
(`src/include/SkipLists.h`).

- [Inventory of the system](#inventory)
- [Modules and how they correspond to the code](#modules)
- [Runs, bounds, fairness](#runs)
- [Findings](#findings)
- [Theorems](#theorems)
- [What is only model-checked, and what is not modelled](#limits)
- [Plan](#plan)

To check: `tlc -config MCElection.cfg MCElection` (and likewise the other
`.cfg` files), `tlapm Raft_proofs.tla` (and the other `_proofs`).

<a name="inventory"></a>
## Inventory

| Component | State | Operations | Talks to |
|---|---|---|---|
| **Raft object** (`Raft.cc`, `Raft.h`) | term, vote, log, snapshot position, commit and applied index, role, votes counted, per-peer `nextIndex_`, `matchIndex_`, `replicationInFlight_`, `replicationPending_`, the active read round, four deadlines | five request handlers, four reply handlers, three deadlines, `start`, `readIndex`, `snapshot`, constructor | its peers through the RPC layer, the thread pool (calls), the persister, the apply queue |
| **Event loop** (`Raft::eventLoop`) | `controlQueue_`, `commandQueue_`, the stop flag | post, run a batch, sleep until the next deadline, stop | everything that calls the Raft object |
| **RPC streams** (`RaftRpcUtil.cc`) | one client stream per peer and kind, one server reactor per stream, `streamServer_` (responder per peer) | open, write, read, cancel, done | gRPC, the Raft object's handlers |
| **ThreadPool** | task queue, workers, `stopped_` | submit, run, stop | the Raft object hands it one blocking call per request |
| **Persister** | two files, a writer for each | `saveRaftState`, `save`, `readRaftState`, `readSnapShot` | Raft object, KVServer |
| **KVServer** (`KVServer.cc`) | store, pending requests, one `RpcCompletion` per call, deduplication table, query queue | `PutAppend`, `Get`, apply, complete, cancel, snapshot, restore, query, stop | Raft object (`start`, `needSnapshot`, `snapshot`), apply queue, gRPC's callbacks |
| **SkipList** | nodes, levels | insert, search, delete, display, dump and load | KVServer |
| **Util** | `LockQueue`, assertions, formatting | push, pop | all |

How they interact: client calls, peers' requests, replies of calls and passing
deadlines all become events of **one** event-loop thread per Raft object, so
handlers do not interleave within an object.  A call to a peer blocks a worker
of the thread pool; its outcome (reply, or failure of the transport) comes back
as another event.  Committed commands and snapshots leave through the apply
queue, from which the KVServer's apply thread feeds the store.

What is hard here:

- a reply arrives after its caller changed role, term, log or snapshot;
- a request arrives after its caller gave up (time-out of `CallbackUtils`), and
  even its reply may then be sent on the caller's *next* stream, because
  `streamServer_` has one responder per peer;
- a stream's callbacks run on gRPC's threads beside each other and beside the
  event loop, and up to three of them learn of its end;
- replication, read heartbeats and snapshots share one in-flight flag per peer;
- logs are cut at both ends, by conflict and by snapshot;
- a restart reads what the last `persist()` left;
- the read round is one object shared by callers, the role and the peers;
- a server is taken down while callers wait, the event loop works and the pool
  has calls under way, part by part and by a thread of its own.

What makes each component correct:

- *Raft object*: one vote per term and server; one leader per term; what is
  committed stays, at every leader and every state machine; what a leader
  believes of a peer is so; every call is accounted for; a read round is as
  fresh as the cluster; the disk is always what the object is; followers catch
  up and reads get answered when calls stop failing.
- *Event loop, thread pool*: every event posted and every task submitted before
  the stop is run or its waiter is told; the stop terminates.
- *RPC streams*: `Finish` once per stream, a responder is removed by its own
  stream only, a reply answers the request it was made for.
- *Persister*: between saves the files hold what was last saved, and a reader
  gets that and nothing older.
- *KVServer*: each request is completed exactly once, a command with a client's
  id is applied once, a Get sees every write completed before it began.
- *SkipList*: a map from keys to values, in key order.

`PROJECT.json` lists the components with their status, and under `hazards` the
places in the code where these can go wrong, with the property that watches
each place, or why none does.

<a name="modules"></a>
## Modules

```
RaftLog                  pure operators: one object's log and snapshot prefix
  Raft                   objects, calls, network, timers, clients, restarts
    RaftSafety           what they promise
      RaftHistory          all that was ever committed; ReplicatedLog as its
                           refinement
      MCElection         cold start, both kinds of vote, restarts
      MCLeader           start states with an established leader
        MCSuccession     two leaders' logs and read rounds
        MCSnapshot       snapshots, restarts
        MCLiveness       fairness; what a stable leader gets done
      RaftAgreement      the inductive invariant of logs and commits
      RaftObject_proofs  what each function and handler does to one object
        Raft_proofs      every step of the cluster; types, disks, votes
          RaftAgreement_proofs    logs and commits; the refinement
            RaftLeader_proofs     a leader's calls, commits and read rounds

ReplicatedLog            abstract: one log, handed to every state machine

Streams                  the streams of one peer: reactors, responder, event loop
  StreamsSafety          what they owe to gRPC and to the two servers
    Streams_proofs       Finish once, gRPC's contract, whose reply it is

ThreadPool               submit, workers, stop
  Node                   one server's threads: event loop, pool, apply thread,
                         callers, destructor
    NodeSafety           who waits, what is left
      Node_proofs        the pool's invariants, the end of the destructor

SkipList, Persister      pure operators: the store's links, the two files
  Storage                a leader that applies, saves, restarts; a follower
    StorageSafety        what lists and files promise
      Storage_proofs     the files at every point of a save; the links
```

(The KVServer's modules are below.)  `Raft` is the whole cluster with handlers
as atomic steps; `Streams` and `Node` open what lies under that view, and show
when it is justified: that a handler's caller is told, that a reply belongs to
its request (the assumption behind `Overtaken`), that posted events are run.

### RaftLog

`logs_` holds what follows `lastIncludeSnapshotIndex_`; an entry is represented
by its term (its command and its index are functions of term and position).
The helpers `getLastLogIndex`, `getLogTermFromIndex`, `matchLog`,
`whetherVoteFor`, the conflict search of `handleAppendEntries`
(`ConflictIndex`), its merge loop (`ExtendsLog`, `MergeEntries`) and the suffix
that `handleInstallSnapshot` keeps (`LogAfterSnapshot`) are operators.
`IsLogIndex` is the assertion of `getLogTermFromIndex`.

### Raft

`raft[s]` is a record with the members of the Raft object of `s`.  One handler
is one action, since the event loop runs handlers one after the other.  A
handler is a function from the object before it to the object after it, built
from the functions that the code calls, in the order it calls them:
`HandleAppendEntries` is `Observe` (`becomeFollower` for a newer term), then
`FollowLeader`, `MatchLog`, `StoreEntries`, `LearnCommitIndex`; `BecomeLeader`
includes the no-op entry, its `persist()` and the first replication.

| Code | Model |
|---|---|
| `OnAppendEntries` … → `handle…` on the event thread | `OnAppendEntries(s)` …: some request for `s` is handled and answered (`Answer`) |
| task in the thread pool: `launch…` calls and posts the result | member of `threadPool`: request and, once answered, reply; `…Returns(s, p)` handles the reply, `CallFails(s)` the failure (`transportOk == false`) |
| `handleAppendReply`, `handleSnapshotReply`, `handleVoteReply`, `handlePreVoteReply` | the operators of the same name |
| election, heartbeat and quorum deadline | `ElectionTimeout`, `HeartbeatTimeout`, `QuorumTimeout`: may pass whenever the code would look at them |
| `start`, `readIndex` (opening a round, or joining one), `snapshot` | `Start`, `ReadIndex`, `JoinRead`, `Snapshot` |
| process restarts on its files | `Restart`: `Construct` from `persister` |
| `myAssert` fails | `aborted`: the object takes no further step until `Restart` |

Decisions a reader should know:

- *Time* is left out: a deadline may pass at any moment.  `lastLeaderContact_`
  is reduced to whether it was ever set: a pre-vote may find it recent or not,
  but not recent before the first contact.
- *Requests that outlive their caller*: `late`.  A call that fails or whose
  caller restarts may leave its request there, to be handled later or never.
  `late` is a set: two late requests with the same content are one.  A late
  pre-vote is not remembered, for it changes nothing.
- *Replies on the wrong stream*: when a late request is handled and the same
  caller has a newer call of that stream waiting at the same server, the reply
  may become that call's (third case of `Answer`; servers of `Overtaken` only),
  and the newer request itself becomes late.
- *`preVoteRound`*: the round a reply is compared with is the one the closure of
  its call captured, here part of the request.
- *Read rounds* are numbered across the cluster as in the code (the counter is
  static).  A caller that joins an open round adds a callback: no state but the
  history variable `readFloor`, by which the round must then be as fresh as the
  cluster is at that time.
- *Restart* keeps the disk.  `Persister`'s constructor truncates its files, so a
  restart of the whole process in the code as it is starts from nothing; the
  model's restart is a new Raft object on the same `Persister`, the use that
  `readPersist` is written for.  The truncation itself is in module `Persister`.
- `readFloor` and `votes` are history variables; no action reads them except
  the length of `readFloor`, which is the static round counter.

Bounds are constants: `MaxTerm` (elections), `MaxIndex` (client commands),
`MaxPreVoteRound`, `MaxReadRound`, `MaxLate`, and the sets of servers that may
stand for election (`Impatient`), restart (`Crashing`), take snapshots
(`Compacting`) or be unreachable (`Flaky`), and the kinds of request that may
fail (`Failing`).  The theorems hold whatever they are.

### RaftSafety

The type invariant, the invariants and the action property, each with the code
it is about.

### ReplicatedLog, RaftHistory

`ReplicatedLog` is what Raft promises to the state machines, without leaders,
terms of leaders, calls or disks: one `log` that only grows; each server is handed the
commands that follow those it has had (`HandCommands`), or a snapshot that ends
with some command of the log (`HandSnapshot`), or starts again from some earlier
position (`StartAgain`).  A snapshot may be older than what the server has had,
as `handleInstallSnapshot` compares with the last snapshot only (finding 2).

| Raft | ReplicatedLog |
|---|---|
| `committed`, the history of commits | `log` |
| `lastApplied_` | `applied` |
| the apply queue | `handed` |

No variable of `Raft` is the log: after a restart a server knows as committed
what its snapshot has, and every server may restart.  `RaftHistory` therefore
adds the history variable `committed`: whatever a step newly commits at some
server is appended (`RecordCommits`), and nothing is ever taken back.  It is set
by every step and read by none, so `HistorySpec` has the behaviours of `Spec`.
Within one apply queue, `StateMachineSafety` says that indexes are not
contradicted; `ImplementsReplicatedLog` says in addition that no command is left
out, repeated or out of order, and that what was handed over before a restart
still binds the cluster after it.

### KVStore, KVService

```
KVStore                  commands and what they do to the store
  KVService              abstract: each request executed at most once
  KVServer               one server: calls, pending requests, apply thread
    KVServerSafety       what it promises; KVService as its refinement
      KVServer_proofs    who holds a call's completion; the refinement
      MCKVServer         commands of one and two clients
        MCKVLiveness     fairness; who is answered
```

`KVStore` has `SkipList::insert` and `erase` by their effect on the pairs and
their result, and `loadFromJson` with what `>>` leaves of keys and values
(`Rereads`) and the undefined behaviour of clearing a store that is not empty
(`Loads`: any pairs; afterwards the store is taken for a sound one again, which
the code's is not).  `KVService` is the abstract specification: a
request is asked for, executed at most once, and each call for it is answered
with the outcome of that execution or refused.

### KVServer

| Code | Model |
|---|---|
| `PutAppendReactor::Start` | `StartPut` until `raft_->start()` returns, then `RegisterPending`: the apply thread may run in between |
| `pendingRequests_` | `pendingRequests`, of each request key an entry or `Nil` |
| `RpcCompletion` | `done`, `cancelled` of the call's record (`reply` and `reactor` are null exactly if `cancelled`) |
| `applyWorkerLoop` | `ApplyCommand`, then `CompletePending` (section under `pendingMutex_`), `MarkDone` (section in `finish()`), `Finish`; or `Restore` |
| `OnCancel` | `OnCancel` (section of `cancelPending`), `Cancel` (the completion) |
| `OnDone` | `OnDone` |
| client's deadline, next call, retry | `GiveUp`, `Send`; `SendElsewhere` is a call of another server |
| the Raft object | `raft`: `Elected`, `Deposed`, `Follows` (a leader's entry replaces what is not committed), `Commits` (pushes to the apply queue), `InstallsSnapshot` |

Decisions:

- *gRPC* is modelled by its contract: the callbacks run after the handler has
  returned, `OnCancel` only for a call that the client ended, `OnDone` only
  after `Finish`; an answer reaches a client that still waits.
- *Clients* do what deduplication by the highest number needs: one request at a
  time, numbered from 1, the same number for a retry.
- *Raft* is wider than module `Raft` allows: any request a client made may come
  from another leader, at any uncommitted position.  That no committed one is
  replaced (`Replaceable`) is an assumption about the rest of the cluster:
  `handleAppendEntries` has no such test (`Raft.cc:525`).  It is what
  `CommittedIsKept` of module `Raft` says (theorem `CommittedStays`).
- The snapshots that other servers send are those of leaders that applied every
  command of a log themselves (`SnapshotOf`).  `raft.made` remembers what this
  server appended as a leader, since nobody else makes entries of its terms.
- `index` and `term` of a call are the locals of `Start` and end with it.
- `maybeSnapshot` changes only the Raft object's snapshot position, which this
  module's log does not have.
- `executed` is a history variable: the outcome of each request's first
  execution.

### Streams

One peer, one kind of stream (`kind`, chosen at the start), and the streams the
peer opens for its requests, one per request and each when it is done with the
last.

| Code | Model |
|---|---|
| `launchAppendEntries`, `launchSnapshot`: `Write`, `Read`, `Close` | `Open`, `ReadReply`, `Closed`; its deadline is `Expire` |
| the reactor's constructor, posting `…StreamOn` | `Construct` |
| `OnReadDone(true)`, `OnReadDone(false)`, `OnCancel` | `OnReadDone`, `OnReadEnd`, `OnCancel`; the `TryFinish` at the end of the last two is a step of its own (`ReadTryFinish`, `CancelTryFinish`) |
| `OnWriteDone` | `OnWriteDone` (its critical section), `AfterWriteDone` (what it starts afterwards) |
| `OnDone` | `OnDone`, only when gRPC has nothing under way and the stream was finished |
| `closed_`, `writing_`, `finished_`, `pendingReplies_` | members of `reactor[i]`; `reachable` is what the `StreamState` says of it |
| `streamServer_[server]`, the handlers' last lines | `responder`; `HandleStreamOn`, `HandleStreamClose`, `HandleRequest` with `SendReply` |

gRPC is modelled by its contract: one operation of a kind at a time, `OnCancel`
at any time after the call was cut off, a failed write only on such a call, no
callback after `OnDone`.  `call[i]` is what gRPC knows of the stream and what it
has been asked to do, against which `GrpcContract` checks every step.

One thing about the environment is a parameter.  `Overtaking`: whether a new
stream's callbacks may run before the last one's request has been read.  gRPC
accepts the two calls on different threads and orders nothing between them, but
the peer only opens the second after the first was answered or its deadline
passed, so that overtaking is what happens to an abandoned stream.

A failed write may also be the first the reactor hears of the end, before
`OnCancel` and `OnReadDone(false)`.  An AppendEntries reactor then breaks gRPC's
rules (see the counterexamples).  The model does as the code does and remembers
it in the history variable `failedFirst`, from where on `FinishedOnce`,
`GrpcContract` and `EveryStreamEnds` say nothing.

### ThreadPool, Node

`ThreadPool` has the pool as its two methods and `workerLoop()` make it.  A
worker's evaluation of the predicate and its going to sleep are two steps, with
the mutex held: `stop()` does not take the mutex and comes in between.

`Node` composes it with the rest of one server.

| Code | Model |
|---|---|
| `controlQueue_`, `commandQueue_` | sequences of who waits for the event, or `Reply` |
| `eventLoop`, `processEventBatch`, `handleDeadlines` | `loop.at` goes through `"control"`, `"command"`, `"deadlines"`, `"check"`, `"waiting"`, `"exited"`; one event or check is one step |
| `quorumDeadline_`, `heartbeatDeadline_`, `electionDeadline_` | membership in `passed`; setting one takes it out (`Stays`, `Follows`, `Leads`) |
| `threadPool_->submit` in a handler | `launching`, then `SubmitCall`: the handler has read `stop_` before |
| `start`, `OnRequestVote`, `OnPreVote`, `needSnapshot`, `snapshot`: post, then wait for the promise | `CallStart`, `CallVote`, `AskRaft`; `caller[c]` is `"waiting"` until `Tell` |
| `queryStateMachine` (`debugDumpState`), the apply thread's turns | `Query`, `BeginTurn`, `AnswerQuery`, `EndTurn`, `ApplyExits` |
| `~KVServer`, in it `~Raft` | `main`, one value per statement, from `BeginShutDown` to `JoinLoop` |

What handlers do to terms and logs is left out; of `Raft` remains which handler
may set which deadline, change the role, end the read round or launch calls.
`broken` is the end of the process before its time: an exception of `submit` on
the event thread, or the destructor moving from a read round that the event loop
has just reset.  Several calls launched by one handler are one.  A server runs
when the model starts, leading or not, with or without a read round.

### SkipList, Persister, Storage

`SkipList` is the list as a value: `forward` maps every node that is not freed
to its links, so that a link to freed memory shows; `curLevel`, `elementCount`.
`Insert` and `Erase` are the code's search (`Predecessors`) and relinking; the
random height is a parameter.  `LoadFromJson` has both: what `>>` leaves of a
key (`KeyWord`) and of a value (`Word`), so that keys may fall together and the
last one counts, and `clear()`, which frees the nodes and leaves the header's
links.  `WellFormed` and `NoDanglingLink` say what makes the links a skip list.
`Persister` is the two files with their writers' buffers; `SaveRaftState` and
`Save` are lists of steps on them, `ReadSnapShot` closes and reopens the writer,
and throws over an empty file (`ParseError`), where `ReadRaftState` returns
nothing (`NoFile`).

`Storage` is who uses them: the leader's apply thread (`Apply`), its event loop
(`Snapshot`, `Persist`, step by step `SaveStep`), `SendSnapshot` to a follower
that restores, whatever its store holds, and the death of either process between any two steps
(`LeaderRestarts`, `FollowerRestarts`).  `mutex_` of the list is left out, since
only the apply thread uses it; the follower's history variable `inPlace` says
whether one was restored over pairs, after which its list is not sound; the
persister's mutex keeps a save whole for readers,
who are on the same thread anyway.

<a name="runs"></a>
## Runs

The Raft runs have three servers: the smallest cluster in which a quorum is not
everybody and two quorums share exactly one server.  `CHECK_DEADLOCK FALSE`
everywhere: with elections, commands and rounds bounded, the system really
stops.  A run takes the part of `Next` that its question is about, a
sub-relation written out in its MC module; everything it leaves out is a step
that need not happen.

| Run | Bounds | Shows |
|---|---|---|
| `MCElection` | cold start, terms to 2, two servers stand, two may restart at any point, one late request | `VoteOnce`, `ElectionSafety` |
| `MCSuccession` | start: leader of term 1, another server a candidate of term 2; log to index 3 by commands, or to index 2 and two read rounds; calls to the old leader and to the third server fail, quorum time-outs | `LogMatching`, `LeaderCompleteness`, `StateMachineSafety`, `InFlightIsExact`, `ReadRoundIsFresh`, `LeaderStateOnlyAtLeader`, `CommittedIsKept`, `ImplementsReplicatedLog` |
| `MCSnapshot` | one leader, leader and one follower take snapshots, that follower restarts, one late request, failing calls | `TypeOK`, `CommitWithinLog`, `MatchIndexIsHeld`, `DiskIsCurrent`, `CommittedIsKept`, `ImplementsReplicatedLog` |
| `MCStable` | stable leader that takes snapshots or opens two read rounds, log to index 2, any number of heartbeat deadlines; calls to both followers fail, read heartbeats to one (`Far`) | `FollowersCatchUp`, `EveryReadIsAnswered` |
| `MCKVServer` | one leader that may be deposed once, log to index 4, three calls for a put and a delete, given up at any time | `ImplementsKVService` |
| `MCKVPending` | cold start, terms to 2, log to index 3, one snapshot, two calls, everything in `Next` | `KVTypeOK`, `FinishIsSafe`, `PendingIsLive`, `OnlyOwnEntryIsDropped` |
| `MCKVAnswered` | stable leader that commits at any time, log to index 4, three calls for a put and a delete, given up and retried at any time | `EveryAwaitedPutIsAnswered` |
| `MCNode` | two workers, a client, a peer and a reader, of whom (with the apply thread) two call; one task, one surprise (deadline or spurious wake-up), batches of one event | `AcceptedTasksAreRun`, `NoTaskBesideASleeper`, `NothingIsLeft`, `EveryCallerIsTold`, `DeadlinesAreNoticed`, `ShutdownEnds` |
| `MCStreams` | two streams of either kind; AppendEntries streams may overtake; a failed write may come first | `FinishedOnce`, `AnswersOwnRequest`, `GrpcContract`, `EveryStreamEnds` |
| `MCStorage` | three keys, two of which begin with the same word, levels 0 to 2, values of one and two words, three commands, one term, restores into an empty store and over pairs | `ListIsMap`, `ListIsWellFormed`, `EqualityIsExact`, `SnapshotIsRestored`, `DiskIsSaved` |
| `MCReadAbort`, `MCSnapshotRegress` | see the findings | the counterexamples |

Start states.  `MCElection`, `MCKVPending`, `MCStreams` and `MCStorage` start as
the code does.  Of the Raft runs, the others start where an election has ended
(`LeaderInit`) or where one is under way at a follower that
a peer granted a pre-vote (`SuccessionInit`); both are states `Next` reaches
from `Init`, and starting there leaves the state space to what the run is about.
`MCNode` starts with a server that has run for some time.

Why these bounds: two terms suffice for a deposed leader and its successor; what
takes a third election (an entry of an older term that is counted and then
overwritten, `Raft.cc:1216`; a grant that comes back after its election,
`Raft.cc:813`) is left to the theorems; a log of two entries plus the
no-op has a committed prefix, an uncommitted suffix and a conflict; one late
request is enough for a stale request to meet newer state, since handlers look
at one request; two read rounds let one be overtaken by another.  For each
property of each run a plausible slip in the code (a missing `persist()`, a
quorum counted one short, an acknowledgement credited with the whole log, a flag
not reset, …) was put into the model, and the run found it: the mutated operator
stands before the real one in its module, marked *Mutant*.

For the KVServer two attempts at one request are what its table can confuse, and
a third call lets a late first attempt meet a later command; a put and a delete
of one key give every repeated execution away.  `MCKVServer` leaves out
`OnDone`, which comes after the answer, and snapshots, after which the code does
not implement `KVService` (see the counterexamples).

`MCSuccession` has a follower that appends for two leaders, an entry of the old
term under a quorum that the new leader must not count, and both leaders' read
rounds at once; heartbeat deadlines, which only send again what failed, are left
to `BeatingSpec`, which one can run instead with `MaxReadRound = 0`,
`MaxIndex = 2`, `Failing = {"AppendEntries"}`, `Flaky = {s1}` and, in addition,
`MatchIndexIsHeld` (it holds; `MCSnapshot` checks it in its setting).

It needs a log of three: logs that differ at an index and agree again
behind it are what log matching rules out, and a request with one entry too many
or too few shows only then.  A third entry that is a command and read
rounds do not occur together (`ReadsApart`).  The old leader's calls to the
new one need not fail: that server has the higher term from the start and
refuses them.  In `MCSnapshot` calls to every server fail.

`MCNode`: two workers tell one that is notified from one that is not; one task
and two callers are the ones that meet shutdown in every order; batches of one
make the loop look at the other queue and the deadlines after every event, all
orders of longer batches being among these.  `MCStreams`: the second stream is
the one a late event of the first can hurt, and the responder has no memory of
more.  `MCStorage`: three keys give an erase both neighbours, three levels one
that is emptied between two others.

### Fairness

`MCLiveness` assumes, for a leader that nobody challenges: a request that
arrives is handled and a reply that arrives is handled (the event loop runs
every event, `WF` per peer; there is at most one call to a peer under way, which
is `InFlightIsExact`, so this is fairness per call); the heartbeat deadline
passes again and again (`WF` of `Beat`); the network becomes `reliable` at some
time, and calls fail only before.  (Saying "calls fail finitely often" of the
actions would not do: a failing call and an answer that changes nothing can be
the same step.)  `CallIsFair` is `WF` with its `ENABLED` written out, which TLC
evaluates much faster.  Nothing is assumed of clients or of snapshots, and
nothing of how long an answer takes: any number of heartbeat deadlines may pass
during a call (the heartbeat interval is 50 ms, the time-out of a call 100 ms).

`EveryReadIsAnswered` has a condition in its formula: with some follower to which
read heartbeats are not lost, the leader is idle again and again.  The code gives
no such guarantee: a heartbeat deadline that passes during a call marks the peer
`replicationPending_`, `handleAppendReply` then replicates instead of sending the
read heartbeat, and if that happens to every call the round starves
(`EveryReadIsAnsweredAnyway` fails).

`MCKVLiveness` assumes that a handler and the callbacks it owes run
(`WF` per call: they are the steps of one thread after the other), that the
apply thread runs, and that the leader's entries get committed, when is left
open: also before the call has registered its request.  Nothing is assumed of
clients: they give up and retry as they like.  `EveryAwaitedPutIsAnswered` is
about the calls that the code does answer: those whose entry is in
`pendingRequests_` before its position is completed, with no earlier attempt at
the same request still to be completed.  The others are counterexamples below.

`NodeFairSpec`: each thread that can go on does, which is what an operating
system gives: the event loop, the apply thread, and the workers or the
destructor (a call to a peer has a deadline, so its task ends).  Nobody need
call, no deadline need pass, the destructor need not begin.  A deadlock of one
thread does not hide behind another: the three conditions are separate.

`FairSpec` of `Streams`: as long as gRPC owes a callback, the event loop an
event or the peer its next step (its deadline, at the latest), one of them is
taken.  No order among them is assumed.

<a name="findings"></a>
## Findings

TLC refutes these runs.

1. **`MCReadAbort`** – `scheduleHeartBeat` asks for the term at `nextIndex - 1`
   of a peer that is behind the leader's snapshot; the assertion in
   `getLogTermFromIndex` ends the leader's process.
2. **`MCSnapshotRegress`** – a snapshot newer than the follower's last one but
   older than what it applied is handed to the state machine, which falls back
   behind `lastApplied_`.

The rest are counterexamples that TLC shows when the configuration named is
changed as said.  Where a run excepts one of them, its property says so.

Safety of the log and the store:

- *A reply on the wrong stream.*  The reply to a request whose caller gave up is
  sent on the caller's next stream and credited to its next request: an entry
  only the leader holds gets committed, and two state machines differ
  (`Raft.cc:559`).  `MCSuccession.cfg` with `BeatingSpec`, `MaxReadRound = 0`,
  `MaxIndex = 2`,
  `Failing = {"AppendEntries"}`, `Flaky = {s3}`, `MaxLate = 1`,
  `Overtaken = {s3}`: `StateMachineSafety`.
- *A read that joins a round.*  It is answered with the round's read index, which
  may be older than a write that was acknowledged before it began
  (`Raft.cc:354`).  `MCSuccession.cfg` with `JoiningSpec`,
  `MaxIndex = 2`: `ReadRoundIsFresh`.
- *A command executed twice.*  `restore` never loads the deduplication table: its
  test asks for a value that is an array and an object (`KVServer.cc:80`).  A
  command that a snapshot covers is executed again when its retry is applied.
  `MCKVServer.cfg` with `RestoreSpec`, `Client = {c1, c2}`,
  `Value = {"a", "b"}`, `Command <- TwoPuts`, `MaxCalls = 3`, `MaxIndex = 3`, `MaxTerm = 1`,
  `MaxSnapshots = 1`: `StoreIsOfTheLog`.
- *Keys and values lose what follows a space* when a follower restores them, and
  keys that begin with the same word become one (`SkipLists.h:384`).
  `MCStorage.cfg` with `FollowerHoldsSnapshot` as an invariant.
- *Links to freed nodes.*  `loadFromJson` clears the nodes and leaves the header's
  links to them (`SkipLists.h:375`); a follower that lags behind a snapshot
  restores into the store it has (`KVServer.cc:299`).  `MCStorage.cfg` with
  `FollowerIsSound` as an invariant.  The theorem `RestoredInPlaceDangles` says
  that such a restore always leaves such a link.
- *A new process has no past.*  `Persister`'s constructor truncates both files
  (`Persister.cc:14`).  `MCStorage.cfg`: `TermIsKept`.

Liveness of replication, reads and puts:

- *A follower that never catches up.*  A follower that compacted beyond
  `nextIndex` suggests an index *ahead* of it; `handleAppendReply` replaces such
  a suggestion by `nextIndex - 1` (`Raft.cc:1052`).  `MCStable.cfg` with
  `Compacting = {s3}`, `Flaky = {s3}`, `Failing = {"AppendEntries"}`,
  `MaxIndex = 3`, `MaxReadRound = 0`.
- *A read that is never answered.*  `MCStable.cfg` with
  `EveryReadIsAnsweredAnyway`, for one of three reasons.  Heartbeat deadlines that
  pass during every call put the read heartbeat off for ever (`Raft.cc:1061`):
  `Failing = {}`.  A read heartbeat whose call failed is never sent again; the
  round, and every later read that joins it, stays open if that acknowledgement
  is needed (`Raft.cc:1004`): `Far = {s2, s3}`, and without `Beat` in `StableSpec`
  nothing else is left to be the reason.  And a server alone hears of no
  acknowledgement (`Raft.cc:732`): `Server = {s1}`, `Far = {}`, `Flaky = {}`,
  `Compacting = {}`.
- *A put that is never answered.*  A command applied between `start()` and
  `registerPending()` finds nobody to answer, and the entry made afterwards
  waits for ever (`KVServer.cc:245`).  `MCKVAnswered.cfg` with `WaitSpec` and
  `EveryPutIsAnswered`.
- *A retry that is never answered.*  It meets the entry of the earlier attempt
  and is not registered, or its own entry goes when the earlier attempt is
  applied (`KVServer.cc:327`).  `MCKVAnswered.cfg` with
  `EveryRegisteredPutIsAnswered`.
- *A call that never ends.*  A call whose client gave up is never finished
  (`KVServer.cc:250`): its reactor is not deleted, and gRPC's `Shutdown` waits
  for it.  `MCKVAnswered.cfg` with `EveryCallIsReleased`.

Streams (`MCStreams.cfg`):

- *Finish twice.*  An AppendEntries write that fails before the end of the stream
  is known makes `OnWriteDone` call `Finish` without setting `finished_` or
  `closed_` (`RaftRpcUtil.cc:573`).  `FinishedOnce` without `failedFirst`.
- *The next stream's responder goes.*  `OnDone` reports an end that was reported
  before; the second report removes whatever responder is there
  (`RaftRpcUtil.cc:458`).  `OwnResponder` as an invariant.
- *A stream that is never finished.*  With the reply of an overtaken stream queued
  behind its own, a stream that closes during a write keeps the queue, and
  nothing empties it (`RaftRpcUtil.cc:641`).  `EveryStreamEnds` without
  `~overtaking`.

Threads and shutdown (`MCNode.cfg`, with the property of `NodeSafety` named):

- *`stop()` never returns* (`ThreadPool.cc:24`): it sets `stopped_` and notifies
  without the mutex, and a worker between its check and its sleep misses it.
  `StopReturns`.
- *The process ends* by an exception of `submit` on the event thread, since the
  pool is stopped before the loop (`Raft.cc:113`), or by moving from a read round
  that the event loop has just reset (`Raft.cc:111`).  `NeverBroken`.
- *A query that is never answered* (`KVServer.cc:307`): accepted before
  `stopping_` is set, queued when the apply thread has looked for the last time.
  `EveryQueryIsAnswered`.
- *A follower that spins* (`Raft.cc:166`): its sleep ends at `quorumDeadline_`,
  which only a leader moves on.  `NoBusyWaiting`.

The other properties of Raft hold with `Overtaken = {}`, that is for as long as
a reply stays on its own stream: `AnswersOwnRequest` shows that it does unless
streams overtake.  Types, disks, votes, leaders, log matching and what a leader
keeps about its own rule do not depend on it: their theorems include the third
case of `Answer`.  The theorems about commits and reads assume `Overtaken = {}`.

<a name="theorems"></a>
## Theorems

For every finite non-empty set of servers and all values of the bounds
(`ServerAssumption`, `BoundAssumption`, and `NilAssumption`: no read round is
`Nil`); any finite, non-empty set of workers, any
threads that call, any batch sizes (`WorkerAssumption`, `CallerAssumption`, …);
any number of streams; any clients and commands; any keys, values and `MaxLevel`:

| Theorem | Module | Property |
|---|---|---|
| `TypeCorrectness` | `Raft_proofs` | `TypeOK` |
| `DiskAlwaysCurrent` | `Raft_proofs` | `DiskIsCurrent` |
| `NoSecondVote` | `Raft_proofs` | `VoteOnce` |
| `OneLeaderPerTerm` | `Raft_proofs` | `ElectionSafety` |
| `LogsMatch` | `RaftAgreement_proofs` | `LogMatching` |
| `LeadersHoldCommitted` (a) | `RaftAgreement_proofs` | `LeaderCompleteness` |
| `StateMachinesAgree` (a) | `RaftAgreement_proofs` | `StateMachineSafety` |
| `CommitsAreInTheLog` (a) | `RaftAgreement_proofs` | `CommitWithinLog` |
| `MatchIsHeld` (a) | `RaftAgreement_proofs` | `MatchIndexIsHeld` |
| `CommittedStays` (a) | `RaftAgreement_proofs` | `CommittedIsKept` |
| `ClusterImplementsLog` (a) | `RaftAgreement_proofs` | `ImplementsReplicatedLog` |
| `OneCallAtATime` | `RaftLeader_proofs` | `InFlightIsExact` |
| `LeaderStateDies` | `RaftLeader_proofs` | `LeaderStateOnlyAtLeader` |
| `ReadsAreFresh` (a, c) | `RaftLeader_proofs` | `ReadRoundIsFresh` |
| `NodeImplementsPool` | `Node_proofs` | a `Node` is a `ThreadPool` (`PoolSpec`) |
| `TasksAreNotDropped` | `Node_proofs` | `AcceptedTasksAreRun` |
| `TasksHaveWorkers` | `Node_proofs` | `NoTaskBesideASleeper` |
| `ShutdownIsClean` | `Node_proofs` | `NothingIsLeft` |
| `StreamsFinishOnce` | `Streams_proofs` | `FinishedOnce` |
| `StreamsKeepContract` | `Streams_proofs` | `GrpcContract` |
| `RepliesAreOwn` | `Streams_proofs` | `AnswersOwnRequest` |
| `CallsFinishSafely` | `KVServer_proofs` | `FinishIsSafe` |
| `PendingOnesAreLive` | `KVServer_proofs` | `PendingIsLive` |
| `OwnEntriesAreDropped` | `KVServer_proofs` | `OnlyOwnEntryIsDropped` |
| `ServerTypes` | `KVServer_proofs` | `KVTypeOK` |
| `ServerImplementsService` (b) | `KVServer_proofs` | `ImplementsKVService` |
| `DiskAlwaysSaved` | `Storage_proofs` | `DiskIsSaved` |
| `ListAlwaysMap` | `Storage_proofs` | `ListIsMap` |
| `ListsAlwaysWellFormed` | `Storage_proofs` | `ListIsWellFormed` |
| `EmptyStoreIsRestored` | `Storage_proofs` | `SnapshotIsRestored` |
| `RestoredInPlaceDangles` | `Storage_proofs` | `InPlaceDangles`, which no run checks: why the other three except such lists |
| `EqualityAlwaysExact` | `Storage_proofs` | `EqualityIsExact` |

What a theorem assumes beyond the constants' types is what the findings above say
the code needs: (a) `Overtaken = {}`, a reply stays on its own stream; (b)
`MaxSnapshots = 0`, the server restores no snapshot, for a restore changes
the store in a step that is none of the service's; (c) nobody joins an open read
round, `[][\A s \in Server : ~JoinRead(s)]_vars`.  Some properties state their
exception themselves: `AnswersOwnRequest` of streams that overtake,
`FinishedOnce` and `GrpcContract` of what follows a write that failed first, the
list properties of a follower that was restored over pairs.  `ServerTypes` and
the other theorems of `KVServer` have `Replaceable`'s assumption about Raft in the
model.

### Raft

The argument has eight layers.

1. *One object.*  `TypeOK` is not inductive: `nextIndex_` stays positive and
   `prevLogIndex` a number only because a leader's `nextIndex_` never passes the
   end of its log, and an acknowledgement keeps that only because the request it
   answers carried entries of that log.  `Sound(n)` adds this: disk current,
   snapshot within what is applied, indexes within the log, and every call in
   the pool made in the object's name, in no later term, with no entries beyond
   the log if the object still leads that term; and a candidate has no
   replication call of its own term.  `RaftObject_proofs` shows for each
   function and each handler that it keeps `Sound` and is `Quiet` (gains no
   role, keeps its vote, asks for no vote), or `Stands` (a new election), or
   counts a vote and possibly `Wins`.
2. *The cluster.*  `Raft_proofs` shows that every step of `Next` is a `Moves`
   step: one object makes such a step, or a request is handled and its reply
   given to the task that waits for it.  `TypeInv` is preserved by `Moves`.
3. *Elections.*  `VoteInv` adds to `TypeInv`: votes given are never contradicted
   (`VotesKept`) and all recorded (`VotesRecorded`); a granted reply in a pool is
   a vote that was given to its owner (`GrantsRecorded`); there is one call for a
   vote per peer and term (`OneCallEach`), so that `votesGranted_` never exceeds
   the voters whose call is over (`CandidateCount`); a leader has a quorum of
   voters (`LeaderQuorum`).  Two quorums share a voter, who voted once.
4. *Logs.*  What a log is a copy of is gone once its leader has lost entries, so
   that the invariant (`LogInv` of `RaftAgreement`) is about two histories that
   no variable keeps, and says that suitable ones exist: `led[T]`, the longest
   log of term T's leader, and `held`, who held which entry while in its term.
   Up to an entry of term T every leader's log is `led[T]` (`Tree`); every
   server's log begins one of them (`FromLed`); what requests say fits them
   (`Fits`).  That is log matching.  What a server held it keeps, unless a newer
   leader takes it away, and then a quorum has left the term without holding it
   (`HeldKept`, `Never`); so a candidate has what its voters held
   (`CandidatesComplete`), and a leader what any quorum may hold
   (`LeadersComplete`).  Each step extends the histories as it needs them
   (`LogsMove`, `Recording`).
5. *Commits.*  `CommitInv` adds who knows what of `Committed` entries, those that
   a quorum held in their term: every commit index and everything handed to a
   state machine (`Shape`), what a leader counts as replicated (`Credited`), and
   what requests and replies say of either (`CommitFits`, `AnswerFits`).  A
   leader's commit counts an entry of its own term only, so that the next
   leaders have it.  `AnswerFits` takes a reply for the answer to its request,
   which is where `Overtaken = {}` is needed.
6. *One log.*  `HistoryInv` adds to layer 5 that every entry of the history is
   committed (`Recorded`) and that no server and no snapshot under way goes
   beyond it (`NoFurther`).  So only the server that steps can have newly
   committed anything, its log reaches back to where the history ends
   (`DeedSnapshot`), and what it adds is committed (`RecordStep`).  Since only
   one entry is ever committed at an index (`CommittedOnce`), what a server hands
   over is what the history has there: each kind of step hands over nothing, the
   commands up to the commit index, one snapshot, or starts again (`DeedHands`,
   `StepServes`).
7. *The leader's own rule.*  `Office` says of each object what it needs to know of
   its flags: one replication call of its term to each peer, or none, as
   `replicationInFlight_` says (`OneAtATime`); commits and reads of its term
   only while it leads (`Reigns`).  That a second call is never made because a
   *reply* finds the flag reset needs more than the object: that a leader never
   hears of another leader in its own term, for `FollowLeader` would reset its
   role with calls under way.  `LedRequests` says it: whoever asks to replicate
   or read was elected in the term it names, and one server was.
8. *Reads.*  A round that opens must cover what *any* server has committed, and
   the leader knows only what it has heard.  `Known` says where commits come
   from: some leader decided each, and knows it while it leads.  So what is
   committed by a leader of this term or an older one is within the reader's
   commit index, because `currentTermCommitted_` is set: an entry of its own
   term is committed, and what older terms committed lies before it
   (`LeaderKnowsAll`).  What a newer leader committed may be missing; but then a
   quorum is beyond the reader's term and none of it has confirmed the round
   (`Overruled`), nor will it: a reply that confirms comes from a server still in
   the reader's term (`Hears`), and terms only grow.  A round that completes has
   a quorum of confirmations, which meets that one.  `Timely` says this of the
   active round, `Fresh` of the answered ones, and `ReadsOn` of every handler
   what it does to rounds.  A reader that joins adds to what the round must
   cover after `readIndex_` was fixed, which is why (c) is needed.

### Node

`PoolInv` accounts for every task (`TasksAccounted`: in the queue, run, or
finished) and says what holds while a worker has the mutex or is gone: the queue
is empty (`EmptyWhileHeld`, `ExitedAfterStop`).  `NoTaskBesideASleeper` is part of
it, for `submit()` may wake anybody.  Every step of `Node` is a step of the pool
or leaves it alone, so that `Node` implements `PoolSpec` and has what the pool
has.  `DestructorInv` says, for each place of the destructor, who is gone by then
(`ClientsGone`, `ApplyGone`, `PeersGone`, `ReadersTold`, `LoopStops`,
`LoopIsGone`): clients before the apply thread, peers before the pool, the pool
before the loop, each because nobody is left who could start what the next would
have to wait for.

### Streams

`StreamInv` relates, stream by stream, the members of the reactor to what gRPC
has been asked for (`Sound`).  `FinishedOnce` alone is not inductive: that nobody
finishes again is known because `finished_` is set exactly from the moment when a
`Finish` is certain, be it still ahead of `OnWriteDone` (`OpenIsSound`); that a
second write is not started, because `writing_` is set from `StartWrite` until the
next `OnWriteDone` has decided, also between the two.  A deleted reactor is not
reachable (`ClosedIsSound`), so that the event loop's `SendReply`, which may come
at any time, finds nothing to write to.  One lemma per callback shows that it
keeps `Sound` of its stream and the `Contract`, the one of `OnWriteDone` as long as
no AppendEntries write fails first: what is invariant is `failedFirst \/ StreamInv`.
Both theorems hold for every value of `Overtaking`.

`RepliesAreOwn` rests on `OrderInv`, for as long as no stream has overtaken another.
A reply is written to whatever responder is there when its request is handled,
so that the invariant looks at the event loop's queue: every request in it will
find its own stream's responder or none (`Meets`, `InTurn`), because a stream's
`StreamOn` comes before its request and the next stream's after it.  Then all
that is queued or written on a stream is the answer to that stream's request
(`Mine`).

### KVServer

`KVInv` says who holds a call's completion.  An entry of `pendingRequests_` is for
a call of its own key whose handler has returned, that no callback has ended and
nobody has finished (`Waits`); the call that the apply thread is about to finish
is returned and unfinished, too, and its entry is gone (`Served`); gRPC's last
callback comes after `Finish` (`CallIsSound`).  So a call is never in the table
and in the apply thread's hands at once, which is what makes `Finish` happen once.
What is applied is a request that somebody can look up (`OpsAreRequests`).

The refinement adds `ServiceInv`: everything in the log was asked for (`LogAsked`);
a client is at its last request, and calls for earlier ones are over
(`SessionInv`); `dedup` holds the outcome of each client's last executed request,
so that an entry applied again finds it and an executed one is a duplicate
(`RecordInv`); and what the apply thread is about to tell is the outcome of the
request it serves, or nobody waits for it (`WorkerInv`).  Each step is then one
of `KVService` or a stutter: `ApplyCommand` executes, `Finish` answers.

`ServerTypes` needs the type of a restored store, and a leader's snapshot is a
fold over a log (`SnapshotOf`).  What the fold computes is not proved by induction
over the log but by well-founded minimality: of all prefixes whose fold were no
machine state, take the shortest.  The rest of `TypeInv` keeps positions and
terms within the bounds.

### Storage

`DiskIsSaved` speaks of the moments between saves, so that the invariant says of
every point of `save()` and `saveRaftState()` what the files and the buffers hold
and what is left to do (`DiskInv`: `Idle`, `SavingState` with three points,
`SavingBoth` with six).  A save that begins finds both buffers empty, since the
last one ended with flushes; `readSnapShot`, which closes and reopens its writer
between saves, has nothing to flush; the constructor begins anew from any point.
For that nothing is assumed of the list that is dumped.

For the list itself, `Linked` says that on every level each link leads to the
*next* of the nodes that have this level (`IsNext`), that `curLevel_` is the last
level with a node, and what the nodes hold.  It is stated over sets of nodes, not
over walks, so that one step of a search is all that has to be followed: the
search stops at the last node below the key (`PredecessorsAreLast`), `insert`
puts the key between that node and its next on each of its levels
(`InsertLinked`), `erase` bridges it (`EraseLinked`), and what a walk collects
ascends (`ChainAscends`).  The searches and walks are recursive functions of the
numbers of levels or nodes left; where a statement holds for all of them, a
smallest counterexample is refuted.  `FollowerInv` adds that a follower that was
empty holds what the dump it was sent restores, each key and each value up to
its first space; of keys that fall together the largest is inserted last
(`Restored`).  A follower that was not empty has a header that links to a freed
node, and keeps it (`HeadDangles`).  Two lists with the same pairs are equal for
`operator==` because the lowest level has all nodes, in key order.

<a name="limits"></a>
## Limits

Only model-checked:

- liveness, which is out of the prover's reach (it proves no fairness and no
  `ENABLED`): `FollowersCatchUp`, `EveryReadIsAnswered`, `EveryAwaitedPutIsAnswered`,
  `EveryCallerIsTold`, `DeadlinesAreNoticed`, `ShutdownEnds`, `EveryStreamEnds`;
- `ReadRoundIsFresh` of `Spec` itself, of which it is false: a reader that joins
  a round is answered too early (see the counterexamples).  `ReadsAreFresh`
  proves it, and `MCSuccession` checks it, of rounds that nobody joins;
- the two refuted runs.

Not modelled:

- generated protobuf and gRPC code and the vendored JSON header (`json.hpp` alone
  is two thirds of the lines under `src/`): no logic of this program.  For this
  reason the modules stand for a small share of the lines under `src/` and for
  most of those that are the program's own;
- `Get`, which the code does not implement: at a leader its reactor finishes with
  `UNIMPLEMENTED`, elsewhere it is never finished (`KVServer.cc:192`), and no
  state changes;
- `SkipList::display`, and `dump` and `load` to a text file, which nothing calls;
- configuration parsing, the application entry, logging and formatting;
- real time: a deadline may pass at any moment.  How long calls queue behind
  those to a silent peer in the thread pool, and whether an election can win
  before the next one, are questions of length this model does not ask.

<a name="plan"></a>
## Plan

What is left, by what matters to a client of the store:

1. **Raft as module KVServer sees it.**  `KVServer` has a Raft object of its own,
   reduced to a log and a commit index.  What it does is to be shown a step of
   `ReplicatedLog` at one server, extended by what `start` returns, so that the
   two refinements, of the log by the cluster and of `KVService` by the server,
   meet in one abstract specification.
2. **Get**, once the code answers it: a read round, then a query.
