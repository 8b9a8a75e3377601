------------------------------ MODULE MCLeader ------------------------------
(***************************************************************************)
(* Runs that start with an established leader: the state after First was   *)
(* elected in term 1 by everybody, its no-op reached everybody and their   *)
(* answers came back.  Every call has ended; the followers do not know yet *)
(* that the no-op is committed.                                            *)
(***************************************************************************)
EXTENDS RaftSafety, TLC

CONSTANT First

ASSUME FirstAssumption == First \in Server

LeaderObject ==
  Persist([ Construct(First, EmptyDisk) EXCEPT
    !.currentTerm = 1, !.votedFor = First, !.logs = << 1 >>, !.status = Leader,
    !.electionTerm = 1, !.preVoteTerm = 1, !.preVoteRound = 1,
    !.commitIndex = 1, !.lastApplied = 1, !.currentTermCommitted = TRUE,
    !.applyQueue = << [ snapshot |-> FALSE, index |-> 1, term |-> 1 ] >>,
    !.nextIndex = [ p \in Server |-> IF p = First THEN 1 ELSE 2 ],
    !.matchIndex = [ p \in Server |-> IF p = First THEN 0 ELSE 1 ] ])

FollowerObject(s) ==
  Persist([ Construct(s, EmptyDisk) EXCEPT
    !.currentTerm = 1, !.votedFor = First, !.logs = << 1 >>, !.hasLeaderContact = TRUE ])

LeaderInit ==
  /\ raft = [ s \in Server |-> IF s = First THEN LeaderObject ELSE FollowerObject(s) ]
  /\ late = {}
  /\ readFloor = << >>
  /\ votes = { << 1, s, First >> : s \in Server }

\* A follower whose election timer expired and whose pre-vote round one peer,
\* who had not heard of the leader for long, has granted: the vote requests of
\* term 2 are out, the other pre-vote call is over.
CandidateObject(s) ==
  [ BeginElection([ BeginPreVote(FollowerObject(s)) EXCEPT !.preVotesGranted = 2 ])
      EXCEPT !.threadPool = { t \in @ : t.request.kind # "PreVote" } ]

SuccessionInit(second) ==
  /\ raft = [ s \in Server |-> CASE s = First -> LeaderObject
                                [] s = second -> CandidateObject(s)
                                [] OTHER -> FollowerObject(s) ]
  /\ late = {}
  /\ readFloor = << >>
  /\ votes = { << 1, s, First >> : s \in Server } \cup { << 2, second, second >> }
=============================================================================
