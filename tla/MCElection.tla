----------------------------- MODULE MCElection -----------------------------
(***************************************************************************)
(* Elections from a cold start: every step of the two kinds of vote, with  *)
(* restarts.  What a new leader sends is left undelivered, so the logs     *)
(* only differ by the leaders' no-ops.                                     *)
(***************************************************************************)
EXTENDS RaftSafety, TLC

ElectionNext ==
  /\ \E s \in Server : \/ OnPreVote(s) \/ OnRequestVote(s) \/ ElectionTimeout(s) \/ Restart(s)
                       \/ \E p \in PeersOf(s) : PreVoteReturns(s, p) \/ RequestVoteReturns(s, p)
  /\ RecordVotes

ElectionSpec == Init /\ [][ElectionNext]_vars
=============================================================================
