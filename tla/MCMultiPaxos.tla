----------------------------- MODULE MCMultiPaxos -----------------------------
(***************************************************************************)
(* Small instances of MultiPaxos for TLC.                                  *)
(***************************************************************************)
EXTENDS MultiPaxos

\* Equal priorities: the proposer breaks every tie.
NoPriority == [n \in Node |-> 0]

-------------------------------------------------------------------------------
(* A reachable state to start from when the question is about what follows *)
(* a first election: every node promised ballot (1, Leader) and Leader has *)
(* taken office; the messages of that election are gone.                   *)

CONSTANT Leader
ASSUME LeaderAssumption == Leader \in Node

FirstBallot == ballot_make(1, Priority[Leader], Leader)

ElectedLedger == [EmptyLedger EXCEPT !.promised = FirstBallot]

ElectedNode(n) ==
  [Resumed(n, ElectedLedger, 0) EXCEPT
     !.role = IF n = Leader THEN "Leader" ELSE "Follower",
     !.ballot = IF n = Leader THEN FirstBallot ELSE BALLOT_ZERO,
     !.highest_observed_round = 1]

Elected ==
  /\ disk = [n \in Node |-> ElectedLedger]
  /\ node = [n \in Node |-> ElectedNode(n)]
  /\ history = [n \in Node |-> <<>>]
  /\ net = {}
  /\ votes = {}
  /\ crashes = 0

ElectedSpec == Elected /\ [][Next]_vars

\* The same after the leader has proposed one value in slots 1 to Chunk and each
\* other node n has voted for it in slot Heard[n] alone.
CONSTANT Heard
ASSUME HeardAssumption == Heard \in [Node -> 1 .. Chunk]

AllFirst == [n \in Node |-> 1]

Split == [n \in Node |-> IF n = 3 THEN 2 ELSE 1]

HeardNode(n, v) ==
  [ElectedNode(n) EXCEPT !.ledger = RecordWrites(@, WriteVote(Heard[n], FirstBallot, v))]

HalfVoted ==
  \E v \in Value :
    LET slots == 1 .. Chunk
        r == SendAccepts(Leader, [ElectedNode(Leader) EXCEPT !.next_slot = Chunk + 1],
                         slots, [s \in slots |-> v])
    IN  /\ node = [n \in Node |-> IF n = Leader THEN r.nd ELSE HeardNode(n, v)]
        /\ disk = [n \in Node |-> node[n].ledger]
        /\ history = [n \in Node |-> <<>>]
        /\ net = r.out \cup {Accepted(n, Leader, FirstBallot, Heard[n]) : n \in Peers(Leader)}
        /\ votes = VotesIn(Leader, r.w) \cup
             UNION {VotesIn(n, WriteVote(Heard[n], FirstBallot, v)) : n \in Peers(Leader)}
        /\ crashes = 0

HalfVotedSpec == HalfVoted /\ [][Next]_vars

FairElectedSpec == ElectedSpec /\ Fairness
===============================================================================
