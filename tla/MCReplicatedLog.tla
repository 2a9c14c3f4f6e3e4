---------------------------- MODULE MCReplicatedLog ----------------------------
(***************************************************************************)
(* Small instances of ReplicatedLog for TLC.                               *)
(***************************************************************************)
EXTENDS ReplicatedLog

\* Equal priorities: the proposer breaks every tie.
NoPriority == [n \in Node |-> 0]

BallotOf(n, round) == ballot_make(round, Priority[n], n)

FirstPromise(n, round) == [EmptyLedger EXCEPT !.promised = BallotOf(n, round)]

\* Node n, resumed on ledger l, leads its round and may propose from slot on.
LeaderOf(n, l, round, slot) ==
  [Resumed(n, l, 0) EXCEPT
     !.role = "Leader", !.ballot = BallotOf(n, round), !.leader_base = slot,
     !.highest_observed_round = round, !.next_slot = slot]

-------------------------------------------------------------------------------
(* States to start from: two members of which one suffices to read.        *)

CONSTANTS
  Command,     \* a command
  Leftover     \* how many slots node 1 voted for in round 1, alone
ASSUME StartAssumption ==
  /\ Node = {1, 2} /\ ReadQuorum = 1 /\ WriteQuorum = 2 /\ Stop # {}
  /\ Command \in Value \ Stop /\ Leftover \in 1 .. Window

\* Round 1: node 1 leads and proposes a command in every slot.
Round1 ==
  SendAccepts(1, LeaderOf(1, FirstPromise(1, 1), 1, Leftover + 1), 1 .. Leftover,
              [s \in 1 .. Leftover |-> Command])

\* Round 2, of which node 1 has not heard: node 2 leads.
Round2 == LeaderOf(2, FirstPromise(2, 2), 2, 1)

StartsFrom(nodes, sent, written) ==
  /\ node = nodes
  /\ disk = [n \in Node |-> nodes[n].ledger]
  /\ history = [n \in Node |-> <<>>]
  /\ net = sent
  /\ votes = written
  /\ crashes = 0
  /\ seal = [n \in Node |-> Sealing(0, nodes[n].ledger)]
  /\ log = [n \in Node |-> <<>>]

\* Node 2 has been elected and has proposed nothing; no message is left.
Overtaken ==
  StartsFrom([n \in Node |-> IF n = 1 THEN Round1.nd ELSE Round2], {}, VotesIn(1, Round1.w))

OvertakenSpec == Overtaken /\ [][LogNext]_logVars

\* Node 2 proposed a stop sign in slot k, after commands; node 1 voted for all
\* of it, was elected again for round 3 by itself and has proposed what it
\* found: the stop sign, and the votes of round 1 above it.
Sealed(k) ==
  LET val == [s \in 1 .. k |-> IF s = k THEN CHOOSE v \in Stop : TRUE ELSE Command]
      two == SendAccepts(2, [Round2 EXCEPT !.next_slot = k + 1], 1 .. k, val)
      l == [RecordWrites(Round1.nd.ledger, two.w) EXCEPT !.promised = BallotOf(1, 3)]
      three == SendAccepts(1, LeaderOf(1, l, 3, Leftover + 1), 1 .. Leftover,
                           [s \in 1 .. Leftover |-> Cell(l, s).value])
  IN  StartsFrom([n \in Node |-> IF n = 1 THEN three.nd ELSE two.nd],
                 {Accepted(1, 2, BallotOf(2, 2), s) : s \in 1 .. k} \cup three.out,
                 VotesIn(1, Round1.w) \cup VotesIn(2, two.w) \cup VotesIn(1, two.w)
                   \cup VotesIn(1, three.w))

\* Node 1 leads the last round and has proposed nothing; node 2 follows it.
Fresh ==
  StartsFrom([n \in Node |-> IF n = 1 THEN LeaderOf(1, FirstPromise(1, MaxRound), MaxRound, 1)
                             ELSE Resumed(2, FirstPromise(1, MaxRound), 0)], {}, {})

\* Node 2 proposed a stop sign in round 2; node 1 has voted for it and may campaign.
Voted ==
  LET two == SendAccepts(2, [Round2 EXCEPT !.next_slot = 2], {1},
                         [s \in {1} |-> CHOOSE v \in Stop : TRUE])
      l == [RecordWrites(EmptyLedger, two.w) EXCEPT !.promised = BallotOf(2, 2)]
      one == [Resumed(1, l, 0) EXCEPT !.highest_observed_round = 2]
  IN  StartsFrom([n \in Node |-> IF n = 1 THEN one ELSE two.nd],
                 {Accepted(1, 2, BallotOf(2, 2), 1)}, VotesIn(2, two.w) \cup VotesIn(1, two.w))

\* Every way a stop sign comes into the log: proposed, taken over, found again.
SealingSpec ==
  (Fresh \/ Voted \/ \E k \in 1 .. Leftover : Sealed(k)) /\ [][LogNext]_logVars

\* The last of them alone.
SealedSpec == (\E k \in 1 .. Leftover : Sealed(k)) /\ [][LogNext]_logVars
===============================================================================
