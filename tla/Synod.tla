-------------------------------- MODULE Synod ---------------------------------
(***************************************************************************)
(* What the voters of a configuration promise each other, slot by slot:    *)
(* the abstract specification of the durable part of the protocol in       *)
(* src/src/election.odin and src/src/consensus.odin.                       *)
(*                                                                         *)
(* The state is what the ledgers of the voters have ever held: the         *)
(* greatest ballot each voter promised for each slot, and every vote it    *)
(* ever wrote.  There are no messages, no crashes and no windows: a step   *)
(* is one voter promising a ballot for some slots, or writing votes of one *)
(* ballot for some slots.  MultiPaxos implements this specification.       *)
(***************************************************************************)
EXTENDS Integers, FiniteSets

CONSTANTS
  Acceptor,     \* the voting members of the configuration
  Slots,        \* the positions of the log
  Values,       \* what a position may hold
  Ballots,      \* the ballots: integers, 0 is below every one that is used
  ReadQuorum,   \* read_quorum_size: promises a candidate needs
  WriteQuorum   \* write_quorum_size: votes that choose a value

\* What membership_init accepts (src/src/membership.odin:43-52).
ASSUME QuorumAssumption ==
  /\ IsFiniteSet(Acceptor)
  /\ ReadQuorum \in 1 .. Cardinality(Acceptor)
  /\ WriteQuorum \in 1 .. Cardinality(Acceptor)
  /\ ReadQuorum + WriteQuorum > Cardinality(Acceptor)

ASSUME BallotsAssumption == Ballots \subseteq Nat /\ 0 \in Ballots

VARIABLES
  promised,     \* promised[a][s]: the greatest ballot a promised for s
  votes         \* every vote ever written to some voter's journal

vars == <<promised, votes>>

Vote == [acceptor : Acceptor, slot : Slots, ballot : Ballots, value : Values]

VoteOf(a, s, b, v) == [acceptor |-> a, slot |-> s, ballot |-> b, value |-> v]

Voted(a, s, b, v) == VoteOf(a, s, b, v) \in votes

VotedIn(a, s, b) == \E v \in Values : Voted(a, s, b, v)

ReadQuorums == {Q \in SUBSET Acceptor : Cardinality(Q) >= ReadQuorum}

WriteQuorums == {Q \in SUBSET Acceptor : Cardinality(Q) >= WriteQuorum}

-------------------------------------------------------------------------------
\* Mutant of Recoverable: the value of any earlier vote will do.
RecoverableAnyVote(Q, s, b, v) ==
  \/ \A a \in Q, w \in votes :
        ~ (w.acceptor = a /\ w.slot = s /\ w.ballot < b)
  \/ \E w \in votes :
        w.acceptor \in Q /\ w.slot = s /\ w.ballot < b /\ w.value = v

\* B3: v is the value of the greatest vote below b that a member of Q cast in
\* s, or no member of Q voted below b and v is free.
Recoverable(Q, s, b, v) ==
  \/ \A a \in Q, w \in votes :
        ~ (w.acceptor = a /\ w.slot = s /\ w.ballot < b)
  \/ \E w \in votes :
        /\ w.acceptor \in Q /\ w.slot = s /\ w.ballot < b /\ w.value = v
        /\ \A u \in votes :
              (u.acceptor \in Q /\ u.slot = s /\ u.ballot < b)
                 => u.ballot <= w.ballot

\* B1 to B3 for a vote of ballot b in slot s: one value for a ballot, and a
\* read quorum that promised b and whose earlier votes allow the value.
MayPropose(s, b, v) ==
  /\ \A w \in votes : w.slot = s /\ w.ballot = b => w.value = v
  /\ \E Q \in ReadQuorums :
       /\ \A a \in Q : promised[a][s] >= b
       /\ Recoverable(Q, s, b, v)

\* Mutant of MayVote: an acceptor ignores what it promised.
MayVoteAnyway(a, s, b) == TRUE

\* An acceptor votes only at or above its promise for the slot.
MayVote(a, s, b) == b >= promised[a][s]

Init ==
  /\ promised = [a \in Acceptor |-> [s \in Slots |-> 0]]
  /\ votes = {}

\* Voter a promises ballot b for the slots S.
Promise(a, S, b) ==
  /\ \A s \in S : b >= promised[a][s]
  /\ promised' = [promised EXCEPT ![a] =
                    [s \in Slots |-> IF s \in S THEN b ELSE @[s]]]
  /\ UNCHANGED votes

\* Voter a writes a vote of ballot b for val[s] in every slot s of S.
CastVotes(a, S, b, val) ==
  /\ \A s \in S : MayVote(a, s, b) /\ MayPropose(s, b, val[s])
  /\ promised' = [promised EXCEPT ![a] =
                    [s \in Slots |-> IF s \in S THEN b ELSE @[s]]]
  /\ votes' = votes \cup {VoteOf(a, s, b, val[s]) : s \in S}

Next ==
  \E a \in Acceptor, S \in SUBSET Slots, b \in Ballots :
    \/ Promise(a, S, b)
    \/ \E val \in [S -> Values] : CastVotes(a, S, b, val)

Spec == Init /\ [][Next]_vars

-------------------------------------------------------------------------------
TypeOK ==
  /\ promised \in [Acceptor -> [Slots -> Ballots]]
  /\ votes \subseteq Vote

ChosenAt(s, b, v) ==
  \E Q \in WriteQuorums : \A a \in Q : Voted(a, s, b, v)

\* Theorem 1 of POD 0008: no two values are ever chosen for one slot,
\* whatever ballots, quorums and crashes led to them.
Agreement ==
  \A u, w \in votes :
    /\ u.slot = w.slot
    /\ ChosenAt(u.slot, u.ballot, u.value)
    /\ ChosenAt(w.slot, w.ballot, w.value)
    => u.value = w.value

\* A voter that promised b for a slot never writes a vote below b there
\* (on_accept's and send_accept's promise checks, and what start_campaign
\* relies on when it counts a promise).
PromisesAreKept ==
  \A w \in votes : w.ballot <= promised[w.acceptor][w.slot]

\* No step lowers a promise or takes a vote back (A1 of POD 0008).
NothingIsTakenBack ==
  [][ /\ \A a \in Acceptor, s \in Slots : promised'[a][s] >= promised[a][s]
      /\ votes \subseteq votes' ]_vars
===============================================================================
