----------------------------- MODULE SynodProofs ------------------------------
(***************************************************************************)
(* Proofs about Synod, for every set of voters, slots, values and ballots  *)
(* and every pair of quorum sizes that membership_init accepts.            *)
(*                                                                         *)
(* Agreement is not inductive.  It follows from three facts that are,      *)
(* together with the type invariant: promises are kept, a ballot carries   *)
(* one value in a slot, and every vote is safe: for every earlier ballot   *)
(* some read quorum voted for the same value or can no longer vote.        *)
(***************************************************************************)
EXTENDS Synod, FiniteSetTheorems, TLAPS

\* B1: in one slot, one ballot carries one value.
OneValue ==
  \A u, w \in votes : u.slot = w.slot /\ u.ballot = w.ballot => u.value = w.value

\* Voter a has not voted in ballot c of slot s and promised never to.
WontVote(a, s, c) == promised[a][s] > c /\ ~ VotedIn(a, s, c)

\* No value but v was, or will ever be, chosen in s below ballot b.
SafeAt(s, b, v) ==
  \A c \in Ballots : c < b =>
    \E Q \in ReadQuorums : \A a \in Q : Voted(a, s, c, v) \/ WontVote(a, s, c)

VotesAreSafe == \A w \in votes : SafeAt(w.slot, w.ballot, w.value)

\* The inductive invariant.
IInv == TypeOK /\ PromisesAreKept /\ OneValue /\ VotesAreSafe

-------------------------------------------------------------------------------
\* Every read quorum meets every write quorum: what membership_init's check
\* read + write > total is for.
LEMMA QuorumsIntersect ==
  \A Q \in ReadQuorums, P \in WriteQuorums : Q \cap P # {}
<1> SUFFICES ASSUME NEW Q \in ReadQuorums, NEW P \in WriteQuorums, Q \cap P = {}
             PROVE  FALSE
  OBVIOUS
<1>1. IsFiniteSet(Acceptor) /\ Q \subseteq Acceptor /\ P \subseteq Acceptor
  BY QuorumAssumption DEF ReadQuorums, WriteQuorums
<1>2. IsFiniteSet(Q) /\ IsFiniteSet(P)
  BY <1>1, FS_Subset
<1>3. /\ Cardinality(Q) \in Nat /\ Cardinality(P) \in Nat
      /\ Cardinality(Acceptor) \in Nat
  BY <1>1, <1>2, FS_CardinalityType
<1>4. Cardinality(Q \cup P) = Cardinality(Q) + Cardinality(P)
  <2>1. Cardinality(Q \cup P)
          = Cardinality(Q) + Cardinality(P) - Cardinality(Q \cap P)
    BY <1>2, FS_Union
  <2>2. Cardinality(Q \cap P) = 0
    BY FS_EmptySet
  <2> QED
    BY <2>1, <2>2, <1>3
<1>5. Cardinality(Q \cup P) <= Cardinality(Acceptor)
  BY <1>1, FS_Subset
<1>6. Cardinality(Q) >= ReadQuorum /\ Cardinality(P) >= WriteQuorum
  BY DEF ReadQuorums, WriteQuorums
<1>7. ReadQuorum \in Nat /\ WriteQuorum \in Nat
  BY QuorumAssumption, <1>3
<1> QED
  BY <1>3, <1>4, <1>5, <1>6, <1>7, QuorumAssumption

-------------------------------------------------------------------------------
\* Every step of Synod keeps the types.
LEMMA TypeStep == TypeOK /\ [Next]_vars => TypeOK'
<1> SUFFICES ASSUME TypeOK, [Next]_vars
             PROVE  TypeOK'
  OBVIOUS
<1>1. ASSUME NEW a \in Acceptor, NEW S \in SUBSET Slots, NEW b \in Ballots,
             Promise(a, S, b)
      PROVE  TypeOK'
  BY <1>1 DEF Promise, TypeOK
<1>2. ASSUME NEW a \in Acceptor, NEW S \in SUBSET Slots, NEW b \in Ballots,
             NEW val \in [S -> Values], CastVotes(a, S, b, val)
      PROVE  TypeOK'
  <2>1. \A s \in S : VoteOf(a, s, b, val[s]) \in Vote
    BY DEF VoteOf, Vote
  <2>2. votes' \subseteq Vote
    BY <1>2, <2>1 DEF CastVotes, TypeOK
  <2>3. promised' \in [Acceptor -> [Slots -> Ballots]]
    BY <1>2 DEF CastVotes, TypeOK
  <2> QED
    BY <2>2, <2>3 DEF TypeOK
<1>3. CASE UNCHANGED vars
  BY <1>3 DEF vars, TypeOK
<1> QED
  BY <1>1, <1>2, <1>3 DEF Next

\* Synod keeps its types: a promise is a ballot and a vote is a record of a
\* voter, a slot, a ballot and a value, in every reachable state.
THEOREM TypeCorrect == Spec => []TypeOK
<1>1. Init => TypeOK
  BY BallotsAssumption DEF Init, TypeOK
<1> QED
  BY <1>1, TypeStep, PTL DEF Spec

-------------------------------------------------------------------------------
\* What one step does, in the terms the invariant is stated in: promises grow,
\* votes are kept, and a new vote is by one voter, at a ballot that voter had
\* not passed, for a value MayPropose allows.
StepFacts ==
  /\ \A a \in Acceptor, s \in Slots : promised'[a][s] >= promised[a][s]
  /\ votes \subseteq votes'
  /\ \A w \in votes' \ votes :
       /\ w.ballot >= promised[w.acceptor][w.slot]
       /\ w.ballot = promised'[w.acceptor][w.slot]
       /\ MayPropose(w.slot, w.ballot, w.value)
  /\ \A u, w \in votes' \ votes : u.slot = w.slot => u = w

\* Every step of Synod satisfies StepFacts.
LEMMA StepLemma ==
  ASSUME TypeOK, TypeOK', [Next]_vars
  PROVE  StepFacts
<1>1. ASSUME NEW a \in Acceptor, NEW S \in SUBSET Slots, NEW b \in Ballots,
             Promise(a, S, b)
      PROVE  StepFacts
  <2>1. votes' = votes
    BY <1>1 DEF Promise
  <2>2. \A d \in Acceptor, s \in Slots : promised'[d][s] >= promised[d][s]
    <3> SUFFICES ASSUME NEW d \in Acceptor, NEW s \in Slots
                 PROVE  promised'[d][s] >= promised[d][s]
      OBVIOUS
    <3>1. promised[d][s] \in Nat
      BY BallotsAssumption DEF TypeOK
    <3>2. promised'[d][s] = IF d = a /\ s \in S THEN b ELSE promised[d][s]
      BY <1>1 DEF Promise, TypeOK
    <3> QED
      BY <1>1, <3>1, <3>2 DEF Promise
  <2> QED
    BY <2>1, <2>2 DEF StepFacts
<1>2. ASSUME NEW a \in Acceptor, NEW S \in SUBSET Slots, NEW b \in Ballots,
             NEW val \in [S -> Values], CastVotes(a, S, b, val)
      PROVE  StepFacts
  <2>1. \A d \in Acceptor, s \in Slots :
          /\ promised[d][s] \in Nat
          /\ promised'[d][s] = IF d = a /\ s \in S THEN b ELSE promised[d][s]
    <3> SUFFICES ASSUME NEW d \in Acceptor, NEW s \in Slots
                 PROVE  /\ promised[d][s] \in Nat
                        /\ promised'[d][s]
                             = IF d = a /\ s \in S THEN b ELSE promised[d][s]
      OBVIOUS
    <3>1. promised[d][s] \in Nat
      BY BallotsAssumption DEF TypeOK
    <3>2. promised' = [promised EXCEPT ![a] =
                         [t \in Slots |-> IF t \in S THEN b ELSE @[t]]]
      BY <1>2 DEF CastVotes
    <3> QED
      BY <3>1, <3>2 DEF TypeOK
  <2>2. \A s \in S : b >= promised[a][s] /\ MayPropose(s, b, val[s])
    BY <1>2 DEF CastVotes, MayVote
  <2>3. votes' = votes \cup {VoteOf(a, s, b, val[s]) : s \in S}
    BY <1>2 DEF CastVotes
  <2>4. \A d \in Acceptor, s \in Slots : promised'[d][s] >= promised[d][s]
    BY <2>1, <2>2
  <2>5. \A w \in votes' \ votes :
          \E s \in S : /\ w = VoteOf(a, s, b, val[s])
                       /\ w.acceptor = a /\ w.slot = s
                       /\ w.ballot = b /\ w.value = val[s]
    BY <2>3 DEF VoteOf
  <2>6. ASSUME NEW w \in votes' \ votes
        PROVE  /\ w.ballot >= promised[w.acceptor][w.slot]
               /\ w.ballot = promised'[w.acceptor][w.slot]
               /\ MayPropose(w.slot, w.ballot, w.value)
    <3>1. PICK s \in S : /\ w.acceptor = a /\ w.slot = s
                         /\ w.ballot = b /\ w.value = val[s]
      BY <2>5
    <3>2. MayPropose(w.slot, w.ballot, w.value)
      BY <3>1, <2>2
    <3> QED
      BY <3>1, <3>2, <2>1, <2>2
  <2>7. \A u, w \in votes' \ votes : u.slot = w.slot => u = w
    BY <2>5
  <2> QED
    BY <2>3, <2>4, <2>6, <2>7 DEF StepFacts
<1>3. CASE UNCHANGED vars
  <2>1. \A d \in Acceptor, s \in Slots : promised[d][s] \in Nat
    BY BallotsAssumption DEF TypeOK
  <2> QED
    BY <1>3, <2>1 DEF vars, StepFacts
<1> QED
  BY <1>1, <1>2, <1>3 DEF Next

-------------------------------------------------------------------------------
\* The step's justification makes the new vote safe, in the state before the
\* step: B3 carries safety from the greatest vote of the quorum to the new one.
LEMMA ProposalIsSafe ==
  ASSUME IInv, NEW s \in Slots, NEW b \in Ballots, NEW v \in Values,
         MayPropose(s, b, v)
  PROVE  SafeAt(s, b, v)
<1> SUFFICES ASSUME NEW c \in Ballots, c < b
             PROVE  \E Q \in ReadQuorums :
                      \A a \in Q : Voted(a, s, c, v) \/ WontVote(a, s, c)
  BY DEF SafeAt
<1>1. PICK Q \in ReadQuorums :
        /\ \A a \in Q : promised[a][s] >= b
        /\ Recoverable(Q, s, b, v)
  BY DEF MayPropose
<1>2. \A a \in Q : a \in Acceptor /\ promised[a][s] \in Nat
  BY BallotsAssumption DEF ReadQuorums, IInv, TypeOK
<1>3. b \in Nat /\ c \in Nat
  BY BallotsAssumption
<1>4. \A a \in Q : promised[a][s] > c
  BY <1>1, <1>2, <1>3
<1>5. \A w \in votes : w.ballot \in Ballots /\ w.ballot \in Nat
  BY BallotsAssumption DEF IInv, TypeOK, Vote
<1>6. \A a \in Q, x \in Values :
        LET u == VoteOf(a, s, c, x)
        IN  u.acceptor = a /\ u.slot = s /\ u.ballot = c /\ u.value = x
  BY DEF VoteOf
<1>7. CASE \A a \in Q, w \in votes :
             ~ (w.acceptor = a /\ w.slot = s /\ w.ballot < b)
  <2>1. \A a \in Q : ~ VotedIn(a, s, c)
    BY <1>6, <1>7 DEF VotedIn, Voted
  <2> QED
    BY <1>4, <2>1 DEF WontVote
<1>8. CASE \E w \in votes :
             /\ w.acceptor \in Q /\ w.slot = s /\ w.ballot < b /\ w.value = v
             /\ \A u \in votes :
                   (u.acceptor \in Q /\ u.slot = s /\ u.ballot < b)
                      => u.ballot <= w.ballot
  <2>1. PICK w \in votes :
          /\ w.acceptor \in Q /\ w.slot = s /\ w.ballot < b /\ w.value = v
          /\ \A u \in votes :
                (u.acceptor \in Q /\ u.slot = s /\ u.ballot < b)
                   => u.ballot <= w.ballot
    BY <1>8
  <2>2. CASE c < w.ballot
    <3>1. SafeAt(s, w.ballot, v)
      BY <2>1 DEF IInv, VotesAreSafe
    <3> QED
      BY <3>1, <2>2 DEF SafeAt
  <2>3. CASE c = w.ballot
    <3>1. \A a \in Q, x \in Values : Voted(a, s, c, x) => x = v
      BY <1>6, <2>1, <2>3 DEF IInv, OneValue, Voted
    <3>2. \A a \in Q : VotedIn(a, s, c) => Voted(a, s, c, v)
      BY <3>1 DEF VotedIn
    <3> QED
      BY <1>4, <3>2 DEF WontVote
  <2>4. CASE c > w.ballot
    <3>1. \A a \in Q : ~ VotedIn(a, s, c)
      BY <1>3, <1>5, <1>6, <2>1, <2>4 DEF VotedIn, Voted
    <3> QED
      BY <1>4, <3>1 DEF WontVote
  <2> QED
    BY <1>3, <1>5, <2>2, <2>3, <2>4
<1> QED
  BY <1>1, <1>7, <1>8 DEF Recoverable

\* Safety of a ballot and a value is never lost: a voter that cannot vote in c
\* still cannot after the step.
LEMMA SafetyIsStable ==
  ASSUME IInv, TypeOK', StepFacts,
         NEW s \in Slots, NEW b \in Ballots, NEW v \in Values, SafeAt(s, b, v)
  PROVE  SafeAt(s, b, v)'
<1> SUFFICES ASSUME NEW c \in Ballots, c < b
             PROVE  \E Q \in ReadQuorums :
                      \A a \in Q : (Voted(a, s, c, v) \/ WontVote(a, s, c))'
  BY DEF SafeAt, ReadQuorums
<1>1. PICK Q \in ReadQuorums :
        \A a \in Q : Voted(a, s, c, v) \/ WontVote(a, s, c)
  BY DEF SafeAt
<1>2. ASSUME NEW a \in Q
      PROVE  (Voted(a, s, c, v) \/ WontVote(a, s, c))'
  <2>1. a \in Acceptor
    BY DEF ReadQuorums
  <2>2. CASE Voted(a, s, c, v)
    BY <2>2 DEF StepFacts, Voted
  <2>3. CASE WontVote(a, s, c)
    <3>1. /\ promised[a][s] \in Nat /\ promised'[a][s] \in Nat /\ c \in Nat
          /\ promised'[a][s] >= promised[a][s]
      BY <2>1, BallotsAssumption DEF IInv, TypeOK, StepFacts
    <3>2. promised'[a][s] > c
      BY <2>3, <3>1 DEF WontVote
    <3>3. ASSUME NEW x \in Values, Voted(a, s, c, x)'
          PROVE  FALSE
      <4> DEFINE u == VoteOf(a, s, c, x)
      <4>1. u.acceptor = a /\ u.slot = s /\ u.ballot = c
        BY DEF VoteOf
      <4>2. u \in votes' \ votes
        BY <2>3, <3>3 DEF WontVote, VotedIn, Voted
      <4>3. c >= promised[a][s]
        BY <4>1, <4>2 DEF StepFacts
      <4> QED
        BY <2>3, <3>1, <4>3 DEF WontVote
    <3> QED
      BY <3>2, <3>3 DEF WontVote, VotedIn
  <2> QED
    BY <1>1, <2>2, <2>3
<1> QED
  BY <1>1, <1>2

-------------------------------------------------------------------------------
\* IInv is inductive.
LEMMA InvariantStep == IInv /\ [Next]_vars => IInv'
<1> SUFFICES ASSUME IInv, [Next]_vars
             PROVE  IInv'
  OBVIOUS
<1>1. TypeOK'
  BY TypeStep DEF IInv
<1>2. StepFacts
  BY <1>1, StepLemma DEF IInv
<1>3. \A w \in votes' : /\ w.acceptor \in Acceptor /\ w.slot \in Slots
                        /\ w.ballot \in Ballots /\ w.value \in Values
  BY <1>1 DEF TypeOK, Vote
<1>4. PromisesAreKept'
  <2> SUFFICES ASSUME NEW w \in votes'
               PROVE  w.ballot <= promised'[w.acceptor][w.slot]
    BY DEF PromisesAreKept
  <2>1. /\ w.ballot \in Nat
        /\ promised[w.acceptor][w.slot] \in Nat
        /\ promised'[w.acceptor][w.slot] \in Nat
        /\ promised'[w.acceptor][w.slot] >= promised[w.acceptor][w.slot]
    BY <1>1, <1>2, <1>3, BallotsAssumption DEF IInv, TypeOK, StepFacts
  <2>2. CASE w \in votes
    BY <2>1, <2>2 DEF IInv, PromisesAreKept
  <2>3. CASE w \notin votes
    BY <1>2, <2>1, <2>3 DEF StepFacts
  <2> QED
    BY <2>2, <2>3
<1>5. OneValue'
  <2> SUFFICES ASSUME NEW u \in votes', NEW w \in votes',
                      u.slot = w.slot, u.ballot = w.ballot
               PROVE  u.value = w.value
    BY DEF OneValue
  <2>1. CASE u \in votes /\ w \in votes
    BY <2>1 DEF IInv, OneValue
  <2>2. CASE u \notin votes /\ w \in votes
    BY <1>2, <2>2 DEF StepFacts, MayPropose
  <2>3. CASE u \in votes /\ w \notin votes
    BY <1>2, <2>3 DEF StepFacts, MayPropose
  <2>4. CASE u \notin votes /\ w \notin votes
    BY <1>2, <2>4 DEF StepFacts
  <2> QED
    BY <2>1, <2>2, <2>3, <2>4
<1>6. VotesAreSafe'
  <2> SUFFICES ASSUME NEW w \in votes'
               PROVE  SafeAt(w.slot, w.ballot, w.value)'
    BY DEF VotesAreSafe
  <2>1. SafeAt(w.slot, w.ballot, w.value)
    <3>1. CASE w \in votes
      BY <3>1 DEF IInv, VotesAreSafe
    <3>2. CASE w \notin votes
      <4>1. MayPropose(w.slot, w.ballot, w.value)
        BY <1>2, <3>2 DEF StepFacts
      <4> QED
        BY <1>3, <4>1, ProposalIsSafe
    <3> QED
      BY <3>1, <3>2
  <2> QED
    BY <1>1, <1>2, <1>3, <2>1, SafetyIsStable
<1> QED
  BY <1>1, <1>4, <1>5, <1>6 DEF IInv

\* The inductive invariant implies agreement: a write quorum that chose w in
\* ballot c meets the read quorum that made a later vote safe.
LEMMA InvariantImpliesAgreement == IInv => Agreement
<1> SUFFICES ASSUME IInv, NEW u \in votes, NEW w \in votes, u.slot = w.slot,
                    ChosenAt(u.slot, u.ballot, u.value),
                    ChosenAt(w.slot, w.ballot, w.value)
             PROVE  u.value = w.value
  BY DEF Agreement
<1>1. ASSUME NEW x \in votes, NEW y \in votes, x.slot = y.slot,
             x.ballot < y.ballot, ChosenAt(x.slot, x.ballot, x.value)
      PROVE  x.value = y.value
  <2>1. PICK P \in WriteQuorums : \A a \in P : Voted(a, x.slot, x.ballot, x.value)
    BY <1>1 DEF ChosenAt
  <2>2. SafeAt(y.slot, y.ballot, y.value) /\ x.ballot \in Ballots
    BY DEF IInv, VotesAreSafe, TypeOK, Vote
  <2>3. PICK Q \in ReadQuorums :
          \A a \in Q : \/ Voted(a, y.slot, x.ballot, y.value)
                       \/ WontVote(a, y.slot, x.ballot)
    BY <1>1, <2>2 DEF SafeAt
  <2>4. PICK a \in Q : a \in P
    BY <2>3, QuorumsIntersect
  <2>5. x.value \in Values
    BY DEF IInv, TypeOK, Vote
  <2>6. Voted(a, x.slot, x.ballot, x.value)
    BY <2>1, <2>4
  <2>7. Voted(a, x.slot, x.ballot, y.value)
    BY <1>1, <2>3, <2>4, <2>5, <2>6 DEF WontVote, VotedIn
  <2> QED
    BY <2>6, <2>7 DEF IInv, OneValue, Voted, VoteOf
<1>2. u.ballot \in Nat /\ w.ballot \in Nat
  BY BallotsAssumption DEF IInv, TypeOK, Vote
<1>3. CASE u.ballot = w.ballot
  BY <1>3 DEF IInv, OneValue
<1>4. CASE u.ballot < w.ballot
  BY <1>1, <1>4
<1>5. CASE w.ballot < u.ballot
  BY <1>1, <1>5
<1> QED
  BY <1>2, <1>3, <1>4, <1>5

\* The invariant holds in every reachable state of Synod.
THEOREM Invariant == Spec => []IInv
<1>1. Init => IInv
  BY BallotsAssumption
     DEF Init, IInv, TypeOK, PromisesAreKept, OneValue, VotesAreSafe
<1> QED
  BY <1>1, InvariantStep, PTL DEF Spec

\* Agreement (Theorem 1 of POD 0008): at most one value is ever chosen for a
\* slot, for every membership and every intersecting pair of quorum sizes.
THEOREM AgreementHolds == Spec => []Agreement
BY Invariant, InvariantImpliesAgreement, PTL

\* Every voter keeps its promises: no vote it ever wrote is above what it has
\* promised for that slot, so a promise made to a candidate cannot be undercut.
THEOREM PromisesKept == Spec => []PromisesAreKept
<1>1. IInv => PromisesAreKept
  BY DEF IInv
<1> QED
  BY <1>1, Invariant, PTL

\* No step lowers a promise or removes a vote.
THEOREM TakesNothingBack == Spec => NothingIsTakenBack
<1>1. IInv /\ IInv' /\ [Next]_vars =>
        [ /\ \A a \in Acceptor, s \in Slots : promised'[a][s] >= promised[a][s]
          /\ votes \subseteq votes' ]_vars
  BY StepLemma DEF IInv, StepFacts
<1> QED
  BY <1>1, Invariant, PTL DEF Spec, NothingIsTakenBack
===============================================================================
