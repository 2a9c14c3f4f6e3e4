---------------------------- MODULE ConsensusProofs ----------------------------
(***************************************************************************)
(* What a cluster's ballots say, and what its hosts are told is decided:   *)
(* one ballot carries one value per slot, whatever is lost, repeated or    *)
(* cut short by a crash; whatever a node takes for decided has a write     *)
(* quorum of durable votes; every proposal is safe, so that no two values  *)
(* are chosen for a slot; and the cluster implements Synod.                *)
(*                                                                         *)
(* As in MultiPaxosProofs, a step is cut into a transition and its         *)
(* discharge.  Of a transition Speaks says what it adds to what was said   *)
(* in the node's ballot; the invariants are kept by every discharge, whole *)
(* or cut short, of such a transition.                                     *)
(***************************************************************************)
EXTENDS MultiPaxosProofs

-------------------------------------------------------------------------------
(* The ballots of a proposer, and what was said in a ballot.               *)

Owns(n, b) == \E r \in 1 .. MaxRound : b = ballot_make(r, Priority[n], n)

VoteOf(n, s, b, v) == [acceptor |-> n, slot |-> s, ballot |-> b, value |-> v]

\* v was proposed for slot s in ballot b: an Accept of N asks for it, or V has a vote.
Said(N, V, s, b, v) ==
  \/ \E m \in N : m.type = "Accept" /\ m.slot = s /\ m.ballot = b /\ m.value = v
  \/ \E w \in V : w.slot = s /\ w.ballot = b /\ w.value = v

OneValue(N, V) ==
  \A s, b, u, v : Said(N, V, s, b, u) /\ Said(N, V, s, b, v) => u = v

\* The ledger holds a cell for s or for a later slot.
Recorded(l, s) == \E c \in UsedCells(l) : l.cell[c].slot >= s

\* A candidate has proposed for the chunks behind it, and in its chunk what it selected
\* when the chunk was frozen.
Selected(nd, s, v) ==
  \/ s < nd.recovery.base
  \/ nd.recovery.ready /\ s <= nd.recovery.last /\ v = SelectedValue(nd, s)

\* What a node may still have proposed, by what it is about to do.
Limits(nd, s, v) ==
  /\ nd.role = "Preparing" => Recorded(nd.ledger, s) /\ Selected(nd, s, v)
  /\ nd.role = "Leader" => s < nd.next_slot \/ s = MaxSlot

\* Everything said in a node's ballot is a durable vote of its own.
Term(n, nd, N, V) ==
  \A s, v : Said(N, V, s, nd.ballot, v) => VoteOf(n, s, nd.ballot, v) \in V /\ Limits(nd, s, v)

\* A node's ballot is its own, promised by itself, and the one it counts in.
Bid(n, nd) ==
  /\ nd.ballot = BALLOT_ZERO \/ Owns(n, nd.ballot)
  /\ nd.ballot <= nd.ledger.promised
  /\ nd.role # "Follower" => nd.ballot # BALLOT_ZERO
  /\ \A c \in Cells : nd.lead[c].slot = 0 \/ nd.lead[c].ballot = nd.ballot

\* The votes a ledger holds reached the journal.
Written(n, l, V) ==
  \A c \in Cells : l.cell[c].state = "Voted" =>
    VoteOf(n, l.cell[c].slot, l.cell[c].vote_ballot, l.cell[c].value) \in V

\* Whoever sends an Accept, or is sent an Accepted, owns its ballot and promised it.
Backed(m) ==
  /\ m.type = "Accept" => /\ Owns(m.from, m.ballot) /\ m.to # m.from
                          /\ m.ballot <= node[m.from].ledger.promised
  /\ m.type = "Accepted" => /\ m.to \in Node /\ Owns(m.to, m.ballot)
                            /\ m.ballot <= node[m.to].ledger.promised

VoteBacked(w) == \E k \in Node : Owns(k, w.ballot) /\ w.ballot <= node[k].ledger.promised

TermInv ==
  /\ \A m \in net : Backed(m)
  /\ \A w \in votes : VoteBacked(w)
  /\ OneValue(net, votes)
  /\ \A n \in Node : /\ Bid(n, node[n]) /\ Term(n, node[n], net, votes)
                     /\ Written(n, node[n].ledger, votes) /\ Written(n, disk[n], votes)
                     /\ disk[n].promised = node[n].ledger.promised

\* A proposer's ballots are its own, and never the ballot of nobody.
LEMMA OwnersDiffer ==
  ASSUME NEW n \in Node, NEW b, Owns(n, b)
  PROVE  /\ b \in BallotSet /\ b # BALLOT_ZERO
         /\ \A k \in Node : Owns(k, b) => k = n
<1>1. PICK r \in 1 .. MaxRound : b = ballot_make(r, Priority[n], n)
  BY DEF Owns
<1>2. r \in Nat /\ r >= 1 /\ n \in NodeId /\ Priority[n] \in Priorities
  BY <1>1, Constants
<1>3. b \in BallotSet
  BY <1>1, BallotsAreBounded
<1>4. ballot_round(b) = r
  BY <1>1, <1>2, PartsAreRecovered
<1>5. b # BALLOT_ZERO
  <2>1. ballot_round(BALLOT_ZERO) = 0
    <3>1. PICK u \in Nat \ {0} : u = RoundUnit
      BY SMT DEF RoundUnit, NodeSpan, PrioritySpan
    <3>2. 0 \div u = 0
      BY <3>1
    <3> QED
      BY <3>1, <3>2 DEF ballot_round, BALLOT_ZERO
  <2> QED
    BY <2>1, <1>2, <1>4
<1>6. ASSUME NEW k \in Node, Owns(k, b)
      PROVE  k = n
  <2>1. PICK q \in 1 .. MaxRound : b = ballot_make(q, Priority[k], k)
    BY <1>6 DEF Owns
  <2>2. q \in Nat /\ k \in NodeId /\ Priority[k] \in Priorities
    BY <2>1, Constants
  <2>3. ballot_make(r, Priority[n], n) = ballot_make(q, Priority[k], k)
    BY <1>1, <2>1
  <2>4. r = q /\ Priority[n] = Priority[k] /\ n = k
    BY ONLY <1>2, <2>2, <2>3, BallotsAreDistinct
  <2> QED
    BY <2>4
<1> QED
  BY <1>3, <1>5, <1>6

\* More messages and votes say more.
LEMMA SaidMore ==
  ASSUME NEW N, NEW M, N \subseteq M, NEW V, NEW W, V \subseteq W,
         NEW s, NEW b, NEW v, Said(N, V, s, b, v)
  PROVE  Said(M, W, s, b, v)
  BY DEF Said

LEMMA VoteSays ==
  ASSUME NEW n, NEW s, NEW b, NEW v, NEW N, NEW V, VoteOf(n, s, b, v) \in V
  PROVE  Said(N, V, s, b, v)
  BY DEF Said, VoteOf

-------------------------------------------------------------------------------
(* Transitions that speak.                                                 *)

\* What a transition of node n adds: Accepts and votes of n's own ballot, all for
\* what it votes for itself, or a vote for somebody else's Accept.  out may repeat what
\* the node has voted for.  A new ballot is one in which nothing was said.
Speaks(n, new, w, out) ==
  LET nd == node[n]
      after == votes \cup VotesIn(n, w)
  IN
  /\ \E top \in Nat : WritesTyped(w, top)
  /\ \A m \in out : m.type = "Accept" =>
       /\ m.from = n /\ m.to # n /\ m.ballot = nd.ballot /\ m.ballot # BALLOT_ZERO
       /\ VoteOf(n, m.slot, m.ballot, m.value) \in after
  /\ \A m \in out : m.type = "Accepted" =>
       \E x \in net : x.type = "Accept" /\ x.ballot = m.ballot /\ x.from = m.to
  /\ \A s \in DOMAIN w.votes :
       \/ /\ w.votes[s].ballot = nd.ballot /\ nd.ballot # BALLOT_ZERO
          /\ \A u : Said(net, votes, s, nd.ballot, u) => u = w.votes[s].value
       \/ \E x \in net : /\ x.type = "Accept" /\ x.slot = s
                         /\ x.ballot = w.votes[s].ballot /\ x.value = w.votes[s].value
  /\ new.ledger.promised = MaxOf(nd.ledger.promised, w.promise)
  /\ Bid(n, new) /\ Written(n, new.ledger, after)
  /\ new.ballot = nd.ballot \/ \A s, v : ~ Said(net, votes, s, new.ballot, v)
  /\ \A s, v : VoteOf(n, s, new.ballot, v) \in after => Limits(new, s, v)

LEMMA VotesInFacts ==
  ASSUME NEW n, NEW w, NEW s, NEW b, NEW v
  PROVE  VoteOf(n, s, b, v) \in VotesIn(n, w) <=>
           s \in DOMAIN w.votes /\ w.votes[s].ballot = b /\ w.votes[s].value = v
<1>1. \A t \in DOMAIN w.votes :
        VoteOf(n, s, b, v) = VoteOf(n, t, w.votes[t].ballot, w.votes[t].value)
          => s = t /\ w.votes[t].ballot = b /\ w.votes[t].value = v
  BY DEF VoteOf
<1> QED
  BY <1>1 DEF VotesIn, VoteOf

LEMMA VotesInForm ==
  ASSUME NEW n, NEW w, NEW x \in VotesIn(n, w)
  PROVE  \E s \in DOMAIN w.votes : x = VoteOf(n, s, w.votes[s].ballot, w.votes[s].value)
  BY DEF VotesIn, VoteOf

\* What is said after a transition was said before, or is in the node's ballot and all
\* that was said in it for that slot.
LEMMA SaidAfter ==
  ASSUME NEW n \in Node, NEW new, NEW w, NEW out, Speaks(n, new, w, out),
         NEW s, NEW b, NEW v, Said(net \cup out, votes \cup VotesIn(n, w), s, b, v)
  PROVE  \/ Said(net, votes, s, b, v)
         \/ /\ b = node[n].ballot /\ b # BALLOT_ZERO
            /\ s \in DOMAIN w.votes /\ w.votes[s].value = v
            /\ VoteOf(n, s, b, v) \in VotesIn(n, w)
            /\ \A u : Said(net, votes, s, b, u) => u = v
<1> DEFINE New == /\ b = node[n].ballot /\ b # BALLOT_ZERO
                  /\ s \in DOMAIN w.votes /\ w.votes[s].value = v
                  /\ VoteOf(n, s, b, v) \in VotesIn(n, w)
                  /\ \A u : Said(net, votes, s, b, u) => u = v
<1>1. ASSUME s \in DOMAIN w.votes, w.votes[s].ballot = b, w.votes[s].value = v
      PROVE  Said(net, votes, s, b, v) \/ New
  <2>1. \/ /\ w.votes[s].ballot = node[n].ballot /\ node[n].ballot # BALLOT_ZERO
           /\ \A u : Said(net, votes, s, node[n].ballot, u) => u = w.votes[s].value
        \/ \E x \in net : /\ x.type = "Accept" /\ x.slot = s
                          /\ x.ballot = w.votes[s].ballot /\ x.value = w.votes[s].value
    BY <1>1 DEF Speaks
  <2>2. CASE \E x \in net : /\ x.type = "Accept" /\ x.slot = s
                            /\ x.ballot = w.votes[s].ballot /\ x.value = w.votes[s].value
    BY <1>1, <2>2 DEF Said
  <2>3. VoteOf(n, s, b, v) \in VotesIn(n, w)
    BY <1>1, VotesInFacts
  <2> QED
    BY <1>1, <2>1, <2>2, <2>3
<1>2. CASE Said(net, votes, s, b, v)
  BY <1>2
<1>3. CASE \E m \in out : m.type = "Accept" /\ m.slot = s /\ m.ballot = b /\ m.value = v
  <2>1. VoteOf(n, s, b, v) \in votes \cup VotesIn(n, w)
    BY <1>3 DEF Speaks
  <2>2. CASE VoteOf(n, s, b, v) \in votes
    BY <2>2, VoteSays
  <2>3. CASE VoteOf(n, s, b, v) \in VotesIn(n, w)
    BY <2>3, <1>1, VotesInFacts
  <2> QED
    BY <2>1, <2>2, <2>3
<1>4. CASE \E x \in VotesIn(n, w) : x.slot = s /\ x.ballot = b /\ x.value = v
  <2>1. PICK x \in VotesIn(n, w) : x.slot = s /\ x.ballot = b /\ x.value = v
    BY <1>4
  <2>2. PICK t \in DOMAIN w.votes : x = VoteOf(n, t, w.votes[t].ballot, w.votes[t].value)
    BY VotesInForm
  <2>3. t = s /\ w.votes[s].ballot = b /\ w.votes[s].value = v
    BY <2>1, <2>2 DEF VoteOf
  <2> QED
    BY <2>3, <1>1
<1> QED
  BY <1>2, <1>3, <1>4 DEF Said

\* Whatever part of it gets out, one ballot goes on carrying one value, and the other
\* nodes' terms are not touched.
LEMMA SpeaksKeeps ==
  ASSUME TermInv, NEW n \in Node, NEW new, NEW w, NEW out, Speaks(n, new, w, out),
         NEW N, N \subseteq net \cup out, NEW V, votes \subseteq V,
         V \subseteq votes \cup VotesIn(n, w)
  PROVE  /\ OneValue(N, V)
         /\ \A k \in Node \ {n} : Term(k, node[k], N, V)
<1> DEFINE After(s, b, v) == Said(net \cup out, votes \cup VotesIn(n, w), s, b, v)
           New(s, b, v) == /\ b = node[n].ballot /\ b # BALLOT_ZERO
                           /\ s \in DOMAIN w.votes /\ w.votes[s].value = v
                           /\ VoteOf(n, s, b, v) \in VotesIn(n, w)
                           /\ \A u : Said(net, votes, s, b, u) => u = v
<1>1. \A s, b, v : Said(N, V, s, b, v) => After(s, b, v)
  BY SaidMore
<1>2. \A s, b, v : After(s, b, v) => Said(net, votes, s, b, v) \/ New(s, b, v)
  BY SaidAfter
<1> HIDE DEF After
<1>3. OneValue(N, V)
  <2> SUFFICES ASSUME NEW s, NEW b, NEW u, NEW v, Said(N, V, s, b, u), Said(N, V, s, b, v)
               PROVE  u = v
    BY DEF OneValue
  <2>1. /\ Said(net, votes, s, b, u) \/ New(s, b, u)
        /\ Said(net, votes, s, b, v) \/ New(s, b, v)
    BY <1>1, <1>2
  <2>2. Said(net, votes, s, b, u) /\ Said(net, votes, s, b, v) => u = v
    BY DEF TermInv, OneValue
  <2> QED
    BY <2>1, <2>2
<1>4. ASSUME NEW k \in Node \ {n}
      PROVE  Term(k, node[k], N, V)
  <2> SUFFICES ASSUME NEW s, NEW v, Said(N, V, s, node[k].ballot, v)
               PROVE  VoteOf(k, s, node[k].ballot, v) \in V /\ Limits(node[k], s, v)
    BY DEF Term
  <2>1. Said(net, votes, s, node[k].ballot, v) \/ New(s, node[k].ballot, v)
    BY <1>1, <1>2
  <2>2. ~ New(s, node[k].ballot, v)
    <3> SUFFICES ASSUME node[k].ballot = node[n].ballot, node[k].ballot # BALLOT_ZERO
                 PROVE  FALSE
      OBVIOUS
    <3>1. Owns(k, node[k].ballot) /\ Owns(n, node[k].ballot)
      BY DEF TermInv, Bid
    <3> QED
      BY <3>1, OwnersDiffer
  <2>3. Term(k, node[k], net, votes)
    BY DEF TermInv
  <2> QED
    BY <2>1, <2>2, <2>3 DEF Term
<1> QED
  BY <1>3, <1>4

\* The node's own term after the whole of it.
LEMMA SpeaksItself ==
  ASSUME TermInv, NEW n \in Node, NEW new, NEW w, NEW out, Speaks(n, new, w, out),
         NEW N, N \subseteq net \cup out
  PROVE  Term(n, new, N, votes \cup VotesIn(n, w))
<1> DEFINE after == votes \cup VotesIn(n, w)
<1> SUFFICES ASSUME NEW s, NEW v, Said(N, after, s, new.ballot, v)
             PROVE  VoteOf(n, s, new.ballot, v) \in after /\ Limits(new, s, v)
  BY DEF Term
<1>1. Said(net \cup out, after, s, new.ballot, v)
  BY SaidMore
<1>2. Said(net, votes, s, new.ballot, v) \/ VoteOf(n, s, new.ballot, v) \in VotesIn(n, w)
  BY <1>1, SaidAfter
<1>3. CASE Said(net, votes, s, new.ballot, v)
  <2>1. new.ballot = node[n].ballot
    BY <1>3 DEF Speaks
  <2>2. VoteOf(n, s, new.ballot, v) \in votes
    BY <1>3, <2>1 DEF TermInv, Term
  <2> QED
    BY <2>2 DEF Speaks
<1> QED
  BY <1>2, <1>3 DEF Speaks

-------------------------------------------------------------------------------
(* Discharging what was said.                                              *)

LEMMA WrittenMore ==
  ASSUME NEW n, NEW l, NEW V, NEW W, V \subseteq W, Written(n, l, V)
  PROVE  Written(n, l, W)
  BY DEF Written

LEMMA ClaimTyped ==
  ASSUME NEW cell \in CellType(BallotSet), NEW s \in Slot
  PROVE  Claim(cell, s) \in CellType(BallotSet) /\ Claim(cell, s).slot = s
  BY BallotsAreBounded, Constants DEF Claim, ledger_open, CellType, Slot

\* A cell a batch leaves undecided holds the vote of the batch.
LEMMA VotedCell ==
  ASSUME NEW top, NEW w, WritesTyped(w, top), NEW s \in WrittenSlots(w),
         NEW cell \in CellType(BallotSet), ApplySlot(cell, s, w).state = "Voted"
  PROVE  LET after == ApplySlot(cell, s, w)
         IN  /\ after.slot = s /\ s \in DOMAIN w.votes /\ s \notin DOMAIN w.chosen
             /\ after.vote_ballot = w.votes[s].ballot /\ after.value = w.votes[s].value
<1> DEFINE after == ApplySlot(cell, s, w)
           held == Claim(cell, s)
<1>1. s \in Slot
  BY DEF WritesTyped, WrittenSlots
<1>2. /\ after.slot = s /\ s \notin DOMAIN w.chosen /\ s \in DOMAIN w.votes
      /\ held.state # "Chosen" /\ after = ReplayVote(held, w.votes[s])
  BY ApplySlotFacts
<1>3. held \in CellType(BallotSet)
  BY <1>1, ClaimTyped
<1>4. after = [held EXCEPT !.promised_at = MaxOf(@, w.votes[s].ballot),
                           !.vote_ballot = w.votes[s].ballot,
                           !.state = "Voted", !.value = w.votes[s].value]
  BY <1>2 DEF ReplayVote, RecordVote
<1> HIDE DEF after, held
<1>5. after.vote_ballot = w.votes[s].ballot /\ after.value = w.votes[s].value
  BY <1>3, <1>4 DEF CellType
<1> QED
  BY <1>2, <1>5 DEF after

\* The ledger a batch leaves holds votes it held before and votes of the batch.
LEMMA WrittenApply ==
  ASSUME NEW n, NEW top, NEW w, WritesTyped(w, top), NEW V, VotesIn(n, w) \subseteq V,
         NEW l, l \in LedgerType(BallotSet), Written(n, l, V),
         NEW S, S \subseteq WrittenSlots(w)
  PROVE  Written(n, ApplyWrites(l, w, S), V)
<1> DEFINE a == ApplyWrites(l, w, S)
<1> SUFFICES ASSUME NEW c \in Cells, a.cell[c].state = "Voted"
             PROVE  VoteOf(n, a.cell[c].slot, a.cell[c].vote_ballot, a.cell[c].value) \in V
  BY DEF Written
<1>1. \/ a.cell[c] = l.cell[c]
      \/ \E s \in S : cell_of(s) = c /\ a.cell[c] = ApplySlot(l.cell[c], s, w)
  BY CellAfter
<1>2. l.cell[c] \in CellType(BallotSet)
  BY DEF LedgerType
<1>3. CASE a.cell[c] = l.cell[c]
  BY <1>3 DEF Written
<1>4. ASSUME NEW s \in S, a.cell[c] = ApplySlot(l.cell[c], s, w)
      PROVE  VoteOf(n, a.cell[c].slot, a.cell[c].vote_ballot, a.cell[c].value) \in V
  <2>1. s \in WrittenSlots(w) /\ ApplySlot(l.cell[c], s, w).state = "Voted"
    BY <1>4
  <2>2. /\ s \in DOMAIN w.votes /\ a.cell[c].slot = s
        /\ a.cell[c].vote_ballot = w.votes[s].ballot /\ a.cell[c].value = w.votes[s].value
    BY <1>2, <1>4, <2>1, VotedCell
  <2> QED
    BY <2>2, VotesInFacts
<1> QED
  BY <1>1, <1>3, <1>4

LEMMA ReplayFold ==
  ASSUME NEW l, NEW w
  PROVE  /\ \E S : S \subseteq WrittenSlots(w) /\ ledger_replay_fold(l, w) = ApplyWrites(l, w, S)
         /\ ledger_replay_fold(l, w).promised = MaxOf(l.promised, w.promise)
         /\ ledger_replay_fold(l, w) =
              [promised |-> ledger_replay_fold(l, w).promised,
               anchor |-> ledger_replay_fold(l, w).anchor,
               cell |-> ledger_replay_fold(l, w).cell]
  BY DEF ledger_replay_fold, ApplyWrites

\* A restarted node keeps its promise and its votes, and has no term.
LEMMA ResumedTerm ==
  ASSUME NEW n, NEW l, NEW base,
         l = [promised |-> l.promised, anchor |-> l.anchor, cell |-> l.cell]
  PROVE  LET r == Resumed(n, l, base) IN
         /\ r.role = "Follower" /\ r.ballot = BALLOT_ZERO /\ r.lead = NoLead
         /\ r.recovery = NoRecovery
         /\ r.ledger.promised = l.promised
         /\ \A c \in Cells : r.ledger.cell[c] \in {l.cell[c], ledger_open(0)}
<1> DEFINE kept == ReopenedThrough(l, base)
<1>1. kept.promised = l.promised
  BY DEF ReopenedThrough
<1>2. \A c \in Cells : kept.cell[c] \in {l.cell[c], ledger_open(0)}
  BY DEF ReopenedThrough
<1> QED
  BY <1>1, <1>2 DEF Resumed

LEMMA ResumedWritten ==
  ASSUME NEW n, NEW l, NEW r, \A c \in Cells : r.cell[c] \in {l.cell[c], ledger_open(0)},
         NEW V, Written(n, l, V)
  PROVE  Written(n, r, V)
  BY DEF Written, ledger_open

LEMMA SaidIsOwned ==
  ASSUME TypeInv, TermInv, NEW s, NEW b, NEW v, Said(net, votes, s, b, v)
  PROVE  \E k \in Node : Owns(k, b) /\ b <= node[k].ledger.promised
<1>1. CASE \E m \in net : m.type = "Accept" /\ m.slot = s /\ m.ballot = b /\ m.value = v
  <2>1. PICK m \in net : m.type = "Accept" /\ m.ballot = b
    BY <1>1
  <2>2. Backed(m) /\ MessageTyped(m)
    BY DEF TermInv, TypeInv
  <2> QED
    BY <2>1, <2>2 DEF Backed, MessageTyped
<1>2. CASE \E w \in votes : w.slot = s /\ w.ballot = b /\ w.value = v
  BY <1>2 DEF TermInv, VoteBacked
<1> QED
  BY <1>1, <1>2 DEF Said

\* What is left of a transition after a discharge, in part or whole: who the new
\* messages and votes are backed by, and the node's own term.
LEMMA TermKept ==
  ASSUME TypeInv, TermInv, NEW n \in Node, NEW new, NEW w, NEW out, Speaks(n, new, w, out),
         net' \subseteq net \cup out,
         votes \subseteq votes', votes' \subseteq votes \cup VotesIn(n, w),
         \A k \in Node \ {n} : node'[k] = node[k] /\ disk'[k] = disk[k],
         node'[n].ledger.promised \in BallotSet,
         node[n].ledger.promised <= node'[n].ledger.promised,
         Bid(n, node'[n]), Term(n, node'[n], net', votes'),
         Written(n, node'[n].ledger, votes'), Written(n, disk'[n], votes'),
         disk'[n].promised = node'[n].ledger.promised
  PROVE  TermInv'
<1>1. OneValue(net', votes') /\ \A k \in Node \ {n} : Term(k, node'[k], net', votes')
  BY SpeaksKeeps
<1>2. \A k \in Node : \A b \in BallotSet :
        b <= node[k].ledger.promised => b <= node'[k].ledger.promised
  <2> SUFFICES ASSUME NEW k \in Node, NEW b \in BallotSet, b <= node[k].ledger.promised
               PROVE  b <= node'[k].ledger.promised
    OBVIOUS
  <2>1. CASE k # n
    BY <2>1
  <2>2. node[n].ledger.promised \in BallotSet
    BY NodeFacts
  <2>3. k = n => b <= node'[n].ledger.promised
    BY <2>2, BallotOrder
  <2> QED
    BY <2>1, <2>3
<1>3. \A k \in Node : \A b : Owns(k, b) => b \in BallotSet
  BY OwnersDiffer
<1>4. \A m \in net : Backed(m)'
  <2> SUFFICES ASSUME NEW m \in net
               PROVE  Backed(m)'
    OBVIOUS
  <2>1. Backed(m) /\ (m.type = "Accept" => m.from \in Node)
    BY DEF TermInv, TypeInv, MessageTyped
  <2> QED
    BY <2>1, <1>2, <1>3 DEF Backed
<1>5. node[n].ballot # BALLOT_ZERO
        => Owns(n, node[n].ballot) /\ node[n].ballot <= node'[n].ledger.promised
  <2>1. node[n].ballot # BALLOT_ZERO => Owns(n, node[n].ballot)
    BY DEF TermInv, Bid
  <2>2. node[n].ballot <= node[n].ledger.promised /\ node[n].ballot \in BallotSet
    BY NodeFacts DEF TermInv, Bid
  <2> QED
    BY <2>1, <2>2, <1>2
<1>6. \A x \in net : x.type = "Accept" =>
        x.from \in Node /\ Owns(x.from, x.ballot) /\ x.ballot <= node'[x.from].ledger.promised
  BY <1>4 DEF Backed, TypeInv, MessageTyped
<1>7. \A m \in out : Backed(m)'
  <2> SUFFICES ASSUME NEW m \in out
               PROVE  Backed(m)'
    OBVIOUS
  <2>1. m.type = "Accept" => /\ Owns(m.from, m.ballot) /\ m.to # m.from
                             /\ m.ballot <= node'[m.from].ledger.promised
    BY <1>5 DEF Speaks
  <2>2. m.type = "Accepted" => \E x \in net : x.type = "Accept" /\ x.ballot = m.ballot /\ x.from = m.to
    BY DEF Speaks
  <2>3. m.type = "Accepted" => /\ m.to \in Node /\ Owns(m.to, m.ballot)
                               /\ m.ballot <= node'[m.to].ledger.promised
    BY <2>2, <1>6
  <2> QED
    BY <2>1, <2>3 DEF Backed
<1>8. ASSUME NEW x \in votes'
      PROVE  VoteBacked(x)'
  <2>1. CASE x \in votes
    <3>1. PICK k \in Node : Owns(k, x.ballot) /\ x.ballot <= node[k].ledger.promised
      BY <2>1 DEF TermInv, VoteBacked
    <3>2. x.ballot <= node'[k].ledger.promised
      BY <3>1, <1>2, <1>3
    <3> QED
      BY <3>1, <3>2 DEF VoteBacked
  <2>2. CASE x \in VotesIn(n, w)
    <3>1. PICK s \in DOMAIN w.votes : x = VoteOf(n, s, w.votes[s].ballot, w.votes[s].value)
      BY <2>2, VotesInForm
    <3>2. x.ballot = w.votes[s].ballot
      BY <3>1 DEF VoteOf
    <3>3. \/ w.votes[s].ballot = node[n].ballot /\ node[n].ballot # BALLOT_ZERO
          \/ \E y \in net : y.type = "Accept" /\ y.ballot = w.votes[s].ballot
      BY DEF Speaks
    <3>4. CASE w.votes[s].ballot = node[n].ballot /\ node[n].ballot # BALLOT_ZERO
      BY <3>2, <3>4, <1>5 DEF VoteBacked
    <3>5. CASE \E y \in net : y.type = "Accept" /\ y.ballot = w.votes[s].ballot
      BY <3>2, <3>5, <1>6 DEF VoteBacked
    <3> QED
      BY <3>3, <3>4, <3>5
  <2> QED
    BY <2>1, <2>2
<1>9. ASSUME NEW k \in Node
      PROVE  /\ Bid(k, node'[k]) /\ Term(k, node'[k], net', votes')
             /\ Written(k, node'[k].ledger, votes') /\ Written(k, disk'[k], votes')
             /\ disk'[k].promised = node'[k].ledger.promised
  <2>1. CASE k = n
    BY <2>1
  <2>2. CASE k # n
    <3>1. /\ Bid(k, node[k]) /\ Written(k, node[k].ledger, votes) /\ Written(k, disk[k], votes)
          /\ disk[k].promised = node[k].ledger.promised
      BY DEF TermInv
    <3>2. node'[k] = node[k] /\ disk'[k] = disk[k]
      BY <2>2
    <3> QED
      BY <3>1, <3>2, <2>2, <1>1, WrittenMore
  <2> QED
    BY <2>1, <2>2
<1> HIDE DEF TermInv
<1>10. \A m \in net' : Backed(m)'
  BY <1>4, <1>7
<1> QED
  BY <1>1, <1>8, <1>9, <1>10 DEF TermInv

\* The whole batch.
LEMMA DischargedTerm ==
  ASSUME TypeInv, TermInv, NEW n \in Node, NEW new, NEW w, NEW out, NEW used,
         Speaks(n, new, w, out), Discharged(n, new, w, out, used)
  PROVE  TermInv'
<1>1. /\ node' = [node EXCEPT ![n] = new]
      /\ disk' = [disk EXCEPT ![n] = ledger_replay_fold(disk[n], w)]
      /\ net' = (net \ used) \cup {m \in out : m.type \notin Lost}
      /\ votes' = votes \cup VotesIn(n, w)
  BY DEF Discharged
<1>2. DOMAIN node = Node /\ DOMAIN disk = Node
  BY DEF TypeInv
<1>3. /\ node'[n] = new /\ disk'[n] = ledger_replay_fold(disk[n], w)
      /\ \A k \in Node \ {n} : node'[k] = node[k] /\ disk'[k] = disk[k]
  BY <1>1, <1>2
<1>4. net' \subseteq net \cup out
  BY <1>1
<1>5. PICK top \in Nat : WritesTyped(w, top)
  BY DEF Speaks
<1>6. /\ new.ledger.promised = MaxOf(node[n].ledger.promised, w.promise)
      /\ node[n].ledger.promised \in BallotSet /\ w.promise \in BallotSet
  BY <1>5, NodeFacts DEF Speaks, WritesTyped
<1>7. /\ new.ledger.promised \in BallotSet
      /\ node[n].ledger.promised <= new.ledger.promised
  BY <1>6, BallotOrder
<1>8. Term(n, new, net', votes')
  BY <1>1, <1>4, SpeaksItself
<1>9. Bid(n, new) /\ Written(n, new.ledger, votes')
  BY <1>1 DEF Speaks
<1>10. Written(n, disk'[n], votes')
  <2>1. disk[n] \in LedgerType(BallotSet)
    BY DEF TypeInv, HostTyped, LedgerTyped
  <2>2. Written(n, disk[n], votes')
    BY <1>1, WrittenMore DEF TermInv
  <2>3. PICK S : S \subseteq WrittenSlots(w) /\ disk'[n] = ApplyWrites(disk[n], w, S)
    BY <1>3, ReplayFold
  <2>4. VotesIn(n, w) \subseteq votes'
    BY <1>1
  <2> QED
    BY <1>5, <2>1, <2>2, <2>3, <2>4, WrittenApply
<1>11. disk'[n].promised = new.ledger.promised
  <2>1. disk[n].promised = node[n].ledger.promised
    BY DEF TermInv
  <2> QED
    BY <1>3, <1>6, <2>1, ReplayFold
<1> QED
  BY <1>1, <1>3, <1>4, <1>7, <1>8, <1>9, <1>10, <1>11, TermKept

\* A restart from disk'[n], after whatever part of a transition got out.
LEMMA RestartedTerm ==
  ASSUME TypeInv, TermInv, NEW n \in Node, NEW new, NEW w, NEW out, Speaks(n, new, w, out),
         net' \subseteq net \cup out,
         votes \subseteq votes', votes' \subseteq votes \cup VotesIn(n, w),
         \A k \in Node \ {n} : disk'[k] = disk[k],
         disk'[n].promised \in BallotSet, node[n].ledger.promised <= disk'[n].promised,
         disk'[n] = [promised |-> disk'[n].promised, anchor |-> disk'[n].anchor,
                     cell |-> disk'[n].cell],
         Written(n, disk'[n], votes'), NEW base,
         node' = [node EXCEPT ![n] = Resumed(n, disk'[n], base)]
  PROVE  TermInv'
<1> DEFINE r == Resumed(n, disk'[n], base)
<1>1. /\ r.role = "Follower" /\ r.ballot = BALLOT_ZERO /\ r.lead = NoLead
      /\ r.ledger.promised = disk'[n].promised
      /\ \A c \in Cells : r.ledger.cell[c] \in {disk'[n].cell[c], ledger_open(0)}
  BY ResumedTerm
<1>2. DOMAIN node = Node
  BY DEF TypeInv
<1>3. node'[n] = r /\ \A k \in Node \ {n} : node'[k] = node[k]
  BY <1>2
<1> HIDE DEF r
<1>4. Bid(n, r)
  <2>1. \A c \in Cells : r.lead[c].slot = 0
    BY <1>1 DEF NoLead
  <2>2. BALLOT_ZERO <= disk'[n].promised
    BY BallotOrder
  <2> QED
    BY <1>1, <2>1, <2>2 DEF Bid
<1>5. Term(n, r, net', votes')
  <2> SUFFICES ASSUME NEW s, NEW v, Said(net', votes', s, r.ballot, v)
               PROVE  FALSE
    BY DEF Term
  <2>1. Said(net \cup out, votes \cup VotesIn(n, w), s, r.ballot, v)
    BY SaidMore
  <2>2. Said(net, votes, s, r.ballot, v)
    BY <2>1, <1>1, SaidAfter
  <2> QED
    BY <2>2, <1>1, SaidIsOwned, OwnersDiffer
<1>6. Written(n, r.ledger, votes')
  BY <1>1, ResumedWritten
<1> QED
  BY <1>1, <1>3, <1>4, <1>5, <1>6, TermKept

\* A batch cut short by a crash.
LEMMA CutShortTerm ==
  ASSUME TypeInv, TermInv, NEW n \in Node, NEW new, NEW w, NEW out, NEW used,
         Speaks(n, new, w, out), CutShort(n, new, w, out, used)
  PROVE  TermInv'
<1>1. PICK kept \in Prefixes(w) :
        /\ disk' = [disk EXCEPT ![n] = ledger_replay_fold(disk[n], kept)]
        /\ \E log : Restarted(n, disk'[n], log)
        /\ votes' = votes \cup VotesIn(n, kept)
  BY DEF CutShort
<1>2. net' \subseteq net \cup out
  BY DEF CutShort
<1>3. DOMAIN disk = Node
  BY DEF TypeInv
<1>4. PICK top \in Nat : WritesTyped(w, top)
  BY DEF Speaks
<1>5. /\ WritesTyped(kept, top) /\ DOMAIN kept.votes \subseteq DOMAIN w.votes
      /\ \A s \in DOMAIN kept.votes : kept.votes[s] = w.votes[s]
  BY <1>4, PrefixIsPart
<1>6. VotesIn(n, kept) \subseteq VotesIn(n, w)
  BY <1>5 DEF VotesIn
<1>7. /\ disk'[n] = ledger_replay_fold(disk[n], kept)
      /\ \A k \in Node \ {n} : disk'[k] = disk[k]
  BY <1>1, <1>3
<1>8. /\ disk'[n].promised \in BallotSet
      /\ node[n].ledger.promised <= disk'[n].promised
  <2>1. disk[n].promised = node[n].ledger.promised /\ node[n].ledger.promised \in BallotSet
    BY NodeFacts DEF TermInv
  <2>2. kept.promise \in BallotSet
    BY <1>5 DEF WritesTyped
  <2>3. disk'[n].promised = MaxOf(node[n].ledger.promised, kept.promise)
    BY <1>7, <2>1, ReplayFold
  <2> QED
    BY <2>1, <2>2, <2>3, BallotOrder
<1>9. Written(n, disk'[n], votes')
  <2>1. disk[n] \in LedgerType(BallotSet)
    BY DEF TypeInv, HostTyped, LedgerTyped
  <2>2. Written(n, disk[n], votes')
    BY <1>1, WrittenMore DEF TermInv
  <2>3. PICK S : S \subseteq WrittenSlots(kept) /\ disk'[n] = ApplyWrites(disk[n], kept, S)
    BY <1>7, ReplayFold
  <2>4. VotesIn(n, kept) \subseteq votes'
    BY <1>1
  <2> QED
    BY <1>5, <2>1, <2>2, <2>3, <2>4, WrittenApply
<1>10. disk'[n] = [promised |-> disk'[n].promised, anchor |-> disk'[n].anchor,
                   cell |-> disk'[n].cell]
  BY <1>7, ReplayFold
<1>11. \E base : node' = [node EXCEPT ![n] = Resumed(n, disk'[n], base)]
  BY <1>1 DEF Restarted, node_restore
<1> QED
  BY <1>1, <1>2, <1>6, <1>7, <1>8, <1>9, <1>10, <1>11, RestartedTerm

LEMMA FinishTerm ==
  ASSUME TypeInv, TermInv, NEW n \in Node, NEW new, NEW w, NEW out, NEW used,
         Speaks(n, new, w, out), Finish(n, new, w, out, used)
  PROVE  TermInv'
  BY DischargedTerm, CutShortTerm DEF Finish

-------------------------------------------------------------------------------
(* Transitions that propose nothing.                                       *)

\* The node goes on as it was, or gives up; a candidate's selection only changes while
\* it is not frozen; cells are only settled.
Quiet(nd, new) ==
  /\ new.ballot = nd.ballot
  /\ new.role # "Follower" => new.role = nd.role
  /\ new.role = "Preparing" =>
       /\ new.recovery.base = nd.recovery.base
       /\ ~ nd.recovery.ready \/ new.recovery = nd.recovery
  /\ new.role = "Leader" => new.next_slot = nd.next_slot
  /\ \A c \in Cells : /\ new.lead[c].slot = nd.lead[c].slot
                      /\ new.lead[c].ballot = nd.lead[c].ballot
  /\ \A c \in Cells : \/ new.ledger.cell[c] = nd.ledger.cell[c]
                      \/ /\ new.ledger.cell[c].state = "Chosen"
                         /\ new.ledger.cell[c].slot >= nd.ledger.cell[c].slot

LEMMA QuietLimits ==
  ASSUME NEW nd, NodeTyped(nd), NEW new, NodeTyped(new), Quiet(nd, new),
         NEW s \in Slot, NEW v, Limits(nd, s, v)
  PROVE  Limits(new, s, v)
<1>1. ASSUME Recorded(nd.ledger, s)
      PROVE  Recorded(new.ledger, s)
  <2>1. PICK c \in Cells : nd.ledger.cell[c].state # "Empty" /\ nd.ledger.cell[c].slot >= s
    BY <1>1 DEF Recorded, UsedCells
  <2>2. new.ledger.cell[c].state # "Empty"
    BY <2>1 DEF Quiet
  <2>3. nd.ledger.cell[c].slot \in Nat /\ new.ledger.cell[c].slot \in Nat /\ s \in Nat
    BY Constants DEF NodeTyped, LedgerTyped, LedgerType, CellType
  <2>4. new.ledger.cell[c].slot >= s
    BY <2>1, <2>3 DEF Quiet
  <2> QED
    BY <2>2, <2>4 DEF Recorded, UsedCells
<1>2. new.role = "Preparing" => nd.role = "Preparing"
  BY DEF Quiet
<1>3. new.role = "Preparing" /\ Selected(nd, s, v) => Selected(new, s, v)
  <2> SUFFICES ASSUME new.role = "Preparing", Selected(nd, s, v)
               PROVE  Selected(new, s, v)
    OBVIOUS
  <2>1. CASE s < nd.recovery.base
    BY <2>1 DEF Selected, Quiet
  <2>2. CASE ~ (s < nd.recovery.base)
    <3>1. nd.recovery.ready
      BY <2>2 DEF Selected
    <3>2. new.recovery = nd.recovery
      BY <3>1 DEF Quiet
    <3> QED
      BY <3>2 DEF Selected, SelectedValue
  <2> QED
    BY <2>1, <2>2
<1>4. new.role = "Leader" => nd.role = "Leader" /\ new.next_slot = nd.next_slot
  BY DEF Quiet
<1> QED
  BY <1>1, <1>2, <1>3, <1>4 DEF Limits

LEMMA SaidSlots ==
  ASSUME TypeInv, NEW s, NEW b, NEW v, Said(net, votes, s, b, v)
  PROVE  s \in Slot
  BY DEF TypeInv, Said, MessageTyped, VoteType

LEMMA QuietKeeps ==
  ASSUME TypeInv, TermInv, NEW n \in Node, NEW new, NodeTyped(new), Quiet(node[n], new),
         node[n].ledger.promised <= new.ledger.promised
  PROVE  Bid(n, new) /\ Written(n, new.ledger, votes) /\ Term(n, new, net, votes)
<1> DEFINE nd == node[n]
<1>1. Bid(n, nd) /\ Written(n, nd.ledger, votes) /\ Term(n, nd, net, votes)
  BY DEF TermInv
<1>2. NodeTyped(nd) /\ nd.ballot \in BallotSet /\ nd.ledger.promised \in BallotSet
      /\ new.ledger.promised \in BallotSet
  BY NodeFacts DEF NodeTyped, LedgerTyped, LedgerType
<1> HIDE DEF nd
<1>3. Quiet(nd, new) /\ nd.ledger.promised <= new.ledger.promised
  BY DEF nd
<1>4. Bid(n, new)
  <2>1. nd.ballot <= new.ledger.promised
    BY <1>1, <1>2, <1>3, BallotOrder DEF Bid
  <2> QED
    BY <1>1, <1>3, <2>1 DEF Bid, Quiet
<1>5. Written(n, new.ledger, votes)
  BY <1>1, <1>3 DEF Written, Quiet
<1>6. Term(n, new, net, votes)
  <2> SUFFICES ASSUME NEW s, NEW v, Said(net, votes, s, new.ballot, v)
               PROVE  VoteOf(n, s, new.ballot, v) \in votes /\ Limits(new, s, v)
    BY DEF Term
  <2>1. new.ballot = nd.ballot /\ s \in Slot
    BY <1>3, SaidSlots DEF Quiet
  <2>2. VoteOf(n, s, nd.ballot, v) \in votes /\ Limits(nd, s, v)
    BY <1>1, <2>1 DEF Term
  <2> QED
    BY <1>2, <1>3, <2>1, <2>2, QuietLimits
<1> QED
  BY <1>4, <1>5, <1>6

LEMMA QuietSpeaks ==
  ASSUME TypeInv, TermInv, NEW n \in Node, NEW new, NodeTyped(new), Quiet(node[n], new),
         NEW top \in Nat, NEW w, WritesTyped(w, top), DOMAIN w.votes = {},
         new.ledger.promised = MaxOf(node[n].ledger.promised, w.promise),
         NEW out, \A m \in out : m.type # "Accept",
         \A m \in out : m.type = "Accepted" =>
           \E x \in net : x.type = "Accept" /\ x.ballot = m.ballot /\ x.from = m.to
  PROVE  Speaks(n, new, w, out)
<1>1. VotesIn(n, w) = {}
  BY DEF VotesIn
<1>2. node[n].ledger.promised <= new.ledger.promised
  <2>1. w.promise \in BallotSet /\ node[n].ledger.promised \in BallotSet
    BY NodeFacts DEF WritesTyped
  <2> QED
    BY <2>1, BallotOrder
<1>3. Bid(n, new) /\ Written(n, new.ledger, votes) /\ Term(n, new, net, votes)
  BY <1>2, QuietKeeps
<1>4. \A s, v : VoteOf(n, s, new.ballot, v) \in votes => Limits(new, s, v)
  BY <1>3, VoteSays DEF Term
<1>5. new.ballot = node[n].ballot
  BY DEF Quiet
<1> QED
  BY <1>1, <1>3, <1>4, <1>5 DEF Speaks

\* What a node says of itself alone.
LEMMA NothingSpeaks ==
  ASSUME TypeInv, TermInv, NEW n \in Node
  PROVE  Speaks(n, node[n], NoWrites, {})
<1>1. NodeTyped(node[n]) /\ node[n].ledger.promised \in BallotSet
  BY NodeFacts
<1>2. WritesTyped(NoWrites, 0) /\ DOMAIN NoWrites.votes = {} /\ NoWrites.promise = BALLOT_ZERO
  BY EmptyBatch
<1>3. node[n].ledger.promised = MaxOf(node[n].ledger.promised, NoWrites.promise)
  BY <1>1, <1>2, BallotOrder
<1>4. Quiet(node[n], node[n])
  BY DEF Quiet
<1> QED
  BY <1>1, <1>2, <1>3, <1>4, QuietSpeaks

\* Changes of a node that write nothing and send nothing.
LEMMA LocalTerm ==
  ASSUME TypeInv, TermInv, NEW n \in Node, NEW new, NodeTyped(new), Quiet(node[n], new),
         new.ledger.promised = node[n].ledger.promised,
         node' = [node EXCEPT ![n] = new], UNCHANGED <<disk, net, votes>>
  PROVE  TermInv'
<1>1. NodeTyped(node[n]) /\ node[n].ledger.promised \in BallotSet
      /\ node[n].ledger.promised <= node[n].ledger.promised
  BY NodeFacts, BallotOrder
<1>2. DOMAIN node = Node
  BY DEF TypeInv
<1>3. node'[n] = new /\ \A k \in Node \ {n} : node'[k] = node[k]
  BY <1>2
<1>4. Bid(n, new) /\ Written(n, new.ledger, votes) /\ Term(n, new, net, votes)
  BY <1>1, QuietKeeps
<1>5. Written(n, disk[n], votes) /\ disk[n].promised = new.ledger.promised
  BY DEF TermInv
<1>6. Speaks(n, node[n], NoWrites, {})
  BY NothingSpeaks
<1> QED
  BY <1>1, <1>3, <1>4, <1>5, <1>6, TermKept

LEMMA AdvanceFloorTerm ==
  ASSUME TypeInv, TermInv, NEW n \in Node, NEW through, AdvanceMemoryFloor(n, through)
  PROVE  TermInv'
<1> DEFINE new == [node[n] EXCEPT !.memory_floor = through]
<1>1. /\ through \in (node[n].memory_floor + 1) .. node[n].delivered_through
      /\ node' = [node EXCEPT ![n] = new] /\ UNCHANGED <<disk, net, votes>>
  BY DEF AdvanceMemoryFloor
<1>2. NodeTyped(node[n]) /\ through \in node[n].memory_floor .. node[n].delivered_through
  BY <1>1, NodeFacts
<1>3. NodeTyped(new)
  BY <1>2, RaisedFloor
<1>4. node[n].ledger = new.ledger /\ new.ballot = node[n].ballot /\ new.role = node[n].role
      /\ new.recovery = node[n].recovery /\ new.next_slot = node[n].next_slot
      /\ new.lead = node[n].lead
  BY <1>2 DEF NodeTyped
<1> HIDE DEF new
<1>5. Quiet(node[n], new)
  BY <1>4 DEF Quiet
<1> QED
  BY <1>1, <1>3, <1>4, <1>5, LocalTerm

LEMMA FollowIsQuiet ==
  ASSUME NEW nd, NodeTyped(nd)
  PROVE  Quiet(nd, Follow(nd))
  BY FollowFacts DEF Quiet

LEMMA SwitchedNode ==
  ASSUME NEW nd, NodeTyped(nd), NEW e \in BOOLEAN
  PROVE  NodeTyped([nd EXCEPT !.campaign_enabled = e])
  BY DEF NodeTyped

LEMMA SetCampaignTerm ==
  ASSUME TypeInv, TermInv, NEW n \in Node, NEW enabled \in BOOLEAN,
         SetCampaignEnabled(n, enabled)
  PROVE  TermInv'
<1> DEFINE nd == node[n]
           new == IF ~ enabled /\ nd.role = "Preparing"
                    THEN [Follow(nd) EXCEPT !.campaign_enabled = FALSE]
                    ELSE [nd EXCEPT !.campaign_enabled = enabled]
<1>1. node' = [node EXCEPT ![n] = new] /\ UNCHANGED <<disk, net, votes>>
  BY DEF SetCampaignEnabled
<1>2. NodeTyped(nd) /\ NodeTyped(Follow(nd))
  BY NodeFacts, FollowFacts
<1>3. NodeTyped([nd EXCEPT !.campaign_enabled = enabled])
  BY <1>2, SwitchedNode
<1>4. NodeTyped([Follow(nd) EXCEPT !.campaign_enabled = FALSE])
  BY <1>2, SwitchedNode
<1>5. Quiet(nd, [nd EXCEPT !.campaign_enabled = enabled])
      /\ [nd EXCEPT !.campaign_enabled = enabled].ledger = nd.ledger
  <2> DEFINE k == [nd EXCEPT !.campaign_enabled = enabled]
  <2>1. k.ledger = nd.ledger /\ k.ballot = nd.ballot /\ k.role = nd.role
        /\ k.recovery = nd.recovery /\ k.next_slot = nd.next_slot /\ k.lead = nd.lead
    BY <1>2 DEF NodeTyped
  <2> HIDE DEF k
  <2>2. Quiet(nd, k)
    BY <2>1 DEF Quiet
  <2> QED
    BY <2>1, <2>2 DEF k
<1>6. Quiet(nd, [Follow(nd) EXCEPT !.campaign_enabled = FALSE])
      /\ [Follow(nd) EXCEPT !.campaign_enabled = FALSE].ledger = nd.ledger
  <2> DEFINE f == Follow(nd)
             k == [f EXCEPT !.campaign_enabled = FALSE]
  <2>1. NodeTyped(f) /\ f.role = "Follower" /\ f.ledger = nd.ledger /\ f.lead = nd.lead
        /\ f.ballot = nd.ballot
    BY <1>2, FollowFacts
  <2> HIDE DEF f
  <2>2. k.ledger = f.ledger /\ k.ballot = f.ballot /\ k.role = f.role /\ k.lead = f.lead
    BY <2>1 DEF NodeTyped
  <2> HIDE DEF k
  <2>3. Quiet(nd, k) /\ k.ledger = nd.ledger
    BY <2>1, <2>2 DEF Quiet
  <2> QED
    BY <2>3 DEF k, f
<1> HIDE DEF nd
<1>7. NodeTyped(new) /\ Quiet(nd, new) /\ new.ledger = nd.ledger
  BY <1>3, <1>4, <1>5, <1>6
<1> HIDE DEF new
<1> QED
  BY <1>1, <1>7, LocalTerm DEF nd

LEMMA CrashTerm ==
  ASSUME TypeInv, TermInv, NEW n \in Node, Crash(n)
  PROVE  TermInv'
<1>1. UNCHANGED <<disk, net, votes>>
      /\ \E base : node' = [node EXCEPT ![n] = Resumed(n, disk[n], base)]
  BY DEF Crash, Restarted, node_restore
<1>2. /\ disk[n].promised = node[n].ledger.promised /\ Written(n, disk[n], votes)
      /\ node[n].ledger.promised \in BallotSet
      /\ node[n].ledger.promised <= disk[n].promised
  BY NodeFacts, BallotOrder DEF TermInv
<1>3. disk[n] = [promised |-> disk[n].promised, anchor |-> disk[n].anchor,
                 cell |-> disk[n].cell]
  BY DEF TypeInv, HostTyped, LedgerTyped, LedgerType
<1>4. Speaks(n, node[n], NoWrites, {})
  BY NothingSpeaks
<1> QED
  BY <1>1, <1>2, <1>3, <1>4, RestartedTerm

\* An image replaces the host's state; the promise, the votes and the ballot stay.
LEMMA BeginRecoveryTerm ==
  ASSUME TypeInv, TermInv, NEW n \in Node, NEW donor \in Node, BeginRecovery(n, donor)
  PROVE  TermInv'
<1> DEFINE anchor == node[donor].ledger.anchor
           applied == ledger_replay_fold(node[n].ledger, WriteTrim(anchor))
           r == Resumed(n, applied, anchor.chosen_trim_slot)
           new == [r EXCEPT !.ballot = node[n].ballot,
                            !.campaign_enabled = node[n].campaign_enabled,
                            !.highest_observed_round = node[n].highest_observed_round]
<1>1. /\ node' = [node EXCEPT ![n] = new]
      /\ disk' = [disk EXCEPT ![n] = ledger_replay_fold(disk[n], WriteTrim(anchor))]
      /\ UNCHANGED <<net, votes>>
  BY DEF BeginRecovery
<1>2. DOMAIN node = Node /\ DOMAIN disk = Node
  BY DEF TypeInv
<1>3. /\ node'[n] = new /\ disk'[n] = ledger_replay_fold(disk[n], WriteTrim(anchor))
      /\ \A k \in Node \ {n} : node'[k] = node[k] /\ disk'[k] = disk[k]
  BY <1>1, <1>2
<1>4. anchor \in AnchorType
  BY NodeFacts
<1>5. /\ WritesTyped(WriteTrim(anchor), 0) /\ DOMAIN WriteTrim(anchor).votes = {}
      /\ WriteTrim(anchor).promise = BALLOT_ZERO
  BY <1>4, TrimBatch
<1>6. /\ r.role = "Follower" /\ r.lead = NoLead /\ r.ledger.promised = applied.promised
      /\ \A c \in Cells : r.ledger.cell[c] \in {applied.cell[c], ledger_open(0)}
  BY ReplayFold, ResumedTerm
<1>7. new.role = r.role /\ new.lead = r.lead /\ new.ledger = r.ledger
      /\ new.ballot = node[n].ballot
  BY DEF Resumed
<1>8. /\ node[n].ledger.promised \in BallotSet
      /\ disk[n].promised = node[n].ledger.promised
      /\ node[n].ledger \in LedgerType(BallotSet) /\ disk[n] \in LedgerType(BallotSet)
      /\ Written(n, node[n].ledger, votes) /\ Written(n, disk[n], votes)
  BY NodeFacts DEF TermInv, TypeInv, HostTyped, LedgerTyped
<1>9. /\ applied.promised = node[n].ledger.promised
      /\ disk'[n].promised = node[n].ledger.promised
  BY <1>3, <1>5, <1>8, ReplayFold, BallotOrder
<1>10. VotesIn(n, WriteTrim(anchor)) \subseteq votes
  BY <1>5 DEF VotesIn
<1>11. Written(n, applied, votes) /\ Written(n, disk'[n], votes)
  <2>1. \E S : S \subseteq WrittenSlots(WriteTrim(anchor))
               /\ applied = ApplyWrites(node[n].ledger, WriteTrim(anchor), S)
    BY ReplayFold
  <2>2. \E S : S \subseteq WrittenSlots(WriteTrim(anchor))
               /\ disk'[n] = ApplyWrites(disk[n], WriteTrim(anchor), S)
    BY <1>3, ReplayFold
  <2> QED
    BY <1>5, <1>8, <1>10, <2>1, <2>2, WrittenApply
<1> HIDE DEF new, r, applied, anchor
<1>12. Written(n, new.ledger, votes)
  BY <1>6, <1>7, <1>11, ResumedWritten
<1>13. Bid(n, new)
  <2>1. \A c \in Cells : new.lead[c].slot = 0
    BY <1>6, <1>7 DEF NoLead
  <2>2. Bid(n, node[n])
    BY DEF TermInv
  <2> QED
    BY <1>6, <1>7, <1>9, <2>1, <2>2 DEF Bid
<1>14. Term(n, new, net, votes)
  <2>1. Term(n, node[n], net, votes)
    BY DEF TermInv
  <2> QED
    BY <1>6, <1>7, <2>1 DEF Term, Limits
<1>15. Speaks(n, node[n], NoWrites, {})
  BY NothingSpeaks
<1>16. node[n].ledger.promised <= node[n].ledger.promised
  BY <1>8, BallotOrder
<1> QED
  BY <1>1, <1>3, <1>6, <1>7, <1>8, <1>9, <1>11, <1>12, <1>13, <1>14, <1>15, <1>16, TermKept

\* A new ballot of the node: nothing was said in it, by anyone.
LEMMA FreshBallot ==
  ASSUME TypeInv, TermInv, NEW n \in Node, NEW b, Owns(n, b), node[n].ledger.promised < b,
         NEW s, NEW v
  PROVE  ~ Said(net, votes, s, b, v)
<1> SUFFICES ASSUME Said(net, votes, s, b, v)
             PROVE  FALSE
  OBVIOUS
<1>1. PICK k \in Node : Owns(k, b) /\ b <= node[k].ledger.promised
  BY SaidIsOwned
<1>2. k = n
  BY <1>1, OwnersDiffer
<1>3. b \in Nat /\ node[n].ledger.promised \in Nat
  BY OwnersDiffer, NodeFacts, BallotsAreBounded
<1> QED
  BY <1>1, <1>2, <1>3

\* The same role and ballot, and the same drive.
SameOffice(nd, new) ==
  /\ new.role = nd.role /\ new.ballot = nd.ballot /\ new.recovery = nd.recovery
  /\ new.next_slot = nd.next_slot /\ new.lead = nd.lead

\* Writing goes up in the window, cell by cell.
LEMMA WorksCells ==
  ASSUME NEW nd, NodeTyped(nd), NEW new, NEW w, Works(nd, new, w)
  PROVE  /\ new.ledger.promised = nd.ledger.promised /\ w.promise = BALLOT_ZERO
         /\ NodeTyped(new) /\ WritesTyped(w, nd.delivered_through + Window)
         /\ \A c \in Cells :
              \/ new.ledger.cell[c] = nd.ledger.cell[c]
              \/ /\ new.ledger.cell[c].state # "Empty"
                 /\ new.ledger.cell[c].slot >= nd.ledger.cell[c].slot
                 /\ DOMAIN w.votes = {} => new.ledger.cell[c].state = "Chosen"
<1> DEFINE f == nd.memory_floor
           l == nd.ledger
<1>1. /\ NodeTyped(new) /\ WritesTyped(w, nd.delivered_through + Window)
      /\ w.promise = BALLOT_ZERO
  BY DEF Works, Extends
<1>2. CASE Passes(nd, new, w)
  BY <1>1, <1>2 DEF Passes
<1>3. CASE Places(l, new.ledger, f, w)
  <2>1. LedgerTyped(l, f + Window) /\ f \in Nat
    BY DEF NodeTyped
  <2>2. new.ledger.promised = nd.ledger.promised
    BY <1>3 DEF Places
  <2>3. ASSUME NEW c \in Cells, new.ledger.cell[c] # l.cell[c]
        PROVE  /\ new.ledger.cell[c].state # "Empty"
               /\ new.ledger.cell[c].slot >= l.cell[c].slot
               /\ DOMAIN w.votes = {} => new.ledger.cell[c].state = "Chosen"
    <3>1. PICK s \in WrittenSlots(w) : cell_of(s) = c
      BY <1>3, <2>3 DEF Places
    <3>2. s \in (f + 1) .. (f + Window) /\ Cell(new.ledger, s) = ApplySlot(Cell(l, s), s, w)
      BY <1>3 DEF Places
    <3>3. new.ledger.cell[c] = ApplySlot(l.cell[c], s, w) /\ l.cell[c] \in CellType(BallotSet)
      BY <2>1, <3>1, <3>2 DEF Cell, LedgerTyped, LedgerType
    <3>4. /\ new.ledger.cell[c].slot = s /\ new.ledger.cell[c].state \in {"Voted", "Chosen"}
          /\ s \in DOMAIN w.chosen => new.ledger.cell[c].state = "Chosen"
      BY <1>1, <3>3, ApplySlotFacts
    <3>5. DOMAIN w.votes = {} => s \in DOMAIN w.chosen
      BY DEF WrittenSlots
    <3>6. l.cell[c].slot \in Nat
      BY <3>3, Constants DEF CellType
    <3>7. l.cell[c].slot > f => l.cell[c].slot = s
      BY <2>1, <3>1, <3>2, HeldAbove DEF Cell
    <3>8. new.ledger.cell[c].slot >= l.cell[c].slot
      BY <2>1, <3>2, <3>4, <3>6, <3>7
    <3> QED
      BY <3>4, <3>5, <3>8
  <2> QED
    BY <1>1, <2>2, <2>3
<1> QED
  BY <1>2, <1>3 DEF Works

LEMMA WorksQuietly ==
  ASSUME NEW nd, NodeTyped(nd), NEW new, NEW w, Works(nd, new, w), DOMAIN w.votes = {},
         new.ballot = nd.ballot, new.role # "Follower" => new.role = nd.role,
         new.role = "Preparing" => /\ new.recovery.base = nd.recovery.base
                                   /\ ~ nd.recovery.ready \/ new.recovery = nd.recovery,
         new.role = "Leader" => new.next_slot = nd.next_slot,
         \A c \in Cells : /\ new.lead[c].slot = nd.lead[c].slot
                          /\ new.lead[c].ballot = nd.lead[c].ballot
  PROVE  Quiet(nd, new)
  BY WorksCells DEF Quiet

LEMMA EmittedOffice ==
  ASSUME NEW nd, NodeTyped(nd)
  PROVE  SameOffice(nd, Emitted(nd))
  BY EmittedFacts DEF SameOffice

LEMMA RecordCommitOffice ==
  ASSUME NEW nd, NodeTyped(nd), NEW s \in Slot, NEW v \in Values
  PROVE  /\ SameOffice(nd, record_commit(nd, s, v).nd)
         /\ DOMAIN record_commit(nd, s, v).w.votes = {}
<1> DEFINE r == record_commit(nd, s, v)
           passed == [nd EXCEPT !.delivered_through = s]
           recorded == [nd EXCEPT !.ledger = RecordWrites(@, WriteChosen(s, v))]
<1>1. r \in {Nothing(nd), Nothing(Emitted(nd)), Result(Emitted(passed), WriteChosen(s, v), {}),
             Result(Emitted(recorded), WriteChosen(s, v), {})}
  BY DEF record_commit
<1>2. /\ Nothing(nd).nd = nd /\ Nothing(Emitted(nd)).nd = Emitted(nd)
      /\ Nothing(nd).w = NoWrites /\ Nothing(Emitted(nd)).w = NoWrites
      /\ \A k, w : Result(k, w, {}).nd = k /\ Result(k, w, {}).w = w
  BY DEF Nothing, Result
<1>3. DOMAIN NoWrites.votes = {} /\ DOMAIN WriteChosen(s, v).votes = {}
  BY EmptyBatch DEF WriteChosen, NoWrites
<1>4. SameOffice(nd, passed) /\ SameOffice(nd, recorded)
  BY DEF SameOffice, NodeTyped
<1>5. SameOffice(passed, Emitted(passed)) /\ SameOffice(recorded, Emitted(recorded))
  <2>1. ASSUME NEW k \in {passed, recorded}
        PROVE  SameOffice(k, Emitted(k))
    <3>1. k = [role |-> k.role, ballot |-> k.ballot,
           highest_observed_round |-> k.highest_observed_round,
           next_slot |-> k.next_slot, leader_base |-> k.leader_base,
           delivered_through |-> k.delivered_through, memory_floor |-> k.memory_floor,
           campaign_enabled |-> k.campaign_enabled, ledger |-> k.ledger,
           recovery |-> k.recovery, lead |-> k.lead]
      BY DEF NodeTyped
    <3>2. Emitted(k) = [k EXCEPT !.delivered_through = emit_contiguous(k.ledger, @)]
      BY DEF Emitted
    <3> HIDE DEF passed, recorded
    <3> QED
      BY <3>1, <3>2 DEF SameOffice
  <2> QED
    BY <2>1
<1>6. SameOffice(nd, nd) /\ SameOffice(nd, Emitted(nd))
  BY EmittedOffice DEF SameOffice
<1>7. SameOffice(nd, Emitted(passed)) /\ SameOffice(nd, Emitted(recorded))
  BY <1>4, <1>5 DEF SameOffice
<1> QED
  BY <1>1, <1>2, <1>3, <1>6, <1>7

-------------------------------------------------------------------------------
(* What was chosen.                                                        *)

\* V holds a write quorum of votes for v in one ballot: ChosenIn, of any set of votes.
Chose(V, s, v) ==
  \E b \in {w.ballot : w \in V} :
    Cardinality({k \in Node : VoteOf(k, s, b, v) \in V}) >= WriteQuorum

\* What an acknowledgement stands for.
Backs(V, p, s, b, v) == VoteOf(p, s, b, v) \in V \/ Chose(V, s, v)

\* The acknowledgements a node has counted are for what it voted for itself.
Counted(n, lead, V) ==
  lead.slot # 0 =>
    \E v : /\ VoteOf(n, lead.slot, lead.ballot, v) \in V
           /\ \A p \in lead.acks : Backs(V, p, lead.slot, lead.ballot, v)

Settled(l, V) ==
  \A c \in Cells : l.cell[c].state = "Chosen" => Chose(V, l.cell[c].slot, l.cell[c].value)

Collected(rec, V) ==
  \A s \in DOMAIN rec.recovered :
    rec.recovered[s].state = "Chosen" => Chose(V, s, rec.recovered[s].value)

Told(m, V) ==
  /\ m.type = "Commit" => Chose(V, m.slot, m.value)
  /\ m.type = "Promise" /\ m.state = "Chosen" => Chose(V, m.slot, m.value)

\* An acknowledgement of ballot b is for what its receiver voted for.
Answered(m, V, b) ==
  m.type = "Accepted" /\ m.ballot = b =>
    \E v : VoteOf(m.to, m.slot, b, v) \in V /\ Backs(V, m.from, m.slot, b, v)

DecisionInv ==
  /\ \A m \in net : Told(m, votes) /\ Answered(m, votes, node[m.to].ballot)
  /\ \A n \in Node :
       /\ Settled(node[n].ledger, votes) /\ Settled(disk[n], votes)
       /\ Collected(node[n].recovery, votes)
       /\ \A c \in Cells : Counted(n, node[n].lead[c], votes)
       /\ \A s \in DOMAIN history[n] : Chose(votes, s, history[n][s])

LEMMA ChosenIsChose ==
  ASSUME NEW s, NEW v
  PROVE  ChosenIn(s, v) <=> Chose(votes, s, v)
  BY DEF ChosenIn, Chose, VoteOf

LEMMA QuorumIsNat ==
  WriteQuorum \in Nat /\ ReadQuorum \in Nat /\ WriteQuorum >= 1 /\ ReadQuorum >= 1
<1>1. Cardinality(Node) \in Nat
  BY Constants, FS_CardinalityType
<1> QED
  BY <1>1, QuorumAssumption

LEMMA VotersAreFinite ==
  ASSUME NEW V, NEW s, NEW b, NEW v
  PROVE  LET K == {k \in Node : VoteOf(k, s, b, v) \in V}
         IN  IsFiniteSet(K) /\ Cardinality(K) \in Nat
<1>1. IsFiniteSet({k \in Node : VoteOf(k, s, b, v) \in V})
  BY Constants, FS_Subset
<1> QED
  BY <1>1, FS_CardinalityType

\* More votes choose no less.
LEMMA ChoseMore ==
  ASSUME NEW V, NEW W, V \subseteq W, NEW s, NEW v, Chose(V, s, v)
  PROVE  Chose(W, s, v)
<1>1. PICK b : b \in {w.ballot : w \in V}
               /\ Cardinality({k \in Node : VoteOf(k, s, b, v) \in V}) >= WriteQuorum
  BY DEF Chose
<1> DEFINE K == {k \in Node : VoteOf(k, s, b, v) \in V}
           M == {k \in Node : VoteOf(k, s, b, v) \in W}
<1>2. K \subseteq M
  OBVIOUS
<1>3. IsFiniteSet(M) /\ Cardinality(K) \in Nat /\ Cardinality(M) \in Nat
  BY VotersAreFinite
<1>4. Cardinality(K) <= Cardinality(M)
  BY <1>2, <1>3, FS_Subset
<1>5. WriteQuorum \in Nat
  BY QuorumIsNat
<1>6. Cardinality(K) >= WriteQuorum
  BY <1>1
<1> HIDE DEF K, M
<1>7. Cardinality(M) >= WriteQuorum
  BY <1>3, <1>4, <1>5, <1>6
<1>8. b \in {w.ballot : w \in W}
  BY <1>1
<1> QED
  BY <1>7, <1>8 DEF Chose, M

\* A vote is a write quorum of one.
LEMMA OneVoteChooses ==
  ASSUME WriteQuorum = 1, NEW V, NEW n \in Node, NEW s, NEW b, NEW v, VoteOf(n, s, b, v) \in V
  PROVE  Chose(V, s, v)
<1> DEFINE K == {k \in Node : VoteOf(k, s, b, v) \in V}
<1>1. n \in K
  OBVIOUS
<1>2. IsFiniteSet(K) /\ Cardinality(K) \in Nat
  BY VotersAreFinite
<1>3. Cardinality(K) # 0
  BY <1>1, <1>2, FS_EmptySet
<1>4. Cardinality(K) >= WriteQuorum
  BY <1>2, <1>3
<1>5. b \in {w.ballot : w \in V}
  BY DEF VoteOf
<1> QED
  BY <1>4, <1>5 DEF Chose

LEMMA CountedMore ==
  ASSUME NEW V, NEW W, V \subseteq W, NEW n, NEW lead, Counted(n, lead, V)
  PROVE  Counted(n, lead, W)
  BY ChoseMore DEF Counted, Backs

LEMMA SettledMore ==
  ASSUME NEW V, NEW W, V \subseteq W
  PROVE  /\ \A l : Settled(l, V) => Settled(l, W)
         /\ \A rec : Collected(rec, V) => Collected(rec, W)
         /\ \A m : Told(m, V) => Told(m, W)
         /\ \A m, b : Answered(m, V, b) => Answered(m, W, b)
  BY ChoseMore DEF Settled, Collected, Told, Answered, Backs

-------------------------------------------------------------------------------
(* Transitions that decide.                                                *)

\* A batch decides what was chosen, or what it votes for as a write quorum of one.
Grounded(w) ==
  \A s \in DOMAIN w.chosen :
    \/ Chose(votes, s, w.chosen[s])
    \/ WriteQuorum = 1 /\ s \in DOMAIN w.votes /\ w.votes[s].value = w.chosen[s]

\* What a transition of node n takes for decided, tells and answers is so once its
\* votes are durable.  A new ballot is one nobody has answered.
Settles(n, new, w, out) ==
  LET after == votes \cup VotesIn(n, w) IN
  /\ Grounded(w)
  /\ Settled(new.ledger, after) /\ Collected(new.recovery, after)
  /\ \A c \in Cells : Counted(n, new.lead[c], after)
  /\ \A m \in out : /\ Told(m, after)
                    /\ m.type = "Accepted" => /\ m.to \in Node \ {n}
                                              /\ Answered(m, after, node[m.to].ballot)
  /\ \/ new.ballot = node[n].ballot
     \/ \A m \in net : m.type = "Accepted" /\ m.to = n => m.ballot # new.ballot

\* A crash leaves a decision only with the vote it goes with.
LEMMA GroundedPrefix ==
  ASSUME NEW w, NEW top, WritesTyped(w, top), Grounded(w), NEW kept \in Prefixes(w)
  PROVE  Grounded(kept)
<1>1. CASE kept = w
  BY <1>1
<1>2. CASE kept = NoWrites
  BY <1>2, EmptyBatch DEF Grounded
<1>3. ASSUME NEW cut \in WrittenSlots(w),
             kept = [w EXCEPT
                      !.votes = [s \in {t \in DOMAIN w.votes : t <= cut} |-> w.votes[s]],
                      !.chosen = [s \in {t \in DOMAIN w.chosen : t < cut} |-> w.chosen[s]]]
      PROVE  Grounded(kept)
  <2>1. w = [promise |-> w.promise, trim |-> w.trim, votes |-> w.votes, chosen |-> w.chosen]
    BY DEF WritesTyped
  <2>2. PICK v, d : /\ v = [s \in {t \in DOMAIN w.votes : t <= cut} |-> w.votes[s]]
                    /\ d = [s \in {t \in DOMAIN w.chosen : t < cut} |-> w.chosen[s]]
    OBVIOUS
  <2>3. kept = [w EXCEPT !.votes = v, !.chosen = d]
    BY <1>3, <2>2
  <2>4. kept.votes = v /\ kept.chosen = d
    BY <2>1, <2>3
  <2> SUFFICES ASSUME NEW s \in DOMAIN kept.chosen
               PROVE  \/ Chose(votes, s, kept.chosen[s])
                      \/ /\ WriteQuorum = 1 /\ s \in DOMAIN kept.votes
                         /\ kept.votes[s].value = kept.chosen[s]
    BY DEF Grounded
  <2>5. s \in DOMAIN w.chosen /\ s < cut /\ kept.chosen[s] = w.chosen[s]
    BY <2>2, <2>4
  <2>6. s \in Nat /\ cut \in Nat
    BY <2>5, Constants DEF WritesTyped, WrittenSlots
  <2>7. s \in DOMAIN w.votes => s \in DOMAIN kept.votes /\ kept.votes[s] = w.votes[s]
    BY <2>2, <2>4, <2>5, <2>6
  <2> QED
    BY <2>5, <2>7 DEF Grounded
<1> QED
  BY <1>1, <1>2, <1>3, Zenon DEF Prefixes

LEMMA GroundedChose ==
  ASSUME NEW n \in Node, NEW w, Grounded(w), NEW V, votes \subseteq V,
         VotesIn(n, w) \subseteq V, NEW s \in DOMAIN w.chosen
  PROVE  Chose(V, s, w.chosen[s])
<1>1. CASE Chose(votes, s, w.chosen[s])
  BY <1>1, ChoseMore
<1>2. CASE WriteQuorum = 1 /\ s \in DOMAIN w.votes /\ w.votes[s].value = w.chosen[s]
  <2>1. VoteOf(n, s, w.votes[s].ballot, w.chosen[s]) \in V
    BY <1>2, VotesInFacts
  <2> QED
    BY <1>2, <2>1, OneVoteChooses
<1> QED
  BY <1>1, <1>2 DEF Grounded

\* Applying a batch decides what the ledger held decided and what the batch decides.
LEMMA SettledCell ==
  ASSUME NEW top, NEW w, WritesTyped(w, top), NEW s \in WrittenSlots(w),
         NEW cell \in CellType(BallotSet), ApplySlot(cell, s, w).state = "Chosen"
  PROVE  LET after == ApplySlot(cell, s, w) IN
         /\ after.slot = s
         /\ \/ s \in DOMAIN w.chosen /\ after.value = w.chosen[s]
            \/ cell.slot = s /\ cell.state = "Chosen" /\ after.value = cell.value
<1> DEFINE after == ApplySlot(cell, s, w)
<1>1. /\ after.slot = s
      /\ s \in DOMAIN w.chosen => after.value = w.chosen[s]
      /\ s \notin DOMAIN w.chosen =>
           /\ Claim(cell, s).state = "Chosen" => after.value = Claim(cell, s).value
           /\ Claim(cell, s).state # "Chosen" => after.state = "Voted"
  BY ApplySlotFacts
<1>2. Claim(cell, s).state = "Chosen" => cell.slot = s /\ Claim(cell, s) = cell
  BY DEF Claim, ledger_open
<1> QED
  BY <1>1, <1>2

LEMMA SettledApply ==
  ASSUME NEW top, NEW w, WritesTyped(w, top), NEW V,
         \A s \in DOMAIN w.chosen : Chose(V, s, w.chosen[s]),
         NEW l, l \in LedgerType(BallotSet), Settled(l, V),
         NEW S, S \subseteq WrittenSlots(w)
  PROVE  Settled(ApplyWrites(l, w, S), V)
<1> DEFINE a == ApplyWrites(l, w, S)
<1> SUFFICES ASSUME NEW c \in Cells, a.cell[c].state = "Chosen"
             PROVE  Chose(V, a.cell[c].slot, a.cell[c].value)
  BY DEF Settled
<1>1. \/ a.cell[c] = l.cell[c]
      \/ \E s \in S : cell_of(s) = c /\ a.cell[c] = ApplySlot(l.cell[c], s, w)
  BY CellAfter
<1>2. l.cell[c] \in CellType(BallotSet)
  BY DEF LedgerType
<1>3. CASE a.cell[c] = l.cell[c]
  BY <1>3 DEF Settled
<1>4. ASSUME NEW s \in S, a.cell[c] = ApplySlot(l.cell[c], s, w)
      PROVE  Chose(V, a.cell[c].slot, a.cell[c].value)
  <2>1. s \in WrittenSlots(w) /\ ApplySlot(l.cell[c], s, w).state = "Chosen"
    BY <1>4
  <2>2. /\ a.cell[c].slot = s
        /\ \/ s \in DOMAIN w.chosen /\ a.cell[c].value = w.chosen[s]
           \/ l.cell[c].slot = s /\ l.cell[c].state = "Chosen" /\ a.cell[c].value = l.cell[c].value
    BY <1>2, <1>4, <2>1, SettledCell
  <2> QED
    BY <2>2 DEF Settled
<1> QED
  BY <1>1, <1>3, <1>4

LEMMA ResumedSettled ==
  ASSUME NEW l, NEW r, \A c \in Cells : r.cell[c] \in {l.cell[c], ledger_open(0)},
         NEW V, Settled(l, V)
  PROVE  Settled(r, V)
  BY DEF Settled, ledger_open

\* What a host is handed was chosen.
LEMMA ReleasedChosen ==
  ASSUME NEW nd, NodeTyped(nd), NEW new, NEW w, Extends(nd, new, w), NEW V,
         \A s \in DOMAIN w.chosen : Chose(V, s, w.chosen[s]), Settled(new.ledger, V),
         NEW log \in Seq(Values), Len(log) = nd.delivered_through,
         \A s \in DOMAIN log : Chose(V, s, log[s]),
         NEW through \in nd.delivered_through .. new.delivered_through
  PROVE  LET full == log \o Released(new, w, nd.delivered_through, through)
         IN  \A s \in DOMAIN full : Chose(V, s, full[s])
<1> DEFINE d == nd.delivered_through
           r == Released(new, w, d, through)
<1>1. d \in Nat /\ new.delivered_through \in 0 .. MaxSlot /\ through \in Nat /\ through >= d
      /\ through <= new.delivered_through
  BY Constants DEF NodeTyped, Extends
<1>2. r \in Seq(Values) /\ Len(r) = through - d
  BY ReleasedFacts
<1>3. ASSUME NEW i \in 1 .. (through - d)
      PROVE  Chose(V, d + i, r[i])
  <2>1. r[i] = IF d + i \in DOMAIN w.chosen THEN w.chosen[d + i] ELSE Cell(new.ledger, d + i).value
    BY DEF Released
  <2>2. d + i \in (d + 1) .. new.delivered_through /\ d + i \in Slot
    BY <1>1, Constants DEF Slot
  <2>3. d + i \in DOMAIN w.chosen \/ ledger_is_chosen(new.ledger, d + i)
    BY <2>2 DEF Extends
  <2>4. CASE d + i \in DOMAIN w.chosen
    BY <2>1, <2>4
  <2>5. CASE d + i \notin DOMAIN w.chosen
    <3>1. /\ cell_of(d + i) \in Cells /\ r[i] = new.ledger.cell[cell_of(d + i)].value
          /\ new.ledger.cell[cell_of(d + i)].slot = d + i
          /\ new.ledger.cell[cell_of(d + i)].state = "Chosen"
      BY <2>1, <2>2, <2>3, <2>5, SlotsHaveCells DEF Cell, ledger_is_chosen
    <3> QED
      BY <3>1 DEF Settled
  <2> QED
    BY <2>4, <2>5
<1> HIDE DEF r
<1>4. ASSUME NEW s \in DOMAIN (log \o r)
      PROVE  Chose(V, s, (log \o r)[s])
  <2>1. s \in 1 .. (d + Len(r)) /\ s \in Nat
    BY <1>1, <1>2
  <2>2. CASE s <= d
    <3>1. s \in DOMAIN log /\ (log \o r)[s] = log[s]
      BY <1>1, <1>2, <2>1, <2>2
    <3> QED
      BY <3>1
  <2>3. CASE s > d
    <3>1. s - d \in 1 .. (through - d) /\ (log \o r)[s] = r[s - d] /\ d + (s - d) = s
      BY <1>1, <1>2, <2>1, <2>3, SMTT(30)
    <3>2. Chose(V, d + (s - d), r[s - d])
      BY <1>3, <3>1
    <3> QED
      BY <3>1, <3>2
  <2> QED
    BY <1>1, <2>1, <2>2, <2>3
<1> QED
  BY <1>4 DEF r

\* What is left of a transition after a discharge, in part or whole.
LEMMA DecisionKept ==
  ASSUME TypeInv, TermInv, DecisionInv, NEW n \in Node, NEW new, NEW w, NEW out,
         Settles(n, new, w, out), NEW gone \in {TRUE, FALSE},
         net' \subseteq net \cup {m \in out : gone \/ m.type = "Accept"},
         votes \subseteq votes', gone => VotesIn(n, w) \subseteq votes',
         \A k \in Node \ {n} : node'[k] = node[k] /\ disk'[k] = disk[k]
                               /\ history'[k] = history[k],
         \/ node'[n].ballot = node[n].ballot
         \/ \A m \in net : m.type = "Accepted" /\ m.to = n => m.ballot # node'[n].ballot,
         Settled(node'[n].ledger, votes'), Settled(disk'[n], votes'),
         Collected(node'[n].recovery, votes'),
         \A c \in Cells : Counted(n, node'[n].lead[c], votes'),
         \A s \in DOMAIN history'[n] : Chose(votes', s, history'[n][s])
  PROVE  DecisionInv'
<1>1. ASSUME NEW k \in Node
      PROVE  /\ Settled(node'[k].ledger, votes') /\ Settled(disk'[k], votes')
             /\ Collected(node'[k].recovery, votes')
             /\ \A c \in Cells : Counted(k, node'[k].lead[c], votes')
             /\ \A s \in DOMAIN history'[k] : Chose(votes', s, history'[k][s])
  <2>1. CASE k = n
    BY <2>1
  <2>2. CASE k # n
    <3>1. node'[k] = node[k] /\ disk'[k] = disk[k] /\ history'[k] = history[k]
      BY <2>2
    <3>2. /\ Settled(node[k].ledger, votes) /\ Settled(disk[k], votes)
          /\ Collected(node[k].recovery, votes)
          /\ \A c \in Cells : Counted(k, node[k].lead[c], votes)
          /\ \A s \in DOMAIN history[k] : Chose(votes, s, history[k][s])
      BY DEF DecisionInv
    <3> QED
      BY <3>1, <3>2, SettledMore, CountedMore, ChoseMore
  <2> QED
    BY <2>1, <2>2
<1>2. ASSUME NEW m \in net
      PROVE  Told(m, votes') /\ Answered(m, votes', node'[m.to].ballot)
  <2>1. Told(m, votes) /\ Answered(m, votes, node[m.to].ballot)
    BY DEF DecisionInv
  <2>2. Told(m, votes') /\ Answered(m, votes', node[m.to].ballot)
    BY <2>1, SettledMore
  <2>3. CASE m.type # "Accepted"
    BY <2>2, <2>3 DEF Answered
  <2>4. CASE m.type = "Accepted"
    <3>1. m.to \in Node
      BY <2>4 DEF TermInv, Backed
    <3>2. CASE m.to # n
      BY <2>2, <3>1, <3>2
    <3>3. CASE m.to = n
      BY <2>2, <2>4, <3>3 DEF Answered
    <3> QED
      BY <3>2, <3>3
  <2> QED
    BY <2>2, <2>3, <2>4
<1>3. ASSUME NEW m \in out, gone \/ m.type = "Accept", m \in net', m \notin net
      PROVE  Told(m, votes') /\ Answered(m, votes', node'[m.to].ballot)
  <2>1. CASE m.type = "Accept"
    BY <2>1 DEF Told, Answered
  <2>2. CASE gone
    <3> DEFINE after == votes \cup VotesIn(n, w)
    <3>1. after \subseteq votes'
      BY <2>2
    <3>2. /\ Told(m, after)
          /\ m.type = "Accepted" => /\ m.to \in Node \ {n}
                                    /\ Answered(m, after, node[m.to].ballot)
      BY DEF Settles
    <3>3. Told(m, votes') /\ (m.type = "Accepted" => Answered(m, votes', node[m.to].ballot))
      BY <3>1, <3>2, SettledMore
    <3>4. m.type = "Accepted" => node'[m.to] = node[m.to]
      BY <3>2
    <3> QED
      BY <3>3, <3>4 DEF Answered
  <2> QED
    BY <1>3, <2>1, <2>2
<1> QED
  BY <1>1, <1>2, <1>3 DEF DecisionInv

\* The whole batch.
LEMMA DischargedDecision ==
  ASSUME TypeInv, TermInv, DecisionInv, NEW n \in Node, NEW new, NEW w, NEW out, NEW used,
         Extends(node[n], new, w), Settles(n, new, w, out), Discharged(n, new, w, out, used)
  PROVE  DecisionInv'
<1> DEFINE r == Released(new, w, node[n].delivered_through, new.delivered_through)
<1>1. /\ node' = [node EXCEPT ![n] = new]
      /\ disk' = [disk EXCEPT ![n] = ledger_replay_fold(disk[n], w)]
      /\ history' = [history EXCEPT ![n] = history[n] \o r]
      /\ net' = (net \ used) \cup {m \in out : m.type \notin Lost}
      /\ votes' = votes \cup VotesIn(n, w)
  BY DEF Discharged
<1>2. DOMAIN node = Node /\ DOMAIN disk = Node /\ DOMAIN history = Node
  BY DEF TypeInv
<1>3. /\ node'[n] = new /\ disk'[n] = ledger_replay_fold(disk[n], w)
      /\ history'[n] = history[n] \o r
      /\ \A k \in Node \ {n} : node'[k] = node[k] /\ disk'[k] = disk[k]
                               /\ history'[k] = history[k]
  BY <1>1, <1>2
<1> HIDE DEF r
<1>4. net' \subseteq net \cup out
  BY <1>1
<1>5. WritesTyped(w, node[n].delivered_through + Window)
  BY DEF Extends
<1>6. \A s \in DOMAIN w.chosen : Chose(votes', s, w.chosen[s])
  BY <1>1, GroundedChose DEF Settles
<1>7. Settled(disk'[n], votes')
  <2>1. disk[n] \in LedgerType(BallotSet)
    BY DEF TypeInv, HostTyped, LedgerTyped
  <2>2. Settled(disk[n], votes')
    BY <1>1, SettledMore DEF DecisionInv
  <2>3. PICK S : S \subseteq WrittenSlots(w) /\ disk'[n] = ApplyWrites(disk[n], w, S)
    BY <1>3, ReplayFold
  <2> QED
    BY <1>5, <1>6, <2>1, <2>2, <2>3, SettledApply
<1>8. \A s \in DOMAIN history'[n] : Chose(votes', s, history'[n][s])
  <2>1. history[n] \in Seq(Values) /\ Len(history[n]) = node[n].delivered_through
    BY NodeFacts DEF HostTyped
  <2>2. \A s \in DOMAIN history[n] : Chose(votes', s, history[n][s])
    BY <1>1, ChoseMore DEF DecisionInv
  <2>3. NodeTyped(node[n]) /\ Settled(new.ledger, votes')
    BY <1>1, NodeFacts DEF Settles
  <2>4. new.delivered_through \in node[n].delivered_through .. new.delivered_through
    BY Constants DEF Extends, NodeTyped
  <2>5. history'[n] = history[n] \o Released(new, w, node[n].delivered_through,
                                             new.delivered_through)
    BY <1>3 DEF r
  <2> QED
    BY <1>6, <2>1, <2>2, <2>3, <2>4, <2>5, ReleasedChosen
<1>9. /\ Settled(new.ledger, votes') /\ Collected(new.recovery, votes')
      /\ \A c \in Cells : Counted(n, new.lead[c], votes')
  BY <1>1 DEF Settles
<1>10. \/ new.ballot = node[n].ballot
       \/ \A m \in net : m.type = "Accepted" /\ m.to = n => m.ballot # new.ballot
  BY DEF Settles
<1>11. votes \subseteq votes' /\ VotesIn(n, w) \subseteq votes'
  BY <1>1
<1>12. PICK gone \in {TRUE, FALSE} : gone
  OBVIOUS
<1>13. net' \subseteq net \cup {m \in out : gone \/ m.type = "Accept"}
  BY <1>4, <1>12
<1> QED
  BY <1>3, <1>7, <1>8, <1>9, <1>10, <1>11, <1>12, <1>13, DecisionKept

\* A restart from disk'[n] with log.
LEMMA RestartedDecision ==
  ASSUME TypeInv, TermInv, DecisionInv, ~LaggingHost, NEW n \in Node, NEW new, NEW w, NEW out,
         Settles(n, new, w, out),
         net' \subseteq net \cup {m \in out : m.type = "Accept"}, votes \subseteq votes',
         \A k \in Node \ {n} : disk'[k] = disk[k],
         disk'[n] = [promised |-> disk'[n].promised, anchor |-> disk'[n].anchor,
                     cell |-> disk'[n].cell],
         Settled(disk'[n], votes'),
         NEW log, \A s \in DOMAIN log : Chose(votes', s, log[s]), Restarted(n, disk'[n], log)
  PROVE  DecisionInv'
<1>1. PICK base : node' = [node EXCEPT ![n] = Resumed(n, disk'[n], base)]
  BY DEF Restarted, node_restore
<1>2. history' = [history EXCEPT ![n] = log]
  BY DEF Restarted
<1> DEFINE r == Resumed(n, disk'[n], base)
<1>3. /\ r.ballot = BALLOT_ZERO /\ r.lead = NoLead /\ r.recovery = NoRecovery
      /\ \A c \in Cells : r.ledger.cell[c] \in {disk'[n].cell[c], ledger_open(0)}
  BY ResumedTerm
<1>4. DOMAIN node = Node /\ DOMAIN history = Node
  BY DEF TypeInv
<1>5. /\ node'[n] = r /\ history'[n] = log
      /\ \A k \in Node \ {n} : node'[k] = node[k] /\ history'[k] = history[k]
  BY <1>1, <1>2, <1>4
<1> HIDE DEF r
<1>6. Settled(r.ledger, votes')
  BY <1>3, ResumedSettled
<1>7. Collected(r.recovery, votes')
  <2>1. DOMAIN NoRecovery.recovered = {}
    BY DEF NoRecovery
  <2> QED
    BY <1>3, <2>1 DEF Collected
<1>8. \A c \in Cells : Counted(n, r.lead[c], votes')
  BY <1>3 DEF Counted, NoLead
<1>9. \A m \in net : m.type = "Accepted" /\ m.to = n => m.ballot # r.ballot
  <2> SUFFICES ASSUME NEW m \in net, m.type = "Accepted", m.to = n
               PROVE  m.ballot # r.ballot
    OBVIOUS
  <2>1. Owns(n, m.ballot)
    BY DEF TermInv, Backed
  <2> QED
    BY <1>3, <2>1, OwnersDiffer
<1>10. PICK gone \in {TRUE, FALSE} : ~ gone
  OBVIOUS
<1>11. net' \subseteq net \cup {m \in out : gone \/ m.type = "Accept"}
  BY <1>10
<1> QED
  BY <1>5, <1>6, <1>7, <1>8, <1>9, <1>10, <1>11, DecisionKept

\* A batch cut short by a crash.
LEMMA CutShortDecision ==
  ASSUME TypeInv, TermInv, DecisionInv, ~LaggingHost,
         NEW n \in Node, NEW new, NEW w, NEW out, NEW used,
         Extends(node[n], new, w), Settles(n, new, w, out), CutShort(n, new, w, out, used)
  PROVE  DecisionInv'
<1> DEFINE d == node[n].delivered_through
<1>1. PICK kept \in Prefixes(w) : \E through \in d .. (IF kept = w THEN new.delivered_through ELSE d) :
        /\ disk' = [disk EXCEPT ![n] = ledger_replay_fold(disk[n], kept)]
        /\ Restarted(n, disk'[n], history[n] \o Released(new, w, d, through))
        /\ votes' = votes \cup VotesIn(n, kept)
  BY DEF CutShort
<1>2. PICK through \in d .. (IF kept = w THEN new.delivered_through ELSE d) :
        /\ disk' = [disk EXCEPT ![n] = ledger_replay_fold(disk[n], kept)]
        /\ Restarted(n, disk'[n], history[n] \o Released(new, w, d, through))
        /\ votes' = votes \cup VotesIn(n, kept)
  BY <1>1
<1>3. net' \subseteq net \cup {m \in out : m.type = "Accept"}
  BY DEF CutShort, PreDurable
<1>4. DOMAIN disk = Node
  BY DEF TypeInv
<1>5. /\ disk'[n] = ledger_replay_fold(disk[n], kept)
      /\ \A k \in Node \ {n} : disk'[k] = disk[k]
  BY <1>2, <1>4
<1>6. WritesTyped(w, d + Window)
  BY DEF Extends
<1>7. WritesTyped(kept, d + Window)
  BY <1>6, PrefixIsPart
<1>8. \A s \in DOMAIN kept.chosen : Chose(votes', s, kept.chosen[s])
  <2>1. Grounded(kept)
    BY <1>6, GroundedPrefix DEF Settles
  <2> QED
    BY <1>2, <2>1, GroundedChose
<1>9. Settled(disk'[n], votes')
  <2>1. disk[n] \in LedgerType(BallotSet)
    BY DEF TypeInv, HostTyped, LedgerTyped
  <2>2. Settled(disk[n], votes')
    BY <1>2, SettledMore DEF DecisionInv
  <2>3. PICK S : S \subseteq WrittenSlots(kept) /\ disk'[n] = ApplyWrites(disk[n], kept, S)
    BY <1>5, ReplayFold
  <2> QED
    BY <1>7, <1>8, <2>1, <2>2, <2>3, SettledApply
<1>10. disk'[n] = [promised |-> disk'[n].promised, anchor |-> disk'[n].anchor,
                   cell |-> disk'[n].cell]
  BY <1>5, ReplayFold
<1> DEFINE log == history[n] \o Released(new, w, d, through)
<1>11. \A s \in DOMAIN log : Chose(votes', s, log[s])
  <2>1. history[n] \in Seq(Values) /\ Len(history[n]) = d /\ NodeTyped(node[n]) /\ d \in Nat
    BY NodeFacts DEF HostTyped
  <2>2. \A s \in DOMAIN history[n] : Chose(votes', s, history[n][s])
    BY <1>2, ChoseMore DEF DecisionInv
  <2>3. CASE kept = w
    <3>1. Settled(new.ledger, votes')
      BY <1>2, <2>3 DEF Settles
    <3>2. through \in d .. new.delivered_through
      BY <1>2, <2>3
    <3> QED
      BY <1>8, <2>1, <2>2, <2>3, <3>1, <3>2, ReleasedChosen
  <2>4. CASE kept # w
    <3>1. through = d
      BY <1>2, <2>1, <2>4
    <3>2. Released(new, w, d, through) = << >>
      <4>1. 1 .. (through - d) = {}
        BY <2>1, <3>1
      <4> QED
        BY <4>1 DEF Released
    <3>3. log = history[n]
      BY <2>1, <3>2
    <3> QED
      BY <2>2, <3>3
  <2> QED
    BY <2>3, <2>4
<1>12. Restarted(n, disk'[n], log)
  BY <1>2
<1> HIDE DEF log
<1>13. votes \subseteq votes'
  BY <1>2
<1> QED
  BY <1>3, <1>5, <1>9, <1>10, <1>11, <1>12, <1>13, RestartedDecision

LEMMA FinishDecision ==
  ASSUME TypeInv, TermInv, DecisionInv, ~LaggingHost,
         NEW n \in Node, NEW new, NEW w, NEW out, NEW used,
         Extends(node[n], new, w), Settles(n, new, w, out), Finish(n, new, w, out, used)
  PROVE  DecisionInv'
  BY DischargedDecision, CutShortDecision DEF Finish

-------------------------------------------------------------------------------
(* Safe proposals.                                                         *)

Quorums == {Q \in SUBSET Node : Cardinality(Q) >= ReadQuorum}

\* Node p has promised b, and every vote of it for slot s below b is in ballot c or below.
Closed(D, V, p, s, b, c) ==
  /\ D[p].promised >= b
  /\ \A x \in V : x.acceptor = p /\ x.slot = s /\ x.ballot < b => x.ballot <= c

\* No write quorum can choose another value than v in ballot c.
Barred(D, V, s, c, v) ==
  \E Q \in Quorums : \A p \in Q :
    \/ VoteOf(p, s, c, v) \in V
    \/ D[p].promised > c /\ \A x \in V : ~ (x.acceptor = p /\ x.slot = s /\ x.ballot = c)

\* A read quorum has promised b, and v is the value of the last vote below b that one of
\* its members has cast in slot s, or none of them has cast any.
Allowed(D, V, s, b, v) ==
  \E Q \in Quorums :
    /\ \A p \in Q : D[p].promised >= b
    /\ \/ \A x \in V : ~ (x.acceptor \in Q /\ x.slot = s /\ x.ballot < b)
       \/ \E w \in V :
            /\ w.acceptor \in Q /\ w.slot = s /\ w.ballot < b /\ w.value = v
            /\ \A x \in V : x.acceptor \in Q /\ x.slot = s /\ x.ballot < b
                               => x.ballot <= w.ballot

Safe(D, V, s, b, v) ==
  /\ b \in BallotSet
  /\ \A c \in BallotSet : c < b => Barred(D, V, s, c, v)
  /\ Allowed(D, V, s, b, v)

AllSafe == \A s, b, v : Said(net, votes, s, b, v) => Safe(disk, votes, s, b, v)

\* What a step does to journals and votes: promises rise, and a vote is in a ballot that
\* its voter's promise allowed.
Advances(D, V, E, W) ==
  /\ \A p \in Node : /\ D[p].promised \in BallotSet /\ E[p].promised \in BallotSet
                     /\ E[p].promised >= D[p].promised
  /\ V \subseteq W /\ W \subseteq VoteType
  /\ \A x \in W \ V : x.ballot >= D[x.acceptor].promised

LEMMA ClosedStays ==
  ASSUME NEW D, NEW V, NEW E, NEW W, Advances(D, V, E, W), NEW p \in Node, NEW s,
         NEW b \in BallotSet, NEW c, Closed(D, V, p, s, b, c)
  PROVE  Closed(E, W, p, s, b, c)
<1>1. BallotSet \subseteq Nat
  BY BallotsAreBounded
<1>2. E[p].promised >= b
  <2>1. D[p].promised \in Nat /\ E[p].promised \in Nat /\ E[p].promised >= D[p].promised
    BY <1>1 DEF Advances
  <2>2. D[p].promised >= b /\ b \in Nat
    BY <1>1 DEF Closed
  <2> QED
    BY <2>1, <2>2
<1>3. ASSUME NEW x \in W, x.acceptor = p, x.slot = s, x.ballot < b
      PROVE  x.ballot <= c
  <2>1. x.ballot \in Nat /\ D[p].promised \in Nat /\ b \in Nat
    BY <1>1 DEF Advances, VoteType
  <2>2. x \in V
    <3> SUFFICES ASSUME x \notin V PROVE FALSE
      OBVIOUS
    <3>1. x.ballot >= D[p].promised /\ D[p].promised >= b
      BY <1>3 DEF Advances, Closed
    <3> QED
      BY <1>3, <2>1, <3>1
  <2> QED
    BY <1>3, <2>2 DEF Closed
<1> QED
  BY <1>2, <1>3 DEF Closed

LEMMA BarredStays ==
  ASSUME NEW D, NEW V, NEW E, NEW W, Advances(D, V, E, W), NEW s, NEW c \in BallotSet, NEW v,
         Barred(D, V, s, c, v)
  PROVE  Barred(E, W, s, c, v)
<1>1. BallotSet \subseteq Nat
  BY BallotsAreBounded
<1>2. PICK Q \in Quorums : \A p \in Q :
         \/ VoteOf(p, s, c, v) \in V
         \/ D[p].promised > c /\ \A x \in V : ~ (x.acceptor = p /\ x.slot = s /\ x.ballot = c)
  BY DEF Barred
<1>3. ASSUME NEW p \in Q, VoteOf(p, s, c, v) \notin W
      PROVE  /\ E[p].promised > c
             /\ \A x \in W : ~ (x.acceptor = p /\ x.slot = s /\ x.ballot = c)
  <2>1. p \in Node
    BY DEF Quorums
  <2>2. /\ D[p].promised > c
        /\ \A x \in V : ~ (x.acceptor = p /\ x.slot = s /\ x.ballot = c)
    BY <1>2, <1>3 DEF Advances
  <2>3. D[p].promised \in Nat /\ E[p].promised \in Nat /\ c \in Nat
    BY <1>1, <2>1 DEF Advances
  <2>4. E[p].promised > c
    BY <2>1, <2>2, <2>3 DEF Advances
  <2>5. ASSUME NEW x \in W, x.acceptor = p, x.slot = s, x.ballot = c PROVE FALSE
    <3>1. x \notin V
      BY <2>2, <2>5
    <3>2. x.ballot >= D[p].promised
      BY <2>5, <3>1 DEF Advances
    <3> QED
      BY <2>2, <2>3, <2>5, <3>2
  <2> QED
    BY <2>4, <2>5
<1> QED
  BY <1>2, <1>3 DEF Barred

LEMMA AllowedStays ==
  ASSUME NEW D, NEW V, NEW E, NEW W, Advances(D, V, E, W), NEW s, NEW b \in BallotSet, NEW v,
         Allowed(D, V, s, b, v)
  PROVE  Allowed(E, W, s, b, v)
<1>1. BallotSet \subseteq Nat
  BY BallotsAreBounded
<1>2. PICK Q \in Quorums :
        /\ \A p \in Q : D[p].promised >= b
        /\ \/ \A x \in V : ~ (x.acceptor \in Q /\ x.slot = s /\ x.ballot < b)
           \/ \E w \in V :
                /\ w.acceptor \in Q /\ w.slot = s /\ w.ballot < b /\ w.value = v
                /\ \A x \in V : x.acceptor \in Q /\ x.slot = s /\ x.ballot < b
                                   => x.ballot <= w.ballot
  BY DEF Allowed
<1>3. ASSUME NEW p \in Q PROVE E[p].promised >= b
  <2>1. p \in Node /\ b \in Nat
    BY <1>1 DEF Quorums
  <2>2. D[p].promised \in Nat /\ E[p].promised \in Nat /\ E[p].promised >= D[p].promised
    BY <1>1, <2>1 DEF Advances
  <2>3. D[p].promised >= b
    BY <1>2
  <2> QED
    BY <2>1, <2>2, <2>3
<1>4. ASSUME NEW x \in W, x.acceptor \in Q, x.ballot < b PROVE x \in V
  <2> SUFFICES ASSUME x \notin V PROVE FALSE
    OBVIOUS
  <2>1. x.acceptor \in Node /\ x.ballot \in Nat /\ b \in Nat
    BY <1>1, <1>4 DEF Advances, VoteType
  <2>2. D[x.acceptor].promised \in Nat
    BY <1>1, <2>1 DEF Advances
  <2>3. x.ballot >= D[x.acceptor].promised /\ D[x.acceptor].promised >= b
    BY <1>2, <1>4 DEF Advances
  <2> QED
    BY <1>4, <2>1, <2>2, <2>3
<1>5. CASE \A x \in V : ~ (x.acceptor \in Q /\ x.slot = s /\ x.ballot < b)
  BY <1>3, <1>4, <1>5 DEF Allowed
<1>6. CASE \E w \in V :
             /\ w.acceptor \in Q /\ w.slot = s /\ w.ballot < b /\ w.value = v
             /\ \A x \in V : x.acceptor \in Q /\ x.slot = s /\ x.ballot < b
                                => x.ballot <= w.ballot
  <2>1. PICK w \in V :
          /\ w.acceptor \in Q /\ w.slot = s /\ w.ballot < b /\ w.value = v
          /\ \A x \in V : x.acceptor \in Q /\ x.slot = s /\ x.ballot < b
                             => x.ballot <= w.ballot
    BY <1>6
  <2>2. w \in W
    BY DEF Advances
  <2>3. \A x \in W : x.acceptor \in Q /\ x.slot = s /\ x.ballot < b => x.ballot <= w.ballot
    BY <1>4, <2>1
  <2> QED
    BY <1>3, <2>1, <2>2, <2>3 DEF Allowed
<1> QED
  BY <1>2, <1>5, <1>6

LEMMA SafeStays ==
  ASSUME NEW D, NEW V, NEW E, NEW W, Advances(D, V, E, W), NEW s, NEW b, NEW v,
         Safe(D, V, s, b, v)
  PROVE  Safe(E, W, s, b, v)
  BY BarredStays, AllowedStays DEF Safe

LEMMA ProposalIsBarred ==
  ASSUME TypeInv, TermInv, AllSafe, NEW s, NEW b \in BallotSet, NEW v, NEW c \in BallotSet,
         NEW Q \in Quorums, \A p \in Q : Closed(disk, votes, p, s, b, c),
         c # BALLOT_ZERO => \E q \in Node : VoteOf(q, s, c, v) \in votes
  PROVE  \A e \in BallotSet : e < b => Barred(disk, votes, s, e, v)
<1>1. BallotSet \subseteq Nat
  BY BallotsAreBounded
<1> SUFFICES ASSUME NEW e \in BallotSet, e < b PROVE Barred(disk, votes, s, e, v)
  OBVIOUS
<1>2. b \in Nat /\ c \in Nat /\ e \in Nat
  BY <1>1
<1>3. CASE e < c
  <2>1. PICK q \in Node : VoteOf(q, s, c, v) \in votes
    BY <1>2, <1>3 DEF BALLOT_ZERO
  <2>2. Said(net, votes, s, c, v)
    BY <2>1, VoteSays
  <2> QED
    BY <1>3, <2>2 DEF AllSafe, Safe
<1>4. CASE e >= c
  <2> SUFFICES ASSUME NEW p \in Q
               PROVE  \/ VoteOf(p, s, e, v) \in votes
                      \/ /\ disk[p].promised > e
                         /\ \A x \in votes : ~ (x.acceptor = p /\ x.slot = s /\ x.ballot = e)
    BY DEF Barred
  <2>1. p \in Node
    BY DEF Quorums
  <2>2. disk[p].promised \in BallotSet
    BY <2>1 DEF TypeInv, HostTyped, LedgerTyped, LedgerType
  <2>3. disk[p].promised > e
    <3>1. disk[p].promised >= b
      BY DEF Closed
    <3>2. disk[p].promised \in Nat
      BY <1>1, <2>2
    <3> QED
      BY <1>2, <3>1, <3>2
  <2>4. ASSUME NEW x \in votes, x.acceptor = p, x.slot = s, x.ballot = e
        PROVE  VoteOf(p, s, e, v) \in votes
    <3>1. x = VoteOf(p, s, e, x.value) /\ x \in VoteType
      BY <2>4 DEF TypeInv, VoteType, VoteOf
    <3>2. e = c
      BY <1>2, <1>4, <2>4 DEF Closed
    <3>3. e # BALLOT_ZERO
      BY <2>4, OwnersDiffer DEF TermInv, VoteBacked
    <3>4. PICK q \in Node : VoteOf(q, s, c, v) \in votes
      BY <3>2, <3>3
    <3>5. Said(net, votes, s, e, v) /\ Said(net, votes, s, e, x.value)
      BY <3>1, <3>2, <3>4, VoteSays
    <3>6. x.value = v
      BY <3>5 DEF TermInv, OneValue
    <3> QED
      BY <3>1, <3>6
  <2> QED
    BY <2>3, <2>4
<1> QED
  BY <1>2, <1>3, <1>4

LEMMA LargerQuorum ==
  ASSUME NEW Q \in Quorums, NEW q \in Node
  PROVE  Q \cup {q} \in Quorums
<1>1. Q \subseteq Q \cup {q} /\ Q \cup {q} \subseteq Node /\ IsFiniteSet(Node)
  BY Constants DEF Quorums
<1>2. IsFiniteSet(Q) /\ IsFiniteSet(Q \cup {q})
  BY <1>1, FS_Subset
<1>3. Cardinality(Q) \in Nat /\ Cardinality(Q \cup {q}) \in Nat
  BY <1>2, FS_CardinalityType
<1>4. Cardinality(Q) <= Cardinality(Q \cup {q})
  BY <1>1, <1>2, FS_Subset
<1>5. Cardinality(Q) >= ReadQuorum
  BY DEF Quorums
<1> QED
  BY <1>1, <1>3, <1>4, <1>5, QuorumIsNat DEF Quorums

\* What was proposed in some ballot at or above b was allowed in the least of them by a
\* quorum that had heard of no other value below b.
LEMMA SaidIsAllowed ==
  ASSUME TypeInv, TermInv, AllSafe, NEW s, NEW b \in BallotSet, NEW v, NEW c \in BallotSet,
         c >= b, Said(net, votes, s, c, v)
  PROVE  Allowed(disk, votes, s, b, v)
<1> DEFINE Spoken(e) == e \in BallotSet /\ e >= b /\ Said(net, votes, s, e, v)
<1>1. BallotSet \subseteq Nat
  BY BallotsAreBounded
<1>2. PICK e \in {x \in Nat : Spoken(x)} : \A x \in {y \in Nat : Spoken(y)} : e <= x
  <2>1. c \in {x \in Nat : Spoken(x)}
    BY <1>1
  <2> HIDE DEF Spoken
  <2> QED
    BY <2>1, LeastNat
<1>3. b \in Nat /\ e \in Nat /\ e \in BallotSet /\ e >= b /\ Said(net, votes, s, e, v)
  BY <1>1, <1>2
<1>4. Allowed(disk, votes, s, e, v)
  BY <1>3 DEF AllSafe, Safe
<1>5. PICK Q \in Quorums :
        /\ \A p \in Q : disk[p].promised >= e
        /\ \/ \A x \in votes : ~ (x.acceptor \in Q /\ x.slot = s /\ x.ballot < e)
           \/ \E w \in votes :
                /\ w.acceptor \in Q /\ w.slot = s /\ w.ballot < e /\ w.value = v
                /\ \A x \in votes : x.acceptor \in Q /\ x.slot = s /\ x.ballot < e
                                       => x.ballot <= w.ballot
  BY <1>4 DEF Allowed
<1>6. ASSUME NEW p \in Q PROVE disk[p].promised >= b
  <2>1. disk[p].promised \in Nat
    BY <1>1 DEF Quorums, TypeInv, HostTyped, LedgerTyped, LedgerType
  <2> QED
    BY <1>3, <1>5, <2>1
<1>7. ASSUME NEW x \in votes, x.ballot < b PROVE x.ballot < e
  <2>1. x.ballot \in Nat
    BY <1>1 DEF TypeInv, VoteType
  <2> QED
    BY <1>3, <1>7, <2>1
<1>8. CASE \A x \in votes : ~ (x.acceptor \in Q /\ x.slot = s /\ x.ballot < e)
  BY <1>6, <1>7, <1>8 DEF Allowed
<1>9. CASE \E w \in votes :
             /\ w.acceptor \in Q /\ w.slot = s /\ w.ballot < e /\ w.value = v
             /\ \A x \in votes : x.acceptor \in Q /\ x.slot = s /\ x.ballot < e
                                    => x.ballot <= w.ballot
  <2>1. PICK w \in votes :
          /\ w.acceptor \in Q /\ w.slot = s /\ w.ballot < e /\ w.value = v
          /\ \A x \in votes : x.acceptor \in Q /\ x.slot = s /\ x.ballot < e
                                 => x.ballot <= w.ballot
    BY <1>9
  <2>2. w \in VoteType /\ w.ballot \in BallotSet /\ w.ballot \in Nat
    BY <1>1 DEF TypeInv, VoteType
  <2>3. Said(net, votes, s, w.ballot, v)
    BY <2>1 DEF Said
  <2>4. w.ballot < b
    BY <1>2, <1>3, <2>1, <2>2, <2>3
  <2>5. \A x \in votes : x.acceptor \in Q /\ x.slot = s /\ x.ballot < b => x.ballot <= w.ballot
    BY <1>7, <2>1
  <2> QED
    BY <1>6, <2>1, <2>4, <2>5 DEF Allowed
<1> QED
  BY <1>5, <1>8, <1>9

LEMMA ProposalIsAllowed ==
  ASSUME TypeInv, TermInv, AllSafe, NEW s, NEW b \in BallotSet, NEW v, NEW c \in BallotSet,
         NEW Q \in Quorums, \A p \in Q : Closed(disk, votes, p, s, b, c),
         c # BALLOT_ZERO => \E q \in Node : /\ VoteOf(q, s, c, v) \in votes
                                           /\ Closed(disk, votes, q, s, b, c)
  PROVE  Allowed(disk, votes, s, b, v)
<1>1. BallotSet \subseteq Nat
  BY BallotsAreBounded
<1>2. b \in Nat /\ c \in Nat
  BY <1>1
<1>3. \A p \in Q : disk[p].promised >= b
  BY DEF Closed
<1>4. CASE c = BALLOT_ZERO
  <2>1. ASSUME NEW x \in votes, x.acceptor \in Q, x.slot = s, x.ballot < b PROVE FALSE
    <3>1. x.ballot <= 0 /\ x.ballot \in Nat
      BY <1>1, <1>4, <2>1 DEF Closed, BALLOT_ZERO, TypeInv, VoteType
    <3>2. x.ballot # BALLOT_ZERO
      BY OwnersDiffer DEF TermInv, VoteBacked
    <3> QED
      BY <3>1, <3>2 DEF BALLOT_ZERO
  <2> QED
    BY <1>3, <2>1 DEF Allowed
<1>5. CASE c # BALLOT_ZERO
  <2>1. PICK q \in Node : VoteOf(q, s, c, v) \in votes /\ Closed(disk, votes, q, s, b, c)
    BY <1>5
  <2>2. CASE c >= b
    <3>1. Said(net, votes, s, c, v)
      BY <2>1, VoteSays
    <3> QED
      BY <2>2, <3>1, SaidIsAllowed
  <2>3. CASE c < b
    <3> DEFINE P == Q \cup {q}
               w == VoteOf(q, s, c, v)
    <3>1. P \in Quorums
      BY LargerQuorum
    <3>2. \A p \in P : Closed(disk, votes, p, s, b, c)
      BY <2>1
    <3>3. w \in votes /\ w.acceptor = q /\ w.slot = s /\ w.ballot = c /\ w.value = v
      BY <2>1 DEF VoteOf
    <3> HIDE DEF w
    <3>4. w.acceptor \in P /\ w.ballot < b
      BY <2>3, <3>3
    <3> HIDE DEF P
    <3>5. \A x \in votes : x.acceptor \in P /\ x.slot = s /\ x.ballot < b => x.ballot <= w.ballot
      BY <3>2, <3>3 DEF Closed
    <3>6. \A p \in P : disk[p].promised >= b
      BY <3>2 DEF Closed
    <3> QED
      BY <3>1, <3>3, <3>4, <3>5, <3>6 DEF Allowed
  <2> QED
    BY <1>2, <2>2, <2>3
<1> QED
  BY <1>4, <1>5

\* The rule of phase one (B3): a value is safe in ballot b when a read quorum has
\* promised b, and the value is that of a vote in ballot c with no vote of the quorum
\* between c and b, or any value when the quorum has no votes below b at all.
LEMMA ProposalIsSafe ==
  ASSUME TypeInv, TermInv, AllSafe, NEW s, NEW b \in BallotSet, NEW v, NEW c \in BallotSet,
         NEW Q \in Quorums, \A p \in Q : Closed(disk, votes, p, s, b, c),
         c # BALLOT_ZERO => \E q \in Node : /\ VoteOf(q, s, c, v) \in votes
                                           /\ Closed(disk, votes, q, s, b, c)
  PROVE  Safe(disk, votes, s, b, v)
<1>1. \A e \in BallotSet : e < b => Barred(disk, votes, s, e, v)
  BY ProposalIsBarred
<1>2. Allowed(disk, votes, s, b, v)
  BY ProposalIsAllowed
<1> QED
  BY <1>1, <1>2 DEF Safe

LEMMA QuorumsMeet ==
  ASSUME NEW Q \in Quorums, NEW P \in SUBSET Node, Cardinality(P) >= WriteQuorum
  PROVE  Q \cap P # {}
<1> SUFFICES ASSUME Q \cap P = {} PROVE FALSE
  OBVIOUS
<1>1. IsFiniteSet(Node) /\ Q \subseteq Node /\ P \subseteq Node
  BY Constants DEF Quorums
<1>2. IsFiniteSet(Q) /\ IsFiniteSet(P)
  BY <1>1, FS_Subset
<1>3. Cardinality(Q) \in Nat /\ Cardinality(P) \in Nat /\ Cardinality(Node) \in Nat
  BY <1>1, <1>2, FS_CardinalityType
<1>4. Cardinality(Q \cup P) = Cardinality(Q) + Cardinality(P) - Cardinality(Q \cap P)
  BY <1>2, FS_Union
<1>5. Cardinality(Q \cap P) = 0
  BY FS_EmptySet
<1>6. Cardinality(Q \cup P) <= Cardinality(Node)
  BY <1>1, FS_Subset
<1>7. Cardinality(Q) >= ReadQuorum /\ Cardinality(P) >= WriteQuorum
  BY DEF Quorums
<1> QED
  BY <1>3, <1>4, <1>5, <1>6, <1>7, QuorumIsNat, QuorumAssumption

\* Two write quorums never choose different values for a slot.
LEMMA ChosenAgree ==
  ASSUME TypeInv, TermInv, AllSafe, NEW s, NEW u, NEW v,
         Chose(votes, s, u), Chose(votes, s, v)
  PROVE  u = v
<1>1. ASSUME NEW x, NEW y, NEW a, NEW b,
             Cardinality({k \in Node : VoteOf(k, s, a, x) \in votes}) >= WriteQuorum,
             Cardinality({k \in Node : VoteOf(k, s, b, y) \in votes}) >= WriteQuorum,
             a <= b
      PROVE  x = y
  <2> DEFINE A == {k \in Node : VoteOf(k, s, a, x) \in votes}
             B == {k \in Node : VoteOf(k, s, b, y) \in votes}
  <2>1. A # {} /\ B # {}
    BY <1>1, QuorumIsNat, FS_EmptySet
  <2>2. PICK i \in Node : VoteOf(i, s, a, x) \in votes
    BY <2>1
  <2>3. PICK j \in Node : VoteOf(j, s, b, y) \in votes
    BY <2>1
  <2>4. Said(net, votes, s, a, x) /\ Said(net, votes, s, b, y)
    BY <2>2, <2>3, VoteSays
  <2>5. a \in BallotSet /\ b \in BallotSet /\ BallotSet \subseteq Nat
    BY <2>4, SaidIsOwned, OwnersDiffer, BallotsAreBounded
  <2>6. CASE a = b
    BY <2>4, <2>6 DEF TermInv, OneValue
  <2>7. CASE a < b
    <3>1. PICK Q \in Quorums : \A p \in Q :
             \/ VoteOf(p, s, a, y) \in votes
             \/ \A z \in votes : ~ (z.acceptor = p /\ z.slot = s /\ z.ballot = a)
      BY <2>4, <2>5, <2>7 DEF AllSafe, Safe, Barred
    <3>2. PICK p \in Q \cap A : TRUE
      BY <1>1, QuorumsMeet
    <3>3. VoteOf(p, s, a, x) \in votes
      OBVIOUS
    <3>4. VoteOf(p, s, a, y) \in votes
      BY <3>1, <3>2, <3>3 DEF VoteOf
    <3>5. Said(net, votes, s, a, x) /\ Said(net, votes, s, a, y)
      BY <3>3, <3>4, VoteSays
    <3> QED
      BY <3>5 DEF TermInv, OneValue
  <2> QED
    BY <1>1, <2>5, <2>6, <2>7
<1>2. PICK a \in {w.ballot : w \in votes} :
         Cardinality({k \in Node : VoteOf(k, s, a, u) \in votes}) >= WriteQuorum
  BY DEF Chose
<1>3. PICK b \in {w.ballot : w \in votes} :
         Cardinality({k \in Node : VoteOf(k, s, b, v) \in votes}) >= WriteQuorum
  BY DEF Chose
<1>4. a \in Nat /\ b \in Nat
  BY BallotsAreBounded DEF TypeInv, VoteType
<1>5. a <= b \/ b <= a
  BY <1>4
<1> QED
  BY <1>1, <1>2, <1>3, <1>5

-------------------------------------------------------------------------------
(* Votes stay on disk until their slots are released or outvoted.          *)

VoteKept(x) == Kept(Accepted(x.acceptor, x.acceptor, x.ballot, x.slot))

LEMMA FinishVotes ==
  ASSUME NEW n, NEW new, NEW w, NEW out, NEW used, Finish(n, new, w, out, used),
         n \in DOMAIN disk
  PROVE  \E kept \in Prefixes(w) : /\ votes' = votes \cup VotesIn(n, kept)
                                   /\ disk'[n] = ledger_replay_fold(disk[n], kept)
<1>1. w \in Prefixes(w)
  BY DEF Prefixes
<1>2. Discharged(n, new, w, out, used)
        => /\ votes' = votes \cup VotesIn(n, w)
           /\ disk'[n] = ledger_replay_fold(disk[n], w)
  BY DEF Discharged
<1>3. CutShort(n, new, w, out, used)
        => \E kept \in Prefixes(w) : /\ votes' = votes \cup VotesIn(n, kept)
                                     /\ disk'[n] = ledger_replay_fold(disk[n], kept)
  BY DEF CutShort
<1> QED
  BY <1>1, <1>2, <1>3 DEF Finish

LEMMA NewVotesAreKept ==
  ASSUME TypeInv, WindowInv, NEW n \in Node, NEW new, NEW w, Works(node[n], new, w),
         NEW out, NEW used, Finish(n, new, w, out, used), NEW x \in votes' \ votes
  PROVE  VoteKept(x)'
<1> DEFINE nd == node[n]
           t == nd.delivered_through
<1>1. PICK kept \in Prefixes(w) : /\ votes' = votes \cup VotesIn(n, kept)
                                  /\ disk'[n] = ledger_replay_fold(disk[n], kept)
  BY FinishVotes DEF TypeInv
<1>2. NodeTyped(nd) /\ WindowOK(nd) /\ DiskOK(nd, disk[n]) /\ t \in Nat
      /\ LedgerTyped(disk[n], t + Window)
  BY NodeFacts DEF WindowInv, HostTyped
<1>3. /\ Places(disk[n], ledger_replay_fold(disk[n], kept), t, kept)
      /\ WritesTyped(kept, t + Window)
  BY <1>2, JournalPlaces
<1>4. PICK s \in DOMAIN kept.votes : x = VoteOf(n, s, kept.votes[s].ballot, kept.votes[s].value)
  BY <1>1, VotesInForm
<1>5. s \in WrittenSlots(kept) /\ s \in Slot /\ kept.votes[s].ballot \in BallotSet
  BY <1>3 DEF WrittenSlots, WritesTyped
<1>6. Cell(disk'[n], s) = ApplySlot(Cell(disk[n], s), s, kept)
  BY <1>1, <1>3, <1>5 DEF Places
<1>7. Cell(disk[n], s) \in CellType(BallotSet)
  BY <1>2, <1>5, SlotsHaveCells DEF Cell, LedgerTyped, LedgerType
<1>8. /\ Cell(disk'[n], s).slot = s /\ Cell(disk'[n], s).state \in {"Voted", "Chosen"}
      /\ Cell(disk'[n], s).state = "Voted"
           => Cell(disk'[n], s).vote_ballot = kept.votes[s].ballot
  BY <1>3, <1>5, <1>6, <1>7, ApplySlotFacts, VotedCell
<1>9. kept.votes[s].ballot \in Nat
  BY <1>5, BallotsAreBounded
<1>10. x.acceptor = n /\ x.slot = s /\ x.ballot = kept.votes[s].ballot
  BY <1>4 DEF VoteOf
<1> QED
  BY <1>8, <1>9, <1>10 DEF VoteKept, Kept, Accepted

LEMMA NothingVoted ==
  ASSUME NEW n, NEW top, NEW w, WritesTyped(w, top), DOMAIN w.votes = {}, n \in DOMAIN disk,
         NEW new, NEW out, NEW used, Finish(n, new, w, out, used)
  PROVE  votes' = votes
<1>1. PICK kept \in Prefixes(w) : votes' = votes \cup VotesIn(n, kept)
  BY FinishVotes
<1>2. DOMAIN kept.votes = {}
  BY PrefixIsPart
<1> QED
  BY <1>1, <1>2 DEF VotesIn

LEMMA StepsKeepVotes ==
  ASSUME TypeInv, TypeInv', WindowInv, ~LaggingHost, NEW n \in Node, Within(node[n]),
         OneStep(n), \A x \in votes : VoteKept(x)
  PROVE  \A x \in votes' : VoteKept(x)'
<1>1. ASSUME NEW x \in votes PROVE VoteKept(x)'
  <2>1. x \in VoteType
    BY DEF TypeInv
  <2>2. MessageTyped(Accepted(x.acceptor, x.acceptor, x.ballot, x.slot))
    BY <2>1, MessageForms DEF VoteType
  <2>3. Moves(n)
    BY StepsMove
  <2> QED
    BY <2>2, <2>3, KeptStays DEF VoteKept
<1> SUFFICES ASSUME NEW x \in votes' \ votes PROVE VoteKept(x)'
  BY <1>1
<1>2. n \in DOMAIN disk
  BY DEF TypeInv
<1>3. CASE IdleStep(n)
  <2>1. PICK new, w, out, used : Finish(n, new, w, out, used) /\ Idles(node[n], new, w)
    BY <1>3 DEF IdleStep
  <2>2. WritesTyped(w, node[n].delivered_through + Window) /\ DOMAIN w.votes = {}
    BY <2>1 DEF Idles, Extends, WrittenSlots
  <2> QED
    BY <1>2, <2>1, <2>2, NothingVoted
<1>4. CASE WorkStep(n)
  BY <1>4, NewVotesAreKept DEF WorkStep
<1>5. CASE \E a \in AnchorType : InstallChosenTrim(n, a)
  <2>1. PICK a \in AnchorType : InstallChosenTrim(n, a)
    BY <1>5
  <2>2. \E new : Finish(n, new, WriteTrim(a), {}, {})
    BY <2>1, TrimKeeps
  <2>3. WritesTyped(WriteTrim(a), 0) /\ DOMAIN WriteTrim(a).votes = {}
    BY TrimBatch
  <2> QED
    BY <1>2, <2>2, <2>3, NothingVoted
<1>6. CASE \/ \E s \in Slot : AdvanceMemoryFloor(n, s)
           \/ \E donor \in Node : BeginRecovery(n, donor)
           \/ \E enabled \in BOOLEAN : SetCampaignEnabled(n, enabled)
           \/ Crash(n)
  BY <1>6, Zenon DEF AdvanceMemoryFloor, BeginRecovery, SetCampaignEnabled, Crash
<1> QED
  BY <1>3, <1>4, <1>5, <1>6 DEF OneStep

-------------------------------------------------------------------------------
(* Steps that say something.                                               *)

Says(n) ==
  \E new, w, out, used : /\ Finish(n, new, w, out, used) /\ Extends(node[n], new, w)
                         /\ Speaks(n, new, w, out) /\ Settles(n, new, w, out)

LEMMA SaysKeeps ==
  ASSUME TypeInv, TermInv, DecisionInv, ~LaggingHost, NEW n \in Node, Says(n)
  PROVE  TermInv' /\ DecisionInv'
<1>1. PICK new, w, out, used :
        /\ Finish(n, new, w, out, used) /\ Extends(node[n], new, w)
        /\ Speaks(n, new, w, out) /\ Settles(n, new, w, out)
  BY DEF Says
<1>2. TermInv'
  BY <1>1, FinishTerm
<1>3. DecisionInv'
  BY <1>1, FinishDecision
<1> QED
  BY <1>2, <1>3

Campaign == {"Prepare", "Promise", "Promise_Range"}

Mute(out) == \A m \in out : m.type \notin Campaign

\* The node serves on in its term, or gives it up.
Serves(nd, new) ==
  \/ new.role = "Follower"
  \/ /\ new.role = nd.role /\ new.ballot = nd.ballot /\ new.recovery = nd.recovery
     /\ new.next_slot >= nd.next_slot /\ new.delivered_through >= nd.delivered_through
     /\ new.ledger.anchor.chosen_trim_slot >= nd.ledger.anchor.chosen_trim_slot
     /\ \A s \in Slot : Recorded(nd.ledger, s) => Recorded(new.ledger, s)

\* A step that takes no part in a campaign.
Calm(n) == Mute(net' \ net) /\ Serves(node[n], node'[n])

\* A step that votes as its promise allows, and proposes only what is safe.
Utters(n) ==
  /\ votes \subseteq votes'
  /\ \A x \in votes' \ votes : x.acceptor = n /\ x.ballot >= disk[n].promised
  /\ \A s, b, v : Said(net', votes', s, b, v)
       => Said(net, votes, s, b, v) \/ Safe(disk, votes, s, b, v)

Behaves(n) == Says(n) /\ Utters(n) /\ Calm(n)

LEMMA FinishNet ==
  ASSUME NEW n, NEW new, NEW w, NEW out, NEW used, Finish(n, new, w, out, used)
  PROVE  net' \subseteq net \cup out
  BY DEF Finish, Discharged, CutShort

LEMMA FinishCalm ==
  ASSUME NEW n, n \in DOMAIN node, NEW new, Serves(node[n], new), NEW w,
         NEW out, Mute(out), NEW used, Finish(n, new, w, out, used)
  PROVE  Calm(n)
<1>1. Mute(net' \ net)
  BY FinishNet DEF Mute
<1>2. CASE Discharged(n, new, w, out, used)
  <2>1. node'[n] = new
    BY <1>2 DEF Discharged
  <2> QED
    BY <1>1, <2>1 DEF Calm
<1>3. CASE CutShort(n, new, w, out, used)
  <2>1. PICK l, log : Restarted(n, l, log)
    BY <1>3 DEF CutShort
  <2>2. node'[n].role = "Follower"
    BY <2>1, RestartFollows
  <2> QED
    BY <1>1, <2>2 DEF Calm, Serves
<1> QED
  BY <1>2, <1>3 DEF Finish

LEMMA FinishUtters ==
  ASSUME TypeInv, NEW n \in Node, NEW new, NEW w, NEW out, Speaks(n, new, w, out),
         \A s \in DOMAIN w.votes :
           /\ w.votes[s].ballot >= disk[n].promised
           /\ \/ Said(net, votes, s, w.votes[s].ballot, w.votes[s].value)
              \/ Safe(disk, votes, s, w.votes[s].ballot, w.votes[s].value),
         NEW used, Finish(n, new, w, out, used)
  PROVE  Utters(n)
<1>1. n \in DOMAIN disk
  BY DEF TypeInv
<1>2. PICK kept \in Prefixes(w) : votes' = votes \cup VotesIn(n, kept)
  BY <1>1, FinishVotes
<1>3. PICK top \in Nat : WritesTyped(w, top)
  BY DEF Speaks
<1>4. VotesIn(n, kept) \subseteq VotesIn(n, w)
  BY <1>3, PrefixIsPart DEF VotesIn
<1>5. ASSUME NEW x \in votes' \ votes
      PROVE  x.acceptor = n /\ x.ballot >= disk[n].promised
  <2>1. PICK s \in DOMAIN w.votes : x = VoteOf(n, s, w.votes[s].ballot, w.votes[s].value)
    BY <1>2, <1>4, VotesInForm
  <2>2. x.acceptor = n /\ x.ballot = w.votes[s].ballot
    BY <2>1 DEF VoteOf
  <2> QED
    BY <2>2
<1>6. ASSUME NEW s, NEW b, NEW v, Said(net', votes', s, b, v)
      PROVE  Said(net, votes, s, b, v) \/ Safe(disk, votes, s, b, v)
  <2>1. Said(net \cup out, votes \cup VotesIn(n, w), s, b, v)
    BY <1>2, <1>4, <1>6, FinishNet, SaidMore
  <2>2. CASE VoteOf(n, s, b, v) \in VotesIn(n, w)
    <3>1. s \in DOMAIN w.votes /\ w.votes[s].ballot = b /\ w.votes[s].value = v
      BY <2>2, VotesInFacts
    <3> QED
      BY <3>1
  <2> QED
    BY <2>1, <2>2, SaidAfter
<1> QED
  BY <1>2, <1>5, <1>6 DEF Utters

LEMMA VotelessUtters ==
  ASSUME TypeInv, NEW n \in Node, NEW new, NEW w, NEW out, Speaks(n, new, w, out),
         DOMAIN w.votes = {}, NEW used, Finish(n, new, w, out, used)
  PROVE  Utters(n)
  BY FinishUtters

\* The node goes on in its office, or gives it up.
Stays(nd, new) ==
  /\ new.ballot = nd.ballot /\ new.lead = nd.lead
  /\ \/ new.role = "Follower" /\ new.recovery = NoRecovery
     \/ new.role = nd.role /\ new.recovery = nd.recovery /\ new.next_slot = nd.next_slot

LEMMA StaysQuiet ==
  ASSUME NEW nd, NEW new, Stays(nd, new), new.ledger.cell = nd.ledger.cell
  PROVE  Quiet(nd, new)
  BY DEF Stays, Quiet

LEMMA StaysCollects ==
  ASSUME NEW nd, NEW new, Stays(nd, new), NEW V, Collected(nd.recovery, V)
  PROVE  Collected(new.recovery, V)
<1>1. DOMAIN NoRecovery.recovered = {}
  BY DEF NoRecovery
<1> QED
  BY <1>1 DEF Stays, Collected

LEMMA ObserveStays ==
  ASSUME NEW nd, NodeTyped(nd), NEW b \in BallotSet
  PROVE  /\ Stays(nd, observe_leader(nd, b))
         /\ Stays(nd, observe_leader([nd EXCEPT !.ledger.promised = b], b))
<1>1. ASSUME NEW k, NodeTyped(k)
      PROVE  Stays(k, observe_leader(k, b))
  <2> DEFINE seen == [k EXCEPT !.highest_observed_round = MaxOf(@, ballot_round(b))]
  <2>1. /\ seen.ballot = k.ballot /\ seen.lead = k.lead /\ seen.role = k.role
        /\ seen.recovery = k.recovery /\ seen.next_slot = k.next_slot
    BY <1>1 DEF NodeTyped
  <2>2. /\ Follow(seen).ballot = k.ballot /\ Follow(seen).lead = k.lead
        /\ Follow(seen).role = "Follower" /\ Follow(seen).recovery = NoRecovery
    BY <1>1 DEF NodeTyped, Follow
  <2>3. observe_leader(k, b) \in {seen, Follow(seen)}
    BY DEF observe_leader
  <2> HIDE DEF seen
  <2> QED
    BY <2>1, <2>2, <2>3 DEF Stays
<1> DEFINE promised == [nd EXCEPT !.ledger.promised = b]
<1>2. NodeTyped(promised) /\ promised = [nd EXCEPT !.ledger = promised.ledger]
  BY PromisedFacts
<1>3. /\ promised.ballot = nd.ballot /\ promised.lead = nd.lead /\ promised.role = nd.role
      /\ promised.recovery = nd.recovery /\ promised.next_slot = nd.next_slot
  BY DEF NodeTyped
<1> HIDE DEF promised
<1>4. Stays(nd, observe_leader(promised, b))
  BY <1>1, <1>2, <1>3 DEF Stays
<1> QED
  BY <1>1, <1>4 DEF promised

\* A transition that decides and votes for nothing.
LEMMA IdleSays ==
  ASSUME TypeInv, TermInv, DecisionInv, NEW n \in Node, NEW new, NEW w,
         Idles(node[n], new, w), Stays(node[n], new),
         NEW out,
         \A m \in out : /\ m.type # "Accept" /\ Told(m, votes)
                        /\ m.type = "Accepted" =>
                             /\ m.to \in Node \ {n} /\ Answered(m, votes, node[m.to].ballot)
                             /\ \E x \in net : x.type = "Accept" /\ x.ballot = m.ballot
                                               /\ x.from = m.to,
         NEW used, Finish(n, new, w, out, used)
  PROVE  Says(n) /\ Utters(n) /\ (Mute(out) => Calm(n))
<1>1. /\ Extends(node[n], new, w) /\ new.ledger.cell = node[n].ledger.cell
      /\ new.ledger.promised = MaxOf(node[n].ledger.promised, w.promise)
      /\ WrittenSlots(w) = {}
  BY DEF Idles
<1>2. DOMAIN w.votes = {} /\ DOMAIN w.chosen = {} /\ VotesIn(n, w) = {}
  BY <1>1 DEF WrittenSlots, VotesIn
<1>3. NodeTyped(new) /\ \E top \in Nat : WritesTyped(w, top)
  <2>1. node[n].delivered_through + Window \in Nat
    BY NodeFacts, Constants
  <2> QED
    BY <1>1, <2>1 DEF Extends
<1>4. Speaks(n, new, w, out)
  BY <1>1, <1>2, <1>3, StaysQuiet, QuietSpeaks
<1>5. Settles(n, new, w, out)
  <2>1. /\ Settled(node[n].ledger, votes) /\ Collected(node[n].recovery, votes)
        /\ \A c \in Cells : Counted(n, node[n].lead[c], votes)
    BY DEF DecisionInv
  <2>2. Settled(new.ledger, votes)
    BY <1>1, <2>1 DEF Settled
  <2>3. Collected(new.recovery, votes)
    BY <2>1, StaysCollects
  <2>4. new.lead = node[n].lead /\ new.ballot = node[n].ballot
    BY DEF Stays
  <2>5. votes \cup VotesIn(n, w) = votes
    BY <1>2
  <2>6. Grounded(w)
    BY <1>2 DEF Grounded
  <2> QED
    BY <2>1, <2>2, <2>3, <2>4, <2>5, <2>6 DEF Settles
<1>6. Says(n)
  BY <1>1, <1>4, <1>5 DEF Says
<1>7. Utters(n)
  BY <1>2, <1>4, VotelessUtters
<1>8. Serves(node[n], new)
  <2>1. node[n].ledger.anchor \in AnchorType /\ node[n].delivered_through \in Nat
        /\ NodeTyped(node[n])
    BY NodeFacts
  <2>2. \A s : Recorded(node[n].ledger, s) => Recorded(new.ledger, s)
    BY <1>1 DEF Recorded, UsedCells
  <2>3. node[n].ledger.anchor.chosen_trim_slot \in 0 .. MaxSlot
    BY <2>1 DEF AnchorType
  <2>4. node[n].next_slot \in Nat
    BY <2>1, Constants DEF NodeTyped
  <2> QED
    BY <2>1, <2>2, <2>3, <2>4 DEF Serves, Stays, Idles
<1>9. Mute(out) => Calm(n)
  BY <1>8, FinishCalm DEF TypeInv
<1> QED
  BY <1>6, <1>7, <1>9

\* A node that answers as it is.
LEMMA StillSays ==
  ASSUME TypeInv, TermInv, DecisionInv, NEW n \in Node, NEW out,
         \A m \in out : /\ m.type # "Accept" /\ Told(m, votes)
                        /\ m.type = "Accepted" =>
                             /\ m.to \in Node \ {n} /\ Answered(m, votes, node[m.to].ballot)
                             /\ \E x \in net : x.type = "Accept" /\ x.ballot = m.ballot
                                               /\ x.from = m.to,
         NEW used, Finish(n, node[n], NoWrites, out, used)
  PROVE  Says(n) /\ Utters(n) /\ (Mute(out) => Calm(n))
<1>1. Idles(node[n], node[n], NoWrites)
  BY SameNodeIdles
<1>2. Stays(node[n], node[n])
  BY DEF Stays
<1> QED
  BY <1>1, <1>2, IdleSays

\* A decided cell was chosen.
LEMMA ChosenCell ==
  ASSUME NEW l, NEW V, Settled(l, V), NEW s \in Slot, ledger_is_chosen(l, s)
  PROVE  Chose(V, s, Cell(l, s).value)
  BY SlotsHaveCells DEF Settled, Cell, ledger_is_chosen

\* Envelopes that propose and acknowledge nothing, and tell what was chosen.
Tells(out) ==
  \A m \in out : m.type \notin {"Accept", "Accepted"} /\ Told(m, votes)

LEMMA TellingSays ==
  ASSUME TypeInv, TermInv, DecisionInv, NEW n \in Node, NEW new, NEW w,
         Idles(node[n], new, w), Stays(node[n], new), NEW out, Tells(out),
         NEW used, Finish(n, new, w, out, used)
  PROVE  Says(n) /\ Utters(n) /\ (Mute(out) => Calm(n))
<1>1. \A m \in out : /\ m.type # "Accept" /\ Told(m, votes)
                     /\ m.type = "Accepted" =>
                          /\ m.to \in Node \ {n} /\ Answered(m, votes, node[m.to].ballot)
                          /\ \E x \in net : x.type = "Accept" /\ x.ballot = m.ballot
                                            /\ x.from = m.to
  BY DEF Tells
<1> QED
  BY <1>1, IdleSays

LEMMA TellingStill ==
  ASSUME TypeInv, TermInv, DecisionInv, NEW n \in Node, NEW out, Tells(out),
         NEW used, Finish(n, node[n], NoWrites, out, used)
  PROVE  Says(n) /\ Utters(n) /\ (Mute(out) => Calm(n))
<1>1. Idles(node[n], node[n], NoWrites)
  BY SameNodeIdles
<1>2. Stays(node[n], node[n])
  BY DEF Stays
<1> QED
  BY <1>1, <1>2, TellingSays

LEMMA PlainTells ==
  ASSUME NEW n, NEW p, NEW b, NEW c, NEW s, NEW t, NEW v
  PROVE  /\ Mute({}) /\ Mute({Nack(n, p, b, c)}) /\ Mute({Learn(n, p, s)})
         /\ Mute({Heartbeat(n, p, b, s)}) /\ Mute({Commit(n, p, s, v)})
         /\ Tells({}) /\ Tells({Nack(n, p, b, c)}) /\ Tells({Learn(n, p, s)})
         /\ Tells({Heartbeat(n, p, b, s)}) /\ Tells({Prepare(n, p, b, s, t)})
         /\ Chose(votes, s, v) => Tells({Commit(n, p, s, v)})
  BY DEF Mute, Campaign, Tells, Told, Prepare, Nack, Learn, Heartbeat, Commit

LEMMA OnPrepareSays ==
  ASSUME TypeInv, TermInv, DecisionInv, NEW n \in Node, NEW m \in Received(n, "Prepare"),
         OnPrepare(n, m)
  PROVE  Says(n) /\ Utters(n)
<1> DEFINE nd == node[n]
           l == nd.ledger
           cells == Reported(l, m.first)
           inside == {c \in cells : l.cell[c].slot <= m.last}
           range == [type |-> "Promise_Range", from |-> n, to |-> m.from, ballot |-> m.ballot,
                     anchor |-> l.anchor, chosen_through |-> nd.delivered_through,
                     first |-> m.first, last |-> m.last,
                     reported |-> Cardinality(inside), more |-> inside # cells]
           out == {Promise(n, m.from, m.ballot, l.cell[c]) : c \in inside} \cup {range}
           new == observe_leader([nd EXCEPT !.ledger.promised = m.ballot], m.ballot)
<1>1. m.ballot \in BallotSet
  BY DEF Received, TypeInv, MessageTyped
<1>2. NodeTyped(nd)
  BY NodeFacts
<1>3. CASE /\ m.ballot < l.promised
           /\ Finish(n, nd, NoWrites, {Nack(n, m.from, m.ballot, l.promised)}, Consumed(m))
  <2>1. Tells({Nack(n, m.from, m.ballot, l.promised)})
    BY PlainTells
  <2> QED
    BY <1>3, <2>1, TellingStill
<1>4. CASE /\ m.ballot >= l.promised
           /\ Finish(n, new, IF m.ballot = l.promised THEN NoWrites ELSE WritePromise(m.ballot),
                     out, Consumed(m))
  <2>1. Settled(l, votes)
    BY DEF DecisionInv
  <2>2. \A c \in inside : c \in Cells
    BY DEF Reported, UsedCells
  <2>3. \A c \in inside : Tells({Promise(n, m.from, m.ballot, l.cell[c])})
    BY <2>1, <2>2 DEF Settled, Promise, Tells, Told
  <2>4. Tells({range})
    <3> DEFINE k == Cardinality(inside)
               more == inside # cells
    <3> HIDE DEF k, more, inside, cells
    <3> QED
      BY DEF Tells, Told, k, more
  <2>5. Tells(out)
    <3> HIDE DEF range, inside
    <3> QED
      BY <2>3, <2>4 DEF Tells
  <2>6. /\ NodeTyped(new) /\ new.ledger.cell = l.cell /\ new.ledger.promised = m.ballot
        /\ new.ledger.anchor = l.anchor
        /\ new.delivered_through = nd.delivered_through /\ new.memory_floor = nd.memory_floor
        /\ InTerm(nd, new)
    BY <1>1, <1>2, PromiseAndObserve
  <2>7. Stays(nd, new)
    BY <1>1, <1>2, ObserveStays
  <2> HIDE DEF new, out
  <2>8. Idles(nd, new, IF m.ballot = l.promised THEN NoWrites ELSE WritePromise(m.ballot))
    BY <1>1, <1>4, <2>6, StayIdles
  <2> QED
    BY <1>4, <2>5, <2>7, <2>8, TellingSays
<1> QED
  BY <1>3, <1>4 DEF OnPrepare

LEMMA OnHeartbeatSays ==
  ASSUME TypeInv, TermInv, DecisionInv, NEW n \in Node, NEW m \in Received(n, "Heartbeat"),
         OnHeartbeat(n, m)
  PROVE  Behaves(n)
<1> DEFINE nd == node[n]
           l == nd.ledger
           new == observe_leader([nd EXCEPT !.ledger.promised = m.ballot], m.ballot)
           out == IF m.decided_through > nd.delivered_through
                    THEN {LearnFrom(n, nd, m.from)} ELSE {}
<1>1. m.ballot \in BallotSet
  BY DEF Received, TypeInv, MessageTyped
<1>2. NodeTyped(nd)
  BY NodeFacts
<1>3. CASE /\ m.ballot < l.promised
           /\ Finish(n, nd, NoWrites, {Nack(n, m.from, m.ballot, l.promised)}, Consumed(m))
  <2>1. Tells({Nack(n, m.from, m.ballot, l.promised)}) /\ Mute({Nack(n, m.from, m.ballot, l.promised)})
    BY PlainTells
  <2> QED
    BY <1>3, <2>1, TellingStill DEF Behaves
<1>4. CASE /\ m.ballot >= l.promised
           /\ Finish(n, new, IF m.ballot = l.promised THEN NoWrites ELSE WritePromise(m.ballot),
                     out, Consumed(m))
  <2>1. Tells(out) /\ Mute(out)
    BY PlainTells DEF LearnFrom
  <2>2. /\ NodeTyped(new) /\ new.ledger.cell = l.cell /\ new.ledger.promised = m.ballot
        /\ new.ledger.anchor = l.anchor
        /\ new.delivered_through = nd.delivered_through /\ new.memory_floor = nd.memory_floor
        /\ InTerm(nd, new)
    BY <1>1, <1>2, PromiseAndObserve
  <2>3. Stays(nd, new)
    BY <1>1, <1>2, ObserveStays
  <2> HIDE DEF new, out
  <2>4. Idles(nd, new, IF m.ballot = l.promised THEN NoWrites ELSE WritePromise(m.ballot))
    BY <1>1, <1>4, <2>2, StayIdles
  <2> QED
    BY <1>4, <2>1, <2>3, <2>4, TellingSays DEF Behaves
<1> QED
  BY <1>3, <1>4 DEF OnHeartbeat

LEMMA OnNackSays ==
  ASSUME TypeInv, TermInv, DecisionInv, NEW n \in Node, NEW m \in Received(n, "Nack"),
         OnNack(n, m)
  PROVE  Behaves(n)
<1> DEFINE nd == node[n]
           r == MaxOf(nd.highest_observed_round, ballot_round(m.promised))
           seen == [nd EXCEPT !.highest_observed_round = r]
           new == IF m.rejected = nd.ballot /\ m.promised > nd.ballot THEN Follow(seen) ELSE seen
<1>1. m.promised \in BallotSet
  BY DEF Received, TypeInv, MessageTyped
<1>2. NodeTyped(nd) /\ nd.highest_observed_round \in 0 .. MaxRound
  BY NodeFacts DEF NodeTyped
<1>3. r \in 0 .. MaxRound
  BY <1>1, <1>2, LargerRound
<1>4. seen = [nd EXCEPT !.highest_observed_round =
                MaxOf(@, ballot_round(m.promised))]
  BY <1>2 DEF NodeTyped
<1>5. Finish(n, new, NoWrites, {}, Consumed(m))
  BY <1>4 DEF OnNack
<1> HIDE DEF r
<1>6. /\ NodeTyped(seen) /\ seen.ledger = nd.ledger /\ seen.role = nd.role
      /\ seen.ballot = nd.ballot /\ seen.lead = nd.lead /\ seen.recovery = nd.recovery
      /\ seen.next_slot = nd.next_slot
      /\ seen.delivered_through = nd.delivered_through /\ seen.memory_floor = nd.memory_floor
  BY <1>2, <1>3 DEF NodeTyped
<1> HIDE DEF seen
<1>7. Follow(seen).recovery = NoRecovery
  BY <1>6 DEF Follow, NodeTyped
<1>8. /\ NodeTyped(new) /\ new.ledger = nd.ledger
      /\ new.delivered_through = nd.delivered_through /\ new.memory_floor = nd.memory_floor
      /\ new.role = "Follower" \/ (new.role = nd.role /\ new.ballot = nd.ballot)
  BY <1>6, FollowFacts
<1>9. Stays(nd, new)
  BY <1>6, <1>7, FollowFacts DEF Stays
<1> HIDE DEF new
<1>10. Idles(nd, new, NoWrites)
  BY <1>8, StayIdles DEF InTerm
<1>11. Tells({}) /\ Mute({})
  BY PlainTells
<1> QED
  BY <1>5, <1>9, <1>10, <1>11, TellingSays DEF Behaves

LEMMA OnLearnSays ==
  ASSUME TypeInv, TermInv, DecisionInv, NEW n \in Node, NEW m \in Received(n, "Learn"),
         OnLearn(n, m)
  PROVE  Behaves(n)
<1> DEFINE nd == node[n]
           last == slot_add(m.from_slot, Chunk - 1)
           asked == m.from_slot .. last
           resident == {s \in asked : ledger_is_chosen(nd.ledger, s)}
           served == {s \in asked : s <= nd.memory_floor}
           out == {Commit(n, m.from, s, Cell(nd.ledger, s).value) : s \in resident} \cup
                  {Commit(n, m.from, s, history[n][s]) : s \in served}
<1>1. m.from_slot \in 1 .. (MaxSlot + 1)
  BY DEF Received, TypeInv, MessageTyped
<1>2. last \in 0 .. MaxSlot
  <2>1. m.from_slot \in 0 .. (MaxSlot + 1) /\ Chunk - 1 \in Nat
    BY <1>1, Constants
  <2> QED
    BY <2>1, SlotAdd
<1>3. asked \subseteq Slot
  <2> HIDE DEF last
  <2> QED
    BY <1>1, <1>2, Constants DEF Slot
<1> HIDE DEF asked
<1>4. \A s \in resident : Tells({Commit(n, m.from, s, Cell(nd.ledger, s).value)})
  <2>1. Settled(nd.ledger, votes)
    BY DEF DecisionInv
  <2> QED
    BY <1>3, <2>1, ChosenCell, PlainTells
<1>5. \A s \in served : Tells({Commit(n, m.from, s, history[n][s])})
  <2>1. /\ history[n] \in Seq(Values) /\ Len(history[n]) = nd.delivered_through
        /\ nd.memory_floor \in 0 .. nd.delivered_through /\ nd.delivered_through \in Nat
    BY NodeFacts DEF HostTyped
  <2>2. ASSUME NEW s \in served
        PROVE  s \in DOMAIN history[n]
    <3>1. s \in Slot /\ s <= nd.memory_floor
      BY <1>3
    <3>2. s \in Nat /\ s >= 1
      BY <3>1, Constants DEF Slot
    <3> QED
      BY <2>1, <3>1, <3>2
  <2>3. \A s \in served : Chose(votes, s, history[n][s])
    BY <2>2 DEF DecisionInv
  <2> QED
    BY <2>3, PlainTells
<1>6. Finish(n, nd, NoWrites, out, Consumed(m))
  BY DEF OnLearn, asked
<1>7. Tells(out) /\ Mute(out)
  BY <1>4, <1>5 DEF Tells, Mute, Campaign, Commit
<1> HIDE DEF out
<1> QED
  BY <1>6, <1>7, TellingStill DEF Behaves

LEMMA PlainTicks ==
  ASSUME TypeInv, TermInv, DecisionInv, NEW n \in Node,
         SendHeartbeat(n) \/ \E p \in Peers(n) : CatchUp(n, p)
  PROVE  Behaves(n)
<1>1. CASE SendHeartbeat(n)
  <2> DEFINE out == {Heartbeat(n, p, node[n].ballot, node[n].delivered_through) : p \in Peers(n)}
  <2>1. Tells(out) /\ Mute(out)
    BY PlainTells DEF Tells, Mute
  <2>2. Finish(n, node[n], NoWrites, out, {})
    BY <1>1 DEF SendHeartbeat
  <2> HIDE DEF out
  <2> QED
    BY <2>1, <2>2, TellingStill DEF Behaves
<1>2. ASSUME NEW p \in Peers(n), CatchUp(n, p) PROVE Behaves(n)
  BY <1>2, PlainTells, TellingStill DEF Behaves, CatchUp, LearnFrom
<1> QED
  BY <1>1, <1>2

\* A leader sends again what it voted for in its ballot.
LEMMA ResendToSays ==
  ASSUME TypeInv, TermInv, DecisionInv, NEW n \in Node, NEW p \in Peers(n), ResendTo(n, p)
  PROVE  Behaves(n)
<1> DEFINE nd == node[n]
           l == nd.ledger
           chosen == {c \in Cells : l.cell[c].state = "Chosen"}
           driven == {c \in Cells : /\ l.cell[c].state = "Voted"
                                    /\ nd.lead[c].slot = l.cell[c].slot
                                    /\ nd.lead[c].ballot = l.cell[c].vote_ballot}
           commits == {Commit(n, p, l.cell[c].slot, l.cell[c].value) : c \in chosen}
           accepts == {Accept(n, p, nd.lead[c].ballot, l.cell[c].slot, l.cell[c].value)
                         : c \in driven}
           out == commits \cup accepts
<1>1. Finish(n, nd, NoWrites, out, {}) /\ nd.role = "Leader"
  BY DEF ResendTo
<1>2. Speaks(n, nd, NoWrites, {}) /\ Extends(nd, nd, NoWrites)
  BY NothingSpeaks, SameNodeIdles DEF Idles
<1>3. VotesIn(n, NoWrites) = {} /\ DOMAIN NoWrites.chosen = {}
  BY EmptyBatch DEF VotesIn
<1>4. \A c \in chosen : Chose(votes, l.cell[c].slot, l.cell[c].value)
  BY DEF DecisionInv, Settled
<1>5. \A m \in commits : m.type = "Commit" /\ Told(m, votes)
  BY <1>4 DEF Commit, Told
<1>6. LedgerTyped(l, nd.memory_floor + Window)
  BY NodeFacts
<1>7. \A m \in accepts : /\ m.type = "Accept" /\ m.from = n /\ m.to # n
                         /\ m.ballot = nd.ballot /\ m.ballot # BALLOT_ZERO
                         /\ VoteOf(n, m.slot, m.ballot, m.value) \in votes
  <2> SUFFICES ASSUME NEW c \in driven
               PROVE  /\ nd.lead[c].ballot = nd.ballot /\ nd.ballot # BALLOT_ZERO
                      /\ VoteOf(n, l.cell[c].slot, nd.lead[c].ballot, l.cell[c].value) \in votes
    BY DEF Accept, Peers
  <2>1. l.cell[c].slot \in Slot
    BY <1>6, UsedCellFacts
  <2>2. nd.lead[c].slot # 0
    BY <2>1, Constants DEF Slot
  <2> QED
    BY <1>1, <2>2 DEF TermInv, Bid, Written
<1> HIDE DEF commits, accepts
<1>8. Speaks(n, nd, NoWrites, out)
  BY <1>2, <1>3, <1>5, <1>7 DEF Speaks
<1>9. Settles(n, nd, NoWrites, out)
  <2>1. \A m \in out : Told(m, votes) /\ m.type # "Accepted"
    BY <1>5, <1>7 DEF Told
  <2> QED
    BY <1>3, <2>1 DEF Settles, DecisionInv, Grounded
<1>10. Utters(n)
  BY <1>1, <1>8, EmptyBatch, VotelessUtters
<1>11. Mute(out)
  BY <1>5, <1>7 DEF Mute, Campaign
<1>12. nd.next_slot \in Nat /\ nd.delivered_through \in Nat
       /\ nd.ledger.anchor.chosen_trim_slot \in 0 .. MaxSlot
  BY NodeFacts, Constants DEF NodeTyped, AnchorType
<1>13. Calm(n)
  BY <1>1, <1>11, <1>12, FinishCalm DEF TypeInv, Serves
<1> QED
  BY <1>1, <1>2, <1>8, <1>9, <1>10, <1>13 DEF Says, Behaves

-------------------------------------------------------------------------------
(* Transitions that write in the window.                                   *)

\* Each cell of a placed batch is the old one or has the batch applied.
LEMMA WorksPlaced ==
  ASSUME NEW nd, NodeTyped(nd), NEW new, NEW w, Works(nd, new, w), NEW c \in Cells
  PROVE  \/ new.ledger.cell[c] = nd.ledger.cell[c]
         \/ \E s \in WrittenSlots(w) : /\ cell_of(s) = c
                                       /\ new.ledger.cell[c] = ApplySlot(nd.ledger.cell[c], s, w)
<1>1. CASE Passes(nd, new, w)
  BY <1>1 DEF Passes
<1>2. CASE Places(nd.ledger, new.ledger, nd.memory_floor, w)
  BY <1>2 DEF Places, Cell
<1> QED
  BY <1>1, <1>2 DEF Works

LEMMA NodeCells ==
  ASSUME NEW nd, NodeTyped(nd), NEW c \in Cells
  PROVE  nd.ledger.cell[c] \in CellType(BallotSet)
  BY DEF NodeTyped, LedgerTyped, LedgerType

LEMMA WorksWritten ==
  ASSUME NEW nd, NodeTyped(nd), NEW new, NEW w, Works(nd, new, w), NEW n, NEW V,
         Written(n, nd.ledger, V), VotesIn(n, w) \subseteq V
  PROVE  Written(n, new.ledger, V)
<1> SUFFICES ASSUME NEW c \in Cells, new.ledger.cell[c].state = "Voted"
             PROVE  VoteOf(n, new.ledger.cell[c].slot, new.ledger.cell[c].vote_ballot,
                           new.ledger.cell[c].value) \in V
  BY DEF Written
<1>1. WritesTyped(w, nd.delivered_through + Window)
  BY DEF Works, Extends
<1>2. CASE new.ledger.cell[c] = nd.ledger.cell[c]
  BY <1>2 DEF Written
<1>3. ASSUME NEW s \in WrittenSlots(w),
             new.ledger.cell[c] = ApplySlot(nd.ledger.cell[c], s, w)
      PROVE  VoteOf(n, new.ledger.cell[c].slot, new.ledger.cell[c].vote_ballot,
                    new.ledger.cell[c].value) \in V
  <2>1. nd.ledger.cell[c] \in CellType(BallotSet)
    BY NodeCells
  <2> QED
    BY <1>1, <1>3, <2>1, VotedCell, VotesInFacts
<1> QED
  BY <1>2, <1>3, WorksPlaced

LEMMA WorksSettled ==
  ASSUME NEW nd, NodeTyped(nd), NEW new, NEW w, Works(nd, new, w), NEW V,
         Settled(nd.ledger, V), \A s \in DOMAIN w.chosen : Chose(V, s, w.chosen[s])
  PROVE  Settled(new.ledger, V)
<1> SUFFICES ASSUME NEW c \in Cells, new.ledger.cell[c].state = "Chosen"
             PROVE  Chose(V, new.ledger.cell[c].slot, new.ledger.cell[c].value)
  BY DEF Settled
<1>1. WritesTyped(w, nd.delivered_through + Window)
  BY DEF Works, Extends
<1>2. CASE new.ledger.cell[c] = nd.ledger.cell[c]
  BY <1>2 DEF Settled
<1>3. ASSUME NEW s \in WrittenSlots(w),
             new.ledger.cell[c] = ApplySlot(nd.ledger.cell[c], s, w)
      PROVE  Chose(V, new.ledger.cell[c].slot, new.ledger.cell[c].value)
  <2>1. nd.ledger.cell[c] \in CellType(BallotSet)
    BY NodeCells
  <2> QED
    BY <1>1, <1>3, <2>1, SettledCell DEF Settled
<1> QED
  BY <1>2, <1>3, WorksPlaced

\* What is recorded, and what a batch votes for, stays recorded.
LEMMA WorksRecords ==
  ASSUME NEW nd, NodeTyped(nd), NEW new, NEW w, Works(nd, new, w), NEW s \in Slot,
         Recorded(nd.ledger, s) \/ s \in DOMAIN w.votes
  PROVE  Recorded(new.ledger, s)
<1>0. NodeTyped(new) /\ s \in Nat
  BY WorksCells, Constants DEF Slot
<1>1. CASE Recorded(nd.ledger, s)
  <2>1. PICK c \in UsedCells(nd.ledger) : nd.ledger.cell[c].slot >= s
    BY <1>1 DEF Recorded
  <2>2. c \in Cells /\ nd.ledger.cell[c].state # "Empty"
    BY DEF UsedCells
  <2>3. \/ new.ledger.cell[c] = nd.ledger.cell[c]
        \/ /\ new.ledger.cell[c].state # "Empty"
           /\ new.ledger.cell[c].slot >= nd.ledger.cell[c].slot
    BY <2>2, WorksCells
  <2>4. nd.ledger.cell[c].slot \in Nat /\ new.ledger.cell[c].slot \in Nat
    BY <1>0, <2>2, NodeCells, Constants DEF CellType
  <2>5. new.ledger.cell[c].slot >= s /\ new.ledger.cell[c].state # "Empty"
    BY <1>0, <2>1, <2>2, <2>3, <2>4
  <2> QED
    BY <2>2, <2>5 DEF Recorded, UsedCells
<1>2. CASE s \in DOMAIN w.votes
  <2>1. s \in WrittenSlots(w) /\ cell_of(s) \in Cells
    BY <1>2, SlotsHaveCells DEF WrittenSlots
  <2>2. WritesTyped(w, nd.delivered_through + Window)
    BY WorksCells
  <2>3. Places(nd.ledger, new.ledger, nd.memory_floor, w)
    <3>1. ASSUME Passes(nd, new, w) PROVE FALSE
      <4>1. PICK t, v : w = WriteChosen(t, v)
        BY <3>1 DEF Passes
      <4>2. w.votes = << >>
        BY <4>1 DEF WriteChosen, NoWrites
      <4> QED
        BY <1>2, <4>2
    <3> QED
      BY <3>1 DEF Works
  <2>4. Cell(new.ledger, s) = ApplySlot(Cell(nd.ledger, s), s, w)
    BY <2>1, <2>3 DEF Places
  <2>5. Cell(nd.ledger, s) \in CellType(BallotSet)
    BY <2>1, NodeCells DEF Cell
  <2>6. Cell(new.ledger, s).slot = s /\ Cell(new.ledger, s).state # "Empty"
    BY <2>1, <2>2, <2>4, <2>5, ApplySlotFacts
  <2> QED
    BY <1>0, <2>1, <2>6 DEF Recorded, UsedCells, Cell
<1> QED
  BY <1>1, <1>2

LEMMA WorksServes ==
  ASSUME NEW nd, NodeTyped(nd), NEW new, NEW w, Works(nd, new, w),
         new.role \in {"Follower", nd.role}, new.ballot = nd.ballot,
         new.recovery = nd.recovery, new.next_slot >= nd.next_slot
  PROVE  Serves(nd, new)
<1>1. new.ledger.anchor = nd.ledger.anchor
  BY DEF Works, Places, Passes
<1>2. nd.ledger.anchor.chosen_trim_slot \in 0 .. MaxSlot
  BY DEF NodeTyped, LedgerTyped, LedgerType, AnchorType
<1>3. new.delivered_through >= nd.delivered_through
  BY DEF Works, Extends
<1> QED
  BY <1>1, <1>2, <1>3, WorksRecords DEF Serves

\* A transition that votes for nothing, and decides what was chosen.
LEMMA QuietWorkSays ==
  ASSUME TypeInv, TermInv, DecisionInv, NEW n \in Node, NEW new, NEW w,
         Works(node[n], new, w), Quiet(node[n], new), DOMAIN w.votes = {},
         \A s \in DOMAIN w.chosen : Chose(votes, s, w.chosen[s]),
         Collected(new.recovery, votes), \A c \in Cells : Counted(n, new.lead[c], votes),
         NEW out, Tells(out), NEW used, Finish(n, new, w, out, used)
  PROVE  /\ Says(n) /\ Utters(n)
         /\ Mute(out) /\ new.recovery = node[n].recovery
              /\ new.next_slot = node[n].next_slot => Calm(n)
<1>1. NodeTyped(node[n]) /\ node[n].delivered_through + Window \in Nat
  BY NodeFacts, Constants
<1>2. /\ Extends(node[n], new, w) /\ NodeTyped(new)
      /\ WritesTyped(w, node[n].delivered_through + Window)
      /\ new.ledger.promised = node[n].ledger.promised /\ w.promise = BALLOT_ZERO
      /\ new.ballot = node[n].ballot
  BY <1>1, WorksCells DEF Works, Quiet
<1>3. new.ledger.promised = MaxOf(node[n].ledger.promised, w.promise)
  BY <1>2, NodeFacts, BallotOrder
<1>4. \A m \in out : m.type # "Accept" /\ m.type # "Accepted" /\ Told(m, votes)
  BY DEF Tells
<1>5. Speaks(n, new, w, out)
  BY <1>1, <1>2, <1>3, <1>4, QuietSpeaks
<1>6. votes \cup VotesIn(n, w) = votes
  BY DEF VotesIn
<1>7. Settled(new.ledger, votes)
  BY <1>1, WorksSettled DEF DecisionInv
<1>8. Settles(n, new, w, out)
  BY <1>2, <1>4, <1>6, <1>7 DEF Settles, Grounded
<1>9. Says(n)
  BY <1>2, <1>5, <1>8 DEF Says
<1>10. Utters(n)
  BY <1>5, VotelessUtters
<1>11. ASSUME Mute(out), new.recovery = node[n].recovery, new.next_slot = node[n].next_slot
       PROVE  Calm(n)
  <2>1. node[n].next_slot \in Nat /\ new.role \in {"Follower", node[n].role}
    BY <1>1, <1>2, Constants DEF NodeTyped, Quiet
  <2>2. Serves(node[n], new)
    BY <1>1, <1>2, <1>11, <2>1, WorksServes
  <2> QED
    BY <1>11, <2>2, FinishCalm DEF TypeInv
<1> QED
  BY <1>9, <1>10, <1>11

\* A commit writes the decision it was told, if anything.
LEMMA RecordCommitBatch ==
  ASSUME NEW nd, NEW slot, NEW v
  PROVE  LET w == record_commit(nd, slot, v).w IN
         /\ DOMAIN w.votes = {}
         /\ \A s \in DOMAIN w.chosen : s = slot /\ w.chosen[s] = v
<1>1. record_commit(nd, slot, v).w \in {NoWrites, WriteChosen(slot, v)}
  BY DEF record_commit, Nothing, Result
<1> QED
  BY <1>1 DEF WriteChosen, NoWrites

LEMMA SameOfficeQuiet ==
  ASSUME NEW nd, NodeTyped(nd), NEW new, NEW w, Works(nd, new, w), DOMAIN w.votes = {},
         SameOffice(nd, new)
  PROVE  Quiet(nd, new)
  BY WorksQuietly DEF SameOffice

LEMMA OnCommitSays ==
  ASSUME TypeInv, TermInv, DecisionInv, NEW n \in Node, NEW m \in Received(n, "Commit"),
         OnCommit(n, m)
  PROVE  Behaves(n)
<1>1. m.slot \in Slot /\ m.value \in Values /\ m \in net /\ m.type = "Commit"
  BY DEF TypeInv, Received, MessageTyped
<1>2. PICK r : r = record_commit(node[n], m.slot, m.value)
  OBVIOUS
<1>3. Works(node[n], r.nd, r.w) /\ r.out = {}
  BY <1>1, <1>2, NodeFacts, RecordCommitWorks
<1>4. Finish(n, r.nd, r.w, {}, Consumed(m))
  BY <1>2, <1>3 DEF OnCommit, FinishResult
<1>5. SameOffice(node[n], r.nd)
  BY <1>1, <1>2, NodeFacts, RecordCommitOffice
<1>6. DOMAIN r.w.votes = {} /\ \A s \in DOMAIN r.w.chosen : Chose(votes, s, r.w.chosen[s])
  BY <1>1, <1>2, RecordCommitBatch DEF DecisionInv, Told
<1>7. Quiet(node[n], r.nd)
  BY <1>3, <1>5, <1>6, NodeFacts, SameOfficeQuiet
<1>8. Collected(r.nd.recovery, votes) /\ \A c \in Cells : Counted(n, r.nd.lead[c], votes)
  BY <1>5 DEF SameOffice, DecisionInv
<1> QED
  BY <1>3, <1>4, <1>5, <1>6, <1>7, <1>8, PlainTells, QuietWorkSays DEF SameOffice, Behaves

\* The acknowledgement of an Accept n has voted for, or knows to be decided.
LEMMA AckIsAnswer ==
  ASSUME TypeInv, TermInv, NEW n \in Node, NEW m \in Received(n, "Accept"),
         NEW V, votes \subseteq V, Backs(V, n, m.slot, m.ballot, m.value)
  PROVE  LET ack == Accepted(n, m.from, m.ballot, m.slot) IN
         /\ ack.type = "Accepted" /\ ack.to \in Node \ {n}
         /\ Answered(ack, V, node[ack.to].ballot) /\ Told(ack, V)
         /\ \E x \in net : x.type = "Accept" /\ x.ballot = ack.ballot /\ x.from = ack.to
<1> DEFINE ack == Accepted(n, m.from, m.ballot, m.slot)
<1>1. m \in net /\ m.type = "Accept" /\ m.to = n /\ m.from \in Node
  BY DEF TypeInv, Received, MessageTyped
<1>2. /\ ack.type = "Accepted" /\ ack.to = m.from /\ ack.ballot = m.ballot
      /\ ack.from = n /\ ack.slot = m.slot
  BY DEF Accepted
<1> HIDE DEF ack
<1>3. m.from # n
  BY <1>1 DEF TermInv, Backed
<1>4. ASSUME m.ballot = node[m.from].ballot
      PROVE  VoteOf(m.from, m.slot, m.ballot, m.value) \in V
  <2>1. Said(net, votes, m.slot, node[m.from].ballot, m.value)
    BY <1>1, <1>4 DEF Said
  <2> QED
    BY <1>1, <1>4, <2>1 DEF TermInv, Term
<1>5. Answered(ack, V, node[ack.to].ballot)
  BY <1>2, <1>4 DEF Answered
<1>6. Told(ack, V)
  BY <1>2 DEF Told
<1> QED
  BY <1>1, <1>2, <1>3, <1>5, <1>6 DEF ack

LEMMA OnAcceptSays ==
  ASSUME TypeInv, TermInv, DecisionInv, NEW n \in Node, NEW m \in Received(n, "Accept"),
         OnAccept(n, m)
  PROVE  Behaves(n)
<1> DEFINE nd == node[n]
           cell == LiveCell(nd, m.slot)
           w == WriteVote(m.slot, m.ballot, m.value)
           ack == Accepted(n, m.from, m.ballot, m.slot)
           again == cell.state = "Voted" /\ cell.vote_ballot = m.ballot
           recorded == [nd EXCEPT !.ledger = RecordWrites(@, w)]
           voted == observe_leader(recorded, m.ballot)
<1>1. /\ m.from \in Node /\ m.ballot \in BallotSet /\ m.slot \in Slot /\ m.value \in Values
      /\ m \in net /\ m.type = "Accept" /\ m.to = n
  BY DEF TypeInv, Received, MessageTyped
<1>2. NodeTyped(nd) /\ nd.memory_floor \in Nat /\ nd.delivered_through \in Nat
  BY NodeFacts
<1>3. /\ cell.state # "Empty" => cell = Cell(nd.ledger, m.slot) /\ cell.slot = m.slot
      /\ cell.state = "Chosen" <=> ledger_is_chosen(nd.ledger, m.slot)
      /\ claim_live(nd, m.slot) => m.slot \in (nd.memory_floor + 1) .. (nd.memory_floor + Window)
  <2>1. cell.state # "Empty" => cell = Cell(nd.ledger, m.slot) /\ cell.slot = m.slot
    BY DEF LiveCell, Claim, ledger_open
  <2> QED
    BY <1>1, <1>2, <2>1, LiveCellFacts
<1>4. /\ Settled(nd.ledger, votes) /\ Written(n, nd.ledger, votes) /\ Bid(n, nd)
      /\ Collected(nd.recovery, votes) /\ \A c \in Cells : Counted(n, nd.lead[c], votes)
  BY DEF DecisionInv, TermInv
<1>5. cell_of(m.slot) \in Cells
  BY <1>1, SlotsHaveCells
<1>6. ASSUME NEW b, NEW c, Finish(n, nd, NoWrites, {Nack(n, m.from, b, c)}, Consumed(m))
      PROVE  Behaves(n)
  BY <1>6, PlainTells, TellingStill DEF Behaves
<1>7. ASSUME Backs(votes, n, m.slot, m.ballot, m.value),
             Finish(n, nd, NoWrites, {ack}, Consumed(m))
      PROVE  Behaves(n)
  <2>1. /\ ack.type = "Accepted" /\ ack.to \in Node \ {n}
        /\ Answered(ack, votes, node[ack.to].ballot) /\ Told(ack, votes)
        /\ \E x \in net : x.type = "Accept" /\ x.ballot = ack.ballot /\ x.from = ack.to
    BY <1>7, AckIsAnswer
  <2>2. Mute({ack})
    BY DEF Mute, Campaign, Accepted
  <2> HIDE DEF ack
  <2> QED
    BY <1>7, <2>1, <2>2, StillSays DEF Behaves
<1>8. CASE /\ cell.state = "Chosen"
           /\ Finish(n, nd, NoWrites,
                {IF cell.value = m.value THEN ack ELSE Commit(n, m.from, m.slot, cell.value)},
                Consumed(m))
  <2>1. Chose(votes, m.slot, cell.value)
    BY <1>1, <1>3, <1>4, <1>8, ChosenCell
  <2>2. CASE cell.value = m.value
    BY <1>7, <1>8, <2>1, <2>2 DEF Backs
  <2>3. CASE cell.value # m.value
    BY <1>8, <2>1, <2>3, PlainTells, TellingStill DEF Behaves
  <2> QED
    BY <2>2, <2>3
<1>9. CASE /\ again /\ cell.value = m.value
           /\ Finish(n, nd, NoWrites, {ack}, Consumed(m))
  <2>1. VoteOf(n, m.slot, m.ballot, m.value) \in votes
    BY <1>3, <1>4, <1>5, <1>9 DEF Written, Cell
  <2> QED
    BY <1>7, <1>9, <2>1 DEF Backs
<1>10. CASE /\ claim_live(nd, m.slot) /\ MayVote(nd, m.slot, m.ballot)
            /\ cell.state # "Chosen" /\ ~ again
            /\ Finish(n, voted, w, {ack}, Consumed(m))
  <2> DEFINE after == votes \cup VotesIn(n, w)
  <2>1. /\ m.slot \in (nd.memory_floor + 1) .. (nd.memory_floor + Window)
        /\ m.slot <= nd.memory_floor + Window /\ m.slot > nd.memory_floor
        /\ ~ ledger_is_chosen(nd.ledger, m.slot)
    BY <1>1, <1>2, <1>3, <1>10, Constants
  <2>2. /\ WritesTyped(w, nd.memory_floor + Window) /\ WrittenSlots(w) = {m.slot}
        /\ w.trim = NoAnchor /\ w.promise = BALLOT_ZERO
        /\ DOMAIN w.votes = {m.slot} /\ DOMAIN w.chosen = {}
        /\ w.votes[m.slot] = [ballot |-> m.ballot, value |-> m.value]
    BY <1>1, <2>1, VoteBatch
  <2>3. PICK r : r = recorded
    OBVIOUS
  <2> HIDE DEF w
  <2>4. /\ NodeTyped(r) /\ Places(nd.ledger, r.ledger, nd.memory_floor, w)
        /\ r.role = nd.role /\ r.ballot = nd.ballot /\ r.lead = nd.lead
        /\ r.memory_floor = nd.memory_floor /\ r.delivered_through = nd.delivered_through
        /\ r.recovery = nd.recovery
    BY <1>2, <2>1, <2>2, <2>3, RecordedNode
  <2>5. PICK new : new = voted
    OBVIOUS
  <2>6. nd.ballot # m.ballot
    <3>1. Owns(m.from, m.ballot) /\ m.from # n
      BY <1>1 DEF TermInv, Backed
    <3>2. m.ballot # BALLOT_ZERO /\ ~ Owns(n, m.ballot)
      BY <1>1, <3>1, OwnersDiffer
    <3> QED
      BY <1>4, <3>2 DEF Bid
  <2>7. /\ NodeTyped(new) /\ new.ledger = r.ledger /\ new.ballot = nd.ballot
        /\ new.lead = nd.lead /\ new.role = "Follower"
        /\ new.memory_floor = nd.memory_floor /\ new.delivered_through = nd.delivered_through
    <3>1. new = observe_leader(r, m.ballot)
      BY <2>3, <2>5
    <3> QED
      BY <1>1, <2>4, <2>6, <3>1, ObserveFacts
  <2>8. Stays(r, new)
    BY <1>1, <2>3, <2>4, <2>5, ObserveStays
  <2>9. Works(nd, new, w)
    <3>1. Rises(nd.ledger, w)
      <4>a. nd.ledger.promised <= m.ballot
        BY <1>1, <1>10, BallotsAreBounded DEF MayVote
      <4>1. SUFFICES ASSUME Cell(nd.ledger, m.slot).slot = m.slot
                     PROVE  Cell(nd.ledger, m.slot).vote_ballot <= m.ballot
        BY <2>2, <4>a DEF Rises
      <4>2. cell = Cell(nd.ledger, m.slot) /\ cell.promised_at <= m.ballot
            /\ cell \in CellType(BallotSet)
        <5>1. cell \in CellType(BallotSet)
          BY <1>1, <1>2, LiveCellFacts
        <5>2. cell.promised_at \in BallotSet
          <6> HIDE DEF cell
          <6> QED
            BY <5>1 DEF CellType
        <5> QED
          BY <1>1, <1>10, <4>1, <5>1, <5>2, BallotsAreBounded DEF LiveCell, Claim, MayVote
      <4>3. cell.vote_ballot <= cell.promised_at
        BY <1>2, <1>5, <4>2 DEF NodeTyped, LedgerTyped, CellTyped, Cell
      <4> HIDE DEF cell
      <4>4. cell.vote_ballot \in BallotSet /\ cell.promised_at \in BallotSet
        BY <4>2 DEF CellType
      <4> QED
        BY <1>1, <4>2, <4>3, <4>4, BallotOrder
    <3>2. Bids(nd, new, w)
      BY <2>2, <2>7, <3>1 DEF Bids, OneBallot
    <3> QED
      BY <1>2, <2>2, <2>4, <2>7, <3>2, PlacesWorks
  <2>10. VoteOf(n, m.slot, m.ballot, m.value) \in VotesIn(n, w)
    BY <2>2, VotesInFacts
  <2>11. Written(n, new.ledger, after)
    <3>1. Written(n, nd.ledger, after)
      BY <1>4, WrittenMore
    <3> QED
      BY <1>2, <2>9, <3>1, WorksWritten
  <2>12. /\ ack.type = "Accepted" /\ ack.to \in Node \ {n}
         /\ Answered(ack, after, node[ack.to].ballot) /\ Told(ack, after)
         /\ \E x \in net : x.type = "Accept" /\ x.ballot = ack.ballot /\ x.from = ack.to
    BY <2>10, AckIsAnswer DEF Backs
  <2>13. PICK out : out = {ack}
    OBVIOUS
  <2>14. /\ new.ledger.promised = nd.ledger.promised
         /\ new.ledger.promised = MaxOf(nd.ledger.promised, w.promise)
    BY <1>2, <2>2, <2>9, WorksCells, NodeFacts, BallotOrder
  <2>15. Bid(n, new)
    BY <1>4, <2>7, <2>14 DEF Bid
  <2> HIDE DEF ack
  <2>16. Speaks(n, new, w, out)
    <3>1. \E top \in Nat : WritesTyped(w, top)
      <4>1. nd.memory_floor + Window \in Nat
        BY <1>2, Constants
      <4> QED
        BY <2>2, <4>1
    <3>2. \A s, v : Limits(new, s, v)
      BY <2>7 DEF Limits
    <3>3. \A s \in DOMAIN w.votes :
            \E x \in net : /\ x.type = "Accept" /\ x.slot = s
                           /\ x.ballot = w.votes[s].ballot /\ x.value = w.votes[s].value
      BY <1>1, <2>2
    <3> QED
      BY <2>7, <2>11, <2>12, <2>13, <2>14, <2>15, <3>1, <3>2, <3>3 DEF Speaks
  <2>17. Settles(n, new, w, out)
    <3>1. Settled(nd.ledger, after) /\ Collected(nd.recovery, after)
      BY <1>4, SettledMore
    <3>2. Settled(new.ledger, after)
      BY <1>2, <2>2, <2>9, <3>1, WorksSettled
    <3>3. Collected(new.recovery, after)
      BY <2>4, <2>8, <3>1, StaysCollects
    <3>4. \A c \in Cells : Counted(n, new.lead[c], after)
      BY <1>4, <2>7, CountedMore
    <3> QED
      BY <2>2, <2>7, <2>12, <2>13, <3>2, <3>3, <3>4 DEF Settles, Grounded
  <2>18. Finish(n, new, w, out, Consumed(m))
    BY <1>10, <2>5, <2>13
  <2>19. Utters(n)
    <3>1. disk[n].promised = nd.ledger.promised /\ m.ballot >= nd.ledger.promised
      BY <1>10 DEF TermInv, MayVote
    <3>2. Said(net, votes, m.slot, m.ballot, m.value)
      BY <1>1 DEF Said
    <3> QED
      BY <2>2, <2>16, <2>18, <3>1, <3>2, FinishUtters
  <2>20. Calm(n)
    <3>1. Mute(out)
      BY <2>12, <2>13 DEF Mute, Campaign
    <3> QED
      BY <2>7, <2>18, <3>1, FinishCalm DEF TypeInv, Serves
  <2> QED
    BY <2>9, <2>16, <2>17, <2>18, <2>19, <2>20 DEF Says, Works, Behaves
<1> QED
  <2>1. \/ Finish(n, nd, NoWrites, {Nack(n, m.from, m.ballot, nd.ledger.promised)}, Consumed(m))
        \/ Finish(n, nd, NoWrites, {Nack(n, m.from, m.ballot, cell.promised_at)}, Consumed(m))
        \/ /\ cell.state = "Chosen"
           /\ Finish(n, nd, NoWrites,
                {IF cell.value = m.value THEN ack ELSE Commit(n, m.from, m.slot, cell.value)},
                Consumed(m))
        \/ /\ again /\ cell.value = m.value
           /\ Finish(n, nd, NoWrites, {ack}, Consumed(m))
        \/ /\ claim_live(nd, m.slot) /\ MayVote(nd, m.slot, m.ballot)
           /\ cell.state # "Chosen" /\ ~ again
           /\ Finish(n, voted, w, {ack}, Consumed(m))
    BY DEF OnAccept
  <2> HIDE DEF nd, cell, ack, voted, w, again
  <2> QED
    BY <1>6, <1>8, <1>9, <1>10, <2>1

\* A write quorum of counted acknowledgements is a decision.
LEMMA CountedChooses ==
  ASSUME NEW n \in Node, NEW lead, lead.acks \subseteq Node, NEW V, Counted(n, lead, V),
         lead.slot # 0, Decides(lead.acks),
         NEW v, VoteOf(n, lead.slot, lead.ballot, v) \in V,
         \A u : VoteOf(n, lead.slot, lead.ballot, u) \in V => u = v
  PROVE  Chose(V, lead.slot, v)
<1> DEFINE s == lead.slot
           b == lead.ballot
           K == {k \in Node : VoteOf(k, s, b, v) \in V}
<1>1. \A p \in lead.acks : Backs(V, p, s, b, v)
  BY DEF Counted
<1>2. CASE \E p \in lead.acks : VoteOf(p, s, b, v) \notin V
  BY <1>1, <1>2 DEF Backs
<1>3. CASE \A p \in lead.acks : VoteOf(p, s, b, v) \in V
  <2>1. lead.acks \subseteq K
    BY <1>3
  <2>2. IsFiniteSet(K) /\ Cardinality(K) \in Nat
    BY VotersAreFinite
  <2>3. IsFiniteSet(lead.acks) /\ Cardinality(lead.acks) <= Cardinality(K)
    BY <2>1, <2>2, FS_Subset
  <2>4. Cardinality(lead.acks) \in Nat
    BY <2>3, FS_CardinalityType
  <2>5. Cardinality(K) >= WriteQuorum
    BY <2>2, <2>3, <2>4, QuorumIsNat DEF Decides
  <2>6. b \in {w.ballot : w \in V}
    BY DEF VoteOf
  <2> QED
    BY <2>5, <2>6 DEF Chose
<1> QED
  BY <1>2, <1>3

LEMMA OnAcceptedSays ==
  ASSUME TypeInv, TermInv, DecisionInv, NEW n \in Node, NEW m \in Received(n, "Accepted"),
         OnAccepted(n, m)
  PROVE  Behaves(n)
<1> DEFINE nd == node[n]
           c == cell_of(m.slot)
           counted == [nd EXCEPT !.lead[c].acks = @ \cup {m.from}]
           v == Cell(nd.ledger, m.slot).value
           decided == record_commit(counted, m.slot, v)
           told == {Commit(n, p, m.slot, v) : p \in Peers(n)}
<1>1. NodeTyped(nd)
  BY NodeFacts
<1>2. /\ m.slot \in Slot /\ m.from \in Node /\ c \in Cells /\ m.slot # 0
      /\ m \in net /\ m.type = "Accepted" /\ m.to = n
  <2>1. /\ m.slot \in Slot /\ m.from \in Node
        /\ m \in net /\ m.type = "Accepted" /\ m.to = n
    BY DEF TypeInv, Received, MessageTyped
  <2>2. m.slot # 0
    BY <2>1, Constants DEF Slot
  <2> QED
    BY <2>1, <2>2, SlotsHaveCells
<1>3. PICK k : k = counted
  OBVIOUS
<1>4. /\ NodeTyped(k) /\ k.ledger = nd.ledger /\ k.role = nd.role /\ k.ballot = nd.ballot
      /\ k.memory_floor = nd.memory_floor /\ k.delivered_through = nd.delivered_through
      /\ k.recovery = nd.recovery /\ k.next_slot = nd.next_slot
      /\ \A d \in Cells : /\ k.lead[d].slot = nd.lead[d].slot
                          /\ k.lead[d].ballot = nd.lead[d].ballot
                          /\ k.lead[d].acks \subseteq Node
                          /\ d # c => k.lead[d].acks = nd.lead[d].acks
      /\ k.lead[c].acks = nd.lead[c].acks \cup {m.from}
  <2>1. nd.lead \in [Cells -> LeadType]
    BY <1>1 DEF NodeTyped
  <2>2. PICK lead : lead = [nd.lead EXCEPT ![c].acks = @ \cup {m.from}]
    OBVIOUS
  <2>3. /\ lead \in [Cells -> LeadType]
        /\ \A d \in Cells : /\ lead[d].slot = nd.lead[d].slot
                            /\ lead[d].ballot = nd.lead[d].ballot
                            /\ lead[d].acks \subseteq Node
                            /\ d # c => lead[d].acks = nd.lead[d].acks
        /\ lead[c].acks = nd.lead[c].acks \cup {m.from}
    BY <1>2, <2>1, <2>2 DEF LeadType
  <2>4. k = [nd EXCEPT !.lead = lead]
    BY <1>1, <1>3, <2>2 DEF NodeTyped
  <2> QED
    BY <1>1, <2>3, <2>4 DEF NodeTyped
<1>5. /\ nd.lead[c].slot = m.slot /\ nd.lead[c].ballot = m.ballot /\ m.ballot = nd.ballot
  BY <1>2 DEF OnAccepted, CountsFor, TermInv, Bid
<1>6. PICK u : /\ VoteOf(n, m.slot, m.ballot, u) \in votes
               /\ Backs(votes, m.from, m.slot, m.ballot, u)
  BY <1>2, <1>5 DEF DecisionInv, Answered
<1>7. \A x : VoteOf(n, m.slot, m.ballot, x) \in votes => x = u
  BY <1>6, VoteSays DEF TermInv, OneValue
<1>8. \A d \in Cells : Counted(n, k.lead[d], votes)
  <2> SUFFICES ASSUME NEW d \in Cells, k.lead[d].slot # 0
               PROVE  \E x : /\ VoteOf(n, k.lead[d].slot, k.lead[d].ballot, x) \in votes
                             /\ \A p \in k.lead[d].acks :
                                  Backs(votes, p, k.lead[d].slot, k.lead[d].ballot, x)
    BY DEF Counted
  <2>1. PICK x : /\ VoteOf(n, nd.lead[d].slot, nd.lead[d].ballot, x) \in votes
                 /\ \A p \in nd.lead[d].acks :
                      Backs(votes, p, nd.lead[d].slot, nd.lead[d].ballot, x)
    BY <1>4 DEF DecisionInv, Counted
  <2>2. CASE d # c
    BY <1>4, <2>1, <2>2
  <2>3. CASE d = c
    <3>1. x = u
      BY <1>5, <1>7, <2>1, <2>3
    <3> HIDE DEF c, nd
    <3> QED
      BY <1>4, <1>5, <1>6, <2>1, <2>3, <3>1
  <2> QED
    BY <2>2, <2>3
<1>9. Collected(k.recovery, votes)
  BY <1>4 DEF DecisionInv
<1> HIDE DEF nd
<1>10. CASE Finish(n, counted, NoWrites, {}, Consumed(m))
  <2>1. Works(k, k, NoWrites)
    BY <1>4, NothingWorks
  <2>2. Works(nd, k, NoWrites)
    BY <1>4, <2>1, SameWindowWorks
  <2>3. DOMAIN NoWrites.votes = {} /\ DOMAIN NoWrites.chosen = {}
    BY EmptyBatch
  <2>4. Quiet(nd, k)
    BY <1>1, <1>4, <2>2, <2>3, WorksQuietly
  <2>5. Tells({}) /\ Mute({})
    BY PlainTells
  <2>6. k.recovery = nd.recovery /\ k.next_slot = nd.next_slot
    BY <1>4
  <2> QED
    BY <1>3, <1>8, <1>9, <1>10, <2>2, <2>3, <2>4, <2>5, <2>6, QuietWorkSays DEF nd, Behaves
<1>11. CASE /\ Decides(counted.lead[c].acks) /\ StillDriving(nd, m)
            /\ Finish(n, decided.nd, decided.w, told, Consumed(m))
  <2>1. v \in Values /\ v = u
    <3>1. /\ Cell(nd.ledger, m.slot).state = "Voted" /\ Cell(nd.ledger, m.slot).slot = m.slot
          /\ Cell(nd.ledger, m.slot).vote_ballot = m.ballot
      BY <1>11 DEF StillDriving
    <3>2. LedgerTyped(nd.ledger, nd.memory_floor + Window)
      BY <1>1 DEF NodeTyped
    <3>3. VoteOf(n, m.slot, m.ballot, v) \in votes
      BY <1>2, <3>1 DEF TermInv, Written, Cell, nd
    <3> QED
      BY <1>2, <1>7, <3>1, <3>2, <3>3, UsedCellFacts DEF Cell
  <2>2. Chose(votes, m.slot, v)
    <3>1. k.lead[c].slot = m.slot /\ k.lead[c].ballot = m.ballot
      BY <1>2, <1>4, <1>5
    <3>2. Decides(k.lead[c].acks)
      BY <1>3, <1>11
    <3> HIDE DEF c, v
    <3> QED
      BY <1>2, <1>4, <1>6, <1>7, <1>8, <2>1, <3>1, <3>2, CountedChooses
  <2>3. PICK r : r = record_commit(k, m.slot, v)
    OBVIOUS
  <2>4. Works(k, r.nd, r.w) /\ SameOffice(k, r.nd)
    BY <1>2, <1>4, <2>1, <2>3, RecordCommitWorks, RecordCommitOffice
  <2>5. Works(nd, r.nd, r.w)
    BY <1>4, <2>4, SameWindowWorks
  <2>6. DOMAIN r.w.votes = {} /\ \A s \in DOMAIN r.w.chosen : Chose(votes, s, r.w.chosen[s])
    BY <2>2, <2>3, RecordCommitBatch
  <2>7. Quiet(nd, r.nd)
    BY <1>1, <1>4, <2>4, <2>5, <2>6, WorksQuietly DEF SameOffice
  <2>8. Tells(told) /\ Mute(told)
    BY <2>2, PlainTells DEF Tells, Mute
  <2>9. Finish(n, r.nd, r.w, told, Consumed(m))
    BY <1>3, <1>11, <2>3
  <2>10. Collected(r.nd.recovery, votes) /\ \A d \in Cells : Counted(n, r.nd.lead[d], votes)
    BY <1>8, <1>9, <2>4 DEF SameOffice
  <2> HIDE DEF told
  <2> QED
    <3>1. r.nd.recovery = nd.recovery /\ r.nd.next_slot = nd.next_slot
      BY <1>4, <2>4 DEF SameOffice
    <3> QED
      BY <2>5, <2>6, <2>7, <2>8, <2>9, <2>10, <3>1, QuietWorkSays DEF nd, Behaves
<1> QED
  BY <1>10, <1>11 DEF OnAccepted, nd

\* A campaign starts in a ballot in which nothing was said or answered.
LEMMA StartCampaignSays ==
  ASSUME TypeInv, TermInv, DecisionInv, NEW n \in Node, StartCampaign(n)
  PROVE  Says(n) /\ Utters(n)
<1> DEFINE nd == node[n]
<1>1. PICK b, new :
           LET rec == NewRecovery(nd.delivered_through + 1, [p \in Node |-> NoPeer])
               out == {Prepare(n, p, b, rec.base, rec.last) : p \in Node}
           IN  /\ b \in BallotSet /\ Finish(n, new, WritePromise(b), out, {})
               /\ Idles(nd, new, WritePromise(b))
               /\ GreatestRound(nd) + 1 \in 1 .. MaxRound
               /\ b = ballot_make(GreatestRound(nd) + 1, Priority[n], n)
               /\ ledger_highest_ballot(nd.ledger) < b
               /\ new.role = "Preparing" /\ new.ballot = b /\ new.ledger.promised = b
               /\ new.recovery = rec /\ new.lead = NoLead
  BY StartCampaignFacts
<1> DEFINE rec == NewRecovery(nd.delivered_through + 1, [p \in Node |-> NoPeer])
           out == {Prepare(n, p, b, rec.base, rec.last) : p \in Node}
           w == WritePromise(b)
<1>2. /\ b \in BallotSet /\ Finish(n, new, w, out, {}) /\ Idles(nd, new, w)
      /\ ledger_highest_ballot(nd.ledger) < b
      /\ new.role = "Preparing" /\ new.ballot = b /\ new.ledger.promised = b
      /\ new.recovery = rec /\ new.lead = NoLead
  BY <1>1
<1>3. Owns(n, b)
  BY <1>1 DEF Owns
<1>4. WritesTyped(w, 0) /\ DOMAIN w.votes = {} /\ w.promise = b
  BY <1>2, PromiseBatch
<1>5. VotesIn(n, w) = {}
  BY <1>4 DEF VotesIn
<1>6. \A m \in out : m.type = "Prepare"
  BY DEF Prepare
<1>7. Collected(rec, votes)
  BY DEF Collected, NewRecovery, NoReport
<1>8. Extends(nd, new, w)
  BY <1>2 DEF Idles
<1> HIDE DEF out, rec
<1>9. nd.ledger.promised < b
  <2>1. LedgerTyped(nd.ledger, nd.memory_floor + Window)
    BY NodeFacts
  <2>2. /\ nd.ledger.promised <= ledger_highest_ballot(nd.ledger)
        /\ nd.ledger.promised \in Nat /\ ledger_highest_ballot(nd.ledger) \in Nat /\ b \in Nat
    BY <1>2, <2>1, HighestBallot, BallotsAreBounded, NodeFacts
  <2> QED
    BY <1>2, <2>2
<1>10. \A s, v : ~ Said(net, votes, s, new.ballot, v)
  BY <1>2, <1>3, <1>9, FreshBallot
<1>11. Bid(n, new)
  <2>1. \A c \in Cells : new.lead[c].slot = 0
    BY <1>2 DEF NoLead
  <2>2. b <= b /\ b # BALLOT_ZERO
    BY <1>2, <1>3, OwnersDiffer, BallotOrder
  <2> QED
    BY <1>2, <1>3, <2>1, <2>2 DEF Bid
<1>12. Written(n, new.ledger, votes)
  BY <1>2 DEF Idles, TermInv, Written
<1>13. new.ledger.promised = MaxOf(nd.ledger.promised, w.promise)
  BY <1>2 DEF Idles
<1>14. \A s, v : VoteOf(n, s, new.ballot, v) \notin votes
  BY <1>10, VoteSays
<1>15. Speaks(n, new, w, out)
  BY <1>4, <1>5, <1>6, <1>10, <1>11, <1>12, <1>13, <1>14 DEF Speaks
<1>16. Settles(n, new, w, out)
  <2>1. votes \cup VotesIn(n, w) = votes /\ DOMAIN w.chosen = {}
    BY <1>2, <1>5, PromiseBatch
  <2>2. Settled(new.ledger, votes)
    BY <1>2 DEF Idles, DecisionInv, Settled
  <2>3. \A c \in Cells : Counted(n, new.lead[c], votes)
    BY <1>2 DEF Counted, NoLead
  <2>4. \A m \in out : m.type # "Accepted" /\ Told(m, votes)
    BY <1>6 DEF Told
  <2>5. ASSUME NEW m \in net, m.type = "Accepted", m.to = n
        PROVE  m.ballot # new.ballot
    <3>1. m.ballot \in BallotSet /\ m.ballot <= nd.ledger.promised
      BY <2>5 DEF TypeInv, MessageTyped, TermInv, Backed
    <3>2. m.ballot \in Nat /\ nd.ledger.promised \in Nat /\ b \in Nat
      BY <1>2, <3>1, NodeFacts, BallotsAreBounded
    <3> QED
      BY <1>2, <1>9, <3>1, <3>2
  <2> QED
    BY <1>2, <1>7, <2>1, <2>2, <2>3, <2>4, <2>5 DEF Settles, Grounded
<1>17. Utters(n)
  BY <1>2, <1>4, <1>15, VotelessUtters
<1> QED
  BY <1>2, <1>15, <1>8, <1>16, <1>17 DEF Says

\* What a step of the node alone has to leave in place.
LEMMA LocalDecision ==
  ASSUME TypeInv, TermInv, DecisionInv, NEW n \in Node, NEW new,
         node' = [node EXCEPT ![n] = new], UNCHANGED <<disk, history, net, votes>>,
         new.ballot = node[n].ballot, new.ledger = node[n].ledger, new.lead = node[n].lead,
         new.recovery \in {node[n].recovery, NoRecovery}
  PROVE  DecisionInv'
<1>1. DOMAIN node = Node
  BY DEF TypeInv
<1>2. node'[n] = new /\ \A k \in Node \ {n} : node'[k] = node[k]
  BY <1>1
<1>3. ASSUME NEW m \in net
      PROVE  Told(m, votes) /\ Answered(m, votes, node'[m.to].ballot)
  <2>1. Told(m, votes) /\ Answered(m, votes, node[m.to].ballot)
    BY DEF DecisionInv
  <2>2. m.type = "Accepted" => m.to \in Node
    BY DEF TermInv, Backed
  <2>3. m.type = "Accepted" => node'[m.to].ballot = node[m.to].ballot
    BY <1>2, <2>2
  <2> QED
    BY <2>1, <2>3 DEF Answered
<1>4. Collected(NoRecovery, votes)
  BY DEF Collected, NoRecovery
<1>5. ASSUME NEW k \in Node
      PROVE  /\ Settled(node'[k].ledger, votes) /\ Settled(disk[k], votes)
             /\ Collected(node'[k].recovery, votes)
             /\ \A c \in Cells : Counted(k, node'[k].lead[c], votes)
             /\ \A s \in DOMAIN history[k] : Chose(votes, s, history[k][s])
  BY <1>2, <1>4 DEF DecisionInv
<1> QED
  BY <1>3, <1>5 DEF DecisionInv

LEMMA AdvanceFloorDecision ==
  ASSUME TypeInv, TermInv, DecisionInv, NEW n \in Node, NEW through,
         AdvanceMemoryFloor(n, through)
  PROVE  DecisionInv'
<1> DEFINE new == [node[n] EXCEPT !.memory_floor = through]
<1>1. node' = [node EXCEPT ![n] = new] /\ UNCHANGED <<disk, history, net, votes>>
  BY DEF AdvanceMemoryFloor
<1>2. /\ new.ballot = node[n].ballot /\ new.ledger = node[n].ledger
      /\ new.lead = node[n].lead /\ new.recovery = node[n].recovery
  BY NodeFacts DEF NodeTyped
<1> HIDE DEF new
<1> QED
  BY <1>1, <1>2, LocalDecision

LEMMA SetCampaignDecision ==
  ASSUME TypeInv, TermInv, DecisionInv, NEW n \in Node, NEW enabled \in BOOLEAN,
         SetCampaignEnabled(n, enabled)
  PROVE  DecisionInv'
<1> DEFINE nd == node[n]
           off == [Follow(nd) EXCEPT !.campaign_enabled = FALSE]
           on == [nd EXCEPT !.campaign_enabled = enabled]
           new == IF ~ enabled /\ nd.role = "Preparing" THEN off ELSE on
<1>1. node' = [node EXCEPT ![n] = new] /\ UNCHANGED <<disk, history, net, votes>>
  BY DEF SetCampaignEnabled
<1>2. /\ on.ballot = nd.ballot /\ on.ledger = nd.ledger
      /\ on.lead = nd.lead /\ on.recovery = nd.recovery
  BY NodeFacts DEF NodeTyped
<1>3. /\ off.ballot = nd.ballot /\ off.ledger = nd.ledger
      /\ off.lead = nd.lead /\ off.recovery = NoRecovery
  BY NodeFacts DEF NodeTyped, Follow
<1> HIDE DEF on, off
<1> QED
  BY <1>1, <1>2, <1>3, LocalDecision

LEMMA CrashDecision ==
  ASSUME TypeInv, TermInv, DecisionInv, ~LaggingHost, NEW n \in Node, Crash(n)
  PROVE  DecisionInv'
<1>1. Restarted(n, disk'[n], history[n]) /\ UNCHANGED <<disk, net, votes>>
  BY DEF Crash
<1>2. disk[n] = [promised |-> disk[n].promised, anchor |-> disk[n].anchor,
                 cell |-> disk[n].cell]
  BY DEF TypeInv, HostTyped, LedgerTyped, LedgerType
<1>3. Settles(n, node[n], NoWrites, {})
  BY EmptyBatch DEF Settles, DecisionInv, Grounded, VotesIn
<1>4. Settled(disk'[n], votes') /\ \A s \in DOMAIN history[n] : Chose(votes', s, history[n][s])
  BY <1>1 DEF DecisionInv
<1> QED
  BY <1>1, <1>2, <1>3, <1>4, RestartedDecision

\* The donor's image holds what the donor released.
LEMMA BeginRecoveryDecision ==
  ASSUME TypeInv, TermInv, DecisionInv, NEW n \in Node, NEW donor \in Node,
         BeginRecovery(n, donor)
  PROVE  DecisionInv'
<1> DEFINE anchor == node[donor].ledger.anchor
           applied == ledger_replay_fold(node[n].ledger, WriteTrim(anchor))
           r == Resumed(n, applied, anchor.chosen_trim_slot)
           new == [r EXCEPT !.ballot = node[n].ballot,
                            !.campaign_enabled = node[n].campaign_enabled,
                            !.highest_observed_round = node[n].highest_observed_round]
           image == SubSeq(history[donor], 1, anchor.chosen_trim_slot)
<1>1. /\ node' = [node EXCEPT ![n] = new]
      /\ disk' = [disk EXCEPT ![n] = ledger_replay_fold(disk[n], WriteTrim(anchor))]
      /\ history' = [history EXCEPT ![n] = image]
      /\ UNCHANGED <<net, votes>>
  BY DEF BeginRecovery
<1>2. DOMAIN node = Node /\ DOMAIN disk = Node /\ DOMAIN history = Node
  BY DEF TypeInv
<1>3. /\ node'[n] = new /\ disk'[n] = ledger_replay_fold(disk[n], WriteTrim(anchor))
      /\ history'[n] = image
      /\ \A k \in Node \ {n} : /\ node'[k] = node[k] /\ disk'[k] = disk[k]
                               /\ history'[k] = history[k]
  BY <1>1, <1>2
<1>4. anchor \in AnchorType
  BY NodeFacts
<1>5. WritesTyped(WriteTrim(anchor), 0) /\ DOMAIN WriteTrim(anchor).chosen = {}
  BY <1>4, TrimBatch
<1>6. /\ r.lead = NoLead /\ r.recovery = NoRecovery
      /\ \A c \in Cells : r.ledger.cell[c] \in {applied.cell[c], ledger_open(0)}
  BY ReplayFold, ResumedTerm
<1>7. /\ new.lead = r.lead /\ new.ledger = r.ledger /\ new.recovery = r.recovery
      /\ new.ballot = node[n].ballot
  BY DEF Resumed
<1>8. /\ node[n].ledger \in LedgerType(BallotSet) /\ disk[n] \in LedgerType(BallotSet)
      /\ Settled(node[n].ledger, votes) /\ Settled(disk[n], votes)
  BY NodeFacts DEF DecisionInv, TypeInv, HostTyped, LedgerTyped
<1>9. Settled(applied, votes) /\ Settled(disk'[n], votes)
  <2>1. \E S : S \subseteq WrittenSlots(WriteTrim(anchor))
               /\ applied = ApplyWrites(node[n].ledger, WriteTrim(anchor), S)
    BY ReplayFold
  <2>2. \E S : S \subseteq WrittenSlots(WriteTrim(anchor))
               /\ disk'[n] = ApplyWrites(disk[n], WriteTrim(anchor), S)
    BY <1>3, ReplayFold
  <2> QED
    BY <1>5, <1>8, <2>1, <2>2, SettledApply
<1>10. \A s \in DOMAIN image : Chose(votes, s, image[s])
  <2>1. /\ history[donor] \in Seq(Values) /\ Len(history[donor]) = node[donor].delivered_through
        /\ node[donor].delivered_through \in Nat
        /\ node[donor].memory_floor \in 0 .. node[donor].delivered_through
        /\ anchor.chosen_trim_slot \in Nat /\ anchor.chosen_trim_slot <= node[donor].memory_floor
    <3>1. NodeTyped(node[donor]) /\ HostTyped(donor)
          /\ node[donor].delivered_through \in Nat
          /\ node[donor].memory_floor \in 0 .. node[donor].delivered_through
      BY NodeFacts
    <3>2. anchor.chosen_trim_slot \in Nat
      BY <1>4, Constants DEF AnchorType
    <3> QED
      BY <3>1, <3>2 DEF HostTyped, NodeTyped
  <2>2. /\ Len(image) = anchor.chosen_trim_slot /\ image \in Seq(Values)
        /\ \A s \in 1 .. anchor.chosen_trim_slot : image[s] = history[donor][s]
    <3>1. 1 <= anchor.chosen_trim_slot + 1 /\ anchor.chosen_trim_slot <= Len(history[donor])
      BY <2>1
    <3> DEFINE t == anchor.chosen_trim_slot
    <3>2. t \in Nat /\ t <= Len(history[donor]) /\ image = SubSeq(history[donor], 1, t)
      BY <2>1, <3>1
    <3> HIDE DEF t, image
    <3>3. image \in Seq(Values) /\ Len(image) = t /\ \A s \in 1 .. t : image[s] = history[donor][s]
      BY <2>1, <3>2, SubSeqProperties
    <3> QED
      BY <3>3 DEF t
  <2>3. \A s \in 1 .. anchor.chosen_trim_slot : s \in DOMAIN history[donor]
    BY <2>1
  <2>4. DOMAIN image = 1 .. anchor.chosen_trim_slot
    BY <2>2
  <2> QED
    BY <2>2, <2>3, <2>4 DEF DecisionInv
<1> HIDE DEF new, r, applied, anchor, image
<1>11. Settled(new.ledger, votes)
  BY <1>6, <1>7, <1>9, ResumedSettled
<1>12. \A c \in Cells : Counted(n, new.lead[c], votes)
  BY <1>6, <1>7 DEF Counted, NoLead
<1>13. Collected(new.recovery, votes)
  BY <1>6, <1>7 DEF Collected, NoRecovery
<1>14. Settles(n, node[n], NoWrites, {})
  BY EmptyBatch DEF Settles, DecisionInv, Grounded, VotesIn
<1> QED
  BY <1>1, <1>3, <1>7, <1>9, <1>10, <1>11, <1>12, <1>13, <1>14, DecisionKept

\* A trim record says nothing.
LEMMA InstallTrimSays ==
  ASSUME TypeInv, TermInv, DecisionInv, NEW n \in Node, NEW anchor \in AnchorType,
         InstallChosenTrim(n, anchor)
  PROVE  Behaves(n)
<1> DEFINE nd == node[n]
           w == WriteTrim(anchor)
<1>1. PICK new :
        /\ Finish(n, new, w, {}, {}) /\ Extends(nd, new, w)
        /\ new.ledger.cell = nd.ledger.cell /\ new.ledger.promised = nd.ledger.promised
        /\ new.ledger.anchor = anchor /\ new.delivered_through = nd.delivered_through
        /\ new.role = nd.role /\ new.ballot = nd.ballot
        /\ new.recovery = nd.recovery /\ new.next_slot = nd.next_slot /\ new.lead = nd.lead
  BY InstallTrimFacts
<1>2. /\ WritesTyped(w, 0) /\ DOMAIN w.votes = {} /\ DOMAIN w.chosen = {}
      /\ w.promise = BALLOT_ZERO
  BY TrimBatch
<1> HIDE DEF w
<1>3. NodeTyped(new)
  BY <1>1 DEF Extends
<1>4. Quiet(nd, new)
  BY <1>1 DEF Quiet
<1>5. new.ledger.promised = MaxOf(nd.ledger.promised, w.promise)
  BY <1>1, <1>2, NodeFacts, BallotOrder
<1>6. Speaks(n, new, w, {})
  BY <1>2, <1>3, <1>4, <1>5, QuietSpeaks
<1>7. Settles(n, new, w, {})
  <2>1. votes \cup VotesIn(n, w) = votes
    BY <1>2 DEF VotesIn
  <2>2. Settled(new.ledger, votes)
    BY <1>1 DEF DecisionInv, Settled
  <2> QED
    BY <1>1, <1>2, <2>1, <2>2 DEF Settles, DecisionInv, Grounded
<1>8. Utters(n)
  BY <1>1, <1>2, <1>6, VotelessUtters
<1>9. Serves(nd, new)
  <2>1. nd.next_slot \in Nat /\ nd.delivered_through \in Nat
    BY NodeFacts, Constants DEF NodeTyped
  <2>2. \A s : Recorded(nd.ledger, s) => Recorded(new.ledger, s)
    BY <1>1 DEF Recorded, UsedCells
  <2>3. anchor.chosen_trim_slot >= nd.ledger.anchor.chosen_trim_slot
    BY DEF InstallChosenTrim
  <2> QED
    BY <1>1, <2>1, <2>2, <2>3 DEF Serves
<1>10. Calm(n)
  BY <1>1, <1>9, PlainTells, FinishCalm DEF TypeInv
<1> QED
  BY <1>1, <1>6, <1>7, <1>8, <1>10 DEF Says, Behaves

-------------------------------------------------------------------------------
(* Transitions that propose.                                               *)

\* The node, as nd, adopts the values val of some slots, and proposes those of open: for
\* each a vote of its own, which it counts, and Accepts of it to its peers.
Proposes(n, nd, new, w, out, adopted, open, val) ==
  /\ DOMAIN w.votes = open
  /\ \A s \in open : w.votes[s] = [ballot |-> nd.ballot, value |-> val[s]]
  /\ \A s \in DOMAIN w.chosen : /\ s \in adopted \/ (WriteQuorum = 1 /\ s \in open)
                                /\ w.chosen[s] = val[s]
  /\ \A m \in out : /\ m.type = "Accept" /\ m.from = n /\ m.to # n
                    /\ m.ballot = nd.ballot /\ m.slot \in open /\ m.value = val[m.slot]
  /\ \A c \in Cells :
       \/ new.lead[c] = nd.lead[c]
       \/ /\ new.lead[c].slot \in open
          /\ new.lead[c].ballot = nd.ballot /\ new.lead[c].acks = {n}

LEMMA SendAcceptsProposes ==
  ASSUME NEW n \in Node, NEW nd, NodeTyped(nd), NEW S, NEW val,
         \A s \in S : /\ s \in Slot /\ s \in (nd.memory_floor + 1) .. (nd.memory_floor + Window)
                      /\ ~ ledger_is_chosen(nd.ledger, s) /\ val[s] \in Values
  PROVE  LET r == SendAccepts(n, nd, S, val) IN
         Proposes(n, nd, r.nd, r.w, r.out, {}, S, val)
<1> DEFINE w == [NoWrites EXCEPT
                   !.votes = [s \in S |-> [ballot |-> nd.ballot, value |-> val[s]]],
                   !.chosen = IF WriteQuorum = 1 THEN [s \in S |-> val[s]] ELSE <<>>]
           lead == [c \in Cells |->
                      IF \E s \in S : cell_of(s) = c
                        THEN [slot |-> CHOOSE s \in S : cell_of(s) = c,
                              ballot |-> nd.ballot, acks |-> {n}]
                        ELSE nd.lead[c]]
           voted == [nd EXCEPT !.ledger = RecordWrites(@, w), !.lead = lead]
           out == {Accept(n, p, nd.ballot, s, val[s]) : p \in Peers(n), s \in S}
           r == SendAccepts(n, nd, S, val)
<1>1. nd.lead \in [Cells -> LeadType]
  BY DEF NodeTyped
<1>2. /\ r.nd = IF WriteQuorum = 1 /\ S # {} THEN Emitted(voted) ELSE voted
      /\ r.w = w /\ r.out = out
  <2>1. voted = [nd EXCEPT !.ledger = RecordWrites(@, w),
                           !.lead = [c \in Cells |->
                              IF \E s \in S : cell_of(s) = c
                                THEN [slot |-> CHOOSE s \in S : cell_of(s) = c,
                                      ballot |-> nd.ballot, acks |-> {n}]
                                ELSE @[c]]]
    BY <1>1 DEF NodeTyped
  <2>2. r = Result(IF WriteQuorum = 1 /\ S # {} THEN Emitted(voted) ELSE voted, w, out)
    BY <2>1 DEF SendAccepts
  <2> QED
    BY <2>2 DEF Result
<1>3. /\ DOMAIN w.votes = S
      /\ \A s \in S : w.votes[s] = [ballot |-> nd.ballot, value |-> val[s]]
      /\ \A s \in DOMAIN w.chosen : WriteQuorum = 1 /\ s \in S /\ w.chosen[s] = val[s]
  <2>1. PICK v, d : /\ v = [s \in S |-> [ballot |-> nd.ballot, value |-> val[s]]]
                    /\ d = IF WriteQuorum = 1 THEN [s \in S |-> val[s]] ELSE << >>
    OBVIOUS
  <2>2. w = [NoWrites EXCEPT !.votes = v, !.chosen = d]
    BY <2>1
  <2> HIDE DEF w
  <2>3. w.votes = v /\ w.chosen = d
    BY <2>2 DEF NoWrites
  <2>4. DOMAIN << >> = {}
    OBVIOUS
  <2> QED
    BY <2>1, <2>3, <2>4
<1> HIDE DEF w
<1>4. \A c \in Cells :
        \/ lead[c] = nd.lead[c]
        \/ lead[c].slot \in S /\ lead[c].ballot = nd.ballot /\ lead[c].acks = {n}
  <2> SUFFICES ASSUME NEW c \in Cells, \E s \in S : cell_of(s) = c
               PROVE  lead[c].slot \in S /\ lead[c].ballot = nd.ballot /\ lead[c].acks = {n}
    OBVIOUS
  <2>1. PICK s \in S : s = CHOOSE x \in S : cell_of(x) = c
    OBVIOUS
  <2>2. lead[c] = [slot |-> s, ballot |-> nd.ballot, acks |-> {n}]
    BY <2>1
  <2> QED
    BY <2>2
<1> HIDE DEF lead
<1>5. r.nd.lead = lead
  <2>1. PICK q : q = voted
    OBVIOUS
  <2>2. q.lead = lead /\ Emitted(q).lead = q.lead
    BY <2>1 DEF NodeTyped, Emitted
  <2> HIDE DEF voted, r
  <2> QED
    BY <1>2, <2>1, <2>2
<1>6. \A m \in out : /\ m.type = "Accept" /\ m.from = n /\ m.to # n
                     /\ m.ballot = nd.ballot /\ m.slot \in S /\ m.value = val[m.slot]
  BY DEF Accept, Peers
<1> HIDE DEF r, out
<1>7. Proposes(n, nd, r.nd, r.w, r.out, {}, S, val)
  BY <1>2, <1>3, <1>4, <1>5, <1>6 DEF Proposes
<1> QED
  BY <1>7 DEF r

LEMMA DriveProposes ==
  ASSUME NEW n \in Node, NEW nd, NodeTyped(nd), NEW drive, NEW val, NEW adopted, NEW open,
         Drives(nd, drive, val, adopted, open),
         NEW learnt, NEW adopting, NEW e, NEW sent, NEW w,
         Sends(n, nd, val, adopted, open, learnt, adopting, e, sent, w)
  PROVE  Proposes(n, nd, sent.nd, w, sent.out, adopted, open, val)
<1> DEFINE f == nd.memory_floor
<1>a. /\ learnt = [NoWrites EXCEPT !.chosen = [s \in adopted |-> val[s]]]
      /\ adopting = [nd EXCEPT !.ledger = RecordWrites(@, learnt)]
      /\ e \in {adopting, Emitted(adopting)}
      /\ sent = SendAccepts(n, e, open, val)
      /\ w = [sent.w EXCEPT !.chosen = [s \in DOMAIN @ \cup adopted |-> val[s]]]
  BY DEF Sends
<1>b. /\ \A s \in drive : /\ s \in Slot /\ s \in (f + 1) .. (f + Window) /\ val[s] \in Values
      /\ adopted \subseteq drive /\ open \subseteq drive /\ adopted \cap open = {}
      /\ \A s \in adopted \cup open : ~ ledger_is_chosen(nd.ledger, s)
  BY DEF Drives
<1>1. f \in Nat /\ LedgerTyped(nd.ledger, f + Window)
  BY Constants DEF NodeTyped
<1>2. /\ learnt.votes = << >> /\ learnt.chosen = [s \in adopted |-> val[s]]
      /\ learnt.promise = BALLOT_ZERO /\ learnt.trim = NoAnchor
      /\ learnt = [promise |-> learnt.promise, trim |-> learnt.trim,
                   votes |-> learnt.votes, chosen |-> learnt.chosen]
  BY <1>a DEF NoWrites
<1>3. DOMAIN learnt.votes = {} /\ DOMAIN learnt.chosen = adopted
      /\ WrittenSlots(learnt) = adopted
      /\ \A s \in adopted : learnt.chosen[s] = val[s]
  BY <1>2 DEF WrittenSlots
<1>4. \A s \in drive : s <= f + Window /\ s > f
  BY <1>b, <1>1, Constants
<1>5. WritesTyped(learnt, f + Window)
  <2>1. BALLOT_ZERO \in BallotSet /\ NoAnchor \in AnchorType
    BY EmptyBatch DEF WritesTyped
  <2> QED
    BY <1>b, <1>2, <1>3, <1>4, <2>1 DEF WritesTyped
<1>6. /\ NodeTyped(adopting) /\ Places(nd.ledger, adopting.ledger, f, learnt)
      /\ adopting.ballot = nd.ballot /\ adopting.lead = nd.lead /\ adopting.memory_floor = f
  <2>1. \A s \in WrittenSlots(learnt) : s > f /\ ~ ledger_is_chosen(nd.ledger, s)
    BY <1>b, <1>3, <1>4
  <2>2. adopting = [nd EXCEPT !.ledger = RecordWrites(@, learnt)]
    BY <1>a
  <2> QED
    BY <1>2, <1>5, <2>1, <2>2, RecordedNode
<1>7. /\ NodeTyped(e) /\ e.ledger = adopting.ledger /\ e.ballot = nd.ballot
      /\ e.lead = nd.lead /\ e.memory_floor = f
  BY <1>a, <1>6, EmittedFacts, ZenonT(60)
<1>8. \A s \in open : ~ ledger_is_chosen(e.ledger, s)
  <2>1. \A s \in Slot : ledger_is_chosen(adopting.ledger, s) =>
              \/ s \in DOMAIN learnt.chosen
              \/ s \notin WrittenSlots(learnt) /\ ledger_is_chosen(nd.ledger, s)
    BY <1>1, <1>5, <1>6, PlacedFacts
  <2> QED
    BY <1>b, <1>3, <1>7, <2>1
<1>9. /\ WritesTyped(sent.w, e.memory_floor + Window)
      /\ Proposes(n, e, sent.nd, sent.w, sent.out, {}, open, val)
  <2>1. \A s \in open : /\ s \in Slot /\ s \in (e.memory_floor + 1) .. (e.memory_floor + Window)
                        /\ ~ ledger_is_chosen(e.ledger, s) /\ val[s] \in Values
    BY <1>b, <1>7, <1>8
  <2> QED
    BY <1>a, <1>7, <2>1, SendAcceptsFacts, SendAcceptsProposes
<1>10. /\ w.votes = sent.w.votes
       /\ DOMAIN w.chosen = DOMAIN sent.w.chosen \cup adopted
       /\ \A s \in DOMAIN w.chosen : w.chosen[s] = val[s]
  <2>1. sent.w = [promise |-> sent.w.promise, trim |-> sent.w.trim,
                  votes |-> sent.w.votes, chosen |-> sent.w.chosen]
    BY <1>9 DEF WritesTyped
  <2>2. PICK d : d = [s \in DOMAIN sent.w.chosen \cup adopted |-> val[s]]
    OBVIOUS
  <2>3. w = [sent.w EXCEPT !.chosen = d]
    BY <1>a, <2>1, <2>2
  <2> QED
    BY <2>2, <2>3, <2>1
<1> QED
  BY <1>7, <1>9, <1>10 DEF Proposes

\* An envelope that neither proposes nor acknowledges, and tells what a ledger decides.
Repeats(m, l) ==
  \/ m.type \in {"Prepare", "Learn"}
  \/ /\ m.type = "Commit" /\ m.slot \in Slot /\ ledger_is_chosen(l, m.slot)
     /\ m.value = Cell(l, m.slot).value

\* A candidate or leader proposes only what it has proposed in its ballot before, if
\* anything.
LEMMA ProposingSays ==
  ASSUME TypeInv, TermInv, DecisionInv, NEW n \in Node, node[n].role # "Follower",
         NEW new, NEW w, Works(node[n], new, w), new.ballot = node[n].ballot,
         NEW asked, NEW adopted, NEW open, NEW val,
         Proposes(n, node[n], new, w, asked, adopted, open, val),
         \A s \in open : \A u : Said(net, votes, s, node[n].ballot, u) => u = val[s],
         \A s \in adopted : Chose(votes, s, val[s]),
         Collected(new.recovery, votes),
         \A s, v : VoteOf(n, s, new.ballot, v) \in votes \/ (s \in open /\ v = val[s])
                     => Limits(new, s, v),
         NEW told, \A m \in told : Repeats(m, new.ledger),
         NEW out, out = asked \cup told, NEW used, Finish(n, new, w, out, used)
  PROVE  /\ Says(n)
         /\ Within(node[n])
              /\ (\A s \in open : Safe(disk, votes, s, node[n].ballot, val[s])) => Utters(n)
<1> DEFINE nd == node[n]
           after == votes \cup VotesIn(n, w)
<1>1. NodeTyped(nd) /\ nd.delivered_through + Window \in Nat
  BY NodeFacts, Constants
<1>2. /\ Bid(n, nd) /\ nd.ballot # BALLOT_ZERO /\ Written(n, nd.ledger, votes)
      /\ Settled(nd.ledger, votes) /\ \A c \in Cells : Counted(n, nd.lead[c], votes)
  BY DEF TermInv, DecisionInv, Bid
<1>3. /\ Extends(nd, new, w) /\ NodeTyped(new)
      /\ WritesTyped(w, nd.delivered_through + Window)
      /\ new.ledger.promised = nd.ledger.promised /\ w.promise = BALLOT_ZERO
  BY <1>1, WorksCells DEF Works
<1>4. new.ledger.promised = MaxOf(nd.ledger.promised, w.promise)
  BY <1>3, NodeFacts, BallotOrder
<1>0. /\ DOMAIN w.votes = open
      /\ \A s \in open : w.votes[s].ballot = nd.ballot /\ w.votes[s].value = val[s]
  <2>1. DOMAIN w.votes = open
    BY DEF Proposes
  <2>2. ASSUME NEW s \in open
        PROVE  w.votes[s].ballot = nd.ballot /\ w.votes[s].value = val[s]
    <3>1. w.votes[s] = [ballot |-> nd.ballot, value |-> val[s]]
      BY DEF Proposes
    <3> QED
      BY <3>1
  <2> QED
    BY <2>1, <2>2
<1>5. ASSUME NEW s, NEW b, NEW v
      PROVE  VoteOf(n, s, b, v) \in VotesIn(n, w)
               <=> s \in open /\ b = nd.ballot /\ v = val[s]
  <2>1. VoteOf(n, s, b, v) \in VotesIn(n, w)
          <=> s \in open /\ w.votes[s].ballot = b /\ w.votes[s].value = v
    BY <1>0, VotesInFacts
  <2> QED
    BY <1>0, <2>1
<1>6. Written(n, new.ledger, after)
  <2>1. Written(n, nd.ledger, after)
    BY <1>2, WrittenMore
  <2> QED
    BY <1>1, <2>1, WorksWritten
<1>7. Bid(n, new)
  BY <1>2, <1>3 DEF Bid, Proposes
<1>8. Speaks(n, new, w, out)
  <2>1. \E top \in Nat : WritesTyped(w, top)
    BY <1>1, <1>3
  <2>2. \A m \in out : m.type = "Accept" =>
          /\ m.from = n /\ m.to # n /\ m.ballot = nd.ballot /\ m.ballot # BALLOT_ZERO
          /\ VoteOf(n, m.slot, m.ballot, m.value) \in after
    BY <1>2, <1>5 DEF Proposes, Repeats
  <2>3. \A m \in out : m.type # "Accepted"
    BY DEF Proposes, Repeats
  <2>4. \A s \in DOMAIN w.votes :
          /\ w.votes[s].ballot = nd.ballot /\ nd.ballot # BALLOT_ZERO
          /\ \A u : Said(net, votes, s, nd.ballot, u) => u = w.votes[s].value
    BY <1>0, <1>2
  <2>5. \A s, v : VoteOf(n, s, new.ballot, v) \in after => Limits(new, s, v)
    BY <1>5
  <2> QED
    BY <1>4, <1>6, <1>7, <2>1, <2>2, <2>3, <2>4, <2>5 DEF Speaks
<1>9. Grounded(w)
  <2>1. \A s \in DOMAIN w.chosen : /\ s \in adopted \/ (WriteQuorum = 1 /\ s \in open)
                                  /\ w.chosen[s] = val[s]
    BY DEF Proposes
  <2> QED
    BY <1>0, <2>1 DEF Grounded
<1>10. Settled(new.ledger, after)
  <2>1. Settled(nd.ledger, after)
    BY <1>2, SettledMore
  <2>2. \A s \in DOMAIN w.chosen : Chose(after, s, w.chosen[s])
    BY <1>9, GroundedChose
  <2> QED
    BY <1>1, <2>1, <2>2, WorksSettled
<1>11. Settles(n, new, w, out)
  <2>1. Collected(new.recovery, after)
    BY SettledMore
  <2>2. \A c \in Cells : Counted(n, new.lead[c], after)
    <3> SUFFICES ASSUME NEW c \in Cells PROVE Counted(n, new.lead[c], after)
      OBVIOUS
    <3>1. CASE new.lead[c] = nd.lead[c]
      BY <1>2, <3>1, CountedMore
    <3>2. CASE new.lead[c].slot \in open /\ new.lead[c].ballot = nd.ballot
               /\ new.lead[c].acks = {n}
      <4>1. VoteOf(n, new.lead[c].slot, new.lead[c].ballot, val[new.lead[c].slot]) \in after
        BY <1>5, <3>2
      <4> QED
        BY <3>2, <4>1 DEF Counted, Backs
    <3> QED
      BY <3>1, <3>2 DEF Proposes
  <2>3. \A m \in out : Told(m, after) /\ m.type # "Accepted"
    BY <1>10, ChosenCell DEF Proposes, Repeats, Told
  <2> QED
    BY <1>9, <1>10, <2>1, <2>2, <2>3 DEF Settles
<1>12. Says(n)
  BY <1>3, <1>8, <1>11 DEF Says
<1>13. ASSUME Within(nd), \A s \in open : Safe(disk, votes, s, nd.ballot, val[s])
       PROVE  Utters(n)
  <2>1. nd.ballot >= disk[n].promised
    <3>1. disk[n].promised = nd.ledger.promised
      BY DEF TermInv
    <3>2. /\ ledger_highest_ballot(nd.ledger) \in BallotSet
          /\ nd.ledger.promised <= ledger_highest_ballot(nd.ledger)
          /\ ledger_highest_ballot(nd.ledger) <= nd.ballot
      BY <1>1, <1>13, HighestBallot DEF NodeTyped, Within
    <3>3. nd.ballot \in Nat /\ nd.ledger.promised \in Nat
          /\ ledger_highest_ballot(nd.ledger) \in Nat
      BY <3>2, NodeFacts, BallotsAreBounded
    <3> QED
      BY <3>1, <3>2, <3>3
  <2>2. \A s \in DOMAIN w.votes :
          /\ w.votes[s].ballot >= disk[n].promised
          /\ \/ Said(net, votes, s, w.votes[s].ballot, w.votes[s].value)
             \/ Safe(disk, votes, s, w.votes[s].ballot, w.votes[s].value)
    BY <1>0, <1>13, <2>1
  <2> QED
    BY <1>8, <2>2, FinishUtters
<1> QED
  BY <1>12, <1>13

LEMMA ProposeSays ==
  ASSUME TypeInv, TermInv, DecisionInv, NEW n \in Node, NEW vals \in ProposalBatches,
         Propose(n, vals)
  PROVE  /\ Says(n)
         /\ Within(node[n])
              /\ (\A s \in Slot : \A v : s >= node[n].next_slot /\ s # MaxSlot
                                      => Safe(disk, votes, s, node[n].ballot, v))
              => Utters(n) /\ Calm(n)
<1> DEFINE nd == node[n]
           slots == nd.next_slot .. (nd.next_slot + Len(vals) - 1)
           open == {s \in slots : claim_live(nd, s) /\ LiveCell(nd, s).state # "Chosen"}
           val == [s \in slots |-> vals[s - nd.next_slot + 1]]
           moved == [nd EXCEPT !.next_slot = @ + Len(vals)]
           r == SendAccepts(n, moved, open, val)
<1>1. NodeTyped(nd) /\ nd.next_slot \in Slot /\ nd.next_slot \in Nat /\ MaxSlot \in Nat
  BY NodeFacts, Constants DEF NodeTyped, Slot
<1>2. Len(vals) \in Nat /\ Len(vals) >= 1 /\ \A i \in 1 .. Len(vals) : vals[i] \in Value
  BY BatchFacts
<1>3. /\ nd.role = "Leader" /\ Len(vals) <= MaxSlot - nd.next_slot
      /\ Finish(n, r.nd, r.w, r.out, {})
  BY DEF Propose, CanPropose, FinishResult
<1>4. PICK k : k = moved
  OBVIOUS
<1>5. /\ NodeTyped(k) /\ k.ledger = nd.ledger /\ k.role = nd.role /\ k.ballot = nd.ballot
      /\ k.memory_floor = nd.memory_floor /\ k.delivered_through = nd.delivered_through
      /\ k.next_slot = nd.next_slot + Len(vals) /\ k.lead = nd.lead
      /\ k.recovery = nd.recovery
  <2>1. nd.next_slot + Len(vals) \in Slot
    <3>1. PICK a, b : a = nd.next_slot /\ b = Len(vals)
      OBVIOUS
    <3>2. /\ a \in Nat /\ b \in Nat /\ a >= 1 /\ b <= MaxSlot - a /\ MaxSlot \in Nat
      BY <1>1, <1>2, <1>3, <3>1, Constants DEF Slot
    <3>3. a + b \in 1 .. MaxSlot
      BY <3>2
    <3> QED
      BY <3>1, <3>3 DEF Slot
  <2> QED
    BY <1>1, <1>4, <2>1 DEF NodeTyped
<1>6. ASSUME NEW s \in open
      PROVE  /\ s \in Slot /\ s \in (k.memory_floor + 1) .. (k.memory_floor + Window)
             /\ ~ ledger_is_chosen(k.ledger, s) /\ val[s] \in Values
             /\ s \in Nat /\ s >= nd.next_slot /\ s < k.next_slot /\ s < MaxSlot
  <2>1. s \in Nat /\ s >= nd.next_slot /\ s <= nd.next_slot + Len(vals) - 1
    BY <1>1, <1>2
  <2>2. s \in Slot /\ s < MaxSlot
    <3>1. PICK a, b : a = nd.next_slot /\ b = Len(vals)
      OBVIOUS
    <3>2. /\ a \in Nat /\ b \in Nat /\ a >= 1 /\ b <= MaxSlot - a /\ MaxSlot \in Nat
          /\ s \in Nat /\ s >= a /\ s <= a + b - 1
      BY <1>1, <1>2, <1>3, <2>1, <3>1, Constants DEF Slot
    <3> QED
      BY <3>2 DEF Slot
  <2>3. s - nd.next_slot + 1 \in 1 .. Len(vals)
    BY <1>1, <1>2, <2>1
  <2>4. val[s] \in Values
    BY <1>2, <2>3 DEF Values
  <2>5. s < k.next_slot
    BY <1>1, <1>2, <1>5, <2>1
  <2> QED
    BY <1>1, <1>5, <2>1, <2>2, <2>4, <2>5, LiveCellFacts
<1>7. r = SendAccepts(n, k, open, val)
  BY <1>4
<1> HIDE DEF open, val, r, moved
<1>8. /\ NodeTyped(r.nd) /\ Places(k.ledger, r.nd.ledger, k.memory_floor, r.w)
      /\ WritesTyped(r.w, k.memory_floor + Window)
      /\ r.w.trim = NoAnchor /\ r.w.promise = BALLOT_ZERO
      /\ r.nd.ballot = k.ballot /\ r.nd.memory_floor = k.memory_floor
      /\ r.nd.role = k.role /\ r.nd.recovery = k.recovery /\ r.nd.next_slot = k.next_slot
      /\ r.nd.delivered_through >= k.delivered_through
      /\ \A s \in (k.delivered_through + 1) .. r.nd.delivered_through :
           ledger_is_chosen(r.nd.ledger, s)
      /\ DOMAIN r.w.votes = open
      /\ \A s \in open : r.w.votes[s] = [ballot |-> k.ballot, value |-> val[s]]
  BY <1>5, <1>6, <1>7, SendAcceptsFacts
<1>9. Bids(k, r.nd, r.w)
  <2>1. k.role # "Follower"
    BY <1>3, <1>5
  <2>2. ASSUME NEW s \in DOMAIN r.w.votes PROVE r.w.votes[s].ballot = k.ballot
    <3>1. r.w.votes[s] = [ballot |-> k.ballot, value |-> val[s]]
      BY <1>8
    <3> QED
      BY <3>1
  <2> QED
    BY <1>8, <2>1, <2>2 DEF Bids
<1>10. Works(nd, r.nd, r.w)
  <2>1. Works(k, r.nd, r.w)
    BY <1>5, <1>8, <1>9, PlacesWorks
  <2> QED
    BY <1>5, <2>1, SameWindowWorks
<1>11. Proposes(n, nd, r.nd, r.w, r.out, {}, open, val)
  <2>1. Proposes(n, k, r.nd, r.w, r.out, {}, open, val)
    BY <1>5, <1>6, <1>7, SendAcceptsProposes
  <2> QED
    BY <1>5, <2>1 DEF Proposes
<1>12. \A s, v : Said(net, votes, s, nd.ballot, v) => s < nd.next_slot \/ s = MaxSlot
  BY <1>3 DEF TermInv, Term, Limits
<1>13. ASSUME NEW s \in open, NEW u, Said(net, votes, s, nd.ballot, u) PROVE u = val[s]
  BY <1>1, <1>6, <1>12, <1>13
<1>14. ASSUME NEW s, NEW v,
              VoteOf(n, s, r.nd.ballot, v) \in votes \/ (s \in open /\ v = val[s])
       PROVE  Limits(r.nd, s, v)
  <2>1. r.nd.role = "Leader" /\ r.nd.next_slot = nd.next_slot + Len(vals)
    BY <1>3, <1>5, <1>8
  <2>2. CASE s \in open
    BY <1>5, <1>6, <2>1, <2>2 DEF Limits
  <2>3. CASE VoteOf(n, s, r.nd.ballot, v) \in votes
    <3>1. Said(net, votes, s, nd.ballot, v)
      BY <1>5, <1>8, <2>3, VoteSays
    <3>2. s \in Slot /\ s \in Nat
      BY <3>1, SaidSlots, Constants DEF Slot
    <3>3. s < r.nd.next_slot \/ s = MaxSlot
      BY <1>1, <1>2, <1>12, <2>1, <3>1, <3>2
    <3> QED
      BY <2>1, <3>3 DEF Limits
  <2> QED
    BY <1>14, <2>2, <2>3
<1>15. Collected(r.nd.recovery, votes)
  BY <1>5, <1>8 DEF DecisionInv
<1>16. PICK new, w, out, none : new = r.nd /\ w = r.w /\ out = r.out /\ none = {}
  OBVIOUS
<1>17. /\ node[n].role # "Follower" /\ Works(node[n], new, w) /\ new.ballot = node[n].ballot
       /\ Proposes(n, node[n], new, w, out, none, open, val)
       /\ Collected(new.recovery, votes)
       /\ Finish(n, new, w, out, none) /\ out = out \cup none
  BY <1>3, <1>5, <1>8, <1>10, <1>11, <1>15, <1>16
<1>18. /\ \A s \in open : \A u : Said(net, votes, s, node[n].ballot, u) => u = val[s]
       /\ \A s, v : VoteOf(n, s, new.ballot, v) \in votes \/ (s \in open /\ v = val[s])
                      => Limits(new, s, v)
       /\ \A s \in none : Chose(votes, s, val[s])
       /\ \A m \in none : Repeats(m, new.ledger)
  BY <1>13, <1>14, <1>16
<1>19. /\ Says(n)
       /\ Within(node[n])
            /\ (\A s \in open : Safe(disk, votes, s, node[n].ballot, val[s])) => Utters(n)
  <2> HIDE DEF nd
  <2> QED
    BY <1>17, <1>18, ProposingSays
<1>20. Calm(n)
  <2>1. r.nd.next_slot >= nd.next_slot
    BY <1>1, <1>2, <1>5, <1>8
  <2>2. Serves(nd, r.nd)
    BY <1>1, <1>5, <1>8, <1>10, <2>1, WorksServes
  <2>3. Mute(r.out)
    BY <1>11 DEF Proposes, Mute, Campaign
  <2> QED
    BY <1>3, <2>2, <2>3, FinishCalm DEF TypeInv
<1>21. \A s \in open : s \in Slot /\ s >= node[n].next_slot /\ s # MaxSlot
  BY <1>6, Constants
<1> QED
  BY <1>19, <1>20, <1>21

LEMMA NextChunkOffice ==
  ASSUME NEW n, NEW nd, NodeTyped(nd)
  PROVE  LET r == BeginNextChunk(n, nd) IN
         /\ \A m \in r.out : m.type = "Prepare"
         /\ r.nd.role = nd.role /\ r.nd.ballot = nd.ballot /\ r.nd.lead = nd.lead
         /\ r.nd.ledger = nd.ledger /\ r.nd.recovery.base = nd.recovery.last + 1
         /\ \A V : Collected(r.nd.recovery, V)
<1> DEFINE base == nd.recovery.last + 1
           rec == NewRecovery(base, [p \in Node |-> [NoPeer EXCEPT
                    !.anchor = nd.recovery.peer[p].anchor,
                    !.chosen_through = nd.recovery.peer[p].chosen_through]])
           next == [nd EXCEPT !.recovery = rec]
           out == {Prepare(n, p, nd.ballot, rec.base, rec.last) : p \in Node}
           r == BeginNextChunk(n, nd)
<1>1. r = Result(next, NoWrites, out)
  BY DEF BeginNextChunk
<1>2. rec.base = base /\ \A V : Collected(rec, V)
  <2>1. PICK last : rec.recovered = [s \in ChunkSlots(base, last) |-> NoReport]
    BY DEF NewRecovery
  <2>2. rec.base = base
    BY DEF NewRecovery
  <2> HIDE DEF rec
  <2>3. \A s \in DOMAIN rec.recovered : rec.recovered[s].state # "Chosen"
    BY <2>1 DEF NoReport
  <2> QED
    BY <2>2, <2>3 DEF Collected
<1> HIDE DEF rec
<1>3. next.role = nd.role /\ next.ballot = nd.ballot /\ next.lead = nd.lead
      /\ next.ledger = nd.ledger /\ next.recovery = rec
  BY DEF NodeTyped
<1>4. \A m \in out : m.type = "Prepare"
  BY DEF Prepare
<1> HIDE DEF next, out, r
<1>5. /\ \A m \in r.out : m.type = "Prepare"
      /\ r.nd.role = nd.role /\ r.nd.ballot = nd.ballot /\ r.nd.lead = nd.lead
      /\ r.nd.ledger = nd.ledger /\ r.nd.recovery.base = nd.recovery.last + 1
      /\ \A V : Collected(r.nd.recovery, V)
  BY <1>1, <1>2, <1>3, <1>4 DEF Result
<1> QED
  BY <1>5 DEF r

\* A leader starts above every slot its ledger has a record of.
LEMMA BecomeLeaderOffice ==
  ASSUME NEW nd, NodeTyped(nd), RecoveryTyped(nd.recovery)
  PROVE  LET new == BecomeLeader(nd) IN
         /\ new.role = "Leader" /\ new.ballot = nd.ballot /\ new.lead = nd.lead
         /\ new.ledger = nd.ledger /\ new.recovery = NoRecovery
         /\ \A s \in Slot : Recorded(nd.ledger, s) \/ s <= Fence(nd)
                              => s < new.next_slot \/ s = MaxSlot
<1> DEFINE highest == MaxOf(ledger_highest_used(nd.ledger), Fence(nd))
           next == MaxOf(nd.next_slot, slot_add(highest, 1))
           led == [nd EXCEPT !.role = "Leader", !.recovery = NoRecovery,
                             !.next_slot = next, !.leader_base = next]
<1>1. /\ ledger_highest_used(nd.ledger) \in 0 .. MaxSlot /\ Fence(nd) \in 0 .. MaxSlot
      /\ MaxSlot \in Nat /\ nd.next_slot \in Nat
  BY HighestUsed, FenceFacts, Constants DEF NodeTyped, Slot
<1>2. ASSUME NEW s \in Slot, Recorded(nd.ledger, s) \/ s <= Fence(nd)
      PROVE  s < next \/ s = MaxSlot
  <2>1. ASSUME Recorded(nd.ledger, s) PROVE s \in Nat /\ s <= highest
    <3>1. PICK c \in UsedCells(nd.ledger) : nd.ledger.cell[c].slot >= s
      BY <2>1 DEF Recorded
    <3>2. PICK S : S = {0} \cup UsedSlots(nd.ledger)
      OBVIOUS
    <3>3. \A d \in UsedCells(nd.ledger) : nd.ledger.cell[d].slot \in 0 .. MaxSlot
      BY DEF NodeTyped, LedgerTyped, LedgerType, CellType, UsedCells
    <3>4. S \subseteq Nat /\ S # {} /\ nd.ledger.cell[c].slot \in S
          /\ \A x \in S : x <= MaxSlot
      BY <1>1, <3>2, <3>3 DEF UsedSlots
    <3>5. nd.ledger.cell[c].slot <= Max(S) /\ Max(S) \in S
      BY <1>1, <3>4, MaxIsGreatest
    <3>6. Max(S) = ledger_highest_used(nd.ledger)
      BY <3>2 DEF ledger_highest_used
    <3>7. s \in Nat
      BY Constants DEF Slot
    <3>8. PICK a, b : a = nd.ledger.cell[c].slot /\ b = Max(S)
      OBVIOUS
    <3>9. a \in Nat /\ b \in Nat /\ a >= s /\ a <= b
      BY <3>1, <3>4, <3>5, <3>8
    <3>10. s <= b
      BY <3>7, <3>9
    <3>11. s <= ledger_highest_used(nd.ledger)
      BY <3>6, <3>8, <3>10
    <3> QED
      BY <1>1, <3>7, <3>11 DEF MaxOf
  <2>2. ASSUME s <= Fence(nd) PROVE s \in Nat /\ s <= highest
    BY <1>1, <2>2, Constants DEF MaxOf, Slot
  <2>3. s \in Nat /\ s <= MaxSlot /\ highest \in 0 .. MaxSlot /\ s <= highest
    BY <1>1, <1>2, <2>1, <2>2, Constants DEF MaxOf, Slot
  <2> HIDE DEF highest
  <2>4. /\ slot_add(highest, 1) \in Nat
        /\ slot_add(highest, 1) # MaxSlot => slot_add(highest, 1) = highest + 1
    <3>1. PICK h : h = highest
      OBVIOUS
    <3>2. h \in 0 .. (MaxSlot + 1)
      BY <1>1, <2>3, <3>1
    <3>3. /\ slot_add(h, 1) \in 0 .. MaxSlot
          /\ slot_add(h, 1) # MaxSlot => slot_add(h, 1) = h + 1
      BY <3>2, SlotAdd
    <3> QED
      BY <1>1, <3>1, <3>3
  <2>5. next \in Nat /\ next >= slot_add(highest, 1)
    BY <1>1, <2>4 DEF MaxOf
  <2> HIDE DEF next
  <2> QED
    BY <1>1, <2>3, <2>4, <2>5
<1> HIDE DEF next
<1>3. PICK l : l = led
  OBVIOUS
<1>4. /\ l.role = "Leader" /\ l.recovery = NoRecovery /\ l.next_slot = next
      /\ l.ledger = nd.ledger /\ l.ballot = nd.ballot /\ l.lead = nd.lead
  BY <1>3 DEF NodeTyped
<1>5. BecomeLeader(nd) = [l EXCEPT !.delivered_through = emit_contiguous(l.ledger, @)]
  BY <1>3 DEF BecomeLeader, Emitted, highest, next
<1>6. /\ BecomeLeader(nd).role = l.role /\ BecomeLeader(nd).ballot = l.ballot
      /\ BecomeLeader(nd).lead = l.lead /\ BecomeLeader(nd).ledger = l.ledger
      /\ BecomeLeader(nd).recovery = l.recovery /\ BecomeLeader(nd).next_slot = l.next_slot
  <2>1. l = [role |-> l.role, ballot |-> l.ballot,
             highest_observed_round |-> l.highest_observed_round,
             next_slot |-> l.next_slot, leader_base |-> l.leader_base,
             delivered_through |-> l.delivered_through, memory_floor |-> l.memory_floor,
             campaign_enabled |-> l.campaign_enabled, ledger |-> l.ledger,
             recovery |-> l.recovery, lead |-> l.lead]
    BY <1>3 DEF NodeTyped
  <2> QED
    BY <1>5, <2>1
<1> QED
  BY <1>2, <1>4, <1>6

\* A chunk that is driven to its end is driven in all its slots above the fence that count:
\* every slot when more chunks follow, the reported ones when none does.
LEMMA DriveIsWhole ==
  ASSUME NEW nd, NodeTyped(nd), RecoveryTyped(nd.recovery),
         NEW reported \in SUBSET (nd.recovery.base .. nd.recovery.last),
         NEW known_high, NEW limit, NEW drive_limit, NEW s \in nd.recovery.base .. nd.recovery.last,
         known_high = Max({ledger_highest_used(nd.ledger), Fence(nd)} \cup reported),
         limit = IF nd.recovery.more THEN nd.recovery.last
                                     ELSE MinOf(nd.recovery.last, known_high),
         drive_limit = MinOf(limit, slot_add(nd.memory_floor, Window)),
         ~ (drive_limit < limit), s > Fence(nd), nd.recovery.more \/ s \in reported
  PROVE  s \in MaxOf(nd.recovery.base, Fence(nd) + 1) .. drive_limit
<1>1. nd.recovery.base \in Slot /\ nd.recovery.last = slot_add(nd.recovery.base, Chunk - 1)
  BY DEF RecoveryTyped
<1>2. nd.recovery.last \in nd.recovery.base .. MaxSlot /\ nd.recovery.base \in Nat
      /\ nd.recovery.last \in Nat /\ MaxSlot \in Nat
  <2>1. Chunk - 1 \in Nat /\ nd.recovery.base \in 0 .. (MaxSlot + 1) /\ nd.recovery.base <= MaxSlot
    BY <1>1, Constants DEF Slot
  <2>2. nd.recovery.last \in nd.recovery.base .. MaxSlot
    BY <1>1, <2>1, SlotAdd
  <2> QED
    BY <1>1, <2>2, Constants DEF Slot
<1>3. /\ nd.memory_floor \in 0 .. (MaxSlot + 1) /\ Window \in Nat
      /\ Fence(nd) \in 0 .. MaxSlot /\ ledger_highest_used(nd.ledger) \in 0 .. MaxSlot
  BY FenceFacts, HighestUsed, Constants DEF NodeTyped
<1>4. slot_add(nd.memory_floor, Window) \in Nat
  BY <1>2, <1>3, SlotAdd
<1>5. PICK A : A = {ledger_highest_used(nd.ledger), Fence(nd)} \cup reported
  OBVIOUS
<1>6. A \subseteq Nat /\ A # {} /\ \A x \in A : x <= MaxSlot
  <2>1. \A x \in nd.recovery.base .. nd.recovery.last : x \in Nat /\ x <= MaxSlot
    BY <1>2
  <2>2. \A x \in 0 .. MaxSlot : x \in Nat /\ x <= MaxSlot
    BY <1>2
  <2>3. \A x \in reported : x \in Nat /\ x <= MaxSlot
    BY <2>1
  <2> QED
    BY <1>3, <1>5, <2>2, <2>3
<1>7. known_high \in Nat /\ \A x \in reported : x <= known_high
  BY <1>2, <1>5, <1>6, MaxIsGreatest
<1>8. s \in Nat /\ s >= nd.recovery.base /\ s <= nd.recovery.last
  BY <1>2
<1>9. limit \in Nat /\ s <= limit
  BY <1>2, <1>7, <1>8 DEF MinOf
<1>10. drive_limit = limit
  BY <1>4, <1>9 DEF MinOf
<1>11. PICK first : first = MaxOf(nd.recovery.base, Fence(nd) + 1)
  OBVIOUS
<1>12. first \in Nat /\ first <= s
  BY <1>2, <1>3, <1>8, <1>11 DEF MaxOf
<1> QED
  BY <1>8, <1>9, <1>10, <1>11, <1>12

\* resolve_chunk: the node, as nd, drives its chunk, as sent, and then stays, goes on to the
\* next chunk, or leads.
Resolves(n, nd, r, sent, asked, told, adopted, open, val) ==
  /\ NodeTyped(sent) /\ sent.role = nd.role /\ sent.ballot = nd.ballot
  /\ sent.recovery = nd.recovery /\ sent.next_slot = nd.next_slot
  /\ sent.ledger = r.nd.ledger
  /\ Proposes(n, nd, sent, r.w, asked, adopted, open, val)
  /\ \A s \in adopted \cup open : /\ s \in nd.recovery.base .. nd.recovery.last
                                  /\ val[s] = SelectedValue(nd, s)
  /\ \A s \in adopted : Adoptable(nd.recovery.recovered[s])
  /\ \A m \in told : Repeats(m, r.nd.ledger)
  /\ r.out = asked \cup told
  /\ \/ r.nd = sent
     \/ nd.recovery.more /\ r.nd = BeginNextChunk(n, sent).nd
     \/ r.nd = BecomeLeader(sent)

\* What the drive leaves to be proposed, and what it has covered when the node moves on.
Finishes(n, nd, r, sent, told, adopted, open) ==
  /\ sent.delivered_through >= nd.delivered_through
  /\ Places(nd.ledger, sent.ledger, nd.memory_floor, r.w)
  /\ WritesTyped(r.w, nd.memory_floor + Window)
  /\ adopted \subseteq DOMAIN r.w.chosen
  /\ \A s \in open : s > Fence(nd) /\ nd.recovery.recovered[s].state # "Chosen"
  /\ \/ r.nd = sent /\ Mute(told)
     \/ /\ nd.recovery.more /\ r.nd = BeginNextChunk(n, sent).nd
        /\ \A m \in told : m.type \in Campaign => m \in BeginNextChunk(n, sent).out
        /\ \A s \in nd.recovery.base .. nd.recovery.last :
             s > Fence(nd) => s \in adopted \cup open \/ ledger_is_chosen(nd.ledger, s)
     \/ /\ ~ nd.recovery.more /\ r.nd = BecomeLeader(sent) /\ Mute(told)
        /\ \A s \in nd.recovery.base .. nd.recovery.last :
             s > Fence(nd) /\ nd.recovery.recovered[s].state # "Empty"
               => s \in adopted \cup open \/ ledger_is_chosen(nd.ledger, s)

LEMMA ResolveResolves ==
  ASSUME NEW n \in Node, NEW nd, NodeTyped(nd), nd.role = "Preparing"
  PROVE  \E sent, asked, told, adopted, open, val :
           /\ Resolves(n, nd, ResolveChunk(n, nd), sent, asked, told, adopted, open, val)
           /\ Finishes(n, nd, ResolveChunk(n, nd), sent, told, adopted, open)
<1> DEFINE rec == nd.recovery
           l == nd.ledger
           reported == {s \in DOMAIN rec.recovered : rec.recovered[s].state # "Empty"}
           known_high == Max({ledger_highest_used(l), Fence(nd)} \cup reported)
           limit == IF rec.more THEN rec.last ELSE MinOf(rec.last, known_high)
           drive_limit == MinOf(limit, slot_add(nd.memory_floor, Window))
           drive == MaxOf(rec.base, Fence(nd) + 1) .. drive_limit
           known == {s \in drive : ledger_is_chosen(l, s)}
           adopted == {s \in drive \ known : Adoptable(rec.recovered[s])}
           open == drive \ (known \cup adopted)
           val == [s \in drive |-> SelectedValue(nd, s)]
           learnt == [NoWrites EXCEPT !.chosen = [s \in adopted |-> val[s]]]
           adopting == [nd EXCEPT !.ledger = RecordWrites(@, learnt)]
           e == IF adopted = {} THEN adopting ELSE Emitted(adopting)
           sent == SendAccepts(n, e, open, val)
           w == [sent.w EXCEPT !.chosen = [s \in DOMAIN @ \cup adopted |-> val[s]]]
           commits == {Commit(n, p, s, Cell(sent.nd.ledger, s).value)
                         : p \in Peers(n), s \in known \cup adopted}
           learn == IF ChosenFence(nd) > sent.nd.delivered_through
                      THEN {Learn(n, ChosenPeer(nd), sent.nd.delivered_through + 1)} ELSE {}
           next == IF drive_limit < limit THEN Nothing(sent.nd)
                   ELSE IF rec.more THEN BeginNextChunk(n, sent.nd)
                   ELSE Nothing(BecomeLeader(sent.nd))
           r == ResolveChunk(n, nd)
<1>1. r = Result(next.nd, w, sent.out \cup commits \cup learn \cup next.out)
  BY DEF ResolveChunk
<1>2. RecoveryTyped(rec) /\ rec.recovered \in [rec.base .. rec.last -> ReportType]
      /\ \A s \in rec.base .. rec.last : rec.recovered[s].state # "Empty"
                                           => rec.recovered[s].value \in Values
  BY DEF NodeTyped, RecoveryTyped
<1>3. reported \in SUBSET (rec.base .. rec.last)
  BY <1>2
<1>4. \A s \in drive : /\ s \in Slot
                       /\ s \in (nd.memory_floor + 1) .. (nd.memory_floor + Window)
                       /\ s \in rec.base .. rec.last
  <2> HIDE DEF reported
  <2>1. PICK kh, lm, dl : kh = known_high /\ lm = limit /\ dl = drive_limit
    OBVIOUS
  <2>2. kh = Max({ledger_highest_used(l), Fence(nd)} \cup reported)
    BY <2>1
  <2>3. lm = IF rec.more THEN rec.last ELSE MinOf(rec.last, kh)
    BY <2>1
  <2>4. dl = MinOf(lm, slot_add(nd.memory_floor, Window))
    BY <2>1
  <2>5. drive = MaxOf(rec.base, Fence(nd) + 1) .. dl
    BY <2>1
  <2> HIDE DEF drive, known_high, limit, drive_limit
  <2>6. QED
    BY <1>2, <1>3, <2>2, <2>3, <2>4, <2>5, DriveIsInTheWindow
<1>w. ASSUME NEW s \in rec.base .. rec.last, s > Fence(nd), ~ (drive_limit < limit),
             rec.more \/ rec.recovered[s].state # "Empty"
      PROVE  s \in drive
  <2>1. rec.more \/ s \in reported
    BY <1>2, <1>w
  <2> HIDE DEF reported
  <2>2. PICK kh, lm, dl : kh = known_high /\ lm = limit /\ dl = drive_limit
    OBVIOUS
  <2>3. /\ kh = Max({ledger_highest_used(l), Fence(nd)} \cup reported)
        /\ lm = IF rec.more THEN rec.last ELSE MinOf(rec.last, kh)
        /\ dl = MinOf(lm, slot_add(nd.memory_floor, Window))
        /\ drive = MaxOf(rec.base, Fence(nd) + 1) .. dl
        /\ ~ (dl < lm)
    BY <1>w, <2>2
  <2> HIDE DEF drive, known_high, limit, drive_limit
  <2>4. s \in MaxOf(rec.base, Fence(nd) + 1) .. dl
    BY <1>2, <1>3, <1>w, <2>1, <2>3, DriveIsWhole
  <2> QED
    BY <2>3, <2>4
<1>x. \A s \in drive : s > Fence(nd)
  <2>1. rec.base \in Nat /\ Fence(nd) \in Nat
    BY <1>2, FenceFacts, Constants DEF RecoveryTyped, Slot
  <2>2. PICK first, dl : first = MaxOf(rec.base, Fence(nd) + 1) /\ dl = drive_limit
    OBVIOUS
  <2>3. drive = first .. dl /\ first \in Nat /\ first >= Fence(nd) + 1
    BY <2>1, <2>2 DEF MaxOf
  <2> HIDE DEF drive
  <2> SUFFICES ASSUME NEW s \in drive PROVE s > Fence(nd)
    OBVIOUS
  <2>4. s \in Nat
    BY <1>4, Constants DEF Slot
  <2>5. s >= first
    BY <2>3, <2>4
  <2> QED
    BY <2>1, <2>3, <2>4, <2>5
<1> HIDE DEF drive, known_high, limit, drive_limit, reported, r
<1>5. \A s \in drive : /\ s \in Slot
                       /\ s \in (nd.memory_floor + 1) .. (nd.memory_floor + Window)
                       /\ val[s] \in Values
  <2> SUFFICES ASSUME NEW s \in drive PROVE SelectedValue(nd, s) \in Values
    BY <1>4
  <2>1. s \in rec.base .. rec.last
    BY <1>4
  <2>2. rec.recovered[s].state # "Empty" => rec.recovered[s].value \in Values
    BY <1>2, <2>1
  <2>3. QED
    BY <2>2 DEF SelectedValue, Values
<1>v. \A s \in drive : val[s] = SelectedValue(nd, s)
  OBVIOUS
<1> HIDE DEF val
<1>6. /\ adopted \in SUBSET drive /\ open \in SUBSET drive /\ adopted \cap open = {}
      /\ \A s \in adopted \cup open : ~ ledger_is_chosen(l, s)
  OBVIOUS
<1>7. \A s \in known : ledger_is_chosen(l, s) /\ s \in drive
  OBVIOUS
<1>c. \A s \in adopted : Adoptable(rec.recovered[s])
  OBVIOUS
<1>y. /\ \A s \in open : s > Fence(nd) /\ rec.recovered[s].state # "Chosen"
      /\ \A s \in drive : s \in adopted \cup open \/ ledger_is_chosen(l, s)
  BY <1>x DEF Adoptable
<1>8. Drives(nd, drive, val, adopted, open)
  BY <1>5, <1>6 DEF Drives
<1> HIDE DEF known, adopted, open
<1>9. PICK le, ad, ee, se, ww : le = learnt /\ ad = adopting /\ ee = e /\ se = sent /\ ww = w
  OBVIOUS
<1>10. Sends(n, nd, val, adopted, open, le, ad, ee, se, ww)
  BY <1>9 DEF Sends
<1> HIDE DEF learnt, adopting, e, sent, w
<1>11. /\ NodeTyped(se.nd) /\ Places(l, se.nd.ledger, nd.memory_floor, ww)
       /\ WritesTyped(ww, nd.memory_floor + Window)
       /\ se.nd.role = nd.role /\ se.nd.ballot = nd.ballot /\ se.nd.recovery = rec
       /\ se.nd.next_slot = nd.next_slot
       /\ adopted \subseteq DOMAIN ww.chosen
       /\ Proposes(n, nd, se.nd, ww, se.out, adopted, open, val)
  BY <1>8, <1>10, DriveFacts, DriveProposes
<1>12. nd.memory_floor \in Nat /\ LedgerTyped(l, nd.memory_floor + Window)
  BY Constants DEF NodeTyped
<1>13. \A m \in commits : Repeats(m, se.nd.ledger)
  <2>1. ASSUME NEW s \in known \cup adopted
        PROVE  s \in Slot /\ ledger_is_chosen(se.nd.ledger, s)
    <3>1. s \in Slot /\ s > nd.memory_floor
      BY <1>4, <1>6, <1>7, <1>12, Constants
    <3> QED
      BY <1>7, <1>11, <1>12, <3>1, PlacedFacts
  <2> QED
    BY <1>9, <2>1 DEF Repeats, Commit
<1>14. \A m \in learn : Repeats(m, se.nd.ledger)
  BY DEF Repeats, Learn
<1>z. Mute(commits \cup learn)
  BY DEF Mute, Commit, Learn, Campaign
<1> HIDE DEF commits, learn
<1>15. /\ next.nd.ledger = se.nd.ledger /\ \A m \in next.out : Repeats(m, se.nd.ledger)
       /\ \/ next.nd = se.nd
          \/ rec.more /\ next.nd = BeginNextChunk(n, se.nd).nd
          \/ next.nd = BecomeLeader(se.nd)
      /\ \/ next.nd = se.nd /\ next.out = {}
         \/ /\ rec.more /\ next = BeginNextChunk(n, se.nd) /\ ~ (drive_limit < limit)
         \/ /\ ~ rec.more /\ next.nd = BecomeLeader(se.nd) /\ next.out = {}
            /\ ~ (drive_limit < limit)
  <2>1. CASE next = Nothing(se.nd)
    BY <2>1 DEF Nothing, Result
  <2>2. CASE rec.more /\ next = BeginNextChunk(n, se.nd) /\ ~ (drive_limit < limit)
    <3>1. PICK b : b = BeginNextChunk(n, se.nd)
      OBVIOUS
    <3>2. rec.last < MaxSlot
      BY <1>2, <2>2 DEF RecoveryTyped
    <3>3. b.nd.ledger = se.nd.ledger
      BY <1>2, <1>11, <3>1, <3>2, NextChunkFacts
    <3>4. \A m \in b.out : m.type = "Prepare"
      BY <1>11, <3>1, NextChunkOffice
    <3>5. next = b
      BY <2>2, <3>1
    <3> HIDE DEF next
    <3> QED
      BY <2>2, <3>1, <3>3, <3>4, <3>5 DEF Repeats
  <2>3. CASE /\ ~ rec.more /\ next = Nothing(BecomeLeader(se.nd)) /\ ~ (drive_limit < limit)
    <3>1. PICK b : b = BecomeLeader(se.nd)
      OBVIOUS
    <3>2. next.nd = b /\ next.out = {}
      BY <2>3, <3>1 DEF Nothing, Result
    <3>3. b.ledger = se.nd.ledger
      BY <1>2, <1>11, <3>1, BecomeLeaderFacts
    <3> HIDE DEF next
    <3> QED
      BY <2>3, <3>1, <3>2, <3>3
  <2> QED
    BY <1>9, <2>1, <2>2, <2>3
<1> HIDE DEF next
<1>16. PICK told : told = commits \cup learn \cup next.out
  OBVIOUS
<1>17. r.nd = next.nd /\ r.w = ww /\ r.out = se.out \cup told
  BY <1>1, <1>9, <1>16 DEF Result
<1>18. \A s \in adopted \cup open : /\ s \in rec.base .. rec.last
                                    /\ val[s] = SelectedValue(nd, s)
  BY <1>4, <1>6, <1>v
<1>19. Resolves(n, nd, r, se.nd, se.out, told, adopted, open, val)
  BY <1>11, <1>13, <1>14, <1>15, <1>16, <1>17, <1>18, <1>c DEF Resolves
<1>20. Finishes(n, nd, r, se.nd, told, adopted, open)
  <2>1. se.nd.delivered_through >= nd.delivered_through
    BY <1>8, <1>10, DriveFacts
  <2>2. /\ r.w = ww /\ r.nd = next.nd /\ adopted \subseteq DOMAIN ww.chosen
        /\ Places(l, se.nd.ledger, nd.memory_floor, ww)
        /\ WritesTyped(ww, nd.memory_floor + Window)
    BY <1>11, <1>17
  <2>3. CASE next.nd = se.nd /\ next.out = {}
    <3>1. Mute(told)
      BY <1>16, <1>z, <2>3
    <3> QED
      BY <1>y, <2>1, <2>2, <2>3, <3>1 DEF Finishes
  <2>4. CASE rec.more /\ next = BeginNextChunk(n, se.nd) /\ ~ (drive_limit < limit)
    <3>1. \A m \in told : m.type \in Campaign => m \in BeginNextChunk(n, se.nd).out
      BY <1>16, <1>z, <2>4 DEF Mute
    <3>2. \A s \in rec.base .. rec.last :
             s > Fence(nd) => s \in adopted \cup open \/ ledger_is_chosen(l, s)
      BY <1>w, <1>y, <2>4
    <3> QED
      BY <1>y, <2>1, <2>2, <2>4, <3>1, <3>2 DEF Finishes
  <2>5. CASE ~ rec.more /\ next.nd = BecomeLeader(se.nd) /\ next.out = {}
             /\ ~ (drive_limit < limit)
    <3>1. Mute(told)
      BY <1>16, <1>z, <2>5
    <3>2. \A s \in rec.base .. rec.last :
             s > Fence(nd) /\ rec.recovered[s].state # "Empty"
               => s \in adopted \cup open \/ ledger_is_chosen(l, s)
      BY <1>w, <1>y, <2>5
    <3> QED
      BY <1>y, <2>1, <2>2, <2>5, <3>1, <3>2 DEF Finishes
  <2> QED
    BY <1>15, <2>3, <2>4, <2>5
<1> QED
  BY <1>19, <1>20 DEF r

\* The slots a frozen selection leaves open can take the value it selects.
SelectsSafely(nd, b) ==
  \A s \in nd.recovery.base .. nd.recovery.last :
    s > Fence(nd) /\ nd.recovery.recovered[s].state # "Chosen"
      => Safe(disk, votes, s, b, SelectedValue(nd, s))

\* A candidate whose selection is frozen, as nd: node n with recovery rec.
Frozen(n, nd) ==
  /\ NodeTyped(nd) /\ nd.role = "Preparing" /\ nd.recovery.ready
  /\ nd.ballot = node[n].ballot /\ nd.ledger = node[n].ledger /\ nd.lead = node[n].lead
  /\ nd.memory_floor = node[n].memory_floor
  /\ nd.delivered_through = node[n].delivered_through
  /\ Collected(nd.recovery, votes)
  /\ \A s, v : Said(net, votes, s, nd.ballot, v) => Recorded(nd.ledger, s) /\ Selected(nd, s, v)

LEMMA ResolveSays ==
  ASSUME TypeInv, TermInv, DecisionInv, NEW n \in Node, node[n].role = "Preparing",
         NEW nd, Frozen(n, nd), NEW used, FinishResult(n, ResolveChunk(n, nd), used)
  PROVE  Says(n) /\ (Within(node[n]) /\ SelectsSafely(nd, node[n].ballot) => Utters(n))
<1>1. /\ NodeTyped(nd) /\ nd.role = "Preparing" /\ nd.recovery.ready
      /\ nd.ballot = node[n].ballot /\ nd.ledger = node[n].ledger /\ nd.lead = node[n].lead
      /\ nd.memory_floor = node[n].memory_floor
      /\ nd.delivered_through = node[n].delivered_through
      /\ Collected(nd.recovery, votes)
      /\ \A s, v : Said(net, votes, s, nd.ballot, v)
                     => Recorded(nd.ledger, s) /\ Selected(nd, s, v)
  BY DEF Frozen
<1>2. PICK r : r = ResolveChunk(n, nd)
  OBVIOUS
<1>3. Works(nd, r.nd, r.w) /\ Finish(n, r.nd, r.w, r.out, used)
  BY <1>1, <1>2, ResolveWorks DEF FinishResult
<1>4. PICK sent, asked, told, adopted, open, val :
        Resolves(n, nd, r, sent, asked, told, adopted, open, val)
        /\ Finishes(n, nd, r, sent, told, adopted, open)
  BY <1>1, <1>2, ResolveResolves
<1>5. /\ NodeTyped(sent) /\ sent.role = nd.role /\ sent.ballot = nd.ballot
      /\ sent.recovery = nd.recovery /\ sent.next_slot = nd.next_slot
      /\ sent.ledger = r.nd.ledger
      /\ Proposes(n, nd, sent, r.w, asked, adopted, open, val)
      /\ \A s \in adopted \cup open : /\ s \in nd.recovery.base .. nd.recovery.last
                                      /\ val[s] = SelectedValue(nd, s)
      /\ \A s \in adopted : Adoptable(nd.recovery.recovered[s])
      /\ \A m \in told : Repeats(m, r.nd.ledger)
      /\ r.out = asked \cup told
      /\ \/ r.nd = sent
         \/ nd.recovery.more /\ r.nd = BeginNextChunk(n, sent).nd
         \/ r.nd = BecomeLeader(sent)
  BY <1>4 DEF Resolves
<1>6. /\ RecoveryTyped(nd.recovery) /\ nd.recovery.base \in Nat /\ nd.recovery.last \in Nat
      /\ nd.recovery.base <= nd.recovery.last /\ nd.recovery.last <= MaxSlot
      /\ DOMAIN nd.recovery.recovered = nd.recovery.base .. nd.recovery.last
  <2>1. RecoveryTyped(nd.recovery)
    BY <1>1 DEF NodeTyped
  <2>2. nd.recovery.base \in Slot /\ nd.recovery.last = slot_add(nd.recovery.base, Chunk - 1)
    BY <2>1 DEF RecoveryTyped
  <2>3. Chunk - 1 \in Nat /\ nd.recovery.base \in 0 .. (MaxSlot + 1) /\ nd.recovery.base <= MaxSlot
    BY <2>2, Constants DEF Slot
  <2>4. nd.recovery.last \in nd.recovery.base .. MaxSlot
    BY <2>2, <2>3, SlotAdd
  <2> QED
    BY <2>1, <2>2, <2>4, Constants DEF Slot, RecoveryTyped
<1>7. Works(node[n], r.nd, r.w)
  BY <1>1, <1>3, SameWindowWorks
<1>8. /\ r.nd.ballot = nd.ballot /\ r.nd.lead = sent.lead
      /\ Collected(r.nd.recovery, votes)
      /\ \/ r.nd = sent
         \/ r.nd.role = "Preparing" /\ r.nd.recovery.base = nd.recovery.last + 1
         \/ /\ r.nd.role = "Leader"
            /\ \A s \in Slot : Recorded(r.nd.ledger, s) => s < r.nd.next_slot \/ s = MaxSlot
  <2>1. CASE r.nd = sent
    BY <1>1, <1>5, <2>1
  <2>2. CASE r.nd = BeginNextChunk(n, sent).nd
    BY <1>1, <1>5, <2>2, NextChunkOffice
  <2>3. CASE r.nd = BecomeLeader(sent)
    <3>1. Collected(NoRecovery, votes)
      BY DEF Collected, NoRecovery
    <3> QED
      BY <1>5, <1>6, <2>3, <3>1, BecomeLeaderOffice
  <2> QED
    BY <1>5, <2>1, <2>2, <2>3
<1>9. Proposes(n, node[n], r.nd, r.w, asked, adopted, open, val)
  BY <1>1, <1>5, <1>8 DEF Proposes
<1>10. \A s \in adopted : Chose(votes, s, val[s])
  <2> SUFFICES ASSUME NEW s \in adopted PROVE Chose(votes, s, val[s])
    OBVIOUS
  <2>1. nd.recovery.recovered[s].state = "Chosen" /\ s \in DOMAIN nd.recovery.recovered
    BY <1>5, <1>6 DEF Adoptable
  <2>2. val[s] = nd.recovery.recovered[s].value
    BY <1>5, <2>1 DEF SelectedValue
  <2> QED
    BY <1>1, <2>1, <2>2 DEF Collected
<1>11. ASSUME NEW s \in open, NEW u, Said(net, votes, s, node[n].ballot, u) PROVE u = val[s]
  <2>1. Selected(nd, s, u)
    BY <1>1, <1>11
  <2>2. s \in Nat /\ s >= nd.recovery.base /\ val[s] = SelectedValue(nd, s)
    BY <1>5, <1>6
  <2> QED
    BY <1>6, <2>1, <2>2 DEF Selected
<1>12. ASSUME NEW s, NEW v,
              VoteOf(n, s, r.nd.ballot, v) \in votes \/ (s \in open /\ v = val[s])
       PROVE  s \in Slot /\ Recorded(r.nd.ledger, s) /\ Selected(nd, s, v)
              /\ s <= nd.recovery.last
  <2>1. CASE VoteOf(n, s, r.nd.ballot, v) \in votes
    <3>1. Said(net, votes, s, nd.ballot, v)
      BY <1>8, <2>1, VoteSays
    <3>2. s \in Slot /\ s \in Nat
      BY <3>1, SaidSlots, Constants DEF Slot
    <3>3. Recorded(nd.ledger, s) /\ Selected(nd, s, v)
      BY <1>1, <3>1
    <3>4. s <= nd.recovery.last
      BY <1>6, <3>2, <3>3 DEF Selected
    <3> QED
      BY <1>1, <1>3, <3>2, <3>3, <3>4, WorksRecords
  <2>2. CASE s \in open /\ v = val[s]
    <3>1. s \in DOMAIN r.w.votes /\ s \in nd.recovery.base .. nd.recovery.last
      BY <1>5, <2>2 DEF Proposes
    <3>2. s \in Slot /\ s <= nd.recovery.last
      BY <1>6, <3>1, Constants DEF Slot, RecoveryTyped
    <3>3. Selected(nd, s, v)
      BY <1>1, <1>5, <2>2, <3>2 DEF Selected
    <3> QED
      BY <1>1, <1>3, <3>1, <3>2, <3>3, WorksRecords
  <2> QED
    BY <1>12, <2>1, <2>2
<1>13. ASSUME NEW s, NEW v,
              VoteOf(n, s, r.nd.ballot, v) \in votes \/ (s \in open /\ v = val[s])
       PROVE  Limits(r.nd, s, v)
  <2>1. s \in Slot /\ Recorded(r.nd.ledger, s) /\ Selected(nd, s, v)
        /\ s <= nd.recovery.last /\ s \in Nat
    BY <1>12, <1>13, Constants DEF Slot
  <2>2. CASE r.nd = sent
    BY <1>1, <1>5, <2>1, <2>2 DEF Limits, Selected, SelectedValue
  <2>3. CASE r.nd.role = "Preparing" /\ r.nd.recovery.base = nd.recovery.last + 1
    BY <1>6, <2>1, <2>3 DEF Limits, Selected
  <2>4. CASE /\ r.nd.role = "Leader"
             /\ \A t \in Slot : Recorded(r.nd.ledger, t) => t < r.nd.next_slot \/ t = MaxSlot
    BY <2>1, <2>4 DEF Limits
  <2> QED
    BY <1>8, <2>2, <2>3, <2>4
<1>14. PICK new, w, out : new = r.nd /\ w = r.w /\ out = r.out
  OBVIOUS
<1>15. /\ node[n].role # "Follower" /\ Works(node[n], new, w) /\ new.ballot = node[n].ballot
       /\ Proposes(n, node[n], new, w, asked, adopted, open, val)
       /\ Collected(new.recovery, votes)
       /\ Finish(n, new, w, out, used) /\ out = asked \cup told
       /\ \A m \in told : Repeats(m, new.ledger)
  BY <1>1, <1>3, <1>5, <1>7, <1>8, <1>9, <1>14
<1>16. /\ \A s \in open : \A u : Said(net, votes, s, node[n].ballot, u) => u = val[s]
       /\ \A s, v : VoteOf(n, s, new.ballot, v) \in votes \/ (s \in open /\ v = val[s])
                      => Limits(new, s, v)
  BY <1>11, <1>13, <1>14
<1>17. /\ Says(n)
       /\ Within(node[n])
            /\ (\A s \in open : Safe(disk, votes, s, node[n].ballot, val[s])) => Utters(n)
  BY <1>10, <1>15, <1>16, ProposingSays
<1>18. ASSUME SelectsSafely(nd, node[n].ballot), NEW s \in open
       PROVE  Safe(disk, votes, s, node[n].ballot, val[s])
  <2>1. /\ s \in nd.recovery.base .. nd.recovery.last /\ val[s] = SelectedValue(nd, s)
        /\ s > Fence(nd) /\ nd.recovery.recovered[s].state # "Chosen"
    BY <1>4, <1>5 DEF Finishes
  <2> QED
    BY <1>18, <2>1 DEF SelectsSafely
<1> QED
  BY <1>17, <1>18

\* Nothing is frozen yet: a candidate has proposed for the chunks behind it only.
LEMMA NothingInTheChunk ==
  ASSUME TypeInv, TermInv, NEW n \in Node, node[n].role = "Preparing",
         NEW s, NEW v, Said(net, votes, s, node[n].ballot, v)
  PROVE  /\ Recorded(node[n].ledger, s) /\ Selected(node[n], s, v)
         /\ ~ node[n].recovery.ready => s < node[n].recovery.base
  BY DEF TermInv, Term, Limits, Selected

\* new is k with its selection frozen, more chunks to follow or not.
Freezes(k, mo, new) ==
  \E yes \in BOOLEAN :
    /\ yes = TRUE /\ (mo => k.recovery.last < MaxSlot)
    /\ new = [k EXCEPT !.recovery.ready = yes, !.recovery.more = mo]

LEMMA FrozenRecord ==
  ASSUME NEW k, NodeTyped(k), k.role = "Preparing", NEW mo \in BOOLEAN, NEW new,
         Freezes(k, mo, new)
  PROVE  \E fr : /\ RecoveryTyped(fr) /\ fr.ready /\ fr.base = k.recovery.base
                 /\ fr.last = k.recovery.last /\ fr.peer = k.recovery.peer /\ fr.more = mo
                 /\ fr.recovered = k.recovery.recovered /\ new = [k EXCEPT !.recovery = fr]
<1> DEFINE rec == k.recovery
<1>1. RecoveryTyped(rec)
  BY DEF NodeTyped
<1>2. PICK yes \in BOOLEAN :
        /\ yes = TRUE /\ (mo => rec.last < MaxSlot)
        /\ new = [k EXCEPT !.recovery.ready = yes, !.recovery.more = mo]
  BY Zenon DEF Freezes
<1>3. PICK fr : fr = [base |-> rec.base, last |-> rec.last, ready |-> yes, more |-> mo,
                      peer |-> rec.peer, recovered |-> rec.recovered]
  OBVIOUS
<1>4. rec = [base |-> rec.base, last |-> rec.last, ready |-> rec.ready, more |-> rec.more,
             peer |-> rec.peer, recovered |-> rec.recovered]
  BY <1>1 DEF RecoveryTyped
<1>5. new = [k EXCEPT !.recovery = [[rec EXCEPT !.ready = yes] EXCEPT !.more = mo]]
  BY <1>2 DEF NodeTyped
<1>6. [[rec EXCEPT !.ready = yes] EXCEPT !.more = mo] = fr
  <2>1. PICK b, last, rdy, m, peer, rep :
          /\ rec = [base |-> b, last |-> last, ready |-> rdy, more |-> m,
                    peer |-> peer, recovered |-> rep]
          /\ b = rec.base /\ last = rec.last /\ peer = rec.peer /\ rep = rec.recovered
    BY <1>4
  <2> HIDE DEF rec
  <2>2. fr = [base |-> b, last |-> last, ready |-> yes, more |-> mo,
              peer |-> peer, recovered |-> rep]
    BY <1>3, <2>1
  <2>3. PICK q : q = [rec EXCEPT !.ready = yes]
    OBVIOUS
  <2>4. q = [base |-> b, last |-> last, ready |-> yes, more |-> m,
             peer |-> peer, recovered |-> rep]
    BY <2>1, <2>3
  <2>5. [q EXCEPT !.more = mo] = [base |-> b, last |-> last, ready |-> yes, more |-> mo,
                                  peer |-> peer, recovered |-> rep]
    BY ONLY <2>4
  <2> QED
    BY <2>2, <2>3, <2>5
<1>7. RecoveryTyped(fr)
  BY <1>1, <1>2, <1>3 DEF RecoveryTyped
<1>8. fr.ready /\ fr.base = rec.base /\ fr.recovered = rec.recovered
      /\ fr.last = rec.last /\ fr.peer = rec.peer /\ fr.more = mo
  BY <1>2, <1>3
<1>9. new = [k EXCEPT !.recovery = fr]
  BY <1>5, <1>6
<1> QED
  BY <1>7, <1>8, <1>9

\* A candidate freezes its selection once a read quorum has described the chunk: f is k as it is if its selection was frozen, or with the selection frozen now.
Froze(k, f) ==
  /\ f.ballot = k.ballot /\ f.ledger = k.ledger /\ f.delivered_through = k.delivered_through
  /\ f.recovery.base = k.recovery.base /\ f.recovery.last = k.recovery.last
  /\ f.recovery.recovered = k.recovery.recovered /\ f.recovery.peer = k.recovery.peer
  /\ \/ f = k
     \/ /\ Cardinality({p \in Node : Complete(k.recovery, p)}) >= ReadQuorum
        /\ ~ f.recovery.more =>
             \A p \in Node : Complete(k.recovery, p) => ~ k.recovery.peer[p].more

LEMMA CollectedFreezes ==
  ASSUME TypeInv, TermInv, NEW n \in Node, node[n].role = "Preparing",
         NEW rec, RecoveryTyped(rec), Collected(rec, votes),
         rec = node[n].recovery
           \/ (~ node[n].recovery.ready /\ rec.ready = node[n].recovery.ready
                 /\ rec.base = node[n].recovery.base),
         NEW k, k = [node[n] EXCEPT !.recovery = rec],
         NEW r, r \in {MaybeResolve(n, k), Nothing(k)},
         r # Nothing(k)
  PROVE  \E f : Frozen(n, f) /\ r = ResolveChunk(n, f) /\ Froze(k, f)
<1> DEFINE nd == node[n]
           complete == {p \in Node : Complete(rec, p)}
           frozen == [k EXCEPT !.recovery.ready = TRUE,
                               !.recovery.more = \E p \in complete : rec.peer[p].more]
<1>1. NodeTyped(nd) /\ nd.delivered_through + Window \in Nat
  BY NodeFacts, Constants
<1>2. /\ NodeTyped(k) /\ k.recovery = rec /\ k.role = nd.role /\ k.ballot = nd.ballot
      /\ k.ledger = nd.ledger /\ k.lead = nd.lead /\ k.next_slot = nd.next_slot
      /\ k.memory_floor = nd.memory_floor /\ k.delivered_through = nd.delivered_through
  BY <1>1, RecoveryNode DEF NodeTyped
<1>3. \/ r = Nothing(k)
      \/ (r = ResolveChunk(n, k) /\ rec.ready)
      \/ /\ r = ResolveChunk(n, frozen) /\ ~ rec.ready
         /\ Cardinality(complete) >= ReadQuorum
  <2>1. MaybeResolve(n, k) =
          CASE rec.ready -> ResolveChunk(n, k)
            [] ~ rec.ready /\ Cardinality(complete) >= ReadQuorum -> ResolveChunk(n, frozen)
            [] OTHER -> Nothing(k)
    BY <1>2 DEF MaybeResolve
  <2> HIDE DEF complete, frozen
  <2>2. rec.ready \in BOOLEAN
    BY DEF RecoveryTyped
  <2> QED
    BY <2>1, <2>2
<1>5. CASE r = ResolveChunk(n, k) /\ rec.ready
  <2>1. k.recovery = node[n].recovery
    BY <1>2, <1>5
  <2>2. \A s, v : Selected(node[n], s, v) => Selected(k, s, v)
    BY <2>1 DEF Selected, SelectedValue
  <2>3. \A s, v : Said(net, votes, s, k.ballot, v) => Recorded(k.ledger, s) /\ Selected(k, s, v)
    <3> SUFFICES ASSUME NEW s, NEW v, Said(net, votes, s, k.ballot, v)
                 PROVE  Recorded(k.ledger, s) /\ Selected(k, s, v)
      OBVIOUS
    <3>1. Said(net, votes, s, node[n].ballot, v)
      BY <1>2
    <3>2. Recorded(node[n].ledger, s) /\ Selected(node[n], s, v)
      BY <3>1, NothingInTheChunk
    <3> QED
      BY <3>2, <2>2, <1>2
  <2>4. Frozen(n, k)
    BY <1>2, <1>5, <2>3 DEF Frozen
  <2> QED
    BY <1>5, <2>4 DEF Froze
<1>6. CASE /\ r = ResolveChunk(n, frozen) /\ ~ rec.ready
           /\ Cardinality(complete) >= ReadQuorum
  <2>1. PICK f : f = frozen
    BY Zenon
  <2>a. PICK yes \in BOOLEAN, mo \in BOOLEAN :
          /\ yes = TRUE /\ mo = (\E p \in complete : rec.peer[p].more)
          /\ mo => k.recovery.last < MaxSlot
    BY <1>2 DEF RecoveryTyped
  <2>2. PICK fr : /\ RecoveryTyped(fr) /\ fr.ready /\ fr.base = rec.base
                  /\ fr.last = rec.last /\ fr.peer = rec.peer /\ fr.more = mo
                  /\ fr.recovered = rec.recovered /\ f = [k EXCEPT !.recovery = fr]
    <3>4. f = [k EXCEPT !.recovery.ready = yes, !.recovery.more = mo]
      BY <2>1, <2>a
    <3>5. Freezes(k, mo, f)
      BY <2>a, <3>4, Zenon DEF Freezes
    <3>2. NodeTyped(k) /\ k.role = "Preparing"
      BY <1>2
    <3>3. \E fr : /\ RecoveryTyped(fr) /\ fr.ready /\ fr.base = k.recovery.base
                 /\ fr.last = k.recovery.last /\ fr.peer = k.recovery.peer /\ fr.more = mo
                 /\ fr.recovered = k.recovery.recovered /\ f = [k EXCEPT !.recovery = fr]
      BY ONLY <3>2, <3>5, FrozenRecord
    <3> QED
      BY <1>2, <3>3, ZenonT(60)
  <2>3. f.lead = nd.lead
    BY <1>2, <2>2 DEF NodeTyped
  <2>4. /\ NodeTyped(f) /\ f.role = nd.role /\ f.ballot = nd.ballot /\ f.ledger = nd.ledger
        /\ f.memory_floor = nd.memory_floor /\ f.delivered_through = nd.delivered_through
        /\ f.recovery = fr
    <3>1. NodeTyped(k) /\ RecoveryTyped(fr)
      BY <1>2, <2>2
    <3>2. LET new == [k EXCEPT !.recovery = fr] IN
          /\ NodeTyped(new) /\ new.recovery = fr /\ new.role = k.role
          /\ new.ballot = k.ballot /\ new.ledger = k.ledger
          /\ new.memory_floor = k.memory_floor /\ new.delivered_through = k.delivered_through
      BY ONLY <3>1, RecoveryNode
    <3> QED
      BY <1>2, <2>2, <3>2
  <2>5. nd.recovery.base = rec.base /\ ~ nd.recovery.ready
    BY <1>6
  <2>6. \A s, v : Said(net, votes, s, f.ballot, v) => Recorded(f.ledger, s) /\ Selected(f, s, v)
    <3> SUFFICES ASSUME NEW s, NEW v, Said(net, votes, s, f.ballot, v)
                 PROVE  Recorded(f.ledger, s) /\ Selected(f, s, v)
      OBVIOUS
    <3>1. Said(net, votes, s, node[n].ballot, v)
      BY <2>4
    <3>2. Recorded(node[n].ledger, s) /\ s < rec.base
      BY <3>1, <2>5, NothingInTheChunk
    <3> HIDE DEF nd
    <3>3. f.ledger = node[n].ledger /\ f.recovery.base = rec.base
      BY <2>2, <2>4 DEF nd
    <3> QED
      BY <3>2, <3>3 DEF Selected
  <2>7. Collected(f.recovery, votes)
    BY <2>2, <2>4 DEF Collected
  <2>8. Frozen(n, f)
    BY <2>2, <2>3, <2>4, <2>6, <2>7 DEF Frozen
  <2>9. Cardinality(complete) >= ReadQuorum
    BY <1>6
  <2>10. ~ fr.more => \A p \in complete : ~ rec.peer[p].more
    <3>1. ~ mo => \A p \in complete : ~ rec.peer[p].more
      BY <2>a
    <3>2. mo => fr.more
      BY <2>2, Zenon
    <3> HIDE DEF complete
    <3> QED
      BY <3>1, <3>2, Zenon
  <2>11. Froze(k, f)
    BY <1>2, <2>2, <2>4, <2>9, <2>10 DEF Froze
  <2> QED
    BY <1>6, <2>1, <2>8, <2>11, Zenon
<1> QED
  BY <1>3, <1>5, <1>6

\* It counts a report, or only looks at what it has, and then resolves if it is frozen.
LEMMA CollectingSays ==
  ASSUME TypeInv, TermInv, DecisionInv, NEW n \in Node, node[n].role = "Preparing",
         NEW rec, RecoveryTyped(rec), Collected(rec, votes),
         rec = node[n].recovery
           \/ (~ node[n].recovery.ready /\ rec.ready = node[n].recovery.ready
                 /\ rec.base = node[n].recovery.base),
         NEW k, k = [node[n] EXCEPT !.recovery = rec],
         NEW r, r \in {MaybeResolve(n, k), Nothing(k)},
         NEW used, Finish(n, r.nd, r.w, r.out, used)
  PROVE  Says(n) /\ (r = Nothing(k) => Utters(n))
<1> DEFINE nd == node[n]
<1>1. NodeTyped(nd) /\ nd.delivered_through + Window \in Nat
  BY NodeFacts, Constants
<1>2. /\ NodeTyped(k) /\ k.recovery = rec /\ k.role = nd.role /\ k.ballot = nd.ballot
      /\ k.ledger = nd.ledger /\ k.lead = nd.lead /\ k.next_slot = nd.next_slot
      /\ k.memory_floor = nd.memory_floor /\ k.delivered_through = nd.delivered_through
  BY <1>1, RecoveryNode DEF NodeTyped
<1>3. CASE r # Nothing(k)
  <2>1. PICK f : Frozen(n, f) /\ r = ResolveChunk(n, f)
    BY <1>3, CollectedFreezes
  <2>2. FinishResult(n, ResolveChunk(n, f), used)
    BY <2>1 DEF FinishResult
  <2> QED
    BY <1>3, <2>1, <2>2, ResolveSays
<1>4. CASE r = Nothing(k)
  <2>1. r.nd = k /\ r.w = NoWrites /\ r.out = {}
    BY <1>4 DEF Nothing, Result
  <2>2. Works(k, k, NoWrites)
    BY <1>2, NothingWorks
  <2>3. Works(nd, k, NoWrites)
    BY <1>2, <2>2, SameWindowWorks
  <2>4. DOMAIN NoWrites.votes = {} /\ DOMAIN NoWrites.chosen = {}
    BY EmptyBatch
  <2> HIDE DEF nd
  <2>5. /\ k.recovery.base = nd.recovery.base
        /\ ~ nd.recovery.ready \/ k.recovery = nd.recovery
    BY <1>2 DEF nd
  <2>6. Quiet(nd, k)
    BY <1>2, <2>5 DEF Quiet
  <2>7. Collected(k.recovery, votes) /\ \A c \in Cells : Counted(n, k.lead[c], votes)
    BY <1>2 DEF DecisionInv, nd
  <2>8. Finish(n, k, NoWrites, {}, used)
    BY <2>1
  <2>9. Tells({})
    BY PlainTells
  <2> QED
    BY <2>3, <2>4, <2>6, <2>7, <2>8, <2>9, QuietWorkSays DEF nd
<1> QED
  BY <1>3, <1>4

\* A candidate looks at what it has: what it is frozen on, or whether that is enough.
LEMMA LooksAgainSays ==
  ASSUME TypeInv, TermInv, DecisionInv, NEW n \in Node, node[n].role = "Preparing", NEW used,
         \/ FinishResult(n, MaybeResolve(n, node[n]), used)
         \/ node[n].recovery.ready /\ FinishResult(n, ResolveChunk(n, node[n]), used)
  PROVE  Says(n)
<1>1. PICK k : k = node[n]
  OBVIOUS
<1>2. PICK rec : rec = k.recovery
  OBVIOUS
<1>3. NodeTyped(k) /\ RecoveryTyped(rec) /\ k = [k EXCEPT !.recovery = rec]
  BY <1>1, <1>2, NodeFacts DEF NodeTyped
<1>4. Collected(rec, votes)
  BY <1>1, <1>2 DEF DecisionInv
<1>5. PICK r : r = MaybeResolve(n, k)
  OBVIOUS
<1>6. rec.ready => MaybeResolve(n, k) = ResolveChunk(n, k)
  BY <1>2 DEF MaybeResolve
<1>7. Finish(n, r.nd, r.w, r.out, used)
  BY <1>1, <1>2, <1>5, <1>6 DEF FinishResult
<1>8. r \in {MaybeResolve(n, k), Nothing(k)}
  BY <1>5
<1>9. rec = node[n].recovery /\ k = [node[n] EXCEPT !.recovery = rec]
  BY <1>1, <1>2, <1>3
<1> QED
  BY <1>3, <1>4, <1>7, <1>8, <1>9, CollectingSays

LEMMA RetrySays ==
  ASSUME TypeInv, TermInv, DecisionInv, NEW n \in Node, Retry(n)
  PROVE  Says(n)
  BY LooksAgainSays DEF Retry

\* One member's part of a campaign's reports is replaced, and nothing else.
Recounts(rec, got, p, q) ==
  /\ RecoveryTyped(got) /\ got.base = rec.base /\ got.ready = rec.ready
  /\ got.last = rec.last /\ got.recovered = rec.recovered
  /\ got.peer = [rec.peer EXCEPT ![p] = q]

LEMMA PeerRecounted ==
  ASSUME NEW nd, NodeTyped(nd), nd.role = "Preparing", NEW p \in Node, NEW q \in PeerType,
         q.more => nd.recovery.last < MaxSlot
  PROVE  LET k == [nd EXCEPT !.recovery.peer[p] = q] IN
         \E got : Recounts(nd.recovery, got, p, q) /\ k = [nd EXCEPT !.recovery = got]
<1> DEFINE rec == nd.recovery
           k == [nd EXCEPT !.recovery.peer[p] = q]
<1>1. /\ RecoveryTyped(rec) /\ rec.peer \in [Node -> PeerType]
      /\ \A r \in Node : rec.peer[r].more => rec.last < MaxSlot
  BY DEF NodeTyped, RecoveryTyped
<1>2. PICK peer : peer = [rec.peer EXCEPT ![p] = q]
  OBVIOUS
<1>3. peer \in [Node -> PeerType] /\ \A r \in Node : peer[r].more => rec.last < MaxSlot
  BY <1>1, <1>2
<1>4. PICK r1 : r1 = [rec EXCEPT !.peer = peer]
  OBVIOUS
<1>5. Recounts(rec, r1, p, q)
  <2>1. r1.peer = peer
    BY <1>1, <1>4 DEF RecoveryTyped
  <2> QED
    BY <1>1, <1>2, <1>3, <1>4, <2>1, CollectedTyped DEF Recounts
<1>6. k = [nd EXCEPT !.recovery = [rec EXCEPT !.peer = [rec.peer EXCEPT ![p] = q]]]
  BY <1>1 DEF NodeTyped, RecoveryTyped
<1>7. k = [nd EXCEPT !.recovery = r1]
  BY <1>2, <1>4, <1>6
<1> QED
  BY <1>5, <1>7

\* A candidate that is not frozen counts a member's answer and reports nothing new.
LEMMA RecountSays ==
  ASSUME TypeInv, TermInv, DecisionInv, NEW n \in Node, node[n].role = "Preparing",
         ~ node[n].recovery.ready, NEW p \in Node, NEW q \in PeerType,
         q.more => node[n].recovery.last < MaxSlot,
         NEW k, k = [node[n] EXCEPT !.recovery.peer[p] = q],
         NEW used, \/ FinishResult(n, MaybeResolve(n, k), used)
                   \/ FinishResult(n, Nothing(k), used)
  PROVE  Says(n)
<1>1. NodeTyped(node[n])
  BY NodeFacts
<1>2. PICK rec : Recounts(node[n].recovery, rec, p, q) /\ k = [node[n] EXCEPT !.recovery = rec]
  BY <1>1, PeerRecounted, SMTT(30)
<1>3. /\ RecoveryTyped(rec) /\ rec.base = node[n].recovery.base
      /\ rec.ready = node[n].recovery.ready /\ rec.recovered = node[n].recovery.recovered
  BY <1>2 DEF Recounts
<1>4. Collected(node[n].recovery, votes)
  BY DEF DecisionInv
<1>5. Collected(rec, votes)
  BY <1>3, <1>4 DEF Collected
<1>6. PICK r : /\ r \in {MaybeResolve(n, k), Nothing(k)}
               /\ Finish(n, r.nd, r.w, r.out, used)
  BY DEF FinishResult
<1> QED
  BY <1>2, <1>3, <1>5, <1>6, CollectingSays

\* m is counted in got: the slots its sender reported, and the better report of the slot.
CountsReport(n, m, got) ==
  LET rec == node[n].recovery
      new == [state |-> m.state, ballot |-> m.vote, value |-> m.value]
      old == rec.recovered[m.slot]
  IN  /\ RecoveryTyped(got) /\ ~ rec.ready /\ got.ready = rec.ready
      /\ got.base = rec.base /\ got.last = rec.last /\ m.slot \in DOMAIN rec.recovered
      /\ got.peer = [rec.peer EXCEPT ![m.from].seen = @ \cup {m.slot}]
      /\ DOMAIN got.recovered = DOMAIN rec.recovered
      /\ got.recovered[m.slot] = IF Better(new, old) THEN new ELSE old
      /\ \A s \in DOMAIN rec.recovered : s # m.slot => got.recovered[s] = rec.recovered[s]

LEMMA OnPromiseCounts ==
  ASSUME TypeInv, TermInv, DecisionInv, NEW n \in Node, NEW m \in Received(n, "Promise"), OnPromise(n, m)
  PROVE  \/ node[n].recovery.ready /\ FinishResult(n, ResolveChunk(n, node[n]), Consumed(m))
         \/ \E got, k, r : /\ CountsReport(n, m, got) /\ Collected(got, votes)
                           /\ k = [node[n] EXCEPT !.recovery = got]
                           /\ r \in {MaybeResolve(n, k), Nothing(k)}
                           /\ Finish(n, r.nd, r.w, r.out, Consumed(m))
<1> DEFINE nd == node[n]
           rec == nd.recovery
           new == [state |-> m.state, ballot |-> m.vote, value |-> m.value]
           old == rec.recovered[m.slot]
           best == IF Better(new, old) THEN new ELSE old
           counted == [nd EXCEPT !.recovery.peer[m.from].seen = @ \cup {m.slot}]
           merged == [counted EXCEPT !.recovery.recovered[m.slot] = best]
           result == IF Contradicts(new, old) THEN Nothing(counted) ELSE MaybeResolve(n, merged)
<1>1. /\ m.from \in Node /\ m.slot \in Slot /\ m.value \in Values /\ m.vote \in BallotSet
      /\ m.state \in {"Voted", "Chosen"}
  BY DEF TypeInv, Received, MessageTyped
<1>2. NodeTyped(nd) /\ nd.role = "Preparing"
  BY NodeFacts DEF OnPromise, Preparing
<1>3. /\ RecoveryTyped(rec) /\ rec.peer \in [Node -> PeerType]
      /\ rec.recovered \in [rec.base .. rec.last -> ReportType]
      /\ \A p \in Node : rec.peer[p].more => rec.last < MaxSlot
      /\ \A s \in rec.base .. rec.last : rec.recovered[s].state # "Empty"
                                           => rec.recovered[s].value \in Values
  BY <1>2, Zenon DEF NodeTyped, RecoveryTyped
<1>a. /\ Collected(rec, votes) /\ Told(m, votes) /\ m.type = "Promise"
  BY DEF DecisionInv, Received
<1>4. CASE rec.ready /\ FinishResult(n, ResolveChunk(n, nd), Consumed(m))
  BY <1>4
<1>5. CASE ~ rec.ready /\ m.slot \in DOMAIN rec.recovered /\ FinishResult(n, result, Consumed(m))
  <2>1. PICK peer : peer = [rec.peer EXCEPT ![m.from].seen = @ \cup {m.slot}]
    OBVIOUS
  <2>2. peer \in [Node -> PeerType] /\ \A p \in Node : peer[p].more => rec.last < MaxSlot
    <3> SUFFICES ASSUME NEW p \in Node
                 PROVE  /\ peer[p] \in PeerType /\ (peer[p].more => rec.last < MaxSlot)
                        /\ DOMAIN peer = Node
      BY <1>3, <2>1
    <3>1. PICK q : q = rec.peer[p]
      OBVIOUS
    <3>2. q \in PeerType /\ (q.more => rec.last < MaxSlot)
      BY <1>3, <3>1
    <3>3. peer[p] = q \/ peer[p] = [q EXCEPT !.seen = @ \cup {m.slot}]
      BY <1>3, <2>1, <3>1
    <3>4. q.seen \cup {m.slot} \in SUBSET Slot
      BY <1>1, <3>2 DEF PeerType
    <3>5. [q EXCEPT !.seen = @ \cup {m.slot}] \in PeerType
          /\ [q EXCEPT !.seen = @ \cup {m.slot}].more = q.more
      BY <3>2, <3>4 DEF PeerType
    <3>6. QED
      BY <1>3, <2>1, <3>2, <3>3, <3>5
  <2>3. PICK r1 : r1 = [rec EXCEPT !.peer = peer]
    OBVIOUS
  <2>4. RecoveryTyped(r1) /\ r1.base = rec.base /\ r1.last = rec.last
        /\ r1.recovered = rec.recovered /\ r1.ready = rec.ready
    BY <1>3, <2>2, <2>3, CollectedTyped
  <2>5. PICK k1 : k1 = [nd EXCEPT !.recovery = r1]
    OBVIOUS
  <2>6. counted = k1
    <3>1. counted = [nd EXCEPT !.recovery = [rec EXCEPT !.peer =
                        [rec.peer EXCEPT ![m.from].seen = @ \cup {m.slot}]]]
      BY <1>1, <1>2, <1>3, Zenon DEF NodeTyped, RecoveryTyped
    <3>2. QED
      BY <2>1, <2>3, <2>5, <3>1
  <2>7. CASE Contradicts(new, old)
    <3>1. PICK r : r = Nothing(k1)
      OBVIOUS
    <3>2. Finish(n, r.nd, r.w, r.out, Consumed(m))
      BY <1>5, <2>6, <2>7, <3>1 DEF FinishResult
    <3>3. r \in {MaybeResolve(n, k1), Nothing(k1)}
      BY <3>1
    <3>4. QED
      <4>1. Collected(r1, votes)
        BY <1>a, <2>4 DEF Collected
      <4>2. ~ Better(new, old)
        <5>1. new.ballot \in Nat /\ old.ballot \in Nat
          <6>1. new.ballot \in BallotSet
            BY <1>1
          <6>2. old \in ReportType
            BY <1>3, <1>5, Zenon
          <6> HIDE DEF new, old
          <6>3. old.ballot \in BallotSet
            BY <6>2 DEF ReportType
          <6> QED
            BY <6>1, <6>3, BallotsAreBounded, Zenon
        <5> HIDE DEF new, old
        <5>2. CASE new.state = "Chosen" /\ old.state = "Chosen"
          BY <5>2 DEF Better
        <5>3. CASE new.state = "Voted" /\ old.state = "Voted" /\ new.ballot = old.ballot
          <6>1. ~ (new.ballot > old.ballot)
            BY <5>1, <5>3
          <6> QED
            BY <5>3, <6>1 DEF Better
        <5> QED
          BY <2>7, <5>2, <5>3 DEF Contradicts
      <4>3. r1.peer = peer /\ r1.ready = rec.ready /\ r1.base = rec.base /\ r1.last = rec.last
            /\ r1.recovered = rec.recovered
        BY <1>3, <2>3, <2>4 DEF RecoveryTyped
      <4>4. r1.recovered[m.slot] = IF Better(new, old) THEN new ELSE old
        BY <4>2, <4>3
      <4>5. CountsReport(n, m, r1)
        BY <1>5, <2>1, <2>4, <4>3, <4>4, Zenon DEF CountsReport
      <4> QED
        BY <2>5, <3>2, <3>3, <4>1, <4>5
  <2>8. CASE ~ Contradicts(new, old)
    <3>1. PICK rep : rep = [rec.recovered EXCEPT ![m.slot] = best]
      OBVIOUS
    <3>2. best \in ReportType /\ (best.state # "Empty" => best.value \in Values)
      <4>1. new \in ReportType /\ new.value \in Values
        BY <1>1 DEF ReportType
      <4>2. old \in ReportType /\ (old.state # "Empty" => old.value \in Values)
        BY <1>3, <1>5, Zenon
      <4> HIDE DEF new, old
      <4>3. QED
        BY <4>1, <4>2
    <3>a. best.state = "Chosen" => Chose(votes, m.slot, best.value)
      <4>1. new.state = "Chosen" => Chose(votes, m.slot, new.value)
        BY <1>a DEF Told
      <4>2. old.state = "Chosen" => Chose(votes, m.slot, old.value)
        BY <1>a, <1>5 DEF Collected
      <4> HIDE DEF new, old
      <4> QED
        BY <4>1, <4>2
    <3> HIDE DEF best
    <3>3. /\ rep \in [r1.base .. r1.last -> ReportType]
          /\ \A s \in r1.base .. r1.last : rep[s].state # "Empty" => rep[s].value \in Values
      BY <1>3, <2>4, <3>1, <3>2
    <3>4. PICK r2 : r2 = [r1 EXCEPT !.recovered = rep]
      OBVIOUS
    <3>5. RecoveryTyped(r2)
      BY <2>4, <3>3, <3>4, ReportedTyped
    <3>6. PICK k2 : k2 = [nd EXCEPT !.recovery = r2]
      OBVIOUS
    <3>7. merged = k2
      <4>1. k1.recovery = r1 /\ NodeTyped(k1)
        BY <1>2, <2>4, <2>5, RecoveryNode
      <4>2. [k1 EXCEPT !.recovery.recovered[m.slot] = best] =
              [k1 EXCEPT !.recovery = [r1 EXCEPT !.recovered =
                 [r1.recovered EXCEPT ![m.slot] = best]]]
        BY <2>4, <4>1 DEF NodeTyped, RecoveryTyped
      <4>3. [k1 EXCEPT !.recovery = r2] = k2
        BY <1>2, <2>5, <3>6 DEF NodeTyped
      <4>4. merged = [k1 EXCEPT !.recovery.recovered[m.slot] = best]
        BY <2>6
      <4>5. [r1 EXCEPT !.recovered = [r1.recovered EXCEPT ![m.slot] = best]] = r2
        BY <2>4, <3>1, <3>4
      <4>6. QED
        BY <4>2, <4>3, <4>4, <4>5
    <3>8. PICK r : r = MaybeResolve(n, k2)
      OBVIOUS
    <3>9. Finish(n, r.nd, r.w, r.out, Consumed(m))
      BY <1>5, <2>8, <3>7, <3>8, Zenon DEF FinishResult
    <3>10. r \in {MaybeResolve(n, k2), Nothing(k2)}
      BY <3>8
    <3>11. QED
      <4>1. r2.recovered = rep /\ r2.base = rec.base /\ r2.ready = rec.ready
        BY <2>4, <3>4 DEF RecoveryTyped
      <4>2. Collected(r2, votes)
        <5> SUFFICES ASSUME NEW s \in DOMAIN rep, rep[s].state = "Chosen"
                     PROVE  Chose(votes, s, rep[s].value)
          BY <4>1 DEF Collected
        <5> QED
          BY <1>3, <1>a, <3>1, <3>a DEF Collected
      <4>3. r2.peer = peer /\ r2.last = rec.last /\ rep[m.slot] = best
            /\ DOMAIN rep = DOMAIN rec.recovered
            /\ \A s \in DOMAIN rec.recovered : s # m.slot => rep[s] = rec.recovered[s]
        BY <1>3, <1>5, <2>3, <2>4, <3>1, <3>4, Zenon DEF RecoveryTyped
      <4>4. CountsReport(n, m, r2)
        BY <1>5, <2>1, <3>5, <4>1, <4>3, Zenon DEF CountsReport, best
      <4> QED
        BY <3>6, <3>9, <3>10, <4>2, <4>4
  <2>9. QED
    BY <2>7, <2>8
<1>6. QED
  BY <1>4, <1>5 DEF OnPromise

LEMMA OnPromiseSays ==
  ASSUME TypeInv, TermInv, DecisionInv, NEW n \in Node, NEW m \in Received(n, "Promise"), OnPromise(n, m)
  PROVE  Says(n)
<1>1. node[n].role = "Preparing"
  BY DEF OnPromise, Preparing
<1>2. CASE node[n].recovery.ready /\ FinishResult(n, ResolveChunk(n, node[n]), Consumed(m))
  BY <1>1, <1>2, LooksAgainSays
<1>3. ASSUME NEW got, NEW k, NEW r, CountsReport(n, m, got), Collected(got, votes),
             k = [node[n] EXCEPT !.recovery = got], r \in {MaybeResolve(n, k), Nothing(k)},
             Finish(n, r.nd, r.w, r.out, Consumed(m))
      PROVE  Says(n)
  <2>1. /\ RecoveryTyped(got) /\ ~ node[n].recovery.ready /\ got.ready = node[n].recovery.ready
        /\ got.base = node[n].recovery.base
    BY <1>3 DEF CountsReport
  <2> QED
    BY <1>1, <1>3, <2>1, CollectingSays
<1> QED
  BY <1>2, <1>3, OnPromiseCounts


LEMMA OnPromiseRangeSays ==
  ASSUME TypeInv, TermInv, DecisionInv, NEW n \in Node, NEW m \in Received(n, "Promise_Range"), OnPromiseRange(n, m)
  PROVE  Says(n)
<1> DEFINE nd == node[n]
           rec == nd.recovery
           old == rec.peer[m.from]
           fenced == [old EXCEPT
             !.anchor = IF m.anchor.chosen_trim_slot > @.chosen_trim_slot THEN m.anchor ELSE @,
             !.chosen_through = MaxOf(@, m.chosen_through)]
           described == [fenced EXCEPT !.expected_in_range = m.reported,
                                       !.range_described = TRUE, !.more = m.more]
           With(peer) == [nd EXCEPT !.recovery.peer[m.from] = peer]
<1>1. /\ m.from \in Node /\ m.first \in Slot /\ m.last = slot_add(m.first, Chunk - 1)
      /\ m.anchor \in AnchorType /\ m.chosen_through \in 0 .. MaxSlot
      /\ m.reported \in 0 .. Chunk /\ m.more \in BOOLEAN /\ (m.more => m.last < MaxSlot)
  BY DEF TypeInv, Received, MessageTyped
<1>2. NodeTyped(nd) /\ nd.role = "Preparing"
  BY NodeFacts DEF OnPromiseRange, Preparing
<1>3. /\ rec.peer \in [Node -> PeerType] /\ rec.last = slot_add(rec.base, Chunk - 1)
      /\ \A p \in Node : rec.peer[p].more => rec.last < MaxSlot
  BY <1>2 DEF NodeTyped, RecoveryTyped
<1>4. old \in PeerType /\ (old.more => rec.last < MaxSlot)
  BY <1>1, <1>3
<1>5. PICK f, d : f = fenced /\ d = described
  OBVIOUS
<1>6. f \in PeerType /\ f.more = old.more /\ d \in PeerType /\ d.more = m.more
  <2>1. PICK o, a, t, c, mo : o = old /\ a = m.anchor /\ t = m.chosen_through
                              /\ c = m.reported /\ mo = m.more
    OBVIOUS
  <2>2. /\ o \in PeerType /\ a \in AnchorType /\ t \in 0 .. MaxSlot /\ c \in 0 .. Chunk
        /\ mo \in BOOLEAN
    BY <1>1, <1>4, <2>1
  <2>3. Manifest(o, f, d, a, t, c, mo)
    BY <1>5, <2>1 DEF Manifest
  <2>5. f \in PeerType /\ f.more = o.more /\ d \in PeerType /\ d.more = mo
    BY <2>2, <2>3, ManifestTyped
  <2>6. QED
    BY <2>1, <2>5
<1>7. \/ (rec.ready /\ FinishResult(n, ResolveChunk(n, nd), Consumed(m)))
      \/ (~ rec.ready /\ m.first = rec.base
            /\ FinishResult(n, MaybeResolve(n, With(described)), Consumed(m)))
      \/ (~ rec.ready /\ FinishResult(n, Nothing(With(fenced)), Consumed(m)))
  BY DEF OnPromiseRange
<1> HIDE DEF fenced, described
<1>8. CASE rec.ready /\ FinishResult(n, ResolveChunk(n, nd), Consumed(m))
  BY <1>2, <1>8, LooksAgainSays
<1>9. CASE ~ rec.ready /\ m.first = rec.base
             /\ FinishResult(n, MaybeResolve(n, With(described)), Consumed(m))
  <2>1. d.more => rec.last < MaxSlot
    BY <1>1, <1>3, <1>6, <1>9
  <2>2. PICK k : k = [nd EXCEPT !.recovery.peer[m.from] = d]
    OBVIOUS
  <2>3. FinishResult(n, MaybeResolve(n, k), Consumed(m))
    BY <1>5, <1>9, <2>2
  <2>4. d \in PeerType /\ m.from \in Node /\ ~ rec.ready
    BY <1>1, <1>6, <1>9
  <2> QED
    BY <1>2, <2>1, <2>2, <2>3, <2>4, RecountSays
<1>10. CASE ~ rec.ready /\ FinishResult(n, Nothing(With(fenced)), Consumed(m))
  <2>1. f.more => rec.last < MaxSlot
    BY <1>4, <1>6
  <2>2. PICK k : k = [nd EXCEPT !.recovery.peer[m.from] = f]
    OBVIOUS
  <2>3. FinishResult(n, Nothing(k), Consumed(m))
    BY <1>5, <1>10, <2>2
  <2>4. f \in PeerType /\ m.from \in Node /\ ~ rec.ready
    BY <1>1, <1>6, <1>10
  <2> QED
    BY <1>2, <2>1, <2>2, <2>3, <2>4, RecountSays
<1> QED
  BY <1>7, <1>8, <1>9, <1>10

-------------------------------------------------------------------------------
(* Every step.                                                             *)

ConsensusInv == TermInv /\ DecisionInv

LEMMA InitAgrees ==
  ASSUME Init
  PROVE  ConsensusInv
<1>1. EmptyLedger = [promised |-> EmptyLedger.promised, anchor |-> EmptyLedger.anchor,
                     cell |-> EmptyLedger.cell]
  BY DEF EmptyLedger
<1>2. EmptyLedger.promised = BALLOT_ZERO /\ \A c \in Cells : EmptyLedger.cell[c].state = "Empty"
  BY DEF EmptyLedger, ledger_open
<1>3. net = {} /\ votes = {}
  BY DEF Init
<1>4. \A s, b, v : ~ Said(net, votes, s, b, v)
  BY <1>3 DEF Said
<1>5. ASSUME NEW n \in Node
      PROVE  /\ node[n].role = "Follower" /\ node[n].ballot = BALLOT_ZERO
             /\ node[n].lead = NoLead /\ node[n].recovery = NoRecovery
             /\ node[n].ledger.promised = BALLOT_ZERO
             /\ \A c \in Cells : node[n].ledger.cell[c].state = "Empty"
             /\ disk[n] = EmptyLedger /\ history[n] = <<>>
  <2>1. node[n] = Resumed(n, EmptyLedger, 0) /\ disk[n] = EmptyLedger /\ history[n] = <<>>
    BY DEF Init
  <2>2. ledger_open(0).state = "Empty"
    BY DEF ledger_open
  <2> QED
    BY <1>1, <1>2, <2>1, <2>2, ResumedTerm
<1>6. \A c \in Cells : NoLead[c].slot = 0
  BY DEF NoLead
<1>7. Collected(NoRecovery, votes)
  BY DEF Collected, NoRecovery
<1>8. BALLOT_ZERO <= BALLOT_ZERO
  BY BallotsAreBounded, BallotOrder
<1>9. TermInv
  <2>1. ASSUME NEW n \in Node
        PROVE  /\ Bid(n, node[n]) /\ Term(n, node[n], net, votes)
               /\ Written(n, node[n].ledger, votes) /\ Written(n, disk[n], votes)
               /\ disk[n].promised = node[n].ledger.promised
    BY <1>2, <1>4, <1>5, <1>6, <1>8 DEF Bid, Term, Written
  <2>2. OneValue(net, votes)
    BY <1>4 DEF OneValue
  <2> QED
    BY <1>3, <2>1, <2>2 DEF TermInv
<1>10. DecisionInv
  <2>1. ASSUME NEW n \in Node
        PROVE  /\ Settled(node[n].ledger, votes) /\ Settled(disk[n], votes)
               /\ Collected(node[n].recovery, votes)
               /\ \A c \in Cells : Counted(n, node[n].lead[c], votes)
               /\ \A s \in DOMAIN history[n] : Chose(votes, s, history[n][s])
    BY <1>2, <1>5, <1>6, <1>7 DEF Settled, Counted
  <2> QED
    BY <1>3, <2>1 DEF DecisionInv
<1> QED
  BY <1>9, <1>10 DEF ConsensusInv

LEMMA StutterAgrees ==
  ASSUME ConsensusInv, UNCHANGED vars
  PROVE  ConsensusInv'
<1>1. node' = node /\ disk' = disk /\ history' = history /\ net' = net /\ votes' = votes
  BY DEF vars
<1>2. TermInv'
  BY <1>1 DEF ConsensusInv, TermInv, VoteBacked, Backed
<1>3. DecisionInv'
  BY <1>1 DEF ConsensusInv, DecisionInv
<1> QED
  BY <1>2, <1>3 DEF ConsensusInv

LEMMA StepAgrees ==
  ASSUME TypeInv, TermInv, DecisionInv, ~LaggingHost, NEW n \in Node, Step(n)
  PROVE  Says(n)
<1>1. ASSUME NEW m \in Received(n, "Prepare"), OnPrepare(n, m) PROVE Says(n)
  BY <1>1, OnPrepareSays
<1>2. ASSUME NEW m \in Received(n, "Promise"), OnPromise(n, m) PROVE Says(n)
  BY <1>2, OnPromiseSays
<1>3. ASSUME NEW m \in Received(n, "Promise_Range"), OnPromiseRange(n, m) PROVE Says(n)
  BY <1>3, OnPromiseRangeSays
<1>4. ASSUME NEW m \in Received(n, "Accept"), OnAccept(n, m) PROVE Says(n)
  BY <1>4, OnAcceptSays DEF Behaves
<1>5. ASSUME NEW m \in Received(n, "Accepted"), OnAccepted(n, m) PROVE Says(n)
  BY <1>5, OnAcceptedSays DEF Behaves
<1>6. ASSUME NEW m \in Received(n, "Commit"), OnCommit(n, m) PROVE Says(n)
  BY <1>6, OnCommitSays DEF Behaves
<1>7. ASSUME NEW m \in Received(n, "Learn"), OnLearn(n, m) PROVE Says(n)
  BY <1>7, OnLearnSays DEF Behaves
<1>8. ASSUME NEW m \in Received(n, "Nack"), OnNack(n, m) PROVE Says(n)
  BY <1>8, OnNackSays DEF Behaves
<1>9. ASSUME NEW m \in Received(n, "Heartbeat"), OnHeartbeat(n, m) PROVE Says(n)
  BY <1>9, OnHeartbeatSays DEF Behaves
<1> QED
  BY <1>1, <1>2, <1>3, <1>4, <1>5, <1>6, <1>7, <1>8, <1>9 DEF Step

LEMMA TickAgrees ==
  ASSUME TypeInv, TermInv, DecisionInv, NEW n \in Node, Tick(n)
  PROVE  Says(n)
<1>1. ASSUME NEW p \in Peers(n), ResendTo(n, p) PROVE Says(n)
  BY <1>1, ResendToSays DEF Behaves
<1> QED
  BY <1>1, StartCampaignSays, RetrySays, PlainTicks DEF Tick, Behaves

LEMMA NextAgrees ==
  ASSUME TypeInv, ConsensusInv, ~LaggingHost, Next
  PROVE  ConsensusInv'
<1>1. TermInv /\ DecisionInv
  BY DEF ConsensusInv
<1>2. PICK n \in Node : Step(n) \/ Tick(n) \/ Host(n)
  BY DEF Next
<1>3. Says(n) => TermInv' /\ DecisionInv'
  BY <1>1, SaysKeeps
<1>4. CASE Step(n) \/ Tick(n)
  BY <1>1, <1>3, <1>4, StepAgrees, TickAgrees DEF ConsensusInv
<1>5. CASE Host(n)
  <2>1. ASSUME NEW vals \in ProposalBatches, Propose(n, vals) PROVE Says(n)
    BY <1>1, <2>1, ProposeSays
  <2>2. ASSUME NEW p \in Peers(n), CatchUp(n, p) PROVE Says(n)
    BY <1>1, <2>2, PlainTicks DEF Behaves
  <2>3. ASSUME NEW s \in Slot, AdvanceMemoryFloor(n, s) PROVE TermInv' /\ DecisionInv'
    BY <1>1, <2>3, AdvanceFloorTerm, AdvanceFloorDecision
  <2>4. ASSUME NEW a \in TrimRecords \cup NewTrims, InstallChosenTrim(n, a) PROVE Says(n)
    BY <1>1, <2>4, AnchorsAreTyped, InstallTrimSays DEF Behaves
  <2>5. ASSUME NEW donor \in Peers(n), BeginRecovery(n, donor) PROVE TermInv' /\ DecisionInv'
    <3>1. donor \in Node
      BY DEF Peers
    <3> QED
      BY <1>1, <2>5, <3>1, BeginRecoveryTerm, BeginRecoveryDecision
  <2>6. ASSUME NEW enabled \in BOOLEAN, SetCampaignEnabled(n, enabled)
        PROVE  TermInv' /\ DecisionInv'
    BY <1>1, <2>6, SetCampaignTerm, SetCampaignDecision
  <2>7. Crash(n) => TermInv' /\ DecisionInv'
    BY <1>1, CrashTerm, CrashDecision
  <2> QED
    BY <1>3, <1>5, <2>1, <2>2, <2>3, <2>4, <2>5, <2>6, <2>7 DEF Host, ConsensusInv
<1> QED
  BY <1>2, <1>4, <1>5

\* What the cluster says and decides, in every reachable state.
THEOREM ConsensusIsInvariant ==
  ASSUME ~LaggingHost
  PROVE  Spec => []ConsensusInv
<1>1. Init => ConsensusInv
  BY InitAgrees
<1>2. TypeInv /\ ConsensusInv /\ [Next]_vars => ConsensusInv'
  BY NextAgrees, StutterAgrees
<1>3. Spec => []TypeInv
  BY TypesAreInvariant
<1> QED
  BY <1>1, <1>2, <1>3, PTL DEF Spec

\* One ballot carries one value per slot: no two Accepts of a ballot ask for different
\* values of a slot, though a leader resends its open slots, a candidate repeats what it
\* froze, the network repeats both and a crash loses what was counted
\* (consensus.odin send_accept, resend_to; election.odin on_promise, resolve_chunk).
THEOREM BallotsCarryOneValue ==
  ASSUME ~LaggingHost
  PROVE  Spec => []OneValuePerBallot
<1>1. TermInv => OneValuePerBallot
  <2> SUFFICES ASSUME TermInv, NEW m \in net, NEW k \in net, m.type = "Accept",
                      k.type = "Accept", m.slot = k.slot, m.ballot = k.ballot
               PROVE  m.value = k.value
    BY DEF OneValuePerBallot
  <2>1. /\ Said(net, votes, m.slot, m.ballot, m.value)
        /\ Said(net, votes, m.slot, m.ballot, k.value)
    BY DEF Said
  <2> QED
    BY <2>1 DEF TermInv, OneValue
<1>2. ConsensusInv => OneValuePerBallot
  BY <1>1 DEF ConsensusInv
<1> QED
  BY <1>2, ConsensusIsInvariant, PTL

\* An Accept in a leader's ballot is that leader's own, for a slot it has already passed:
\* what the term before a crash asked for never meets the slots of a new term, for the
\* restarted node campaigns in a ballot of its own it has not used.
THEOREM LeadersOwnTheirBallots ==
  ASSUME ~LaggingHost
  PROVE  Spec => []LeaderOwnsItsBallot
<1>1. TypeInv /\ TermInv => LeaderOwnsItsBallot
  <2> SUFFICES ASSUME TypeInv, TermInv, NEW n \in Node, NEW m \in net, m.type = "Accept",
                      m.ballot = node[n].ballot, node[n].role = "Leader"
               PROVE  m.from = n /\ (m.slot < node[n].next_slot \/ m.slot = MaxSlot)
    BY DEF LeaderOwnsItsBallot
  <2>1. Said(net, votes, m.slot, node[n].ballot, m.value)
    BY DEF Said
  <2>2. Term(n, node[n], net, votes) /\ Bid(n, node[n]) /\ Backed(m)
    BY DEF TermInv
  <2>3. Limits(node[n], m.slot, m.value)
    BY <2>1, <2>2 DEF Term
  <2>4. m.slot < node[n].next_slot \/ m.slot = MaxSlot
    BY <2>3 DEF Limits
  <2>5. Owns(m.from, node[n].ballot) /\ Owns(n, node[n].ballot)
    BY <2>2 DEF Backed, Bid
  <2>6. m.from \in Node
    BY DEF TypeInv, MessageTyped
  <2>7. m.from = n
    BY <2>5, <2>6, OwnersDiffer
  <2> QED
    BY <2>4, <2>7
<1>2. TypeInv /\ ConsensusInv => LeaderOwnsItsBallot
  BY <1>1 DEF ConsensusInv
<1> QED
  BY <1>2, ConsensusIsInvariant, TypesAreInvariant, PTL

\* Whatever a node takes for decided was chosen: every decision in memory, on disk, in a
\* Commit and in a host's history has a write quorum of durable votes of one ballot, with
\* duplicated and stale acknowledgements counted over restarts and terms
\* (consensus.odin on_accepted, record_commit, on_learn; election.odin resolve_chunk).
THEOREM DecisionsAreChosen ==
  ASSUME ~LaggingHost
  PROVE  Spec => []DecidedIsChosen
<1>1. DecisionInv => DecidedIsChosen
  <2> SUFFICES ASSUME DecisionInv
               PROVE  DecidedIsChosen
    OBVIOUS
  <2>1. ASSUME NEW n \in Node, NEW c \in Cells, NEW l \in {node[n].ledger, disk[n]},
               l.cell[c].state = "Chosen"
        PROVE  ChosenIn(l.cell[c].slot, l.cell[c].value)
    <3>1. Settled(l, votes)
      BY DEF DecisionInv
    <3>2. Chose(votes, l.cell[c].slot, l.cell[c].value)
      BY <2>1, <3>1 DEF Settled
    <3> QED
      BY <3>2, ChosenIsChose
  <2>2. ASSUME NEW m \in net, m.type = "Commit"
        PROVE  ChosenIn(m.slot, m.value)
    BY <2>2, ChosenIsChose DEF DecisionInv, Told
  <2>3. ASSUME NEW n \in Node, NEW s \in DOMAIN history[n]
        PROVE  ChosenIn(s, history[n][s])
    BY ChosenIsChose DEF DecisionInv
  <2> QED
    BY <2>1, <2>2, <2>3 DEF DecidedIsChosen
<1>2. ConsensusInv => DecidedIsChosen
  BY <1>1 DEF ConsensusInv
<1> QED
  BY <1>2, ConsensusIsInvariant, PTL

-------------------------------------------------------------------------------
(* Steps that take no part in a campaign.                                  *)

LEMMA UnspokenUtters ==
  ASSUME NEW n, UNCHANGED <<net, votes>>
  PROVE  Utters(n)
  BY DEF Utters

LEMMA LocalCalm ==
  ASSUME TypeInv, NEW n \in Node, UNCHANGED net, NEW new, node' = [node EXCEPT ![n] = new],
         Serves(node[n], new)
  PROVE  Calm(n)
  BY DEF Calm, Mute, TypeInv

LEMMA LocalStepsAreOrdinary ==
  ASSUME TypeInv, TermInv, WindowInv, NEW n \in Node,
         \/ \E s \in Slot : AdvanceMemoryFloor(n, s)
         \/ \E donor \in Peers(n) : BeginRecovery(n, donor)
         \/ \E enabled \in BOOLEAN : SetCampaignEnabled(n, enabled)
         \/ Crash(n)
  PROVE  Utters(n) /\ Calm(n)
<1>1. Utters(n)
  BY UnspokenUtters, Zenon DEF AdvanceMemoryFloor, BeginRecovery, SetCampaignEnabled, Crash
<1>2. /\ NodeTyped(node[n]) /\ node[n].next_slot \in Nat /\ node[n].delivered_through \in Nat
      /\ node[n].ledger.anchor.chosen_trim_slot \in 0 .. MaxSlot
  BY NodeFacts, Constants DEF NodeTyped, AnchorType
<1>3. ASSUME NEW s \in Slot, AdvanceMemoryFloor(n, s) PROVE Calm(n)
  <2> DEFINE new == [node[n] EXCEPT !.memory_floor = s]
  <2>1. node' = [node EXCEPT ![n] = new] /\ UNCHANGED net
    BY <1>3 DEF AdvanceMemoryFloor
  <2>2. Serves(node[n], new)
    BY <1>2 DEF NodeTyped, Serves
  <2> HIDE DEF new
  <2> QED
    BY <2>1, <2>2, LocalCalm
<1>4. ASSUME NEW donor \in Peers(n), BeginRecovery(n, donor) PROVE Calm(n)
  <2>1. donor \in Node
    BY DEF Peers
  <2>2. node'[n].role = "Follower"
    BY <1>4, <2>1, BeginRecoveryFacts
  <2>3. UNCHANGED net
    BY <1>4, Zenon DEF BeginRecovery
  <2> QED
    BY <2>2, <2>3 DEF Calm, Mute, Serves
<1>5. ASSUME NEW enabled \in BOOLEAN, SetCampaignEnabled(n, enabled) PROVE Calm(n)
  <2> DEFINE off == [Follow(node[n]) EXCEPT !.campaign_enabled = FALSE]
             new == [node[n] EXCEPT !.campaign_enabled = enabled]
  <2>1. UNCHANGED net /\ \/ node' = [node EXCEPT ![n] = off]
                         \/ node' = [node EXCEPT ![n] = new]
    BY <1>5 DEF SetCampaignEnabled
  <2>2. Serves(node[n], off)
    BY <1>2 DEF NodeTyped, Follow, Serves
  <2>3. Serves(node[n], new)
    BY <1>2 DEF NodeTyped, Serves
  <2> HIDE DEF off, new
  <2> QED
    BY <2>1, <2>2, <2>3, LocalCalm
<1>6. CASE Crash(n)
  <2>1. UNCHANGED net /\ node'[n].role = "Follower"
    BY <1>6, RestartFollows DEF Crash, TypeInv
  <2> QED
    BY <1>1, <2>1 DEF Calm, Mute, Serves
<1> QED
  BY <1>1, <1>3, <1>4, <1>5, <1>6

-------------------------------------------------------------------------------
(* What the cluster knows of a campaign.                                   *)

Asker(m) == IF m.type = "Prepare" THEN m.from ELSE m.to

CampaignBacked(m) ==
  m.type \in Campaign => /\ Asker(m) \in Node /\ Owns(Asker(m), m.ballot)
                         /\ m.ballot <= node[Asker(m)].ledger.promised
                         /\ m.type = "Prepare" =>
                              m = Prepare(m.from, m.to, m.ballot, m.first, m.last)

\* A promise that reports a vote reports the last one its voter can ever have had in the
\* slot below the campaign's ballot.
Reveals(m, D, V) ==
  m.type = "Promise" /\ m.state = "Voted" =>
    /\ VoteOf(m.from, m.slot, m.vote, m.value) \in V
    /\ Closed(D, V, m.from, m.slot, m.ballot, m.vote)

\* The messages of candidate nd's campaign are about its chunk or earlier ones.
InChunk(nd, N) ==
  \A m \in N : m.type \in Campaign /\ m.ballot = nd.ballot =>
    /\ m.type = "Prepare" => \/ m.first = nd.recovery.base /\ m.last = nd.recovery.last
                             \/ m.last < nd.recovery.base
    /\ m.type = "Promise" => m.slot <= nd.recovery.last
    /\ m.type = "Promise_Range" => m.first <= nd.recovery.base

Ranges(nd, p, N) ==
  {m \in N : /\ m.type = "Promise_Range" /\ m.from = p /\ m.ballot = nd.ballot
             /\ m.first = nd.recovery.base}

Promises(nd, p, N) ==
  {m \in N : /\ m.type = "Promise" /\ m.from = p /\ m.ballot = nd.ballot
             /\ m.slot >= nd.recovery.base}

\* Member p has not answered for the chunk.
Pending(nd, p, N) ==
  /\ Ranges(nd, p, N) = {} /\ Promises(nd, p, N) = {}
  /\ nd.recovery.peer[p].seen = {} /\ ~ nd.recovery.peer[p].range_described

\* What the manifest of p says for the slots it reports nothing of.
Covers(nd, p, D, V, I, a, t, more) ==
  \A s \in Slot : /\ s >= nd.recovery.base /\ s > a /\ s > t /\ s \notin I
                  /\ s <= nd.recovery.last \/ ~ more
                  => Closed(D, V, p, s, nd.ballot, BALLOT_ZERO)

\* Member p has answered once: with one promise for each slot of I and the manifest.
Answers(nd, p, N, I, a, t, more) ==
  /\ \A m \in Ranges(nd, p, N) : /\ m.reported = Cardinality(I) /\ m.more = more
                                 /\ m.anchor.chosen_trim_slot = a /\ m.chosen_through = t
  /\ \A m \in Promises(nd, p, N) : m.slot \in I
  /\ nd.recovery.peer[p].seen \subseteq I
  /\ nd.recovery.peer[p].range_described =>
       /\ nd.recovery.peer[p].expected_in_range = Cardinality(I)
       /\ nd.recovery.peer[p].more = more
       /\ nd.recovery.peer[p].anchor.chosen_trim_slot >= a
       /\ nd.recovery.peer[p].chosen_through >= t

Asked(nd, p, N) ==
  \E m \in N : /\ m.type = "Prepare" /\ m.to = p /\ m.ballot = nd.ballot
               /\ m.first = nd.recovery.base

Described(nd, p, N, D, V) ==
  /\ D[p].promised >= nd.ballot /\ ~ Asked(nd, p, N)
  /\ \E I \in SUBSET (nd.recovery.base .. nd.recovery.last), a, t \in 0 .. MaxSlot,
        more \in BOOLEAN :
       Covers(nd, p, D, V, I, a, t, more) /\ Answers(nd, p, N, I, a, t, more)

\* The slots a quorum fence closes, spelt out.
Fenced(nd, s) ==
  \/ s <= nd.ledger.anchor.chosen_trim_slot
  \/ s <= nd.delivered_through
  \/ \E p \in Node : \/ s <= nd.recovery.peer[p].anchor.chosen_trim_slot
                     \/ s <= nd.recovery.peer[p].chosen_through

\* Below the chunk a candidate has recorded or fenced every slot.
Frontier(nd) ==
  \A s \in Slot : s < nd.recovery.base => Recorded(nd.ledger, s) \/ Fenced(nd, s)

Gathers(nd, p, D, V) ==
  \A s \in nd.recovery.peer[p].seen :
    /\ s \in DOMAIN nd.recovery.recovered
    /\ \/ nd.recovery.recovered[s].state = "Chosen"
       \/ /\ nd.recovery.recovered[s].state = "Voted"
          /\ Closed(D, V, p, s, nd.ballot, nd.recovery.recovered[s].ballot)

Recalls(nd, D, V) ==
  \A s \in DOMAIN nd.recovery.recovered : nd.recovery.recovered[s].state = "Voted" =>
    LET best == nd.recovery.recovered[s] IN
    \E q \in Node : /\ VoteOf(q, s, best.ballot, best.value) \in V
                    /\ Closed(D, V, q, s, nd.ballot, best.ballot)

Ready(nd) ==
  nd.recovery.ready => \E Q \in Quorums : \A p \in Q :
    Complete(nd.recovery, p) /\ (~ nd.recovery.more => ~ nd.recovery.peer[p].more)

Candidate(nd, N, D, V) ==
  /\ InChunk(nd, N) /\ Frontier(nd) /\ Recalls(nd, D, V) /\ Ready(nd)
  /\ \A p \in Node : /\ Gathers(nd, p, D, V)
                     /\ Pending(nd, p, N) \/ Described(nd, p, N, D, V)

\* A read quorum has closed the slots a leader still has before it.
Free(nd, D, V) ==
  \A s \in Slot : s >= nd.next_slot /\ s # MaxSlot =>
    \E Q \in Quorums : \A p \in Q : Closed(D, V, p, s, nd.ballot, BALLOT_ZERO)

Stands(nd, N, D, V) ==
  /\ nd.role = "Preparing" => Candidate(nd, N, D, V)
  /\ nd.role = "Leader" => Free(nd, D, V)

\* A cell holds a vote as soon as it says so.
Blank(d) == \A c \in Cells : d.cell[c].state = "Empty" => d.cell[c].vote_ballot = BALLOT_ZERO

SafetyInv ==
  /\ AllSafe
  /\ \A n \in Node : Blank(disk[n])
  /\ \A x \in votes : VoteKept(x)
  /\ \A m \in net : Reveals(m, disk, votes) /\ CampaignBacked(m)
  /\ \A n \in Node : Stands(node[n], net, disk, votes)

LEMMA DescribedStays ==
  ASSUME NEW D, NEW V, NEW E, NEW W, Advances(D, V, E, W), NEW p \in Node,
         NEW nd, NodeTyped(nd), NEW N, NEW M,
         \A m \in M : m.type \in Campaign /\ m.ballot = nd.ballot => m \in N,
         Described(nd, p, N, D, V)
  PROVE  Described(nd, p, M, E, W)
<1>1. nd.ballot \in BallotSet /\ BallotSet \subseteq Nat
  BY BallotsAreBounded DEF NodeTyped
<1>2. PICK I \in SUBSET (nd.recovery.base .. nd.recovery.last), a \in 0 .. MaxSlot,
           t \in 0 .. MaxSlot, more \in BOOLEAN :
        Covers(nd, p, D, V, I, a, t, more) /\ Answers(nd, p, N, I, a, t, more)
  BY DEF Described
<1>3. E[p].promised >= nd.ballot
  <2>1. D[p].promised \in Nat /\ E[p].promised \in Nat /\ E[p].promised >= D[p].promised
    BY <1>1 DEF Advances
  <2>2. D[p].promised >= nd.ballot /\ nd.ballot \in Nat
    BY <1>1 DEF Described
  <2> QED
    BY <2>1, <2>2
<1>4. ~ Asked(nd, p, M)
  BY DEF Described, Asked, Campaign
<1>5. Covers(nd, p, E, W, I, a, t, more)
  BY <1>1, <1>2, ClosedStays DEF Covers
<1>6. Ranges(nd, p, M) \subseteq Ranges(nd, p, N) /\ Promises(nd, p, M) \subseteq Promises(nd, p, N)
  BY DEF Ranges, Promises, Campaign
<1>7. Answers(nd, p, M, I, a, t, more)
  BY <1>2, <1>6 DEF Answers
<1> QED
  BY <1>3, <1>4, <1>5, <1>7 DEF Described

LEMMA PendingStays ==
  ASSUME NEW p, NEW nd, NEW N, NEW M,
         \A m \in M : m.type \in Campaign /\ m.ballot = nd.ballot => m \in N,
         Pending(nd, p, N)
  PROVE  Pending(nd, p, M)
  BY DEF Pending, Ranges, Promises, Campaign

LEMMA GathersStays ==
  ASSUME NEW D, NEW V, NEW E, NEW W, Advances(D, V, E, W), NEW p \in Node,
         NEW nd, NodeTyped(nd), Gathers(nd, p, D, V)
  PROVE  Gathers(nd, p, E, W)
<1>1. nd.ballot \in BallotSet
  BY DEF NodeTyped
<1> QED
  BY <1>1, ClosedStays DEF Gathers

LEMMA RecallsStays ==
  ASSUME NEW D, NEW V, NEW E, NEW W, Advances(D, V, E, W),
         NEW nd, NodeTyped(nd), Recalls(nd, D, V)
  PROVE  Recalls(nd, E, W)
<1>1. nd.ballot \in BallotSet /\ V \subseteq W
  BY DEF NodeTyped, Advances
<1> SUFFICES ASSUME NEW s \in DOMAIN nd.recovery.recovered,
                    nd.recovery.recovered[s].state = "Voted"
             PROVE  \E q \in Node :
                      /\ VoteOf(q, s, nd.recovery.recovered[s].ballot,
                                nd.recovery.recovered[s].value) \in W
                      /\ Closed(E, W, q, s, nd.ballot, nd.recovery.recovered[s].ballot)
  BY DEF Recalls
<1>2. PICK q \in Node : /\ VoteOf(q, s, nd.recovery.recovered[s].ballot,
                                  nd.recovery.recovered[s].value) \in V
                       /\ Closed(D, V, q, s, nd.ballot, nd.recovery.recovered[s].ballot)
  BY DEF Recalls
<1> QED
  BY <1>1, <1>2, ClosedStays

LEMMA FreeStays ==
  ASSUME NEW D, NEW V, NEW E, NEW W, Advances(D, V, E, W),
         NEW nd, NodeTyped(nd), NEW new, new.ballot = nd.ballot, new.next_slot >= nd.next_slot,
         new.next_slot \in Slot, Free(nd, D, V)
  PROVE  Free(new, E, W)
<1>1. nd.ballot \in BallotSet /\ nd.next_slot \in Nat /\ new.next_slot \in Nat
  BY Constants DEF NodeTyped
<1> SUFFICES ASSUME NEW s \in Slot, s >= new.next_slot, s # MaxSlot
             PROVE  \E Q \in Quorums : \A p \in Q : Closed(E, W, p, s, nd.ballot, BALLOT_ZERO)
  BY DEF Free
<1>2. s >= nd.next_slot
  BY <1>1, Constants
<1>3. PICK Q \in Quorums : \A p \in Q : Closed(D, V, p, s, nd.ballot, BALLOT_ZERO)
  BY <1>2 DEF Free
<1>4. \A p \in Q : p \in Node
  BY DEF Quorums
<1> QED
  BY <1>1, <1>3, <1>4, ClosedStays

\* Replay leaves no cell empty that it writes.
LEMMA ReplayBlank ==
  ASSUME NEW top \in Nat, NEW d, LedgerTyped(d, top), NEW w, WritesTyped(w, top), Blank(d)
  PROVE  Blank(ledger_replay_fold(d, w))
<1> DEFINE S == {s \in WrittenSlots(w) : ledger_claim(d, s)}
<1> SUFFICES ASSUME NEW c \in Cells, ledger_replay_fold(d, w).cell[c].state = "Empty"
             PROVE  ledger_replay_fold(d, w).cell[c].vote_ballot = BALLOT_ZERO
  BY DEF Blank
<1>1. ledger_replay_fold(d, w).cell[c]
        = IF \E s \in S : cell_of(s) = c
            THEN ApplySlot(d.cell[c], CHOOSE s \in S : cell_of(s) = c, w) ELSE d.cell[c]
  BY DEF ledger_replay_fold, ApplyWrites
<1>2. CASE \E s \in S : cell_of(s) = c
  <2>1. PICK s \in WrittenSlots(w) :
          ledger_replay_fold(d, w).cell[c] = ApplySlot(d.cell[c], s, w)
    BY <1>1, <1>2
  <2>2. d.cell[c] \in CellType(BallotSet)
    BY DEF LedgerTyped, LedgerType
  <2> QED
    BY <2>1, <2>2, ApplySlotFacts
<1>3. CASE ~ \E s \in S : cell_of(s) = c
  BY <1>1, <1>3 DEF Blank
<1> QED
  BY <1>2, <1>3

LEMMA StepsKeepBlanks ==
  ASSUME TypeInv, TypeInv', WindowInv, ~LaggingHost, NEW n \in Node, Within(node[n]),
         OneStep(n), \A p \in Node : Blank(disk[p])
  PROVE  \A p \in Node : Blank(disk'[p])
<1>1. \A p \in Node \ {n} : disk'[p] = disk[p]
  <2>1. Moves(n)
    BY StepsMove
  <2> QED
    BY <2>1 DEF Moves
<1> SUFFICES Blank(disk'[n])
  BY <1>1
<1> DEFINE top == node[n].delivered_through + Window
<1>2. n \in DOMAIN disk /\ LedgerTyped(disk[n], top) /\ top \in Nat /\ Blank(disk[n])
  BY NodeFacts, Constants DEF TypeInv, HostTyped
<1>3. ASSUME NEW w, WritesTyped(w, top), disk'[n] = ledger_replay_fold(disk[n], w)
      PROVE  Blank(disk'[n])
  BY <1>2, <1>3, ReplayBlank
<1>4. ASSUME NEW new, NEW w, NEW out, NEW used, Finish(n, new, w, out, used),
             WritesTyped(w, top)
      PROVE  Blank(disk'[n])
  <2>1. PICK kept \in Prefixes(w) : disk'[n] = ledger_replay_fold(disk[n], kept)
    BY <1>2, <1>4, FinishVotes
  <2>2. WritesTyped(kept, top)
    BY <1>4, PrefixIsPart
  <2> QED
    BY <1>3, <2>1, <2>2
<1>5. CASE IdleStep(n)
  BY <1>4, <1>5 DEF IdleStep, Idles, Extends
<1>6. CASE WorkStep(n)
  BY <1>4, <1>6 DEF WorkStep, Works, Extends
<1>7. CASE \E a \in AnchorType : InstallChosenTrim(n, a)
  <2>1. PICK a \in AnchorType : InstallChosenTrim(n, a)
    BY <1>7
  <2>2. \E new : Finish(n, new, WriteTrim(a), {}, {})
    BY <2>1, TrimKeeps
  <2> QED
    BY <1>4, <2>2, TrimBatch
<1>8. CASE \E donor \in Node : BeginRecovery(n, donor)
  <2>1. PICK donor \in Node : BeginRecovery(n, donor)
    BY <1>8
  <2>2. disk'[n] = ledger_replay_fold(disk[n], WriteTrim(node[donor].ledger.anchor))
    BY <1>2, <2>1 DEF BeginRecovery
  <2>3. node[donor].ledger.anchor \in AnchorType
    BY DEF TypeInv, NodeTyped, LedgerTyped, LedgerType
  <2> QED
    BY <1>3, <2>2, <2>3, TrimBatch
<1>9. CASE \/ \E s \in Slot : AdvanceMemoryFloor(n, s)
           \/ \E enabled \in BOOLEAN : SetCampaignEnabled(n, enabled)
           \/ Crash(n)
  BY <1>2, <1>9 DEF AdvanceMemoryFloor, SetCampaignEnabled, Crash
<1> QED
  BY <1>5, <1>6, <1>7, <1>8, <1>9 DEF OneStep

\* A node that serves on stands as before.
LEMMA ServesStands ==
  ASSUME NEW D, NEW V, NEW E, NEW W, Advances(D, V, E, W),
         NEW nd, NodeTyped(nd), NEW new, NodeTyped(new), Serves(nd, new), NEW N, NEW M,
         \A m \in M : m.type \in Campaign /\ m.ballot = nd.ballot => m \in N,
         Stands(nd, N, D, V)
  PROVE  Stands(new, M, E, W)
<1>1. CASE new.role = "Follower"
  BY <1>1 DEF Stands
<1>2. CASE /\ new.role = nd.role /\ new.ballot = nd.ballot /\ new.recovery = nd.recovery
           /\ new.next_slot >= nd.next_slot /\ new.delivered_through >= nd.delivered_through
           /\ new.ledger.anchor.chosen_trim_slot >= nd.ledger.anchor.chosen_trim_slot
           /\ \A s \in Slot : Recorded(nd.ledger, s) => Recorded(new.ledger, s)
  <2>1. CASE nd.role = "Preparing"
    <3>1. Candidate(nd, N, D, V)
      BY <2>1 DEF Stands
    <3>2. InChunk(new, M)
      BY <1>2, <3>1 DEF Candidate, InChunk, Campaign
    <3>3. ASSUME NEW s \in Slot, Fenced(nd, s) PROVE Fenced(new, s)
      <4>1. /\ s \in Nat /\ nd.delivered_through \in Nat /\ new.delivered_through \in Nat
            /\ nd.ledger.anchor.chosen_trim_slot \in 0 .. MaxSlot
            /\ new.ledger.anchor.chosen_trim_slot \in 0 .. MaxSlot
        BY Constants DEF NodeTyped, LedgerTyped, LedgerType, AnchorType
      <4> QED
        BY <1>2, <3>3, <4>1, Constants DEF Fenced
    <3>4. Frontier(new)
      BY <1>2, <3>1, <3>3 DEF Candidate, Frontier
    <3>a. Recalls(nd, E, W)
      BY <3>1, RecallsStays DEF Candidate
    <3>5. Recalls(new, E, W) /\ Ready(new)
      BY <1>2, <3>1, <3>a DEF Candidate, Recalls, Ready
    <3>6. ASSUME NEW p \in Node
          PROVE  /\ Gathers(new, p, E, W)
                 /\ Pending(new, p, M) \/ Described(new, p, M, E, W)
      <4>1. Gathers(nd, p, E, W)
        BY <3>1, GathersStays DEF Candidate
      <4>2. Pending(nd, p, M) \/ Described(nd, p, M, E, W)
        BY <3>1, PendingStays, DescribedStays DEF Candidate
      <4>3. Gathers(new, p, E, W)
        BY <1>2, <4>1 DEF Gathers
      <4>4. Pending(nd, p, M) => Pending(new, p, M)
        BY <1>2 DEF Pending, Asked, Answers, Ranges, Promises
      <4>5. Described(nd, p, M, E, W) => Described(new, p, M, E, W)
        BY <1>2, SMTT(30) DEF Described, Asked, Covers, Answers, Ranges, Promises
      <4> QED
        BY <4>2, <4>3, <4>4, <4>5
    <3> QED
      BY <1>2, <2>1, <3>2, <3>4, <3>5, <3>6 DEF Stands, Candidate
  <2>2. CASE nd.role = "Leader"
    <3>1. new.next_slot \in Slot
      BY DEF NodeTyped
    <3> QED
      BY <1>2, <2>2, <3>1, FreeStays DEF Stands
  <2> QED
    BY <1>2, <2>1, <2>2 DEF Stands
<1> QED
  BY <1>1, <1>2 DEF Serves

LEMMA StepAdvances ==
  ASSUME TypeInv, TypeInv', NEW n \in Node, Moves(n), Utters(n)
  PROVE  Advances(disk, votes, disk', votes')
<1>1. \A p \in Node : disk[p].promised \in BallotSet /\ disk'[p].promised \in BallotSet
  BY DEF TypeInv, HostTyped, LedgerTyped, LedgerType
<1>2. ASSUME NEW p \in Node PROVE disk'[p].promised >= disk[p].promised
  <2>1. disk[p].promised \in Nat
    BY <1>1, BallotsAreBounded
  <2> QED
    BY <2>1 DEF Moves, Grows
<1>3. votes' \subseteq VoteType
  BY DEF TypeInv
<1> QED
  BY <1>1, <1>2, <1>3 DEF Advances, Utters

-------------------------------------------------------------------------------
(* Steps that keep what is safe.                                           *)

\* A step of node n from a state in which all that is proved of the cluster holds.
Regular(n) ==
  /\ TypeInv /\ TypeInv' /\ TermInv /\ TermInv' /\ DecisionInv /\ WindowInv /\ SafetyInv
  /\ Within(node[n]) /\ OneStep(n)

LEMMA RegularFacts ==
  ASSUME ~LaggingHost, NEW n \in Node, Regular(n), Utters(n)
  PROVE  /\ Moves(n) /\ Advances(disk, votes, disk', votes')
         /\ \A k \in Node : /\ NodeTyped(node[k]) /\ NodeTyped(node'[k])
                            /\ Stands(node[k], net, disk, votes)
         /\ \A k \in Node \ {n} : node'[k] = node[k]
<1>1. Moves(n)
  BY StepsMove DEF Regular
<1>2. Advances(disk, votes, disk', votes')
  BY <1>1, StepAdvances DEF Regular
<1> QED
  BY <1>1, <1>2 DEF Regular, TypeInv, SafetyInv, Moves

LEMMA ItselfServes ==
  ASSUME NEW nd, NodeTyped(nd)
  PROVE  Serves(nd, nd)
<1>1. /\ nd.next_slot \in Nat /\ nd.delivered_through \in Nat
      /\ nd.ledger.anchor.chosen_trim_slot \in 0 .. MaxSlot
  BY Constants DEF NodeTyped, LedgerTyped, LedgerType, AnchorType
<1> QED
  BY <1>1, Constants DEF Serves

\* The campaign of k is not touched by a step that speaks in another's ballot only.
LEMMA OthersStand ==
  ASSUME ~LaggingHost, NEW n \in Node, Regular(n), Utters(n), NEW k \in Node \ {n},
         \A m \in net' \ net : m.type \in Campaign => \E q \in Node \ {k} : Owns(q, m.ballot)
  PROVE  Stands(node'[k], net', disk', votes')
<1>1. /\ Advances(disk, votes, disk', votes') /\ NodeTyped(node[k])
      /\ Stands(node[k], net, disk, votes) /\ node'[k] = node[k]
  BY RegularFacts
<1>2. CASE node[k].role = "Follower"
  BY <1>1, <1>2 DEF Stands
<1>3. CASE node[k].role # "Follower"
  <2>1. Owns(k, node[k].ballot)
    BY <1>3 DEF Regular, TermInv, Bid
  <2>2. \A m \in net' : m.type \in Campaign /\ m.ballot = node[k].ballot => m \in net
    BY <2>1, OwnersDiffer
  <2> QED
    BY <1>1, <2>2, ItselfServes, ServesStands
<1> QED
  BY <1>2, <1>3

\* The parts of the invariant that every step keeps, given what it does to campaigns.
LEMMA StepKeepsSafety ==
  ASSUME ~LaggingHost, NEW n \in Node, Regular(n), Utters(n),
         \A m \in net' \ net : Reveals(m, disk', votes') /\ CampaignBacked(m)',
         \A k \in Node : Stands(node'[k], net', disk', votes')
  PROVE  SafetyInv'
<1>1. /\ Moves(n) /\ Advances(disk, votes, disk', votes')
  BY RegularFacts
<1>2. AllSafe'
  <2> SUFFICES ASSUME NEW s, NEW b, NEW v, Said(net', votes', s, b, v)
               PROVE  Safe(disk', votes', s, b, v)
    BY DEF AllSafe
  <2>1. Said(net, votes, s, b, v) \/ Safe(disk, votes, s, b, v)
    BY DEF Utters
  <2>2. Safe(disk, votes, s, b, v)
    BY <2>1 DEF Regular, SafetyInv, AllSafe
  <2> QED
    BY <1>1, <2>2, SafeStays
<1>3. \A x \in votes' : VoteKept(x)'
  BY StepsKeepVotes DEF Regular, SafetyInv
<1>4. ASSUME NEW m \in net' PROVE Reveals(m, disk', votes') /\ CampaignBacked(m)'
  <2>1. CASE m \in net
    <3>1. Reveals(m, disk, votes) /\ CampaignBacked(m) /\ MessageTyped(m)
      BY <2>1 DEF Regular, SafetyInv, TypeInv
    <3>2. Reveals(m, disk', votes')
      <4> SUFFICES ASSUME m.type = "Promise", m.state = "Voted"
                   PROVE  /\ VoteOf(m.from, m.slot, m.vote, m.value) \in votes'
                          /\ Closed(disk', votes', m.from, m.slot, m.ballot, m.vote)
        BY DEF Reveals
      <4>1. /\ VoteOf(m.from, m.slot, m.vote, m.value) \in votes
            /\ Closed(disk, votes, m.from, m.slot, m.ballot, m.vote)
        BY <3>1 DEF Reveals
      <4>2. m.from \in Node /\ m.ballot \in BallotSet
        BY <3>1 DEF MessageTyped
      <4> QED
        BY <1>1, <4>1, <4>2, ClosedStays DEF Advances
    <3>3. CampaignBacked(m)'
      <4> SUFFICES ASSUME m.type \in Campaign
                   PROVE  /\ Asker(m) \in Node /\ Owns(Asker(m), m.ballot)
                          /\ m.ballot <= node'[Asker(m)].ledger.promised
                          /\ m.type = "Prepare" =>
                               m = Prepare(m.from, m.to, m.ballot, m.first, m.last)
        BY DEF CampaignBacked
      <4>1. /\ Asker(m) \in Node /\ Owns(Asker(m), m.ballot)
            /\ m.ballot <= node[Asker(m)].ledger.promised
            /\ m.type = "Prepare" => m = Prepare(m.from, m.to, m.ballot, m.first, m.last)
        BY <3>1 DEF CampaignBacked
      <4>2. /\ node[Asker(m)].ledger.promised = disk[Asker(m)].promised
            /\ node'[Asker(m)].ledger.promised = disk'[Asker(m)].promised
        BY <4>1 DEF Regular, TermInv
      <4>3. /\ disk[Asker(m)].promised \in Nat /\ disk'[Asker(m)].promised \in Nat
            /\ disk'[Asker(m)].promised >= disk[Asker(m)].promised
        BY <1>1, <4>1, BallotsAreBounded DEF Advances
      <4>4. m.ballot \in Nat
        BY <4>1, OwnersDiffer, BallotsAreBounded
      <4> QED
        BY <4>1, <4>2, <4>3, <4>4
    <3> QED
      BY <3>2, <3>3
  <2> QED
    BY <2>1
<1>5. \A p \in Node : Blank(disk'[p])
  BY StepsKeepBlanks DEF Regular, SafetyInv
<1> QED
  BY <1>2, <1>3, <1>4, <1>5 DEF SafetyInv

\* So does a step that takes no part in a campaign.
LEMMA CalmSafety ==
  ASSUME ~LaggingHost, NEW n \in Node, Regular(n), Utters(n), Calm(n)
  PROVE  SafetyInv'
<1>1. \A m \in net' \ net : m.type \notin Campaign
  BY DEF Calm, Mute
<1>2. \A m \in net' \ net : Reveals(m, disk', votes') /\ CampaignBacked(m)'
  BY <1>1 DEF Reveals, CampaignBacked, Campaign
<1>3. \A k \in Node \ {n} : Stands(node'[k], net', disk', votes')
  BY <1>1, OthersStand
<1>4. Stands(node'[n], net', disk', votes')
  <2>1. /\ Advances(disk, votes, disk', votes') /\ NodeTyped(node[n]) /\ NodeTyped(node'[n])
        /\ Stands(node[n], net, disk, votes)
    BY RegularFacts
  <2>2. \A m \in net' : m.type \in Campaign /\ m.ballot = node[n].ballot => m \in net
    BY <1>1
  <2>3. Serves(node[n], node'[n])
    BY DEF Calm
  <2> QED
    BY <2>1, <2>2, <2>3, ServesStands
<1> QED
  BY <1>2, <1>3, <1>4, StepKeepsSafety

\* The quorum fence, spelt out.
LEMMA FenceCovers ==
  ASSUME NEW nd, NodeTyped(nd), RecoveryTyped(nd.recovery), NEW s \in Nat
  PROVE  s <= Fence(nd) <=> Fenced(nd, s)
<1> DEFINE own == {nd.ledger.anchor.chosen_trim_slot, nd.delivered_through}
           anchors == {nd.recovery.peer[p].anchor.chosen_trim_slot : p \in Node}
           through == {nd.recovery.peer[p].chosen_through : p \in Node}
<1>1. /\ nd.ledger.anchor.chosen_trim_slot \in 0 .. MaxSlot
      /\ nd.delivered_through \in 0 .. MaxSlot /\ MaxSlot \in Nat
  BY Constants DEF NodeTyped, LedgerTyped, LedgerType, AnchorType
<1>2. \A p \in Node : /\ nd.recovery.peer[p].anchor.chosen_trim_slot \in 0 .. MaxSlot
                      /\ nd.recovery.peer[p].chosen_through \in 0 .. MaxSlot
  BY DEF RecoveryTyped, PeerType, AnchorType
<1>3. PICK S : S = own \cup anchors \cup through
  OBVIOUS
<1>4. Fence(nd) = Max(S)
  BY <1>3 DEF Fence
<1>5. \A x : x \in S <=> \/ x = nd.ledger.anchor.chosen_trim_slot
                         \/ x = nd.delivered_through
                         \/ \E p \in Node : \/ x = nd.recovery.peer[p].anchor.chosen_trim_slot
                                            \/ x = nd.recovery.peer[p].chosen_through
  BY <1>3
<1>6. S \subseteq 0 .. MaxSlot /\ S # {}
  BY <1>1, <1>2, <1>5
<1>7. Max(S) \in S /\ \A x \in S : x <= Max(S)
  <2>1. S \subseteq Nat /\ \A x \in S : x <= MaxSlot
    BY <1>1, <1>6
  <2> QED
    BY <1>1, <1>6, <2>1, MaxIsGreatest
<1> HIDE DEF own, anchors, through
<1>8. s <= Max(S) <=> \E x \in S : s <= x
  <2>1. \A x \in S : x \in Nat
    BY <1>1, <1>6
  <2> QED
    BY <1>7, <2>1
<1>9. (\E x \in S : s <= x) <=> Fenced(nd, s)
  BY <1>5 DEF Fenced
<1> QED
  BY <1>4, <1>8, <1>9

\* The node crashes and takes no more part in a campaign, or the step is whole.
LEMMA WholeOrCalm ==
  ASSUME NEW n, n \in DOMAIN node, NEW new, NEW w, NEW out, NEW used,
         Finish(n, new, w, out, used)
  PROVE  \/ Calm(n)
         \/ node'[n] = new /\ net' \subseteq (net \ used) \cup out
<1>1. CASE Discharged(n, new, w, out, used)
  BY <1>1 DEF Discharged
<1>2. CASE CutShort(n, new, w, out, used)
  <2>1. PICK l, log : Restarted(n, l, log)
    BY <1>2 DEF CutShort
  <2>2. node'[n].role = "Follower"
    BY <2>1, RestartFollows
  <2>3. Mute(net' \ net)
    BY <1>2 DEF CutShort, PreDurable, Mute, Campaign
  <2> QED
    BY <2>2, <2>3 DEF Calm, Serves
<1> QED
  BY <1>1, <1>2 DEF Finish

\* A candidate that opens a chunk nobody was asked about before.
LEMMA OpensChunk ==
  ASSUME NEW new, NEW base, NEW peers, new.recovery = NewRecovery(base, peers),
         \A p \in Node : peers[p].seen = {} /\ ~ peers[p].range_described,
         NEW N, InChunk(new, N), Frontier(new),
         \A p \in Node : Ranges(new, p, N) = {} /\ Promises(new, p, N) = {},
         NEW D, NEW V
  PROVE  Candidate(new, N, D, V)
<1> DEFINE last == slot_add(base, Chunk - 1)
<1>1. /\ new.recovery.peer = peers /\ new.recovery.ready = FALSE
      /\ new.recovery.recovered = [s \in ChunkSlots(base, last) |-> NoReport]
  BY DEF NewRecovery
<1>2. \A s \in DOMAIN new.recovery.recovered : new.recovery.recovered[s].state # "Voted"
  BY <1>1 DEF NoReport
<1>3. Recalls(new, D, V) /\ Ready(new)
  BY <1>1, <1>2 DEF Recalls, Ready
<1>4. \A p \in Node : Gathers(new, p, D, V) /\ Pending(new, p, N)
  BY <1>1 DEF Gathers, Pending
<1> QED
  BY <1>3, <1>4 DEF Candidate

LEMMA StartCampaignSafety ==
  ASSUME ~LaggingHost, NEW n \in Node, Regular(n), StartCampaign(n)
  PROVE  SafetyInv'
<1> DEFINE nd == node[n]
           peers == [p \in Node |-> NoPeer]
           rec == NewRecovery(nd.delivered_through + 1, peers)
<1>1. Utters(n) /\ TypeInv /\ TermInv
  BY StartCampaignSays DEF Regular
<1>2. PICK b, new :
        LET out == {Prepare(n, p, b, rec.base, rec.last) : p \in Node}
        IN  /\ b \in BallotSet /\ Finish(n, new, WritePromise(b), out, {})
            /\ Idles(nd, new, WritePromise(b))
            /\ GreatestRound(nd) + 1 \in 1 .. MaxRound
            /\ b = ballot_make(GreatestRound(nd) + 1, Priority[n], n)
            /\ ledger_highest_ballot(nd.ledger) < b
            /\ rec.base = nd.delivered_through + 1
            /\ new.role = "Preparing" /\ new.ballot = b /\ new.ledger.promised = b
            /\ new.recovery = rec
  BY <1>1, StartCampaignFacts
<1> DEFINE out == {Prepare(n, p, b, rec.base, rec.last) : p \in Node}
<1>3. /\ b \in BallotSet /\ Finish(n, new, WritePromise(b), out, {})
      /\ ledger_highest_ballot(nd.ledger) < b
      /\ rec.base = nd.delivered_through + 1
      /\ new.role = "Preparing" /\ new.ballot = b /\ new.ledger.promised = b
      /\ new.recovery = rec
      /\ new.delivered_through = nd.delivered_through
  BY <1>2 DEF Idles
<1>4. Owns(n, b)
  BY <1>2 DEF Owns
<1>5. CASE Calm(n)
  BY <1>1, <1>5, CalmSafety
<1>6. CASE node'[n] = new /\ net' \subseteq (net \ {}) \cup out
  <2>1. \A m \in out : /\ m.type = "Prepare" /\ m.from = n /\ m.ballot = b
                       /\ m.first = rec.base /\ m.last = rec.last
                       /\ m = Prepare(m.from, m.to, m.ballot, m.first, m.last)
    BY DEF Prepare
  <2>2. ASSUME NEW m \in net, m.type \in Campaign, m.ballot = b PROVE FALSE
    <3>1. Asker(m) \in Node /\ Owns(Asker(m), b) /\ b <= node[Asker(m)].ledger.promised
      BY <2>2 DEF Regular, SafetyInv, CampaignBacked
    <3>2. Asker(m) = n
      BY <1>4, <3>1, OwnersDiffer
    <3>3. LedgerTyped(nd.ledger, nd.memory_floor + Window)
      BY <1>1, NodeFacts
    <3>4. /\ nd.ledger.promised <= ledger_highest_ballot(nd.ledger)
          /\ nd.ledger.promised \in Nat /\ ledger_highest_ballot(nd.ledger) \in Nat /\ b \in Nat
      BY <1>1, <1>3, <3>3, HighestBallot, BallotsAreBounded, NodeFacts
    <3> QED
      BY <1>3, <3>1, <3>2, <3>4
  <2> HIDE DEF out
  <2>3. \A m \in net' : m.type \in Campaign /\ m.ballot = b => m \in out
    BY <1>6, <2>2
  <2>4. InChunk(new, net')
    BY <1>3, <2>1, <2>3 DEF InChunk, Campaign
  <2>5. Frontier(new)
    <3>1. nd.delivered_through \in Nat
      BY <1>1, NodeFacts
    <3> SUFFICES ASSUME NEW s \in Slot, s < rec.base PROVE Fenced(new, s)
      BY <1>3 DEF Frontier
    <3>2. s <= nd.delivered_through
      BY <1>3, <3>1, Constants
    <3> QED
      BY <1>3, <3>2 DEF Fenced
  <2>6. \A p \in Node : Ranges(new, p, net') = {} /\ Promises(new, p, net') = {}
    BY <1>3, <2>1, <2>3 DEF Ranges, Promises, Campaign
  <2>7. \A p \in Node : peers[p].seen = {} /\ ~ peers[p].range_described
    BY DEF NoPeer
  <2>8. Candidate(new, net', disk', votes')
    <3> HIDE DEF peers
    <3> QED
      BY <1>3, <2>4, <2>5, <2>6, <2>7, OpensChunk
  <2>9. Stands(node'[n], net', disk', votes')
    BY <1>3, <1>6, <2>8 DEF Stands
  <2>10. \A k \in Node \ {n} : Stands(node'[k], net', disk', votes')
    BY <1>1, <1>4, <1>6, <2>1, OthersStand
  <2>11. \A m \in net' \ net : Reveals(m, disk', votes') /\ CampaignBacked(m)'
    <3> SUFFICES ASSUME NEW m \in out PROVE Reveals(m, disk', votes') /\ CampaignBacked(m)'
      BY <1>6
    <3>1. b <= b
      BY <1>3, BallotOrder
    <3> QED
      BY <1>3, <1>4, <1>6, <2>1, <3>1 DEF Reveals, CampaignBacked, Asker, Campaign
  <2> QED
    BY <1>1, <2>9, <2>10, <2>11, StepKeepsSafety
<1> QED
  BY <1>1, <1>3, <1>5, <1>6, WholeOrCalm DEF TypeInv

\* The slots a leader still has before it are safe for any value.
LEMMA FreeIsSafe ==
  ASSUME TypeInv, TermInv, AllSafe, NEW n \in Node, Free(node[n], disk, votes),
         NEW s \in Slot, s >= node[n].next_slot, s # MaxSlot, NEW v
  PROVE  Safe(disk, votes, s, node[n].ballot, v)
<1>1. PICK Q \in Quorums :
        \A p \in Q : Closed(disk, votes, p, s, node[n].ballot, BALLOT_ZERO)
  BY DEF Free
<1> QED
  BY <1>1, NodeFacts, BallotsAreBounded, ProposalIsSafe

LEMMA ProposeSafety ==
  ASSUME ~LaggingHost, NEW n \in Node, Regular(n), NEW vals \in ProposalBatches,
         Propose(n, vals)
  PROVE  SafetyInv'
<1>1. TypeInv /\ TermInv /\ DecisionInv /\ AllSafe /\ Within(node[n])
  BY DEF Regular, SafetyInv
<1>2. Free(node[n], disk, votes)
  BY DEF Regular, SafetyInv, Stands, Propose, CanPropose
<1>3. \A s \in Slot : \A v : s >= node[n].next_slot /\ s # MaxSlot
                           => Safe(disk, votes, s, node[n].ballot, v)
  BY <1>1, <1>2, FreeIsSafe
<1>4. Utters(n) /\ Calm(n)
  BY <1>1, <1>3, ProposeSays
<1> QED
  BY <1>4, CalmSafety

-------------------------------------------------------------------------------
(* What a voter answers a candidate.                                       *)

\* As many slots as cells are reported.
LEMMA SlotsOfCells ==
  ASSUME NEW l, NEW top, LedgerTyped(l, top), NEW S, S \subseteq UsedCells(l)
  PROVE  Cardinality({l.cell[c].slot : c \in S}) = Cardinality(S)
<1> DEFINE T == {l.cell[c].slot : c \in S}
           f == [c \in S |-> l.cell[c].slot]
<1>1. \A c \in S : cell_of(l.cell[c].slot) = c
  BY UsedCellFacts DEF UsedCells
<1>2. f \in [S -> T]
  OBVIOUS
<1>3. \A c, d \in S : f[c] = f[d] => c = d
  BY <1>1
<1>4. \A t \in T : \E c \in S : f[c] = t
  OBVIOUS
<1>5. ExistsBijection(S, T)
  <2>1. f \in Injection(S, T) /\ f \in Surjection(S, T)
    BY <1>2, <1>3, <1>4 DEF Injection, IsInjective, Surjection
  <2> QED
    BY <2>1 DEF Bijection, ExistsBijection
<1>6. IsFiniteSet(S)
  <2>1. IsFiniteSet(Cells) /\ S \subseteq Cells
    <3>1. 0 \in Int /\ Window - 1 \in Int
      BY Constants
    <3> QED
      BY <3>1, FS_Interval DEF Cells, UsedCells
  <2> QED
    BY <2>1, FS_Subset
<1> QED
  BY <1>5, <1>6, FS_Bijection

\* An open vote in memory is above the frontier.
LEMMA VotedIsLive ==
  ASSUME TypeInv, WindowInv, NEW n \in Node, NEW c \in Cells,
         node[n].ledger.cell[c].state = "Voted"
  PROVE  /\ node[n].ledger.cell[c].slot \in Slot
         /\ node[n].ledger.cell[c].slot > node[n].delivered_through
         /\ Cell(node[n].ledger, node[n].ledger.cell[c].slot) = node[n].ledger.cell[c]
<1> DEFINE nd == node[n]
<1>1. PICK s : s = nd.ledger.cell[c].slot
  OBVIOUS
<1>2. /\ LedgerTyped(nd.ledger, nd.memory_floor + Window) /\ WindowOK(nd)
      /\ nd.delivered_through \in Nat /\ nd.memory_floor \in Nat
  BY NodeFacts DEF WindowInv
<1>3. s \in Slot /\ s \in Nat /\ cell_of(s) = c /\ s <= nd.memory_floor + Window
  BY <1>1, <1>2, UsedCellFacts, SlotsHaveCells DEF LedgerTyped
<1>4. Cell(nd.ledger, s) = nd.ledger.cell[c]
  BY <1>3 DEF Cell
<1>5. ~ (s \in 1 .. nd.memory_floor)
  BY <1>1, <1>2 DEF WindowOK
<1>6. ~ (s \in (nd.memory_floor + 1) .. nd.delivered_through)
  BY <1>2, <1>3, <1>4 DEF WindowOK, ledger_is_chosen
<1>7. s > nd.delivered_through
  BY <1>2, <1>3, <1>5, <1>6 DEF Slot
<1> QED
  BY <1>1, <1>3, <1>4, <1>7

\* Above the frontier the memory holds every vote the node ever cast, but for those it
\* has outvoted and the slots it knows to be decided.
LEMMA VoteIsThere ==
  ASSUME TypeInv, WindowInv, NEW x \in votes, VoteKept(x), NEW n \in Node, x.acceptor = n,
         x.slot > node[n].delivered_through
  PROVE  /\ Cell(node[n].ledger, x.slot) = Cell(disk[n], x.slot)
         /\ Cell(node[n].ledger, x.slot).slot = x.slot
         /\ \/ Cell(node[n].ledger, x.slot).state = "Chosen"
            \/ Cell(node[n].ledger, x.slot).vote_ballot >= x.ballot
<1> DEFINE s == x.slot
<1>1. s \in Slot /\ s \in Nat /\ node[n].delivered_through \in Nat
  BY NodeFacts, SlotsHaveCells DEF TypeInv, VoteType
<1>2. ~ (s <= node[n].delivered_through)
  BY <1>1
<1>3. /\ Cell(disk[n], s).slot = s
      /\ Cell(disk[n], s).state = "Chosen" \/ Cell(disk[n], s).vote_ballot >= x.ballot
  BY <1>2 DEF VoteKept, Kept, Accepted
<1>4. Cell(disk[n], s) = Cell(node[n].ledger, s)
  BY <1>1, <1>3 DEF WindowInv, DiskOK
<1> QED
  BY <1>3, <1>4

\* What a promise reports is the last vote of its voter.
LEMMA ReportIsLast ==
  ASSUME TypeInv, WindowInv, \A x \in votes : VoteKept(x), NEW n \in Node, NEW c \in Cells,
         node[n].ledger.cell[c].state = "Voted", NEW D, NEW b, D[n].promised >= b
  PROVE  Closed(D, votes, n, node[n].ledger.cell[c].slot, b, node[n].ledger.cell[c].vote_ballot)
<1>1. ASSUME NEW x \in votes, x.acceptor = n, x.slot = node[n].ledger.cell[c].slot
      PROVE  x.ballot <= node[n].ledger.cell[c].vote_ballot
  <2>1. /\ x.slot > node[n].delivered_through
        /\ Cell(node[n].ledger, x.slot) = node[n].ledger.cell[c]
    BY <1>1, VotedIsLive
  <2>2. node[n].ledger.cell[c].vote_ballot >= x.ballot
    BY <1>1, <2>1, VoteIsThere
  <2>3. node[n].ledger.cell[c].vote_ballot \in Nat /\ x.ballot \in Nat
    BY NodeFacts, NodeCells, BallotsAreBounded DEF CellType, TypeInv, VoteType
  <2> QED
    BY <2>2, <2>3
<1> QED
  BY <1>1 DEF Closed

\* In the slots it reports nothing of, the voter has no votes.
LEMMA SilenceIsEmpty ==
  ASSUME TypeInv, WindowInv, \A x \in votes : VoteKept(x), NEW n \in Node, Blank(disk[n]),
         NEW first \in Slot, NEW last,
         NEW inside,
         inside = {c \in Reported(node[n].ledger, first) : node[n].ledger.cell[c].slot <= last},
         NEW s \in Slot, s >= first, s > node[n].ledger.anchor.chosen_trim_slot,
         s > node[n].delivered_through, s \notin {node[n].ledger.cell[c].slot : c \in inside},
         s <= last \/ inside = Reported(node[n].ledger, first),
         NEW D, NEW b, D[n].promised >= b
  PROVE  Closed(D, votes, n, s, b, BALLOT_ZERO)
<1>1. ASSUME NEW x \in votes, x.acceptor = n, x.slot = s
      PROVE  x.ballot <= BALLOT_ZERO
  <2> DEFINE c == cell_of(s)
             cell == node[n].ledger.cell[c]
  <2>1. c \in Cells /\ Cell(node[n].ledger, s) = cell
    BY SlotsHaveCells DEF Cell
  <2>2. /\ cell = disk[n].cell[c] /\ cell.slot = s
        /\ cell.state = "Chosen" \/ cell.vote_ballot >= x.ballot
    BY <1>1, <2>1, VoteIsThere DEF Cell
  <2>3. c \notin inside
    BY <2>2
  <2>4. c \notin Reported(node[n].ledger, first)
    BY <2>2, <2>3
  <2>5. cell.state = "Empty"
    BY <2>1, <2>2, <2>4, Zenon DEF Reported, UsedCells
  <2>6. BALLOT_ZERO >= x.ballot
    BY <2>1, <2>2, <2>5 DEF Blank
  <2>7. x.ballot \in Nat
    BY BallotsAreBounded DEF TypeInv, VoteType
  <2> QED
    BY <2>6, <2>7 DEF BALLOT_ZERO
<1> QED
  BY <1>1 DEF Closed

\* out is one answer of voter n, for the chunk of candidate nd or for an earlier one, and
\* all that there is in N of nd's campaign and was not in M.
OneAnswer(n, nd, M, N, D, V, out, first, last, I, a, t, more) ==
  /\ first \in Slot /\ last \in first .. MaxSlot
  /\ I \in SUBSET (first .. last) /\ a \in 0 .. MaxSlot /\ t \in 0 .. MaxSlot
  /\ more \in BOOLEAN
  /\ \A m \in N : m.type \in Campaign /\ m.ballot = nd.ballot => m \in M \cup out
  /\ \A m \in out : /\ m.from = n /\ m.type \in {"Promise", "Promise_Range"}
                    /\ m.type = "Promise" => m.slot \in I
                    /\ m.type = "Promise_Range" =>
                         /\ m.first = first /\ m.reported = Cardinality(I)
                         /\ m.more = more /\ m.anchor.chosen_trim_slot = a
                         /\ m.chosen_through = t
  /\ \/ /\ first = nd.recovery.base /\ last = nd.recovery.last
        /\ D[n].promised >= nd.ballot /\ Pending(nd, n, M) /\ ~ Asked(nd, n, N)
        /\ Covers(nd, n, D, V, I, a, t, more)
     \/ last < nd.recovery.base

LEMMA AddsAnswer ==
  ASSUME NEW n \in Node, NEW nd, NodeTyped(nd), RecoveryTyped(nd.recovery), NEW M, NEW N,
         NEW D, NEW V, Candidate(nd, M, D, V), NEW out, NEW first, NEW last, NEW I, NEW a, NEW t,
         NEW more, OneAnswer(n, nd, M, N, D, V, out, first, last, I, a, t, more)
  PROVE  Candidate(nd, N, D, V)
<1>5. /\ first \in Slot /\ last \in first .. MaxSlot /\ I \in SUBSET (first .. last)
      /\ a \in 0 .. MaxSlot /\ t \in 0 .. MaxSlot /\ more \in BOOLEAN
  BY DEF OneAnswer
<1>6. \A m \in N : m.type \in Campaign /\ m.ballot = nd.ballot => m \in M \cup out
  BY DEF OneAnswer
<1>7. \A m \in out : /\ m.from = n /\ m.type \in {"Promise", "Promise_Range"}
                     /\ m.type = "Promise" => m.slot \in I
                     /\ m.type = "Promise_Range" =>
                          /\ m.first = first /\ m.reported = Cardinality(I)
                          /\ m.more = more /\ m.anchor.chosen_trim_slot = a
                          /\ m.chosen_through = t
  BY DEF OneAnswer
<1>8. \/ /\ first = nd.recovery.base /\ last = nd.recovery.last
         /\ D[n].promised >= nd.ballot /\ Pending(nd, n, M) /\ ~ Asked(nd, n, N)
         /\ Covers(nd, n, D, V, I, a, t, more)
      \/ last < nd.recovery.base
  BY DEF OneAnswer
<1>1. /\ nd.recovery.base \in Nat /\ nd.recovery.last \in Nat /\ first \in Nat /\ last \in Nat
      /\ MaxSlot \in Nat /\ nd.recovery.last >= nd.recovery.base
  <2>1. nd.recovery.base \in Slot /\ nd.recovery.last = slot_add(nd.recovery.base, Chunk - 1)
    BY DEF RecoveryTyped
  <2>2. /\ nd.recovery.base \in 0 .. (MaxSlot + 1) /\ nd.recovery.base <= MaxSlot
        /\ Chunk - 1 \in Nat
    BY <2>1, Constants DEF Slot
  <2>3. nd.recovery.last \in nd.recovery.base .. MaxSlot
    BY <2>1, <2>2, SlotAdd
  <2> QED
    BY <1>5, <2>1, <2>3, Constants DEF Slot
<1>2. \A s \in I : s \in Nat /\ first <= s /\ s <= last
  BY <1>1, <1>5
<1>3. InChunk(nd, N)
  <2> SUFFICES ASSUME NEW m \in N, m.type \in Campaign, m.ballot = nd.ballot
               PROVE  /\ m.type = "Prepare" =>
                           \/ m.first = nd.recovery.base /\ m.last = nd.recovery.last
                           \/ m.last < nd.recovery.base
                      /\ m.type = "Promise" => m.slot <= nd.recovery.last
                      /\ m.type = "Promise_Range" => m.first <= nd.recovery.base
    BY DEF InChunk
  <2>1. CASE m \in M
    BY <2>1 DEF Candidate, InChunk
  <2>2. CASE m \in out
    <3>1. last <= nd.recovery.last /\ first <= nd.recovery.base
      BY <1>1, <1>5, <1>8
    <3>2. \A s \in I : s <= nd.recovery.last
      BY <1>1, <1>2, <3>1
    <3> QED
      BY <1>7, <2>2, <3>1, <3>2
  <2> QED
    BY <1>6, <2>1, <2>2
<1>4. ASSUME NEW p \in Node PROVE Pending(nd, p, N) \/ Described(nd, p, N, D, V)
  <2>1. Asked(nd, p, N) => Asked(nd, p, M)
    BY <1>6, <1>7 DEF Asked, Campaign
  <2>2. CASE Ranges(nd, p, N) \subseteq Ranges(nd, p, M) /\ Promises(nd, p, N) \subseteq Promises(nd, p, M)
    <3>1. Pending(nd, p, M) \/ Described(nd, p, M, D, V)
      BY DEF Candidate
    <3>2. CASE Pending(nd, p, M)
      BY <2>2, <3>2 DEF Pending
    <3>3. CASE Described(nd, p, M, D, V)
      <4>1. PICK J \in SUBSET (nd.recovery.base .. nd.recovery.last), x \in 0 .. MaxSlot,
                 y \in 0 .. MaxSlot, z \in BOOLEAN :
              Covers(nd, p, D, V, J, x, y, z) /\ Answers(nd, p, M, J, x, y, z)
        BY <3>3 DEF Described
      <4>2. Answers(nd, p, N, J, x, y, z)
        BY <2>2, <4>1 DEF Answers
      <4> QED
        BY <2>1, <3>3, <4>1, <4>2 DEF Described
    <3> QED
      BY <3>1, <3>2, <3>3
  <2>3. CASE p # n
    <3>1. /\ Ranges(nd, p, N) \subseteq Ranges(nd, p, M)
          /\ Promises(nd, p, N) \subseteq Promises(nd, p, M)
      BY <1>6, <1>7, <2>3 DEF Ranges, Promises, Campaign
    <3> QED
      BY <2>2, <3>1
  <2>4. CASE last < nd.recovery.base
    <3>1. first # nd.recovery.base /\ \A s \in I : ~ (s >= nd.recovery.base)
      BY <1>1, <1>2, <1>5, <2>4
    <3>2. /\ Ranges(nd, p, N) \subseteq Ranges(nd, p, M)
          /\ Promises(nd, p, N) \subseteq Promises(nd, p, M)
      BY <1>6, <1>7, <3>1 DEF Ranges, Promises, Campaign
    <3> QED
      BY <2>2, <3>2
  <2>5. CASE /\ p = n /\ first = nd.recovery.base /\ last = nd.recovery.last
             /\ D[n].promised >= nd.ballot /\ Pending(nd, n, M) /\ ~ Asked(nd, n, N)
             /\ Covers(nd, n, D, V, I, a, t, more)
    <3>1. Ranges(nd, n, N) \subseteq out /\ Promises(nd, n, N) \subseteq out
      BY <1>6, <1>7, <2>5 DEF Ranges, Promises, Campaign, Pending
    <3>2. Answers(nd, n, N, I, a, t, more)
      BY <1>7, <2>5, <3>1 DEF Answers, Pending, Ranges, Promises
    <3> QED
      BY <1>5, <2>5, <3>2 DEF Described
  <2> QED
    BY <1>8, <2>3, <2>4, <2>5
<1> QED
  BY <1>3, <1>4 DEF Candidate

\* Voter n turns m into new, out and w: one promise for each slot of I and the manifest.
AnswersWith(n, m, new, w, out, I, more) ==
  /\ Finish(n, new, w, out, Consumed(m))
  /\ Serves(node[n], new) /\ new.ledger.promised = m.ballot
  /\ WritesTyped(w, 0) /\ DOMAIN w.votes = {}
  /\ \A x \in out :
       /\ x.from = n /\ x.to = m.from /\ x.ballot = m.ballot
       /\ x.type \in {"Promise", "Promise_Range"}
       /\ x.type = "Promise" => x.slot \in I
       /\ x.type = "Promise_Range" =>
            /\ x.first = m.first /\ x.reported = Cardinality(I) /\ x.more = more
            /\ x.anchor.chosen_trim_slot = node[n].ledger.anchor.chosen_trim_slot
            /\ x.chosen_through = node[n].delivered_through
       /\ x.type = "Promise" /\ x.state = "Voted" =>
            /\ VoteOf(n, x.slot, x.vote, x.value) \in votes
            /\ \A D : D[n].promised >= m.ballot
                        => Closed(D, votes, n, x.slot, m.ballot, x.vote)
  /\ \A D : D[n].promised >= m.ballot =>
       \A s \in Slot :
         /\ s >= m.first /\ s > node[n].ledger.anchor.chosen_trim_slot
         /\ s > node[n].delivered_through /\ s \notin I
         /\ s <= m.last \/ ~ more
         => Closed(D, votes, n, s, m.ballot, BALLOT_ZERO)

\* The answer to a prepare that is not refused.
LEMMA PrepareAnswered ==
  ASSUME TypeInv, TermInv, WindowInv, \A x \in votes : VoteKept(x), NEW n \in Node,
         Blank(disk[n]), NEW m \in Received(n, "Prepare"), OnPrepare(n, m)
  PROVE  \/ Finish(n, node[n], NoWrites, {Nack(n, m.from, m.ballot, node[n].ledger.promised)},
                   Consumed(m))
         \/ \E new, w, out : \E I \in SUBSET (m.first .. m.last), more \in BOOLEAN :
              AnswersWith(n, m, new, w, out, I, more)
<1> DEFINE nd == node[n]
           l == nd.ledger
           cells == Reported(l, m.first)
           inside == {c \in cells : l.cell[c].slot <= m.last}
           I == {l.cell[c].slot : c \in inside}
           range == [type |-> "Promise_Range", from |-> n, to |-> m.from, ballot |-> m.ballot,
                     anchor |-> l.anchor, chosen_through |-> nd.delivered_through,
                     first |-> m.first, last |-> m.last,
                     reported |-> Cardinality(inside), more |-> inside # cells]
           out == {Promise(n, m.from, m.ballot, l.cell[c]) : c \in inside} \cup {range}
           new == observe_leader([nd EXCEPT !.ledger.promised = m.ballot], m.ballot)
           w == IF m.ballot = l.promised THEN NoWrites ELSE WritePromise(m.ballot)
<1>1. SUFFICES ASSUME Finish(n, new, w, out, Consumed(m))
               PROVE  \E nw, wr, o : \E J \in SUBSET (m.first .. m.last), more \in BOOLEAN :
              AnswersWith(n, m, nw, wr, o, J, more)
  BY DEF OnPrepare
<1>2. /\ m.ballot \in BallotSet /\ m.first \in Slot /\ m.last = slot_add(m.first, Chunk - 1)
  BY DEF Received, TypeInv, MessageTyped
<1>3. NodeTyped(nd) /\ LedgerTyped(l, nd.memory_floor + Window)
  BY NodeFacts
<1>4. \A c \in inside : /\ c \in Cells /\ l.cell[c].state # "Empty"
                        /\ l.cell[c].slot >= m.first /\ l.cell[c].slot <= m.last
  BY DEF Reported, UsedCells
<1>5. I \in SUBSET (m.first .. m.last)
  <2>1. \A c \in inside : l.cell[c].slot \in Nat
    BY <1>3, <1>4, UsedCellFacts, SlotsHaveCells
  <2>2. m.first \in Nat /\ m.last \in Nat
    <3>1. m.first \in 0 .. (MaxSlot + 1) /\ Chunk - 1 \in Nat
      BY <1>2, Constants DEF Slot
    <3> QED
      <4>1. m.last \in 0 .. MaxSlot
        BY <1>2, <3>1, SlotAdd
      <4> QED
        BY <1>2, <4>1, Constants DEF Slot
  <2> QED
    BY <1>4, <2>1, <2>2
<1>6. Cardinality(I) = Cardinality(inside)
  <2>1. inside \subseteq UsedCells(l)
    BY DEF Reported
  <2> QED
    BY <1>3, <2>1, SlotsOfCells
<1>7. Serves(nd, new) /\ new.ledger.promised = m.ballot
  <2>1. /\ new.ledger.cell = l.cell /\ new.ledger.promised = m.ballot
        /\ new.ledger.anchor = l.anchor /\ new.delivered_through = nd.delivered_through
    BY <1>2, <1>3, PromiseAndObserve
  <2>2. Stays(nd, new)
    BY <1>2, <1>3, ObserveStays
  <2>3. /\ nd.next_slot \in Nat /\ nd.delivered_through \in Nat
        /\ l.anchor.chosen_trim_slot \in 0 .. MaxSlot
    <3>1. nd.next_slot \in Slot /\ nd.delivered_through \in Nat
      BY <1>3, NodeFacts DEF NodeTyped
    <3>2. l.anchor \in AnchorType
      BY NodeFacts
    <3> QED
      BY <3>1, <3>2, SlotsHaveCells DEF AnchorType
  <2>4. \A s \in Slot : Recorded(l, s) => Recorded(new.ledger, s)
    BY <2>1 DEF Recorded, UsedCells
  <2> HIDE DEF new
  <2> QED
    BY <2>1, <2>2, <2>3, <2>4, Constants DEF Serves, Stays
<1>8. WritesTyped(w, 0) /\ DOMAIN w.votes = {}
  BY <1>2, EmptyBatch DEF WritesTyped, WritePromise, NoWrites
<1>9. ASSUME NEW c \in inside, l.cell[c].state = "Voted"
      PROVE  /\ VoteOf(n, l.cell[c].slot, l.cell[c].vote_ballot, l.cell[c].value) \in votes
             /\ \A D : D[n].promised >= m.ballot
                         => Closed(D, votes, n, l.cell[c].slot, m.ballot, l.cell[c].vote_ballot)
  BY <1>4, <1>9, ReportIsLast DEF TermInv, Written
<1>10. ASSUME NEW D, D[n].promised >= m.ballot, NEW s \in Slot,
              s >= m.first, s > l.anchor.chosen_trim_slot,
              s > nd.delivered_through, s \notin I, s <= m.last \/ ~ (inside # cells)
       PROVE  Closed(D, votes, n, s, m.ballot, BALLOT_ZERO)
  <2>1. s <= m.last \/ inside = cells
    BY <1>10
  <2> QED
    BY <1>2, <1>10, <2>1, SilenceIsEmpty
<1>11. \A x \in out :
         \/ x = range
         \/ \E c \in inside : x = Promise(n, m.from, m.ballot, l.cell[c])
  OBVIOUS
<1> HIDE DEF inside, cells
<1>12. ASSUME NEW x \in out
       PROVE  /\ x.from = n /\ x.to = m.from /\ x.ballot = m.ballot
              /\ x.type \in {"Promise", "Promise_Range"}
              /\ x.type = "Promise" => x.slot \in I
              /\ x.type = "Promise_Range" =>
                   /\ x.first = m.first /\ x.reported = Cardinality(I)
                   /\ x.more = (inside # cells)
                   /\ x.anchor.chosen_trim_slot = l.anchor.chosen_trim_slot
                   /\ x.chosen_through = nd.delivered_through
              /\ x.type = "Promise" /\ x.state = "Voted" =>
                   /\ VoteOf(n, x.slot, x.vote, x.value) \in votes
                   /\ \A D : D[n].promised >= m.ballot
                               => Closed(D, votes, n, x.slot, m.ballot, x.vote)
  <2>1. CASE x = range
    <3> DEFINE k == Cardinality(inside)
               mo == inside # cells
    <3>1. k = Cardinality(I)
      BY <1>6
    <3> HIDE DEF k, mo, I
    <3> QED
      BY <2>1, <3>1 DEF k, mo
  <2>2. ASSUME NEW c \in inside, x = Promise(n, m.from, m.ballot, l.cell[c])
        PROVE  /\ x.from = n /\ x.to = m.from /\ x.ballot = m.ballot /\ x.type = "Promise"
               /\ x.slot = l.cell[c].slot /\ x.vote = l.cell[c].vote_ballot
               /\ x.state = l.cell[c].state /\ x.value = l.cell[c].value
    BY <2>2 DEF Promise
  <2>3. CASE \E c \in inside : x = Promise(n, m.from, m.ballot, l.cell[c])
    <3>1. PICK c \in inside : x = Promise(n, m.from, m.ballot, l.cell[c])
      BY <2>3
    <3>2. l.cell[c].slot \in I
      OBVIOUS
    <3> HIDE DEF I
    <3> QED
      BY <1>9, <2>2, <3>1, <3>2
  <2> QED
    BY <1>11, <2>1, <2>3
<1>13. (inside # cells) \in BOOLEAN
  OBVIOUS
<1> HIDE DEF out, new, w, I
<1>14. PICK more \in BOOLEAN : more = (inside # cells)
  BY <1>13
<1>15. AnswersWith(n, m, new, w, out, I, more)
  BY <1>1, <1>7, <1>8, <1>10, <1>12, <1>14 DEF AnswersWith
<1> QED
  BY <1>5, <1>15

LEMMA OnPrepareSafety ==
  ASSUME ~LaggingHost, "Prepare" \in OnceOnly, NEW n \in Node, Regular(n),
         NEW m \in Received(n, "Prepare"), OnPrepare(n, m)
  PROVE  SafetyInv'
<1>1. /\ TypeInv /\ TypeInv' /\ TermInv /\ TermInv' /\ DecisionInv /\ WindowInv
      /\ AllSafe /\ Blank(disk[n])
      /\ \A x \in votes : VoteKept(x)
      /\ \A x \in net : CampaignBacked(x)
  BY DEF Regular, SafetyInv
<1>2. Utters(n)
  BY <1>1, OnPrepareSays
<1>3. CASE Finish(n, node[n], NoWrites, {Nack(n, m.from, m.ballot, node[n].ledger.promised)},
                  Consumed(m))
  <2> DEFINE out == {Nack(n, m.from, m.ballot, node[n].ledger.promised)}
  <2>1. Tells(out)
    BY PlainTells
  <2>2. Mute(out)
    BY DEF Mute, Nack, Campaign
  <2> HIDE DEF out
  <2>3. Calm(n)
    BY <1>1, <1>3, <2>1, <2>2, TellingStill DEF out
  <2> QED
    BY <1>2, <2>3, CalmSafety
<1>4. ASSUME NEW new, NEW w, NEW out, NEW I \in SUBSET (m.first .. m.last), NEW more \in BOOLEAN,
             AnswersWith(n, m, new, w, out, I, more)
      PROVE  SafetyInv'
  <2>1. Finish(n, new, w, out, Consumed(m)) /\ n \in DOMAIN node /\ n \in DOMAIN disk
    BY <1>1, <1>4 DEF AnswersWith, TypeInv
  <2>2. CASE Calm(n)
    BY <1>2, <2>2, CalmSafety
  <2>3. CASE node'[n] = new /\ net' \subseteq (net \ Consumed(m)) \cup out
    <3> DEFINE k == m.from
               b == m.ballot
               M == net \cap net'
    <3>1. /\ m \in net /\ m.type = "Prepare" /\ m.to = n /\ m.first \in Slot
          /\ m.last = slot_add(m.first, Chunk - 1) /\ b \in BallotSet
      BY <1>1 DEF Received, TypeInv, MessageTyped
    <3>2. /\ k \in Node /\ Owns(k, b) /\ b <= node[k].ledger.promised
          /\ m = Prepare(k, n, b, m.first, m.last)
      BY <1>1, <3>1 DEF CampaignBacked, Asker, Campaign
    <3>3. votes' = votes
      BY <1>4, <2>1, NothingVoted DEF AnswersWith
    <3>4. disk'[n].promised = b /\ b >= b /\ b <= b
      BY <1>1, <1>4, <2>3, <3>1, BallotOrder DEF TermInv, AnswersWith
    <3>5. \A x \in out : x.from = n /\ x.to = k /\ x.ballot = b /\ x.type \in {"Promise", "Promise_Range"}
      BY <1>4 DEF AnswersWith
    <3>6. \A x \in net' \ net : x \in out
      BY <2>3
    <3>7. \A x \in net' \ net : Reveals(x, disk', votes') /\ CampaignBacked(x)'
      <4> SUFFICES ASSUME NEW x \in out PROVE Reveals(x, disk', votes') /\ CampaignBacked(x)'
        BY <3>6
      <4>1. Reveals(x, disk', votes')
        BY <1>4, <3>3, <3>4, <3>5 DEF AnswersWith, Reveals
      <4>2. b <= node'[k].ledger.promised
        <5>1. CASE k = n
          BY <1>4, <2>3, <3>4, <5>1 DEF AnswersWith
        <5>2. CASE k # n
          BY <1>2, <3>2, <5>2, RegularFacts
        <5> QED
          BY <5>1, <5>2
      <4> QED
        BY <3>2, <3>5, <4>1, <4>2 DEF CampaignBacked, Asker
    <3>8. ASSUME NEW q \in Node, q # k PROVE Stands(node'[q], net', disk', votes')
      <4>1. CASE q # n
        BY <1>2, <3>2, <3>5, <3>6, <3>8, <4>1, OthersStand
      <4>2. CASE q = n
        <5>1. /\ Advances(disk, votes, disk', votes') /\ NodeTyped(node[n]) /\ NodeTyped(node'[n])
              /\ Stands(node[n], net, disk, votes) /\ Serves(node[n], node'[n])
          BY <1>2, <1>4, <2>3, RegularFacts DEF AnswersWith
        <5>2. CASE node[n].role = "Follower"
          BY <4>2, <5>1, <5>2 DEF Serves, Stands
        <5>3. CASE node[n].role # "Follower"
          <6>1. Owns(n, node[n].ballot)
            BY <1>1, <5>3 DEF TermInv, Bid
          <6>2. node[n].ballot # b
            BY <3>2, <3>8, <4>2, <6>1, OwnersDiffer
          <6>3. \A x \in net' : x.type \in Campaign /\ x.ballot = node[n].ballot => x \in net
            BY <3>5, <3>6, <6>2
          <6> QED
            BY <4>2, <5>1, <6>3, ServesStands
        <5> QED
          BY <5>2, <5>3
      <4> QED
        BY <4>1, <4>2
    <3>9. Stands(node'[k], net', disk', votes')
      <4>1. /\ Advances(disk, votes, disk', votes') /\ NodeTyped(node[k]) /\ NodeTyped(node'[k])
            /\ Stands(node[k], net, disk, votes)
        BY <1>2, <3>2, RegularFacts
      <4>2. Serves(node[k], node'[k])
        <5>1. CASE k = n
          BY <1>4, <2>3, <5>1 DEF AnswersWith
        <5>2. CASE k # n
          BY <1>2, <3>2, <4>1, <5>2, RegularFacts, ItselfServes
        <5> QED
          BY <5>1, <5>2
      <4>3. Stands(node'[k], M, disk', votes')
        BY <4>1, <4>2, ServesStands
      <4>4. CASE node'[k].role # "Preparing"
        BY <4>3, <4>4 DEF Stands
      <4>5. CASE node'[k].role = "Preparing" /\ node[k].ballot # b
        <5>1. \A x \in net' : x.type \in Campaign /\ x.ballot = node[k].ballot => x \in net
          BY <3>5, <3>6, <4>5
        <5> QED
          BY <4>1, <4>2, <5>1, ServesStands
      <4>6. CASE node'[k].role = "Preparing" /\ node[k].ballot = b
        <5>1. /\ node[k].role = "Preparing" /\ node'[k].ballot = b
              /\ node'[k].recovery = node[k].recovery
          BY <4>2, <4>6 DEF Serves
        <5>2. Candidate(node[k], net, disk, votes) /\ Candidate(node'[k], M, disk', votes')
          BY <4>1, <4>3, <4>6, <5>1 DEF Stands
        <5>3. RecoveryTyped(node'[k].recovery)
          BY <4>1, <4>6 DEF NodeTyped
        <5>4. \/ m.first = node[k].recovery.base /\ m.last = node[k].recovery.last
              \/ m.last < node[k].recovery.base
          BY <3>1, <4>6, <5>2 DEF Candidate, InChunk, Campaign
        <5>5. ASSUME m.first = node[k].recovery.base
              PROVE  /\ Pending(node'[k], n, M) /\ ~ Asked(node'[k], n, net')
                     /\ Covers(node'[k], n, disk', votes', I, node[n].ledger.anchor.chosen_trim_slot,
                               node[n].delivered_through, more)
          <6>1. Pending(node'[k], n, M)
            <7>1. Asked(node[k], n, net)
              BY <3>1, <4>6, <5>5 DEF Asked
            <7>2. Pending(node[k], n, net)
              BY <5>2, <7>1 DEF Candidate, Described
            <7> QED
              BY <4>6, <5>1, <7>2 DEF Pending, Ranges, Promises
          <6>2. ~ Asked(node'[k], n, net')
            <7> SUFFICES ASSUME NEW x \in net', x.type = "Prepare", x.to = n, x.ballot = b,
                                x.first = m.first
                         PROVE  FALSE
              BY <4>6, <5>1, <5>5 DEF Asked
            <7>1. x \in net /\ x # m
              BY <2>3, <3>5 DEF Consumed, Received
            <7>2. x = Prepare(x.from, n, b, m.first, x.last) /\ x.from \in Node /\ Owns(x.from, b)
              BY <1>1, <7>1 DEF CampaignBacked, Asker, Campaign
            <7>3. x.last = m.last
              BY <1>1, <3>1, <7>1 DEF TypeInv, MessageTyped
            <7>4. x.from = k
              BY <3>2, <7>2, OwnersDiffer
            <7> QED
              BY <3>2, <7>1, <7>2, <7>3, <7>4
          <6>3. Covers(node'[k], n, disk', votes', I, node[n].ledger.anchor.chosen_trim_slot,
                       node[n].delivered_through, more)
            <7>1. m.last = node[k].recovery.last
              <8>1. m.last \in m.first .. MaxSlot /\ m.first \in Nat /\ MaxSlot \in Nat
                <9>1. m.first \in 0 .. (MaxSlot + 1) /\ Chunk - 1 \in Nat /\ m.first <= MaxSlot
                  BY <3>1, Constants DEF Slot
                <9>2. m.last \in m.first .. MaxSlot
                  BY <3>1, <9>1, SlotAdd
                <9> QED
                  BY <9>1, <9>2, Constants DEF Slot
              <8>2. ~ (m.last < m.first)
                BY <8>1
              <8> QED
                BY <5>4, <5>5, <8>2
            <7>2. \A s \in Slot :
                     /\ s >= m.first /\ s > node[n].ledger.anchor.chosen_trim_slot
                     /\ s > node[n].delivered_through /\ s \notin I
                     /\ s <= m.last \/ ~ more
                     => Closed(disk', votes, n, s, b, BALLOT_ZERO)
              BY <1>4, <3>4 DEF AnswersWith
            <7> QED
              BY <3>3, <5>1, <5>5, <7>1, <7>2 DEF Covers
          <6> QED
            BY <6>1, <6>2, <6>3
        <5>6. \A x \in net' : x.type \in Campaign /\ x.ballot = node'[k].ballot => x \in M \cup out
          BY <3>6
        <5>7. /\ m.last \in m.first .. MaxSlot
              /\ node[n].ledger.anchor.chosen_trim_slot \in 0 .. MaxSlot
              /\ node[n].delivered_through \in 0 .. MaxSlot
          <6>1. m.first \in 0 .. (MaxSlot + 1) /\ Chunk - 1 \in Nat /\ m.first <= MaxSlot
            BY <3>1, Constants DEF Slot
          <6> QED
            BY <1>1, <3>1, <6>1, SlotAdd, NodeFacts DEF AnchorType
        <5>8. \A x \in out :
                /\ x.from = n /\ x.type \in {"Promise", "Promise_Range"}
                /\ x.type = "Promise" => x.slot \in I
                /\ x.type = "Promise_Range" =>
                     /\ x.first = m.first /\ x.reported = Cardinality(I) /\ x.more = more
                     /\ x.anchor.chosen_trim_slot = node[n].ledger.anchor.chosen_trim_slot
                     /\ x.chosen_through = node[n].delivered_through
          BY <1>4 DEF AnswersWith
        <5>9. disk'[n].promised >= node'[k].ballot
          BY <3>4, <5>1
        <5>10. Candidate(node'[k], net', disk', votes')
          <6>1. \/ /\ m.first = node'[k].recovery.base /\ m.last = node'[k].recovery.last
                   /\ disk'[n].promised >= node'[k].ballot
                   /\ Pending(node'[k], n, M) /\ ~ Asked(node'[k], n, net')
                   /\ Covers(node'[k], n, disk', votes', I, node[n].ledger.anchor.chosen_trim_slot,
                             node[n].delivered_through, more)
                \/ m.last < node'[k].recovery.base
            BY <5>1, <5>4, <5>5, <5>9
          <6>2. OneAnswer(n, node'[k], M, net', disk', votes', out, m.first, m.last, I,
                          node[n].ledger.anchor.chosen_trim_slot, node[n].delivered_through, more)
            BY <3>1, <5>6, <5>7, <5>8, <6>1 DEF OneAnswer
          <6> HIDE DEF M, k, b
          <6> QED
            BY <4>1, <5>2, <5>3, <6>2, AddsAnswer
        <5> QED
          BY <4>6, <5>10 DEF Stands
      <4> QED
        BY <4>4, <4>5, <4>6
    <3>10. \A q \in Node : Stands(node'[q], net', disk', votes')
      BY <3>8, <3>9
    <3> QED
      BY <1>2, <3>7, <3>10, StepKeepsSafety
  <2> QED
    BY <2>1, <2>2, <2>3, WholeOrCalm
<1> QED
  BY <1>1, <1>3, <1>4, PrepareAnswered

-------------------------------------------------------------------------------
(* What a candidate makes of the answers.                                  *)

LEMMA ClosedRises ==
  ASSUME NEW D, NEW V, V \subseteq VoteType, NEW p, NEW s, NEW b, NEW c \in Nat, NEW d \in Nat,
         c <= d, Closed(D, V, p, s, b, c)
  PROVE  Closed(D, V, p, s, b, d)
<1>1. \A x \in V : x.ballot \in Nat
  BY BallotsAreBounded DEF VoteType
<1> SUFFICES ASSUME NEW x \in V, x.acceptor = p, x.slot = s, x.ballot < b
             PROVE  x.ballot <= d
  BY DEF Closed
<1>2. x.ballot <= c
  BY DEF Closed
<1> QED
  BY <1>1, <1>2

\* The chunk of a recovery.
LEMMA ChunkBounds ==
  ASSUME NEW rec, RecoveryTyped(rec)
  PROVE  /\ rec.base \in Slot /\ rec.base \in Nat /\ rec.last \in Nat /\ rec.last \in Slot
         /\ rec.base <= rec.last /\ rec.last <= MaxSlot
         /\ DOMAIN rec.recovered = rec.base .. rec.last
         /\ \A s \in rec.base .. rec.last : s \in Slot /\ rec.recovered[s] \in ReportType
<1>1. /\ rec.base \in Slot /\ rec.last = slot_add(rec.base, Chunk - 1)
      /\ rec.recovered \in [rec.base .. rec.last -> ReportType]
  BY DEF RecoveryTyped
<1>2. Chunk - 1 \in Nat /\ rec.base \in 0 .. (MaxSlot + 1) /\ rec.base <= MaxSlot
      /\ rec.base \in Nat /\ rec.base >= 1 /\ MaxSlot \in Nat
  BY <1>1, Constants DEF Slot
<1>3. rec.last \in rec.base .. MaxSlot
  BY <1>1, <1>2, SlotAdd
<1>4. rec.last \in Nat /\ rec.base <= rec.last /\ rec.last <= MaxSlot
  BY <1>2, <1>3
<1>5. \A s \in rec.base .. rec.last : s \in Slot
  BY <1>2, <1>4 DEF Slot
<1> QED
  BY <1>1, <1>2, <1>4, <1>5

\* A member that has described the chunk has closed every slot it reports nothing of.
LEMMA CompleteCovers ==
  ASSUME NEW nd, NodeTyped(nd), RecoveryTyped(nd.recovery), NEW N, NEW D, NEW V,
         Candidate(nd, N, D, V), NEW p \in Node, Complete(nd.recovery, p),
         NEW s \in Slot, s >= nd.recovery.base, ~ Fenced(nd, s),
         s \notin nd.recovery.peer[p].seen, s <= nd.recovery.last \/ ~ nd.recovery.peer[p].more
  PROVE  Closed(D, V, p, s, nd.ballot, BALLOT_ZERO)
<1> DEFINE peer == nd.recovery.peer[p]
<1>1. peer.range_described /\ Cardinality(peer.seen) >= peer.expected_in_range
  BY DEF Complete
<1>2. Described(nd, p, N, D, V)
  BY <1>1 DEF Candidate, Pending
<1>3. PICK I \in SUBSET (nd.recovery.base .. nd.recovery.last), a \in 0 .. MaxSlot,
           t \in 0 .. MaxSlot, more \in BOOLEAN :
        Covers(nd, p, D, V, I, a, t, more) /\ Answers(nd, p, N, I, a, t, more)
  BY <1>2 DEF Described
<1>4. /\ peer.seen \subseteq I /\ peer.expected_in_range = Cardinality(I)
      /\ peer.more = more /\ peer.anchor.chosen_trim_slot >= a /\ peer.chosen_through >= t
  BY <1>1, <1>3 DEF Answers
<1>5. peer.seen = I
  <2>1. IsFiniteSet(I)
    <3>1. IsFiniteSet(nd.recovery.base .. nd.recovery.last)
      <4>1. nd.recovery.base \in Int /\ nd.recovery.last \in Int
        BY ChunkBounds
      <4> QED
        BY <4>1, FS_Interval
    <3> QED
      BY <3>1, FS_Subset
  <2>2. IsFiniteSet(peer.seen) /\ Cardinality(peer.seen) <= Cardinality(I)
        /\ (Cardinality(I) = Cardinality(peer.seen) => I = peer.seen)
    BY <1>4, <2>1, FS_Subset
  <2>3. Cardinality(I) \in Nat /\ Cardinality(peer.seen) \in Nat
    BY <2>1, <2>2, FS_CardinalityType
  <2> HIDE DEF peer
  <2>4. Cardinality(I) = Cardinality(peer.seen)
    BY <1>1, <1>4, <2>2, <2>3
  <2> QED
    BY <2>2, <2>4
<1>6. s > a /\ s > t
  <2>1. /\ ~ (s <= peer.anchor.chosen_trim_slot) /\ ~ (s <= peer.chosen_through)
    BY DEF Fenced
  <2>2. /\ peer.anchor.chosen_trim_slot \in 0 .. MaxSlot /\ peer.chosen_through \in 0 .. MaxSlot
    BY DEF RecoveryTyped, PeerType, AnchorType
  <2>3. s \in Nat /\ MaxSlot \in Nat
    BY Constants DEF Slot
  <2> HIDE DEF peer
  <2> QED
    BY <1>4, <2>1, <2>2, <2>3
<1>7. s \notin I /\ (s <= nd.recovery.last \/ ~ more)
  BY <1>4, <1>5
<1> QED
  BY <1>3, <1>6, <1>7 DEF Covers

\* What a read quorum has described can be proposed.
LEMMA SelectionIsSafe ==
  ASSUME TypeInv, TermInv, AllSafe, NEW nd, NodeTyped(nd), nd.role = "Preparing",
         nd.recovery.ready, Candidate(nd, net, disk, votes)
  PROVE  SelectsSafely(nd, nd.ballot)
<1> DEFINE rec == nd.recovery
<1>1. RecoveryTyped(rec) /\ nd.ballot \in BallotSet /\ BALLOT_ZERO \in BallotSet
      /\ BALLOT_ZERO = 0 /\ BallotSet \subseteq Nat
  BY BallotsAreBounded DEF NodeTyped, BALLOT_ZERO
<1>2. PICK Q \in Quorums : \A p \in Q : Complete(rec, p)
  BY DEF Candidate, Ready
<1>3. \A p \in Q : p \in Node
  BY DEF Quorums
<1> SUFFICES ASSUME NEW s \in rec.base .. rec.last, s > Fence(nd),
                    rec.recovered[s].state # "Chosen"
             PROVE  Safe(disk, votes, s, nd.ballot, SelectedValue(nd, s))
  BY DEF SelectsSafely
<1>4. s \in Slot /\ s \in Nat /\ s >= rec.base /\ s <= rec.last /\ s \in DOMAIN rec.recovered
      /\ rec.recovered[s] \in ReportType
  BY <1>1, ChunkBounds
<1>5. ~ Fenced(nd, s)
  <2>1. Fence(nd) \in Nat
    BY <1>1, FenceFacts, Constants
  <2>2. ~ (s <= Fence(nd))
    BY <1>4, <2>1
  <2> QED
    BY <1>1, <1>4, <2>2, FenceCovers
<1>6. \A x \in votes : x \in VoteType
  BY DEF TypeInv
<1>7. ASSUME NEW p \in Q, s \notin rec.peer[p].seen
      PROVE  Closed(disk, votes, p, s, nd.ballot, BALLOT_ZERO)
  BY <1>1, <1>2, <1>3, <1>4, <1>5, <1>7, CompleteCovers
<1>8. ASSUME NEW p \in Q, s \in rec.peer[p].seen
      PROVE  /\ rec.recovered[s].state = "Voted"
             /\ Closed(disk, votes, p, s, nd.ballot, rec.recovered[s].ballot)
  BY <1>3, <1>8 DEF Candidate, Gathers
<1>9. CASE rec.recovered[s].state = "Voted"
  <2>1. PICK c : c = rec.recovered[s].ballot
    OBVIOUS
  <2>2. c \in BallotSet /\ c \in Nat /\ BALLOT_ZERO <= c
    <3>1. PICK r \in ReportType : r = rec.recovered[s]
      BY <1>4
    <3>2. c \in BallotSet
      BY <2>1, <3>1 DEF ReportType
    <3>3. c \in Nat
      BY <1>1, <3>2
    <3> QED
      BY <1>1, <3>2, <3>3
  <2>3. ASSUME NEW p \in Q PROVE Closed(disk, votes, p, s, nd.ballot, c)
    <3>1. CASE s \notin rec.peer[p].seen
      <4>1. Closed(disk, votes, p, s, nd.ballot, BALLOT_ZERO)
        BY <1>7, <3>1
      <4> QED
        BY <1>1, <1>6, <2>2, <4>1, ClosedRises
    <3>2. CASE s \in rec.peer[p].seen
      BY <1>8, <2>1, <3>2
    <3> QED
      BY <3>1, <3>2
  <2>4. SelectedValue(nd, s) = rec.recovered[s].value
    BY <1>9 DEF SelectedValue
  <2>5. \E q \in Node : /\ VoteOf(q, s, c, SelectedValue(nd, s)) \in votes
                       /\ Closed(disk, votes, q, s, nd.ballot, c)
    BY <1>4, <1>9, <2>1, <2>4 DEF Candidate, Recalls
  <2> QED
    BY <1>1, <2>2, <2>3, <2>5, ProposalIsSafe
<1>10. CASE rec.recovered[s].state # "Voted"
  <2>1. \A p \in Q : Closed(disk, votes, p, s, nd.ballot, BALLOT_ZERO)
    BY <1>7, <1>8, <1>10
  <2> QED
    BY <1>1, <2>1, ProposalIsSafe
<1> QED
  BY <1>9, <1>10

\* k is candidate nd with more of member p's answer counted: its fences only rise.
Counts(nd, k, p) ==
  /\ k.ballot = nd.ballot /\ k.ledger = nd.ledger /\ k.delivered_through = nd.delivered_through
  /\ k.recovery.base = nd.recovery.base /\ k.recovery.last = nd.recovery.last
  /\ ~ k.recovery.ready
  /\ \A q \in Node \ {p} : k.recovery.peer[q] = nd.recovery.peer[q]
  /\ k.recovery.peer[p].anchor.chosen_trim_slot >= nd.recovery.peer[p].anchor.chosen_trim_slot
  /\ k.recovery.peer[p].chosen_through >= nd.recovery.peer[p].chosen_through

LEMMA CountsOn ==
  ASSUME NEW nd, RecoveryTyped(nd.recovery), NEW k, RecoveryTyped(k.recovery),
         NEW p \in Node, Counts(nd, k, p), NEW N, NEW D, NEW V, Candidate(nd, N, D, V)
  PROVE  /\ InChunk(k, N) /\ Frontier(k) /\ Ready(k)
         /\ \A q \in Node \ {p} : Pending(k, q, N) \/ Described(k, q, N, D, V)
<1>1. InChunk(k, N) /\ Ready(k)
  BY DEF Candidate, Counts, InChunk, Ready
<1>2. ASSUME NEW s \in Slot, Fenced(nd, s) PROVE Fenced(k, s)
  <2>1. CASE \/ s <= nd.ledger.anchor.chosen_trim_slot
             \/ s <= nd.delivered_through
    BY <2>1 DEF Counts, Fenced
  <2>2. ASSUME NEW q \in Node, \/ s <= nd.recovery.peer[q].anchor.chosen_trim_slot
                               \/ s <= nd.recovery.peer[q].chosen_through
        PROVE  \/ s <= k.recovery.peer[q].anchor.chosen_trim_slot
               \/ s <= k.recovery.peer[q].chosen_through
    <3>1. CASE q # p
      BY <2>2, <3>1 DEF Counts
    <3>2. CASE q = p
      <4>1. /\ nd.recovery.peer[p].anchor.chosen_trim_slot \in 0 .. MaxSlot
            /\ nd.recovery.peer[p].chosen_through \in 0 .. MaxSlot
            /\ k.recovery.peer[p].anchor.chosen_trim_slot \in 0 .. MaxSlot
            /\ k.recovery.peer[p].chosen_through \in 0 .. MaxSlot
        BY DEF RecoveryTyped, PeerType, AnchorType
      <4>2. PICK a, b, c, d : /\ a = nd.recovery.peer[p].anchor.chosen_trim_slot
                              /\ b = nd.recovery.peer[p].chosen_through
                              /\ c = k.recovery.peer[p].anchor.chosen_trim_slot
                              /\ d = k.recovery.peer[p].chosen_through
        OBVIOUS
      <4>3. a \in Nat /\ b \in Nat /\ c \in Nat /\ d \in Nat /\ s \in Nat
        BY <4>1, <4>2, Constants DEF Slot
      <4>4. c >= a /\ d >= b /\ (s <= a \/ s <= b)
        BY <2>2, <3>2, <4>2 DEF Counts
      <4> QED
        BY <3>2, <4>2, <4>3, <4>4
    <3> QED
      BY <3>1, <3>2
  <2> QED
    BY <1>2, <2>1, <2>2 DEF Fenced
<1>3. Frontier(k)
  BY <1>2 DEF Candidate, Counts, Frontier
<1>4. ASSUME NEW q \in Node \ {p} PROVE Pending(k, q, N) \/ Described(k, q, N, D, V)
  <2>1. Pending(nd, q, N) \/ Described(nd, q, N, D, V)
    BY DEF Candidate
  <2>2. /\ k.ballot = nd.ballot /\ k.recovery.peer[q] = nd.recovery.peer[q]
        /\ k.recovery.base = nd.recovery.base /\ k.recovery.last = nd.recovery.last
    BY DEF Counts
  <2>3. Pending(nd, q, N) => Pending(k, q, N)
    BY <2>2 DEF Pending, Asked, Answers, Ranges, Promises
  <2>4. Described(nd, q, N, D, V) => Described(k, q, N, D, V)
    BY <2>2, SMTT(30) DEF Described, Asked, Covers, Answers, Ranges, Promises
  <2> QED
    BY <2>1, <2>3, <2>4
<1> QED
  BY <1>1, <1>3, <1>4

\* One more report: the greatest vote reported for its slot bounds every member's votes.
LEMMA PromiseCounted ==
  ASSUME NEW nd, NodeTyped(nd), RecoveryTyped(nd.recovery), NEW k, RecoveryTyped(k.recovery),
         NEW N, NEW D, NEW V, V \subseteq VoteType, Candidate(nd, N, D, V),
         NEW m \in N, m.type = "Promise", m.ballot = nd.ballot, m.from \in Node,
         m.vote \in BallotSet, m.state \in {"Voted", "Chosen"}, Reveals(m, D, V),
         m.slot \in nd.recovery.base .. nd.recovery.last, Counts(nd, k, m.from),
         NEW new, new.state = m.state, new.ballot = m.vote, new.value = m.value,
         NEW best, best = IF Better(new, nd.recovery.recovered[m.slot])
                            THEN new ELSE nd.recovery.recovered[m.slot],
         DOMAIN k.recovery.recovered = DOMAIN nd.recovery.recovered,
         k.recovery.recovered[m.slot] = best,
         \A s \in DOMAIN nd.recovery.recovered :
           s # m.slot => k.recovery.recovered[s] = nd.recovery.recovered[s],
         NEW old, old = nd.recovery.peer[m.from],
         k.recovery.peer[m.from] = [old EXCEPT !.seen = @ \cup {m.slot}]
  PROVE  Candidate(k, N, D, V)
<1> DEFINE p == m.from
           was == nd.recovery.recovered[m.slot]
           rep == nd.recovery.recovered
<1>1. /\ InChunk(k, N) /\ Frontier(k) /\ Ready(k)
      /\ \A q \in Node \ {p} : Pending(k, q, N) \/ Described(k, q, N, D, V)
  BY CountsOn
<1>2. /\ DOMAIN rep = nd.recovery.base .. nd.recovery.last /\ was \in ReportType
      /\ m.slot \in Nat /\ m.slot >= nd.recovery.base
  BY ChunkBounds
<1>3. /\ k.ballot = nd.ballot /\ k.recovery.base = nd.recovery.base
      /\ k.recovery.last = nd.recovery.last
      /\ \A q \in Node \ {p} : k.recovery.peer[q] = nd.recovery.peer[q]
  BY DEF Counts
<1>4. /\ was.ballot \in Nat /\ m.vote \in Nat /\ was.state \in {"Empty", "Voted", "Chosen"}
  BY <1>2, BallotsAreBounded DEF ReportType
<1>5. /\ DOMAIN k.recovery.recovered = DOMAIN rep /\ k.recovery.recovered[m.slot] = best
      /\ \A s \in DOMAIN rep : s # m.slot => k.recovery.recovered[s] = rep[s]
  BY <1>2
<1>6. ASSUME NEW q \in Node PROVE Gathers(k, q, D, V)
  <2> SUFFICES ASSUME NEW s \in k.recovery.peer[q].seen
               PROVE  /\ s \in DOMAIN rep
                      /\ \/ k.recovery.recovered[s].state = "Chosen"
                         \/ /\ k.recovery.recovered[s].state = "Voted"
                            /\ Closed(D, V, q, s, nd.ballot, k.recovery.recovered[s].ballot)
    BY <1>3, <1>5 DEF Gathers
  <2>1. s \in nd.recovery.peer[q].seen \/ (q = p /\ s = m.slot)
    <3>1. old \in PeerType
      BY DEF RecoveryTyped
    <3>2. k.recovery.peer[p].seen = old.seen \cup {m.slot}
      BY <3>1 DEF PeerType
    <3> QED
      BY <1>3, <3>2
  <2>2. CASE s # m.slot
    <3>1. k.recovery.recovered[s] = rep[s] /\ s \in nd.recovery.peer[q].seen /\ s \in DOMAIN rep
      BY <1>5, <2>1, <2>2 DEF Candidate, Gathers
    <3> QED
      BY <3>1 DEF Candidate, Gathers
  <2>3. CASE s = m.slot
    <3>1. \/ s \in nd.recovery.peer[q].seen
             /\ \/ was.state = "Chosen"
                \/ was.state = "Voted" /\ Closed(D, V, q, s, nd.ballot, was.ballot)
          \/ q = p
      BY <2>1, <2>3 DEF Candidate, Gathers
    <3>2. new.state = "Voted" => Closed(D, V, p, s, nd.ballot, new.ballot)
      BY <2>3 DEF Reveals
    <3>3. CASE best = new
      <4>1. CASE new.state = "Chosen"
        BY <1>2, <1>5, <2>3, <3>3, <4>1
      <4>2. CASE new.state = "Voted" /\ q = p
        BY <1>2, <1>5, <2>3, <3>2, <3>3, <4>2
      <4>3. CASE new.state = "Voted" /\ q # p
        <5>1. was = new \/ Better(new, was)
          BY <3>3
        <5>2. \/ was.state = "Voted" /\ Closed(D, V, q, s, nd.ballot, was.ballot)
              \/ was.state = "Chosen"
          BY <3>1, <4>3
        <5>3. was = new \/ (was.state = "Voted" /\ new.ballot > was.ballot)
          BY <4>3, <5>1, <5>2 DEF Better
        <5>4. /\ was.state = "Voted" /\ Closed(D, V, q, s, nd.ballot, was.ballot)
              /\ was.ballot <= new.ballot /\ new.ballot \in Nat
          BY <1>4, <4>3, <5>2, <5>3
        <5>5. Closed(D, V, q, s, nd.ballot, new.ballot)
          BY <1>4, <5>4, ClosedRises
        <5> QED
          BY <1>2, <1>5, <2>3, <3>3, <4>3, <5>5
      <4> QED
        BY <4>1, <4>2, <4>3
    <3>4. CASE best = was /\ ~ Better(new, was)
      <4>1. CASE was.state = "Chosen"
        BY <1>2, <1>5, <2>3, <3>4, <4>1
      <4>2. CASE was.state = "Voted"
        <5>1. new.state = "Voted" /\ ~ (new.ballot > was.ballot)
          BY <3>4, <4>2 DEF Better
        <5>2. new.ballot <= was.ballot /\ new.ballot \in Nat
          BY <1>4, <5>1
        <5>3. Closed(D, V, q, s, nd.ballot, was.ballot)
          <6>1. CASE q = p
            BY <1>4, <3>2, <5>1, <5>2, <6>1, ClosedRises
          <6>2. CASE q # p
            BY <3>1, <4>2, <6>2
          <6> QED
            BY <6>1, <6>2
        <5> QED
          BY <1>2, <1>5, <2>3, <3>4, <4>2, <5>3
      <4>3. was.state # "Empty"
        BY <3>4 DEF Better
      <4> QED
        BY <1>4, <4>1, <4>2, <4>3
    <3> QED
      BY <3>3, <3>4
  <2> QED
    BY <2>2, <2>3
<1>7. Recalls(k, D, V)
  <2> SUFFICES ASSUME NEW s \in DOMAIN rep, k.recovery.recovered[s].state = "Voted"
               PROVE  \E q \in Node :
                        /\ VoteOf(q, s, k.recovery.recovered[s].ballot,
                                  k.recovery.recovered[s].value) \in V
                        /\ Closed(D, V, q, s, k.ballot, k.recovery.recovered[s].ballot)
    BY <1>5 DEF Recalls
  <2>1. CASE k.recovery.recovered[s] = rep[s]
    BY <1>3, <2>1 DEF Candidate, Recalls
  <2>2. CASE k.recovery.recovered[s] # rep[s]
    <3>1. s = m.slot /\ best = new /\ k.recovery.recovered[s] = new
      BY <1>5, <2>2
    <3>2. VoteOf(m.from, s, m.vote, m.value) \in V /\ Closed(D, V, m.from, s, m.ballot, m.vote)
      BY <3>1 DEF Reveals
    <3> QED
      BY <1>3, <3>1, <3>2
  <2> QED
    BY <2>1, <2>2
<1>8. Described(k, p, N, D, V)
  <2>1. m \in Promises(nd, p, N)
    BY <1>2 DEF Promises
  <2>2. Described(nd, p, N, D, V)
    BY <2>1 DEF Candidate, Pending
  <2>3. PICK I \in SUBSET (nd.recovery.base .. nd.recovery.last), a \in 0 .. MaxSlot,
             t \in 0 .. MaxSlot, more \in BOOLEAN :
          Covers(nd, p, D, V, I, a, t, more) /\ Answers(nd, p, N, I, a, t, more)
    BY <2>2 DEF Described
  <2>4. m.slot \in I
    BY <2>1, <2>3 DEF Answers
  <2>5. old \in PeerType
    BY DEF RecoveryTyped
  <2>6. /\ k.recovery.peer[p].seen = old.seen \cup {m.slot}
        /\ k.recovery.peer[p].range_described = old.range_described
        /\ k.recovery.peer[p].expected_in_range = old.expected_in_range
        /\ k.recovery.peer[p].more = old.more /\ k.recovery.peer[p].anchor = old.anchor
        /\ k.recovery.peer[p].chosen_through = old.chosen_through
    BY <2>5 DEF PeerType
  <2>7. Ranges(k, p, N) = Ranges(nd, p, N) /\ Promises(k, p, N) = Promises(nd, p, N)
    BY <1>3 DEF Ranges, Promises
  <2>8. Answers(k, p, N, I, a, t, more)
    BY <2>3, <2>4, <2>6, <2>7 DEF Answers
  <2>9. Covers(k, p, D, V, I, a, t, more)
    BY <1>3, <2>3 DEF Covers
  <2> QED
    BY <1>3, <2>2, <2>8, <2>9 DEF Described, Asked
<1> QED
  BY <1>1, <1>6, <1>7, <1>8 DEF Candidate

\* A member's manifest is counted: its fences only, or all it says of the chunk.
LEMMA ManifestCounted ==
  ASSUME NEW nd, RecoveryTyped(nd.recovery), NEW k, RecoveryTyped(k.recovery),
         NEW N, NEW D, NEW V, Candidate(nd, N, D, V), NEW p \in Node, Counts(nd, k, p),
         k.recovery.recovered = nd.recovery.recovered,
         k.recovery.peer[p].seen = nd.recovery.peer[p].seen,
         \/ /\ k.recovery.peer[p].range_described = nd.recovery.peer[p].range_described
            /\ k.recovery.peer[p].expected_in_range = nd.recovery.peer[p].expected_in_range
            /\ k.recovery.peer[p].more = nd.recovery.peer[p].more
         \/ \E m \in Ranges(nd, p, N) :
              /\ k.recovery.peer[p].expected_in_range = m.reported
              /\ k.recovery.peer[p].more = m.more
              /\ k.recovery.peer[p].anchor.chosen_trim_slot >= m.anchor.chosen_trim_slot
              /\ k.recovery.peer[p].chosen_through >= m.chosen_through
  PROVE  Candidate(k, N, D, V)
<1>1. /\ InChunk(k, N) /\ Frontier(k) /\ Ready(k)
      /\ \A q \in Node \ {p} : Pending(k, q, N) \/ Described(k, q, N, D, V)
  BY CountsOn
<1>2. /\ k.ballot = nd.ballot /\ k.recovery.base = nd.recovery.base
      /\ k.recovery.last = nd.recovery.last
      /\ \A q \in Node : k.recovery.peer[q].seen = nd.recovery.peer[q].seen
  BY DEF Counts
<1>3. \A q \in Node : Gathers(k, q, D, V)
  BY <1>2 DEF Candidate, Gathers
<1>4. Recalls(k, D, V)
  BY <1>2 DEF Candidate, Recalls
<1>5. Ranges(k, p, N) = Ranges(nd, p, N) /\ Promises(k, p, N) = Promises(nd, p, N)
  BY <1>2 DEF Ranges, Promises
<1>6. ASSUME NEW I, NEW a \in 0 .. MaxSlot, NEW t \in 0 .. MaxSlot, NEW more,
             Covers(nd, p, D, V, I, a, t, more), Answers(nd, p, N, I, a, t, more)
      PROVE  Covers(k, p, D, V, I, a, t, more) /\ Answers(k, p, N, I, a, t, more)
  <2>1. Covers(k, p, D, V, I, a, t, more)
    BY <1>2, <1>6 DEF Covers
  <2>2. k.recovery.peer[p].range_described =>
          /\ k.recovery.peer[p].expected_in_range = Cardinality(I)
          /\ k.recovery.peer[p].more = more
          /\ k.recovery.peer[p].anchor.chosen_trim_slot >= a
          /\ k.recovery.peer[p].chosen_through >= t
    <3>1. CASE \E m \in Ranges(nd, p, N) :
                 /\ k.recovery.peer[p].expected_in_range = m.reported
                 /\ k.recovery.peer[p].more = m.more
                 /\ k.recovery.peer[p].anchor.chosen_trim_slot >= m.anchor.chosen_trim_slot
                 /\ k.recovery.peer[p].chosen_through >= m.chosen_through
      BY <1>6, <3>1 DEF Answers
    <3>2. CASE /\ k.recovery.peer[p].range_described = nd.recovery.peer[p].range_described
               /\ k.recovery.peer[p].expected_in_range = nd.recovery.peer[p].expected_in_range
               /\ k.recovery.peer[p].more = nd.recovery.peer[p].more
      <4> SUFFICES ASSUME k.recovery.peer[p].range_described
                   PROVE  /\ k.recovery.peer[p].anchor.chosen_trim_slot >= a
                          /\ k.recovery.peer[p].chosen_through >= t
        BY <1>6, <3>2 DEF Answers
      <4>1. /\ nd.recovery.peer[p].anchor.chosen_trim_slot \in 0 .. MaxSlot
            /\ nd.recovery.peer[p].chosen_through \in 0 .. MaxSlot
            /\ k.recovery.peer[p].anchor.chosen_trim_slot \in 0 .. MaxSlot
            /\ k.recovery.peer[p].chosen_through \in 0 .. MaxSlot
        BY DEF RecoveryTyped, PeerType, AnchorType
      <4>2. PICK g, h, c, d : /\ g = nd.recovery.peer[p].anchor.chosen_trim_slot
                              /\ h = nd.recovery.peer[p].chosen_through
                              /\ c = k.recovery.peer[p].anchor.chosen_trim_slot
                              /\ d = k.recovery.peer[p].chosen_through
        OBVIOUS
      <4>3. g \in Nat /\ h \in Nat /\ c \in Nat /\ d \in Nat /\ a \in Nat /\ t \in Nat
        BY <4>1, <4>2, Constants
      <4>4. c >= g /\ d >= h
        BY <4>2 DEF Counts
      <4>5. g >= a /\ h >= t
        BY <1>6, <3>2, <4>2 DEF Answers
      <4> QED
        BY <4>2, <4>3, <4>4, <4>5
    <3> QED
      BY <3>1, <3>2
  <2>3. Answers(k, p, N, I, a, t, more)
    BY <1>2, <1>5, <1>6, <2>2 DEF Answers
  <2> QED
    BY <2>1, <2>3
<1>7. Pending(k, p, N) \/ Described(k, p, N, D, V)
  <2>1. CASE Described(nd, p, N, D, V)
    BY <1>2, <1>6, <2>1 DEF Described, Asked
  <2>2. CASE ~ Described(nd, p, N, D, V)
    <3>1. Pending(nd, p, N)
      BY <2>2 DEF Candidate
    <3>2. Ranges(nd, p, N) = {}
      BY <3>1 DEF Pending
    <3>3. k.recovery.peer[p].range_described = nd.recovery.peer[p].range_described
      BY <3>2
    <3> QED
      BY <1>2, <1>5, <3>1, <3>3 DEF Pending
  <2> QED
    BY <2>1, <2>2
<1> QED
  BY <1>1, <1>3, <1>4, <1>7 DEF Candidate

\* A selection frozen on a read quorum's reports.
LEMMA FrozeStands ==
  ASSUME NEW k, NEW f, Froze(k, f), NEW N, NEW D, NEW V, Candidate(k, N, D, V)
  PROVE  Candidate(f, N, D, V)
<1>1. /\ f.ballot = k.ballot /\ f.ledger = k.ledger /\ f.delivered_through = k.delivered_through
      /\ f.recovery.base = k.recovery.base /\ f.recovery.last = k.recovery.last
      /\ f.recovery.recovered = k.recovery.recovered /\ f.recovery.peer = k.recovery.peer
  BY DEF Froze
<1>2. InChunk(f, N) /\ Recalls(f, D, V)
  BY <1>1 DEF Candidate, InChunk, Recalls
<1>3. Frontier(f)
  BY <1>1 DEF Candidate, Frontier, Fenced
<1>4. Ready(f)
  <2>1. CASE f = k
    BY <2>1 DEF Candidate
  <2>2. CASE /\ Cardinality({p \in Node : Complete(k.recovery, p)}) >= ReadQuorum
             /\ ~ f.recovery.more =>
                  \A p \in Node : Complete(k.recovery, p) => ~ k.recovery.peer[p].more
    <3>1. PICK Q : Q = {p \in Node : Complete(k.recovery, p)}
      OBVIOUS
    <3>2. Q \in Quorums
      BY <2>2, <3>1 DEF Quorums
    <3>3. \A p \in Q : Complete(f.recovery, p)
      BY <1>1, <3>1 DEF Complete
    <3>4. ASSUME NEW p \in Q, ~ f.recovery.more PROVE ~ f.recovery.peer[p].more
      BY <1>1, <2>2, <3>1, <3>4
    <3> QED
      BY <3>2, <3>3, <3>4 DEF Ready
  <2> QED
    BY <2>1, <2>2 DEF Froze
<1>5. ASSUME NEW p \in Node
      PROVE  Gathers(f, p, D, V) /\ (Pending(f, p, N) \/ Described(f, p, N, D, V))
  BY <1>1 DEF Candidate, Gathers, Pending, Described, Asked, Covers, Answers, Ranges, Promises
<1> QED
  BY <1>2, <1>3, <1>4, <1>5 DEF Candidate

\* The drive records what it adopts, proposes and finds decided, and serves on.
LEMMA DriveServes ==
  ASSUME NEW n \in Node, NEW nd, NodeTyped(nd), nd.role = "Preparing",
         NEW r, Works(nd, r.nd, r.w), NEW sent, NEW asked, NEW told, NEW adopted, NEW open, NEW val,
         Resolves(n, nd, r, sent, asked, told, adopted, open, val),
         Finishes(n, nd, r, sent, told, adopted, open)
  PROVE  /\ Serves(nd, sent)
         /\ \A s \in Slot : s \in adopted \cup open \/ ledger_is_chosen(nd.ledger, s)
                              => Recorded(sent.ledger, s)
<1>1. /\ NodeTyped(sent) /\ sent.role = nd.role /\ sent.ballot = nd.ballot
      /\ sent.recovery = nd.recovery /\ sent.next_slot = nd.next_slot
      /\ sent.ledger = r.nd.ledger /\ DOMAIN r.w.votes = open
      /\ sent.delivered_through >= nd.delivered_through
      /\ Places(nd.ledger, sent.ledger, nd.memory_floor, r.w)
      /\ WritesTyped(r.w, nd.memory_floor + Window)
      /\ adopted \subseteq DOMAIN r.w.chosen
  BY DEF Resolves, Finishes, Proposes
<1>2. nd.memory_floor \in Nat /\ LedgerTyped(nd.ledger, nd.memory_floor + Window)
      /\ nd.next_slot \in Nat
  BY Constants DEF NodeTyped
<1>3. ASSUME NEW l, NEW s \in Slot, ledger_is_chosen(l, s) PROVE Recorded(l, s)
  <2>1. cell_of(s) \in Cells /\ s \in Nat
    BY SlotsHaveCells, Constants DEF Slot
  <2>2. Cell(l, s).slot = s /\ Cell(l, s).state = "Chosen"
    BY <1>3 DEF ledger_is_chosen
  <2> QED
    BY <2>1, <2>2 DEF Cell, Recorded, UsedCells
<1>4. ASSUME NEW s \in Slot, s \in adopted \cup open \/ ledger_is_chosen(nd.ledger, s)
      PROVE  Recorded(sent.ledger, s)
  <2>1. CASE s \in open \/ ledger_is_chosen(nd.ledger, s)
    BY <1>1, <1>3, <2>1, WorksRecords
  <2>2. CASE s \in adopted
    <3>1. ledger_is_chosen(sent.ledger, s)
      BY <1>1, <1>2, <2>2, PlacedFacts
    <3> QED
      BY <1>3, <3>1
  <2> QED
    BY <1>4, <2>1, <2>2
<1>5. \A s \in Slot : Recorded(nd.ledger, s) => Recorded(sent.ledger, s)
  BY <1>1, WorksRecords
<1>6. sent.ledger.anchor.chosen_trim_slot >= nd.ledger.anchor.chosen_trim_slot
  <2>1. nd.ledger.anchor.chosen_trim_slot \in 0 .. MaxSlot
    BY <1>2 DEF LedgerTyped, LedgerType, AnchorType
  <2> QED
    BY <1>1, <2>1 DEF Places
<1> QED
  BY <1>1, <1>2, <1>4, <1>5, <1>6 DEF Serves

\* What candidate nd knows of the chunk it leaves, with b, as it opens the next one; N
\* holds what M holds of its campaign and what it now asks.
Leaves(n, nd, M, N, D, V, b) ==
  /\ n \in Node /\ NodeTyped(nd) /\ RecoveryTyped(nd.recovery) /\ nd.recovery.last < MaxSlot
  /\ b = BeginNextChunk(n, nd)
  /\ Candidate(nd, M, D, V) /\ \A m \in M : MessageTyped(m)
  /\ \A m \in N : m.type \in Campaign /\ m.ballot = nd.ballot => m \in M \cup b.out
  /\ \A s \in nd.recovery.base .. nd.recovery.last : Recorded(nd.ledger, s) \/ Fenced(nd, s)

\* The next chunk: nobody was asked about it, and the chunk before it is recorded or fenced.
LEMMA NextChunkStands ==
  ASSUME NEW n, NEW nd, NEW M, NEW N, NEW D, NEW V, NEW b, Leaves(n, nd, M, N, D, V, b)
  PROVE  /\ Candidate(b.nd, N, D, V) /\ b.nd.role = nd.role /\ b.nd.ballot = nd.ballot
         /\ \A m \in b.out : /\ m.type = "Prepare" /\ m.from = n /\ m.ballot = nd.ballot
                             /\ m = Prepare(m.from, m.to, m.ballot, m.first, m.last)
<1> DEFINE base == nd.recovery.last + 1
           last == slot_add(base, Chunk - 1)
           peers == [p \in Node |-> [NoPeer EXCEPT
                       !.anchor = nd.recovery.peer[p].anchor,
                       !.chosen_through = nd.recovery.peer[p].chosen_through]]
           rec == NewRecovery(base, peers)
           new == [nd EXCEPT !.recovery = rec]
           out == {Prepare(n, p, nd.ballot, rec.base, rec.last) : p \in Node}
<1>0. /\ n \in Node /\ NodeTyped(nd) /\ RecoveryTyped(nd.recovery)
      /\ nd.recovery.last < MaxSlot
      /\ b = BeginNextChunk(n, nd)
      /\ Candidate(nd, M, D, V) /\ \A m \in M : MessageTyped(m)
      /\ \A m \in N : m.type \in Campaign /\ m.ballot = nd.ballot => m \in M \cup b.out
      /\ \A s \in nd.recovery.base .. nd.recovery.last :
           Recorded(nd.ledger, s) \/ Fenced(nd, s)
  BY DEF Leaves
<1>1. b = Result(new, NoWrites, out)
  BY <1>0, Zenon DEF BeginNextChunk
<1>2. rec.base = base /\ rec.last = last
  BY DEF NewRecovery
<1>3. /\ new.recovery = rec /\ new.role = nd.role /\ new.ballot = nd.ballot
      /\ new.ledger = nd.ledger /\ new.delivered_through = nd.delivered_through
  BY <1>0 DEF NodeTyped
<1>4. \A m \in out : /\ m.type = "Prepare" /\ m.from = n /\ m.ballot = nd.ballot
                     /\ m.first = rec.base /\ m.last = rec.last
                     /\ m = Prepare(m.from, m.to, m.ballot, m.first, m.last)
  <2> SUFFICES ASSUME NEW p \in Node, NEW m, m = Prepare(n, p, nd.ballot, rec.base, rec.last)
               PROVE  /\ m.type = "Prepare" /\ m.from = n /\ m.ballot = nd.ballot
                      /\ m.first = rec.base /\ m.last = rec.last
                      /\ m = Prepare(m.from, m.to, m.ballot, m.first, m.last)
    BY Zenon
  <2> HIDE DEF rec
  <2>1. /\ m.type = "Prepare" /\ m.from = n /\ m.to = p /\ m.ballot = nd.ballot
        /\ m.first = rec.base /\ m.last = rec.last
    BY DEF Prepare
  <2> QED
    BY <2>1
<1>5. \A p \in Node : /\ peers[p].seen = {} /\ ~ peers[p].range_described
                      /\ peers[p].anchor = nd.recovery.peer[p].anchor
                      /\ peers[p].chosen_through = nd.recovery.peer[p].chosen_through
  BY DEF NoPeer
<1>6. rec.peer = peers
  BY DEF NewRecovery
<1>7. /\ nd.recovery.base \in Nat /\ nd.recovery.last \in Nat
      /\ nd.recovery.base <= nd.recovery.last
  BY <1>0, ChunkBounds
<1> HIDE DEF peers, new, out
<1>8. /\ b.nd = new /\ b.out = out
  BY <1>1 DEF Result
<1>9. \A m \in M : /\ m.type = "Prepare" => m.first \in Nat /\ m.last \in Nat
                   /\ m.type = "Promise" => m.slot \in Nat
                   /\ m.type = "Promise_Range" => m.first \in Nat
  <2> SUFFICES ASSUME NEW m \in M
               PROVE  /\ m.type = "Prepare" => m.first \in Nat /\ m.last \in Nat
                      /\ m.type = "Promise" => m.slot \in Nat
                      /\ m.type = "Promise_Range" => m.first \in Nat
    OBVIOUS
  <2>1. /\ m.type = "Promise" => m.slot \in Nat
        /\ m.type = "Promise_Range" => m.first \in Nat
        /\ m.type = "Prepare" => m.first \in Slot /\ m.last = slot_add(m.first, Chunk - 1)
    BY <1>0, Constants DEF MessageTyped, Slot
  <2>2. ASSUME m.type = "Prepare" PROVE m.first \in Nat /\ m.last \in Nat
    <3>1. m.first \in Nat /\ m.first \in 0 .. (MaxSlot + 1) /\ Chunk - 1 \in Nat
          /\ m.first <= MaxSlot
      BY <2>1, <2>2, Constants DEF Slot
    <3>2. m.last \in m.first .. MaxSlot
      BY <2>1, <2>2, <3>1, SlotAdd
    <3> QED
      BY <3>1, <3>2
  <2> QED
    BY <2>1, <2>2
<1>10. ASSUME NEW m \in M, m.type \in Campaign, m.ballot = nd.ballot
       PROVE  /\ m.type = "Prepare" => m.last < base
              /\ m.type = "Promise" => m.slot < base
              /\ m.type = "Promise_Range" => m.first < base
  <2>1. /\ m.type = "Prepare" => m.last = nd.recovery.last \/ m.last < nd.recovery.base
        /\ m.type = "Promise" => m.slot <= nd.recovery.last
        /\ m.type = "Promise_Range" => m.first <= nd.recovery.base
    BY <1>0, <1>10 DEF Candidate, InChunk
  <2> QED
    BY <1>7, <1>9, <2>1
<1>11. base \in Nat /\ ~ (last < base)
  <2>1. base \in Nat /\ base <= MaxSlot
    BY <1>0, <1>7, Constants
  <2>2. base \in 0 .. (MaxSlot + 1) /\ Chunk - 1 \in Nat
    BY <2>1, Constants
  <2>3. last \in base .. MaxSlot
    BY <2>1, <2>2, SlotAdd
  <2> QED
    BY <2>1, <2>3, Constants
<1> HIDE DEF rec
<1>12. \A m \in N : m.type \in Campaign /\ m.ballot = nd.ballot => m \in M \cup out
  BY <1>0, <1>8
<1>13. InChunk(new, N)
  <2> SUFFICES ASSUME NEW m \in N, m.type \in Campaign, m.ballot = nd.ballot
               PROVE  /\ m.type = "Prepare" => \/ m.first = rec.base /\ m.last = rec.last
                                               \/ m.last < rec.base
                      /\ m.type = "Promise" => m.slot <= rec.last
                      /\ m.type = "Promise_Range" => m.first <= rec.base
    BY <1>3 DEF InChunk
  <2>1. CASE m \in out
    BY <1>4, <2>1
  <2>2. CASE m \in M
    <3>1. /\ m.type = "Prepare" => m.last < base
          /\ m.type = "Promise" => m.slot < base
          /\ m.type = "Promise_Range" => m.first < base
      BY <1>10, <2>2
    <3>2. last \in Nat
      <4>1. base \in 0 .. (MaxSlot + 1) /\ Chunk - 1 \in Nat
        BY <1>0, <1>7, Constants
      <4>2. last \in 0 .. MaxSlot
        BY <4>1, SlotAdd
      <4> QED
        BY <4>2, Constants
    <3> HIDE DEF base, last
    <3>3. base <= last
      BY <1>11, <3>2
    <3> QED
      BY <1>2, <1>9, <1>11, <2>2, <3>1, <3>2, <3>3
  <2> QED
    BY <1>12, <2>1, <2>2
<1>14. ASSUME NEW p \in Node PROVE Ranges(new, p, N) = {} /\ Promises(new, p, N) = {}
  <2> SUFFICES ASSUME NEW m \in N, m.ballot = nd.ballot,
                      \/ m.type = "Promise_Range" /\ m.first = base
                      \/ m.type = "Promise" /\ m.slot >= base
               PROVE  FALSE
    BY <1>2, <1>3 DEF Ranges, Promises
  <2>1. m.type \in Campaign /\ m.type # "Prepare"
    BY DEF Campaign
  <2>2. m \in M
    BY <1>4, <1>12, <2>1
  <2>3. \/ m.type = "Promise_Range" /\ m.first \in Nat /\ m.first < base
        \/ m.type = "Promise" /\ m.slot \in Nat /\ m.slot < base
    BY <1>9, <1>10, <2>1, <2>2 DEF Campaign
  <2> HIDE DEF base
  <2> QED
    BY <1>11, <2>3
<1>15. Frontier(new)
  <2>1. ASSUME NEW s, Fenced(nd, s) PROVE Fenced(new, s)
    <3>1. \A p \in Node : /\ new.recovery.peer[p].anchor = nd.recovery.peer[p].anchor
                          /\ new.recovery.peer[p].chosen_through = nd.recovery.peer[p].chosen_through
      BY <1>3, <1>5, <1>6
    <3> QED
      BY <1>3, <2>1, <3>1 DEF Fenced
  <2> SUFFICES ASSUME NEW s \in Slot, s < base PROVE Recorded(nd.ledger, s) \/ Fenced(nd, s)
    BY <1>2, <1>3, <2>1 DEF Frontier
  <2>2. s \in Nat
    BY Constants DEF Slot
  <2>3. s < nd.recovery.base \/ s \in nd.recovery.base .. nd.recovery.last
    BY <1>7, <2>2
  <2> QED
    BY <1>0, <2>3 DEF Candidate, Frontier
<1>16. Candidate(new, N, D, V)
  <2>1. new.recovery = NewRecovery(base, peers)
    BY <1>3 DEF rec
  <2> QED
    BY <1>5, <1>13, <1>14, <1>15, <2>1, OpensChunk
<1> QED
  BY <1>3, <1>4, <1>8, <1>16

\* A leader begins above all its read quorum reported.
LEMMA LeadsFree ==
  ASSUME NEW nd, NodeTyped(nd), RecoveryTyped(nd.recovery), nd.recovery.ready,
         ~ nd.recovery.more, NEW N, NEW D, NEW V, Candidate(nd, N, D, V),
         \A s \in nd.recovery.base .. nd.recovery.last :
           nd.recovery.recovered[s].state # "Empty" => Recorded(nd.ledger, s) \/ Fenced(nd, s)
  PROVE  Free(BecomeLeader(nd), D, V)
<1>1. PICK new : new = BecomeLeader(nd)
  OBVIOUS
<1>2. /\ new.ballot = nd.ballot
      /\ \A s \in Slot : Recorded(nd.ledger, s) \/ s <= Fence(nd)
                           => s < new.next_slot \/ s = MaxSlot
      /\ new.next_slot \in Nat
  <2>1. new.next_slot \in Slot
    BY <1>1, BecomeLeaderFacts DEF NodeTyped
  <2> QED
    BY <1>1, <2>1, BecomeLeaderOffice, Constants DEF Slot
<1>3. PICK Q \in Quorums :
        \A p \in Q : Complete(nd.recovery, p) /\ ~ nd.recovery.peer[p].more
  BY DEF Candidate, Ready
<1>4. \A p \in Q : p \in Node
  BY DEF Quorums
<1> SUFFICES ASSUME NEW s \in Slot, s >= new.next_slot, s # MaxSlot, NEW p \in Q
             PROVE  Closed(D, V, p, s, nd.ballot, BALLOT_ZERO)
  BY <1>1, <1>2 DEF Free
<1>5. s \in Nat /\ ~ (s < new.next_slot)
  BY <1>2, Constants DEF Slot
<1>6. ~ Recorded(nd.ledger, s) /\ ~ Fenced(nd, s)
  BY <1>2, <1>5, FenceCovers
<1>7. s >= nd.recovery.base
  <2>1. ~ (s < nd.recovery.base)
    BY <1>6 DEF Candidate, Frontier
  <2>2. nd.recovery.base \in Nat
    BY ChunkBounds
  <2> QED
    BY <1>5, <2>1, <2>2
<1>8. s \notin nd.recovery.peer[p].seen
  <2> SUFFICES ASSUME s \in nd.recovery.peer[p].seen PROVE FALSE
    OBVIOUS
  <2>1. s \in DOMAIN nd.recovery.recovered /\ nd.recovery.recovered[s].state # "Empty"
    BY <1>4 DEF Candidate, Gathers
  <2>2. s \in nd.recovery.base .. nd.recovery.last
    BY <2>1, ChunkBounds
  <2> QED
    BY <1>6, <2>1, <2>2
<1> QED
  BY <1>3, <1>4, <1>6, <1>7, <1>8, CompleteCovers

\* A frozen candidate drives its chunk and stays, goes on to the next one, or leads.
LEMMA ResolveSafety ==
  ASSUME ~LaggingHost, NEW n \in Node, Regular(n), node[n].role = "Preparing",
         NEW nd, Frozen(n, nd), Candidate(nd, net, disk, votes),
         NEW used, FinishResult(n, ResolveChunk(n, nd), used)
  PROVE  SafetyInv'
<1>1. /\ TypeInv /\ TermInv /\ DecisionInv /\ AllSafe /\ Within(node[n])
      /\ NodeTyped(nd) /\ nd.role = "Preparing" /\ nd.recovery.ready
      /\ nd.ballot = node[n].ballot
      /\ \A m \in net : MessageTyped(m)
  BY DEF Regular, SafetyInv, Frozen, TypeInv
<1>2. RecoveryTyped(nd.recovery) /\ Owns(n, nd.ballot) /\ (nd.recovery.more => nd.recovery.last < MaxSlot)
  BY <1>1 DEF NodeTyped, RecoveryTyped, TermInv, Bid
<1>3. Utters(n)
  <2>1. SelectsSafely(nd, nd.ballot)
    BY <1>1, SelectionIsSafe
  <2> QED
    BY <1>1, <2>1, ResolveSays
<1>4. PICK r : r = ResolveChunk(n, nd)
  OBVIOUS
<1>5. Works(nd, r.nd, r.w) /\ Finish(n, r.nd, r.w, r.out, used)
  BY <1>1, <1>4, ResolveWorks DEF FinishResult
<1>6. PICK sent, asked, told, adopted, open, val :
        Resolves(n, nd, r, sent, asked, told, adopted, open, val)
        /\ Finishes(n, nd, r, sent, told, adopted, open)
  BY <1>1, <1>4, ResolveResolves
<1>7. /\ NodeTyped(sent) /\ sent.role = "Preparing" /\ sent.ballot = nd.ballot
      /\ sent.recovery = nd.recovery /\ r.out = asked \cup told
      /\ \A m \in asked : m.type = "Accept"
  BY <1>1, <1>6 DEF Resolves, Proposes
<1>8. /\ Serves(nd, sent)
      /\ \A s \in Slot : s \in adopted \cup open \/ ledger_is_chosen(nd.ledger, s)
                           => Recorded(sent.ledger, s)
  BY <1>1, <1>5, <1>6, DriveServes
<1>9. CASE Calm(n)
  BY <1>3, <1>9, CalmSafety
<1>10. CASE node'[n] = r.nd /\ net' \subseteq (net \ used) \cup r.out
  <2> DEFINE M == net \cap net'
  <2>1. Advances(disk, votes, disk', votes') /\ Stands(nd, net, disk, votes)
    BY <1>1, <1>3, RegularFacts DEF Stands
  <2>2. \A m \in net' \ net : m.type \in Campaign => m \in told
    BY <1>7, <1>10 DEF Campaign
  <2>3. Candidate(sent, M, disk', votes')
    <3>1. Stands(sent, M, disk', votes')
      BY <1>1, <1>7, <1>8, <2>1, ServesStands
    <3> QED
      BY <1>7, <3>1 DEF Stands
  <2>4. \A s \in Slot : s <= Fence(nd) => Fenced(sent, s)
    <3> SUFFICES ASSUME NEW s \in Slot, s <= Fence(nd) PROVE Fenced(sent, s)
      OBVIOUS
    <3>1. Fenced(nd, s) /\ s \in Nat
      BY <1>1, <1>2, FenceCovers, Constants DEF Slot
    <3>2. /\ sent.ledger.anchor.chosen_trim_slot >= nd.ledger.anchor.chosen_trim_slot
          /\ sent.delivered_through >= nd.delivered_through
      BY <1>7, <1>8 DEF Serves
    <3>3. /\ nd.delivered_through \in Nat /\ sent.delivered_through \in Nat
          /\ nd.ledger.anchor.chosen_trim_slot \in Nat
          /\ sent.ledger.anchor.chosen_trim_slot \in Nat
      BY <1>1, <1>7, Constants DEF NodeTyped, LedgerTyped, LedgerType, AnchorType
    <3> QED
      BY <1>7, <3>1, <3>2, <3>3 DEF Fenced
  <2>5. ASSUME NEW s \in nd.recovery.base .. nd.recovery.last,
               s > Fence(nd) => s \in adopted \cup open \/ ledger_is_chosen(nd.ledger, s)
        PROVE  Recorded(sent.ledger, s) \/ Fenced(sent, s)
    <3>1. s \in Slot /\ s \in Nat /\ Fence(nd) \in Nat
      BY <1>1, <1>2, ChunkBounds, FenceFacts, Constants DEF Slot
    <3>2. s <= Fence(nd) \/ s > Fence(nd)
      BY <3>1
    <3> QED
      BY <1>8, <2>4, <2>5, <3>1, <3>2
  <2>6. ASSUME Mute(told), Stands(node'[n], net', disk', votes') PROVE SafetyInv'
    <3>1. \A m \in net' \ net : m.type \notin Campaign
      BY <2>2, <2>6 DEF Mute
    <3>2. \A m \in net' \ net : Reveals(m, disk', votes') /\ CampaignBacked(m)'
      BY <3>1 DEF Reveals, CampaignBacked, Campaign
    <3>3. \A k \in Node \ {n} : Stands(node'[k], net', disk', votes')
      BY <1>3, <3>1, OthersStand
    <3> QED
      BY <1>3, <2>6, <3>2, <3>3, StepKeepsSafety
  <2>7. CASE r.nd = sent /\ Mute(told)
    <3>1. \A m \in net' : m.type \in Campaign => m \in net
      BY <2>2, <2>7 DEF Mute
    <3>2. Stands(sent, net', disk', votes')
      BY <1>1, <1>7, <1>8, <2>1, <3>1, ServesStands
    <3> QED
      BY <1>10, <2>6, <2>7, <3>2
  <2>8. CASE /\ nd.recovery.more /\ r.nd = BeginNextChunk(n, sent).nd
             /\ \A m \in told : m.type \in Campaign => m \in BeginNextChunk(n, sent).out
             /\ \A s \in nd.recovery.base .. nd.recovery.last :
                  s > Fence(nd) => s \in adopted \cup open \/ ledger_is_chosen(nd.ledger, s)
    <3>1. PICK b : b = BeginNextChunk(n, sent)
      OBVIOUS
    <3>2. \A m \in net' : m.type \in Campaign /\ m.ballot = sent.ballot => m \in M \cup b.out
      BY <2>2, <2>8, <3>1
    <3>3. \A s \in sent.recovery.base .. sent.recovery.last :
            Recorded(sent.ledger, s) \/ Fenced(sent, s)
      BY <1>7, <2>5, <2>8
    <3>4. RecoveryTyped(sent.recovery) /\ sent.recovery.last < MaxSlot
          /\ \A m \in M : MessageTyped(m)
      BY <1>1, <1>2, <1>7, <2>8
    <3> HIDE DEF M
    <3>5. /\ Candidate(b.nd, net', disk', votes')
          /\ b.nd.role = sent.role /\ b.nd.ballot = sent.ballot
          /\ \A m \in b.out : /\ m.type = "Prepare" /\ m.from = n /\ m.ballot = sent.ballot
                              /\ m = Prepare(m.from, m.to, m.ballot, m.first, m.last)
      <4>1. PICK N, E, W : N = net' /\ E = disk' /\ W = votes'
        OBVIOUS
      <4>2. \A m \in N : m.type \in Campaign /\ m.ballot = sent.ballot => m \in M \cup b.out
        BY <3>2, <4>1
      <4>3. Candidate(sent, M, E, W) /\ NodeTyped(sent)
        BY <1>7, <2>3, <4>1
      <4>4. /\ Candidate(b.nd, N, E, W)
            /\ b.nd.role = sent.role /\ b.nd.ballot = sent.ballot
            /\ \A m \in b.out : /\ m.type = "Prepare" /\ m.from = n /\ m.ballot = sent.ballot
                                /\ m = Prepare(m.from, m.to, m.ballot, m.first, m.last)
        <5>1. Leaves(n, sent, M, N, E, W, b)
          BY <3>1, <3>3, <3>4, <4>2, <4>3 DEF Leaves
        <5> QED
          BY <5>1, NextChunkStands
      <4> QED
        BY <4>1, <4>4
    <3>6. node'[n] = b.nd
      BY <1>10, <2>8, <3>1
    <3>7. Stands(node'[n], net', disk', votes')
      BY <1>7, <3>5, <3>6 DEF Stands
    <3>8. \A m \in net' \ net : m.type \in Campaign =>
            /\ m.type = "Prepare" /\ m.from = n /\ m.ballot = nd.ballot
            /\ m = Prepare(m.from, m.to, m.ballot, m.first, m.last)
      BY <1>7, <2>2, <2>8, <3>1, <3>5
    <3>9. \A k \in Node \ {n} : Stands(node'[k], net', disk', votes')
      BY <1>2, <1>3, <3>8, OthersStand
    <3>10. nd.ballot <= node'[n].ledger.promised
      BY <1>7, <3>5, <3>6 DEF Regular, TermInv, Bid
    <3>11. \A m \in net' \ net : Reveals(m, disk', votes') /\ CampaignBacked(m)'
      BY <1>2, <3>8, <3>10 DEF Reveals, CampaignBacked, Asker, Campaign
    <3> QED
      BY <1>3, <3>7, <3>9, <3>11, StepKeepsSafety
  <2>9. CASE /\ ~ nd.recovery.more /\ r.nd = BecomeLeader(sent) /\ Mute(told)
             /\ \A s \in nd.recovery.base .. nd.recovery.last :
                  s > Fence(nd) /\ nd.recovery.recovered[s].state # "Empty"
                    => s \in adopted \cup open \/ ledger_is_chosen(nd.ledger, s)
    <3>1. \A s \in sent.recovery.base .. sent.recovery.last :
            sent.recovery.recovered[s].state # "Empty"
              => Recorded(sent.ledger, s) \/ Fenced(sent, s)
      BY <1>7, <2>5, <2>9
    <3>2. RecoveryTyped(sent.recovery) /\ sent.recovery.ready /\ ~ sent.recovery.more
      BY <1>1, <1>2, <1>7, <2>9
    <3> HIDE DEF M
    <3>3. Free(BecomeLeader(sent), disk', votes')
      BY <1>7, <2>3, <3>1, <3>2, LeadsFree
    <3>4. BecomeLeader(sent).role = "Leader"
      BY <1>7, <3>2, BecomeLeaderFacts
    <3>5. Stands(node'[n], net', disk', votes')
      BY <1>10, <2>9, <3>3, <3>4 DEF Stands
    <3> QED
      BY <2>6, <2>9, <3>5
  <2> QED
    BY <1>6, <2>7, <2>8, <2>9 DEF Finishes
<1> QED
  BY <1>1, <1>5, <1>9, <1>10, WholeOrCalm DEF TypeInv

\* A candidate whose collection is true of what the members answered looks at it.
LEMMA CollectingSafety ==
  ASSUME ~LaggingHost, NEW n \in Node, Regular(n), node[n].role = "Preparing",
         NEW rec, RecoveryTyped(rec), Collected(rec, votes),
         rec = node[n].recovery
           \/ (~ node[n].recovery.ready /\ rec.ready = node[n].recovery.ready
                 /\ rec.base = node[n].recovery.base),
         NEW k, k = [node[n] EXCEPT !.recovery = rec], Candidate(k, net, disk, votes),
         NEW r, r \in {MaybeResolve(n, k), Nothing(k)},
         NEW used, Finish(n, r.nd, r.w, r.out, used)
  PROVE  SafetyInv'
<1>1. TypeInv /\ TermInv /\ DecisionInv /\ n \in DOMAIN node
  BY DEF Regular, TypeInv
<1>2. CASE r # Nothing(k)
  <2>1. PICK f : Frozen(n, f) /\ r = ResolveChunk(n, f) /\ Froze(k, f)
    BY <1>1, <1>2, CollectedFreezes
  <2>2. FinishResult(n, ResolveChunk(n, f), used)
    BY <2>1 DEF FinishResult
  <2>3. Candidate(f, net, disk, votes)
    BY <2>1, FrozeStands
  <2> QED
    BY <2>1, <2>2, <2>3, ResolveSafety
<1>3. CASE r = Nothing(k)
  <2>1. Utters(n)
    BY <1>1, <1>3, CollectingSays
  <2>2. r.nd = k /\ r.w = NoWrites /\ r.out = {}
    BY <1>3 DEF Nothing, Result
  <2>3. NodeTyped(k) /\ k.role = "Preparing"
    BY <1>1, NodeFacts, RecoveryNode
  <2>4. CASE Calm(n)
    BY <2>1, <2>4, CalmSafety
  <2>5. CASE node'[n] = k /\ net' \subseteq net
    <3>1. Advances(disk, votes, disk', votes') /\ Stands(k, net, disk, votes) /\ Serves(k, k)
      BY <2>1, <2>3, RegularFacts, ItselfServes DEF Stands
    <3>2. Stands(node'[n], net', disk', votes')
      BY <2>3, <2>5, <3>1, ServesStands
    <3>3. \A p \in Node \ {n} : Stands(node'[p], net', disk', votes')
      BY <2>1, <2>5, OthersStand
    <3>4. \A p \in Node : Stands(node'[p], net', disk', votes')
      BY <3>2, <3>3
    <3>5. \A m \in net' \ net : Reveals(m, disk', votes') /\ CampaignBacked(m)'
      BY <2>5
    <3> QED
      BY <2>1, <3>4, <3>5, StepKeepsSafety
  <2> QED
    BY <1>1, <2>2, <2>4, <2>5, WholeOrCalm
<1> QED
  BY <1>2, <1>3

LEMMA LooksAgainSafety ==
  ASSUME ~LaggingHost, NEW n \in Node, Regular(n), node[n].role = "Preparing", NEW used,
         \/ FinishResult(n, MaybeResolve(n, node[n]), used)
         \/ node[n].recovery.ready /\ FinishResult(n, ResolveChunk(n, node[n]), used)
  PROVE  SafetyInv'
<1>1. PICK k : k = node[n]
  OBVIOUS
<1>2. PICK rec : rec = k.recovery
  OBVIOUS
<1>3. NodeTyped(k) /\ RecoveryTyped(rec) /\ k = [k EXCEPT !.recovery = rec]
  BY <1>1, <1>2, NodeFacts DEF NodeTyped, Regular
<1>4. Collected(rec, votes) /\ Candidate(k, net, disk, votes)
  BY <1>1, <1>2 DEF Regular, DecisionInv, SafetyInv, Stands
<1>5. PICK r : r = MaybeResolve(n, k)
  OBVIOUS
<1>6. rec.ready => MaybeResolve(n, k) = ResolveChunk(n, k)
  BY <1>2 DEF MaybeResolve
<1>7. Finish(n, r.nd, r.w, r.out, used)
  BY <1>1, <1>2, <1>5, <1>6 DEF FinishResult
<1>8. r \in {MaybeResolve(n, k), Nothing(k)}
  BY <1>5
<1>9. rec = node[n].recovery /\ k = [node[n] EXCEPT !.recovery = rec]
  BY <1>1, <1>2, <1>3
<1> QED
  BY <1>3, <1>4, <1>7, <1>8, <1>9, CollectingSafety

LEMMA RetrySafety ==
  ASSUME ~LaggingHost, NEW n \in Node, Regular(n), Retry(n)
  PROVE  SafetyInv'
  BY LooksAgainSafety DEF Retry

LEMMA OnPromiseSafety ==
  ASSUME ~LaggingHost, NEW n \in Node, Regular(n), NEW m \in Received(n, "Promise"), OnPromise(n, m)
  PROVE  SafetyInv'
<1>1. /\ node[n].role = "Preparing" /\ m.ballot = node[n].ballot
      /\ m \in net /\ m.type = "Promise"
  BY DEF OnPromise, Preparing, Received
<1>2. /\ TypeInv /\ TermInv /\ DecisionInv /\ Reveals(m, disk, votes)
      /\ Candidate(node[n], net, disk, votes)
  BY <1>1 DEF Regular, SafetyInv, Stands
<1>3. /\ m.from \in Node /\ m.vote \in BallotSet /\ m.state \in {"Voted", "Chosen"}
      /\ votes \subseteq VoteType
  BY <1>1, <1>2 DEF TypeInv, MessageTyped
<1>4. NodeTyped(node[n]) /\ RecoveryTyped(node[n].recovery)
  BY <1>1, <1>2, NodeFacts DEF NodeTyped
<1>5. CASE node[n].recovery.ready /\ FinishResult(n, ResolveChunk(n, node[n]), Consumed(m))
  BY <1>1, <1>5, LooksAgainSafety
<1>6. ASSUME NEW got, NEW k, NEW r, CountsReport(n, m, got), Collected(got, votes),
             k = [node[n] EXCEPT !.recovery = got], r \in {MaybeResolve(n, k), Nothing(k)},
             Finish(n, r.nd, r.w, r.out, Consumed(m))
      PROVE  SafetyInv'
  <2>1. PICK nd : nd = node[n]
    OBVIOUS
  <2>2. PICK old, new, was, best :
          /\ old = nd.recovery.peer[m.from] /\ was = nd.recovery.recovered[m.slot]
          /\ new = [state |-> m.state, ballot |-> m.vote, value |-> m.value]
          /\ best = IF Better(new, was) THEN new ELSE was
    OBVIOUS
  <2>3. /\ RecoveryTyped(got) /\ ~ nd.recovery.ready /\ got.ready = nd.recovery.ready
        /\ got.base = nd.recovery.base /\ got.last = nd.recovery.last
        /\ m.slot \in DOMAIN nd.recovery.recovered
        /\ got.peer = [nd.recovery.peer EXCEPT ![m.from].seen = @ \cup {m.slot}]
        /\ DOMAIN got.recovered = DOMAIN nd.recovery.recovered
        /\ got.recovered[m.slot] = best
        /\ \A s \in DOMAIN nd.recovery.recovered :
             s # m.slot => got.recovered[s] = nd.recovery.recovered[s]
    BY <1>6, <2>1, <2>2 DEF CountsReport
  <2>4. /\ k.recovery = got /\ k.ballot = nd.ballot /\ k.ledger = nd.ledger
        /\ k.delivered_through = nd.delivered_through
    BY <1>4, <1>6, <2>1, <2>3, RecoveryNode DEF NodeTyped
  <2>5. /\ DOMAIN nd.recovery.recovered = nd.recovery.base .. nd.recovery.last
        /\ nd.recovery.peer \in [Node -> PeerType]
    BY <1>4, <2>1 DEF RecoveryTyped
  <2>6. got.peer[m.from] = [old EXCEPT !.seen = @ \cup {m.slot}]
        /\ \A q \in Node \ {m.from} : got.peer[q] = nd.recovery.peer[q]
    BY <1>3, <2>2, <2>3, <2>5
  <2>7. /\ got.peer[m.from].anchor = old.anchor
        /\ got.peer[m.from].chosen_through = old.chosen_through
        /\ old.anchor.chosen_trim_slot \in Nat /\ old.chosen_through \in Nat
    <3>1. old \in PeerType
      BY <1>3, <2>2, <2>5
    <3>2. old.anchor \in AnchorType /\ old.chosen_through \in 0 .. MaxSlot
      BY <3>1 DEF PeerType
    <3>3. old.anchor.chosen_trim_slot \in Nat /\ old.chosen_through \in Nat
      BY <3>2, Constants DEF AnchorType
    <3>4. /\ got.peer[m.from].anchor = old.anchor
          /\ got.peer[m.from].chosen_through = old.chosen_through
      BY <2>6, <3>1 DEF PeerType
    <3> QED
      BY <3>3, <3>4
  <2>8. Counts(nd, k, m.from)
    <3>1. ~ k.recovery.ready
      BY <2>3, <2>4, Zenon
    <3>2. /\ k.recovery.peer[m.from].anchor.chosen_trim_slot >=
               nd.recovery.peer[m.from].anchor.chosen_trim_slot
          /\ k.recovery.peer[m.from].chosen_through >= nd.recovery.peer[m.from].chosen_through
      BY <2>2, <2>4, <2>7
    <3> QED
      BY <2>3, <2>4, <2>6, <3>1, <3>2 DEF Counts
  <2>9. new.state = m.state /\ new.ballot = m.vote /\ new.value = m.value
    BY <2>2
  <2>10. PICK N, D, V : N = net /\ D = disk /\ V = votes
    OBVIOUS
  <2>11. /\ NodeTyped(nd) /\ RecoveryTyped(nd.recovery) /\ RecoveryTyped(k.recovery)
         /\ V \subseteq VoteType /\ Candidate(nd, N, D, V) /\ m \in N
         /\ m.ballot = nd.ballot /\ Reveals(m, D, V)
         /\ m.slot \in nd.recovery.base .. nd.recovery.last
         /\ best = IF Better(new, nd.recovery.recovered[m.slot])
                     THEN new ELSE nd.recovery.recovered[m.slot]
         /\ DOMAIN k.recovery.recovered = DOMAIN nd.recovery.recovered
         /\ k.recovery.recovered[m.slot] = best
         /\ \A s \in DOMAIN nd.recovery.recovered :
              s # m.slot => k.recovery.recovered[s] = nd.recovery.recovered[s]
         /\ k.recovery.peer[m.from] = [old EXCEPT !.seen = @ \cup {m.slot}]
    BY <1>1, <1>2, <1>3, <1>4, <2>1, <2>2, <2>3, <2>4, <2>5, <2>6, <2>10
  <2>12. Candidate(k, N, D, V)
    BY <1>1, <1>3, <2>2, <2>8, <2>9, <2>11, PromiseCounted
  <2> QED
    BY <1>1, <1>6, <2>1, <2>3, <2>10, <2>12, CollectingSafety
<1> QED
  BY <1>2, <1>5, <1>6, OnPromiseCounts

\* A manifest raises what is known of its sender's anchor and prefix, and never lowers it.
LEMMA ManifestRises ==
  ASSUME NEW old \in PeerType, NEW anchor \in AnchorType, NEW through \in 0 .. MaxSlot,
         NEW count \in 0 .. Chunk, NEW more \in BOOLEAN, NEW f, NEW d,
         Manifest(old, f, d, anchor, through, count, more)
  PROVE  /\ f.seen = old.seen /\ f.range_described = old.range_described
         /\ f.expected_in_range = old.expected_in_range
         /\ f.anchor.chosen_trim_slot >= old.anchor.chosen_trim_slot
         /\ f.chosen_through >= old.chosen_through
         /\ d.seen = old.seen /\ d.expected_in_range = count
         /\ d.anchor.chosen_trim_slot >= old.anchor.chosen_trim_slot
         /\ d.chosen_through >= old.chosen_through
         /\ d.anchor.chosen_trim_slot >= anchor.chosen_trim_slot /\ d.chosen_through >= through
<1>1. /\ old.anchor \in AnchorType /\ old.chosen_through \in 0 .. MaxSlot
  BY DEF PeerType
<1>2. /\ old.anchor.chosen_trim_slot \in Nat /\ old.chosen_through \in Nat
      /\ anchor.chosen_trim_slot \in Nat /\ through \in Nat
  BY <1>1, Constants DEF AnchorType
<1>3. PICK a : a = IF anchor.chosen_trim_slot > old.anchor.chosen_trim_slot
                     THEN anchor ELSE old.anchor
  OBVIOUS
<1>4. PICK t : t = MaxOf(old.chosen_through, through)
  OBVIOUS
<1>5. f = [old EXCEPT !.anchor = a, !.chosen_through = t]
  BY <1>3, <1>4 DEF Manifest
<1>6. d = [f EXCEPT !.expected_in_range = count, !.range_described = TRUE, !.more = more]
  BY DEF Manifest
<1>7. /\ f.seen = old.seen /\ f.range_described = old.range_described
      /\ f.expected_in_range = old.expected_in_range /\ f.anchor = a /\ f.chosen_through = t
      /\ DOMAIN f = DOMAIN old
  BY <1>5 DEF PeerType
<1>8. /\ d.seen = f.seen /\ d.expected_in_range = count /\ d.anchor = f.anchor
      /\ d.chosen_through = f.chosen_through
  BY <1>6, <1>7 DEF PeerType
<1>9. /\ a.chosen_trim_slot >= old.anchor.chosen_trim_slot
      /\ a.chosen_trim_slot >= anchor.chosen_trim_slot
  BY <1>2, <1>3
<1>10. t >= old.chosen_through /\ t >= through
  BY <1>2, <1>4 DEF MaxOf
<1> QED
  BY <1>7, <1>8, <1>9, <1>10

\* A candidate takes in what a member says of itself and of the chunk.
LEMMA RecountSafety ==
  ASSUME ~LaggingHost, NEW n \in Node, Regular(n), node[n].role = "Preparing",
         ~ node[n].recovery.ready, NEW p \in Node, NEW q \in PeerType,
         q.more => node[n].recovery.last < MaxSlot,
         NEW old, old = node[n].recovery.peer[p],
         q.seen = old.seen,
         q.anchor.chosen_trim_slot >= old.anchor.chosen_trim_slot,
         q.chosen_through >= old.chosen_through,
         \/ /\ q.range_described = old.range_described
            /\ q.expected_in_range = old.expected_in_range /\ q.more = old.more
         \/ \E m \in Ranges(node[n], p, net) :
              /\ q.expected_in_range = m.reported /\ q.more = m.more
              /\ q.anchor.chosen_trim_slot >= m.anchor.chosen_trim_slot
              /\ q.chosen_through >= m.chosen_through,
         NEW k, k = [node[n] EXCEPT !.recovery.peer[p] = q],
         NEW used, \/ FinishResult(n, MaybeResolve(n, k), used)
                   \/ FinishResult(n, Nothing(k), used)
  PROVE  SafetyInv'
<1>1. /\ NodeTyped(node[n]) /\ RecoveryTyped(node[n].recovery)
      /\ Collected(node[n].recovery, votes) /\ Candidate(node[n], net, disk, votes)
  BY NodeFacts DEF Regular, DecisionInv, SafetyInv, Stands, NodeTyped
<1>a. NodeTyped(node[n])
  BY <1>1
<1>2. PICK got : Recounts(node[n].recovery, got, p, q) /\ k = [node[n] EXCEPT !.recovery = got]
  BY ONLY <1>a, node[n].role = "Preparing", p \in Node, q \in PeerType,
          q.more => node[n].recovery.last < MaxSlot,
          k = [node[n] EXCEPT !.recovery.peer[p] = q], PeerRecounted, SMTT(30)
<1>3. PICK nd : nd = node[n]
  OBVIOUS
<1>4. /\ RecoveryTyped(got) /\ got.base = nd.recovery.base
      /\ got.ready = nd.recovery.ready /\ got.recovered = nd.recovery.recovered
      /\ got.last = nd.recovery.last /\ got.peer = [nd.recovery.peer EXCEPT ![p] = q]
  BY <1>2, <1>3 DEF Recounts
<1>5. Collected(got, votes)
  BY <1>1, <1>3, <1>4 DEF Collected
<1>6. PICK r : /\ r \in {MaybeResolve(n, k), Nothing(k)}
               /\ Finish(n, r.nd, r.w, r.out, used)
  BY DEF FinishResult
<1>7. /\ k.recovery = got /\ k.ballot = nd.ballot /\ k.ledger = nd.ledger
      /\ k.delivered_through = nd.delivered_through
  BY <1>1, <1>2, <1>3, <1>4, RecoveryNode DEF NodeTyped
<1>8. nd.recovery.peer \in [Node -> PeerType]
  BY <1>1, <1>3 DEF RecoveryTyped
<1>9. got.peer[p] = q /\ \A x \in Node \ {p} : got.peer[x] = nd.recovery.peer[x]
  BY <1>4, <1>8
<1>10. Counts(nd, k, p)
  <2>1. ~ k.recovery.ready
    BY <1>3, <1>4, <1>7, Zenon
  <2> QED
    BY <1>3, <1>4, <1>7, <1>9, <2>1 DEF Counts
<1>11. PICK N, D, V : N = net /\ D = disk /\ V = votes
  OBVIOUS
<1>12. Candidate(k, N, D, V)
  <2>1. /\ k.recovery.recovered = nd.recovery.recovered
        /\ k.recovery.peer[p].seen = nd.recovery.peer[p].seen
        /\ RecoveryTyped(nd.recovery) /\ RecoveryTyped(k.recovery) /\ Candidate(nd, N, D, V)
    BY <1>1, <1>3, <1>4, <1>7, <1>9, <1>11
  <2>2. CASE /\ q.range_described = old.range_described
             /\ q.expected_in_range = old.expected_in_range /\ q.more = old.more
    <3>1. /\ k.recovery.peer[p].range_described = nd.recovery.peer[p].range_described
          /\ k.recovery.peer[p].expected_in_range = nd.recovery.peer[p].expected_in_range
          /\ k.recovery.peer[p].more = nd.recovery.peer[p].more
      BY <1>3, <1>7, <1>9, <2>2, Zenon
    <3> QED
      BY <1>10, <2>1, <3>1, ManifestCounted
  <2>3. CASE \E m \in Ranges(nd, p, N) :
               /\ q.expected_in_range = m.reported /\ q.more = m.more
               /\ q.anchor.chosen_trim_slot >= m.anchor.chosen_trim_slot
               /\ q.chosen_through >= m.chosen_through
    <3>1. k.recovery.peer[p] = q
      BY <1>7, <1>9
    <3>2. \E m \in Ranges(nd, p, N) :
               /\ k.recovery.peer[p].expected_in_range = m.reported
               /\ k.recovery.peer[p].more = m.more
               /\ k.recovery.peer[p].anchor.chosen_trim_slot >= m.anchor.chosen_trim_slot
               /\ k.recovery.peer[p].chosen_through >= m.chosen_through
      BY <2>3, <3>1, Zenon
    <3> QED
      BY <1>10, <2>1, <3>2, ManifestCounted
  <2> QED
    BY <1>3, <1>11, <2>2, <2>3
<1> QED
  BY <1>2, <1>3, <1>4, <1>5, <1>6, <1>11, <1>12, CollectingSafety

LEMMA OnPromiseRangeSafety ==
  ASSUME ~LaggingHost, NEW n \in Node, Regular(n), NEW m \in Received(n, "Promise_Range"),
         OnPromiseRange(n, m)
  PROVE  SafetyInv'
<1> DEFINE nd == node[n]
           rec == nd.recovery
           old == rec.peer[m.from]
           fenced == [old EXCEPT
             !.anchor = IF m.anchor.chosen_trim_slot > @.chosen_trim_slot THEN m.anchor ELSE @,
             !.chosen_through = MaxOf(@, m.chosen_through)]
           described == [fenced EXCEPT !.expected_in_range = m.reported,
                                       !.range_described = TRUE, !.more = m.more]
           With(peer) == [nd EXCEPT !.recovery.peer[m.from] = peer]
<1>a. /\ TypeInv /\ m \in net /\ m.type = "Promise_Range" /\ m.ballot = nd.ballot
  BY DEF Regular, OnPromiseRange, Preparing, Received
<1>1. /\ m.from \in Node /\ m.first \in Slot /\ m.last = slot_add(m.first, Chunk - 1)
      /\ m.anchor \in AnchorType /\ m.chosen_through \in 0 .. MaxSlot
      /\ m.reported \in 0 .. Chunk /\ m.more \in BOOLEAN /\ (m.more => m.last < MaxSlot)
  BY <1>a DEF TypeInv, MessageTyped
<1>2. NodeTyped(nd) /\ nd.role = "Preparing"
  BY <1>a, NodeFacts DEF OnPromiseRange, Preparing
<1>3. /\ rec.peer \in [Node -> PeerType] /\ rec.last = slot_add(rec.base, Chunk - 1)
      /\ \A p \in Node : rec.peer[p].more => rec.last < MaxSlot
  BY <1>2 DEF NodeTyped, RecoveryTyped
<1>4. old \in PeerType /\ (old.more => rec.last < MaxSlot)
  BY <1>1, <1>3
<1>5. PICK f, d : f = fenced /\ d = described
  OBVIOUS
<1>b. PICK o, a, t, c, mo : o = old /\ a = m.anchor /\ t = m.chosen_through
                            /\ c = m.reported /\ mo = m.more
  OBVIOUS
<1>c. /\ o \in PeerType /\ a \in AnchorType /\ t \in 0 .. MaxSlot /\ c \in 0 .. Chunk
      /\ mo \in BOOLEAN /\ Manifest(o, f, d, a, t, c, mo)
  BY <1>1, <1>4, <1>5, <1>b DEF Manifest
<1>6. f \in PeerType /\ f.more = old.more /\ d \in PeerType /\ d.more = m.more
  BY <1>b, <1>c, ManifestTyped
<1>d. /\ f.seen = o.seen /\ f.range_described = o.range_described
      /\ f.expected_in_range = o.expected_in_range
      /\ f.anchor.chosen_trim_slot >= o.anchor.chosen_trim_slot
      /\ f.chosen_through >= o.chosen_through
      /\ d.seen = o.seen /\ d.expected_in_range = c
      /\ d.anchor.chosen_trim_slot >= o.anchor.chosen_trim_slot
      /\ d.chosen_through >= o.chosen_through
      /\ d.anchor.chosen_trim_slot >= a.chosen_trim_slot /\ d.chosen_through >= t
  BY <1>c, ManifestRises
<1>7. \/ (rec.ready /\ FinishResult(n, ResolveChunk(n, nd), Consumed(m)))
      \/ (~ rec.ready /\ m.first = rec.base
            /\ FinishResult(n, MaybeResolve(n, With(described)), Consumed(m)))
      \/ (~ rec.ready /\ FinishResult(n, Nothing(With(fenced)), Consumed(m)))
  BY DEF OnPromiseRange
<1> HIDE DEF fenced, described
<1>8. CASE rec.ready /\ FinishResult(n, ResolveChunk(n, nd), Consumed(m))
  BY <1>2, <1>8, LooksAgainSafety
<1>9. CASE ~ rec.ready /\ m.first = rec.base
             /\ FinishResult(n, MaybeResolve(n, With(described)), Consumed(m))
  <2>1. d.more => rec.last < MaxSlot
    BY <1>1, <1>3, <1>6, <1>9
  <2>2. PICK k : k = [nd EXCEPT !.recovery.peer[m.from] = d]
    OBVIOUS
  <2>3. FinishResult(n, MaybeResolve(n, k), Consumed(m))
    BY <1>5, <1>9, <2>2
  <2>4. d \in PeerType /\ m.from \in Node /\ ~ rec.ready
    BY <1>1, <1>6, <1>9
  <2>5. m \in Ranges(nd, m.from, net)
    BY <1>a, <1>9 DEF Ranges
  <2>6. \E x \in Ranges(nd, m.from, net) :
              /\ d.expected_in_range = x.reported /\ d.more = x.more
              /\ d.anchor.chosen_trim_slot >= x.anchor.chosen_trim_slot
              /\ d.chosen_through >= x.chosen_through
    BY <1>b, <1>d, <1>6, <2>5, Zenon
  <2>7. /\ o = node[n].recovery.peer[m.from] /\ d.seen = o.seen
        /\ d.anchor.chosen_trim_slot >= o.anchor.chosen_trim_slot
        /\ d.chosen_through >= o.chosen_through
    BY <1>b, <1>d
  <2> QED
    BY <1>2, <2>1, <2>2, <2>3, <2>4, <2>6, <2>7, RecountSafety
<1>10. CASE ~ rec.ready /\ FinishResult(n, Nothing(With(fenced)), Consumed(m))
  <2>1. f.more => rec.last < MaxSlot
    BY <1>4, <1>6
  <2>2. PICK k : k = [nd EXCEPT !.recovery.peer[m.from] = f]
    OBVIOUS
  <2>3. FinishResult(n, Nothing(k), Consumed(m))
    BY <1>5, <1>10, <2>2
  <2>4. f \in PeerType /\ m.from \in Node /\ ~ rec.ready
    BY <1>1, <1>6, <1>10
  <2>5. f.more = o.more
    BY <1>b, <1>6, Zenon
  <2>6. /\ o = node[n].recovery.peer[m.from] /\ f.seen = o.seen
        /\ f.anchor.chosen_trim_slot >= o.anchor.chosen_trim_slot
        /\ f.chosen_through >= o.chosen_through
        /\ f.range_described = o.range_described
        /\ f.expected_in_range = o.expected_in_range
    BY <1>b, <1>d, Zenon
  <2> QED
    BY <1>2, <2>1, <2>2, <2>3, <2>4, <2>5, <2>6, RecountSafety
<1> QED
  BY <1>7, <1>8, <1>9, <1>10

-------------------------------------------------------------------------------
(* No two values are chosen for a slot.                                    *)

LEMMA OrdinarySafety ==
  ASSUME ~LaggingHost, NEW n \in Node, Regular(n), Behaves(n)
  PROVE  SafetyInv'
  BY CalmSafety DEF Behaves

LEMMA StepSafety ==
  ASSUME ~LaggingHost, "Prepare" \in OnceOnly, NEW n \in Node, Regular(n), Step(n)
  PROVE  SafetyInv'
<1>0. TypeInv /\ TermInv /\ DecisionInv
  BY DEF Regular
<1>1. ASSUME NEW m \in Received(n, "Prepare"), OnPrepare(n, m) PROVE SafetyInv'
  BY <1>1, OnPrepareSafety
<1>2. ASSUME NEW m \in Received(n, "Promise"), OnPromise(n, m) PROVE SafetyInv'
  BY <1>2, OnPromiseSafety
<1>3. ASSUME NEW m \in Received(n, "Promise_Range"), OnPromiseRange(n, m) PROVE SafetyInv'
  BY <1>3, OnPromiseRangeSafety
<1>4. ASSUME NEW m \in Received(n, "Accept"), OnAccept(n, m) PROVE SafetyInv'
  BY <1>0, <1>4, OnAcceptSays, OrdinarySafety
<1>5. ASSUME NEW m \in Received(n, "Accepted"), OnAccepted(n, m) PROVE SafetyInv'
  BY <1>0, <1>5, OnAcceptedSays, OrdinarySafety
<1>6. ASSUME NEW m \in Received(n, "Commit"), OnCommit(n, m) PROVE SafetyInv'
  BY <1>0, <1>6, OnCommitSays, OrdinarySafety
<1>7. ASSUME NEW m \in Received(n, "Learn"), OnLearn(n, m) PROVE SafetyInv'
  BY <1>0, <1>7, OnLearnSays, OrdinarySafety
<1>8. ASSUME NEW m \in Received(n, "Nack"), OnNack(n, m) PROVE SafetyInv'
  BY <1>0, <1>8, OnNackSays, OrdinarySafety
<1>9. ASSUME NEW m \in Received(n, "Heartbeat"), OnHeartbeat(n, m) PROVE SafetyInv'
  BY <1>0, <1>9, OnHeartbeatSays, OrdinarySafety
<1> QED
  BY <1>1, <1>2, <1>3, <1>4, <1>5, <1>6, <1>7, <1>8, <1>9 DEF Step

LEMMA TickSafety ==
  ASSUME ~LaggingHost, NEW n \in Node, Regular(n), Tick(n)
  PROVE  SafetyInv'
<1>0. TypeInv /\ TermInv /\ DecisionInv
  BY DEF Regular
<1>1. ASSUME NEW p \in Peers(n), ResendTo(n, p) PROVE SafetyInv'
  BY <1>0, <1>1, ResendToSays, OrdinarySafety
<1>2. SendHeartbeat(n) => SafetyInv'
  BY <1>0, PlainTicks, OrdinarySafety
<1> QED
  BY <1>1, <1>2, StartCampaignSafety, RetrySafety DEF Tick

LEMMA HostSafety ==
  ASSUME ~LaggingHost, NEW n \in Node, Regular(n), Host(n)
  PROVE  SafetyInv'
<1>0. TypeInv /\ TermInv /\ DecisionInv /\ WindowInv
  BY DEF Regular
<1>1. ASSUME NEW vals \in ProposalBatches, Propose(n, vals) PROVE SafetyInv'
  BY <1>1, ProposeSafety
<1>2. ASSUME NEW p \in Peers(n), CatchUp(n, p) PROVE SafetyInv'
  BY <1>0, <1>2, PlainTicks, OrdinarySafety
<1>3. ASSUME NEW a \in TrimRecords \cup NewTrims, InstallChosenTrim(n, a) PROVE SafetyInv'
  BY <1>0, <1>3, AnchorsAreTyped, InstallTrimSays, OrdinarySafety
<1>4. ASSUME \/ \E s \in Slot : AdvanceMemoryFloor(n, s)
             \/ \E donor \in Peers(n) : BeginRecovery(n, donor)
             \/ \E enabled \in BOOLEAN : SetCampaignEnabled(n, enabled)
             \/ Crash(n)
      PROVE  SafetyInv'
  BY <1>0, <1>4, LocalStepsAreOrdinary, CalmSafety
<1> QED
  BY <1>1, <1>2, <1>3, <1>4 DEF Host

\* All that the safety of a step rests on.
SoundInv ==
  TypeInv /\ ConsensusInv /\ WindowInv /\ SafetyInv /\ \A n \in Node : Within(node[n])

LEMMA NextSafe ==
  ASSUME ~LaggingHost, "Prepare" \in OnceOnly, SoundInv, TypeInv', ConsensusInv', Next
  PROVE  SafetyInv'
<1>1. PICK n \in Node : Step(n) \/ Tick(n) \/ Host(n)
  BY DEF Next
<1>2. OneStep(n)
  BY <1>1, StepIsOfAKind DEF SoundInv
<1>3. Regular(n)
  BY <1>2 DEF SoundInv, ConsensusInv, Regular
<1> QED
  BY <1>1, <1>3, StepSafety, TickSafety, HostSafety

LEMMA StutterSafe ==
  ASSUME SafetyInv, UNCHANGED vars
  PROVE  SafetyInv'
<1>1. node' = node /\ disk' = disk /\ net' = net /\ votes' = votes
  BY DEF vars
<1>2. AllSafe' /\ (\A n \in Node : Blank(disk'[n])) /\ \A n \in Node : Stands(node'[n], net', disk', votes')
  BY <1>1 DEF SafetyInv, AllSafe
<1>3. \A x \in votes' : VoteKept(x)'
  BY <1>1 DEF SafetyInv, VoteKept, Kept
<1>4. \A m \in net' : Reveals(m, disk', votes') /\ CampaignBacked(m)'
  BY <1>1 DEF SafetyInv, CampaignBacked
<1> QED
  BY <1>2, <1>3, <1>4 DEF SafetyInv

LEMMA InitSafe ==
  ASSUME Init
  PROVE  SafetyInv
<1>1. net = {} /\ votes = {} /\ \A n \in Node : disk[n] = EmptyLedger /\ node[n].role = "Follower"
  BY DEF Init, Resumed
<1>2. AllSafe
  BY <1>1 DEF AllSafe, Said
<1>3. Blank(EmptyLedger)
  BY DEF Blank, EmptyLedger, ledger_open
<1> QED
  BY <1>1, <1>2, <1>3 DEF SafetyInv, Stands

\* What journals, votes, messages and candidates owe one another, in every reachable state.
THEOREM SafetyIsInvariant ==
  ASSUME ~LaggingHost, "partial" \notin Calls, "Prepare" \in OnceOnly
  PROVE  Spec => []SoundInv
<1> DEFINE Bounds == \A k \in Node : Within(node[k])
<1>1. Init => SafetyInv /\ Bounds
  BY InitSafe DEF Init, Within, Resumed
<1>2. TypeInv /\ TypeInv' /\ ConsensusInv /\ ConsensusInv' /\ WindowInv /\ SafetyInv /\ Bounds
        /\ [Next]_vars => SafetyInv' /\ Bounds'
  <2>1. ASSUME TypeInv, Bounds, Next PROVE Bounds'
    BY <2>1, StepsAreOfAKind, StepsStayWithin
  <2>2. ASSUME Bounds, UNCHANGED vars PROVE Bounds'
    BY <2>2 DEF vars
  <2> QED
    BY <2>1, <2>2, NextSafe, StutterSafe DEF SoundInv
<1>3. TypeInv /\ ConsensusInv /\ WindowInv /\ SafetyInv /\ Bounds => SoundInv
  BY DEF SoundInv
<1>4. Spec => []TypeInv /\ []ConsensusInv /\ []WindowInv
  BY TypesAreInvariant, ConsensusIsInvariant, MemoryFollowsTheJournal, PTL
<1> QED
  BY <1>1, <1>2, <1>3, <1>4, PTL DEF Spec

\* Two write quorums never choose different values for a slot, and no two hosts ever apply
\* different logs: whatever campaigns cross, whatever is lost, repeated or reordered, and
\* whatever a crash in the middle of a batch leaves on disk (election.odin on_promise,
\* resolve_chunk; consensus.odin node_propose, on_accept, on_accepted, record_commit).
THEOREM NodesAgree ==
  ASSUME ~LaggingHost, "partial" \notin Calls, "Prepare" \in OnceOnly
  PROVE  Spec => []Agreement
<1>1. SoundInv => Agreement
  <2> SUFFICES ASSUME SoundInv PROVE Agreement
    OBVIOUS
  <2>1. TypeInv /\ TermInv /\ DecisionInv /\ AllSafe
    BY DEF SoundInv, ConsensusInv, SafetyInv
  <2>2. ASSUME NEW u \in votes, NEW w \in votes, u.slot = w.slot,
               ChosenIn(u.slot, u.value), ChosenIn(w.slot, w.value)
        PROVE  u.value = w.value
    <3>1. Chose(votes, u.slot, u.value) /\ Chose(votes, u.slot, w.value)
      BY <2>2, ChosenIsChose
    <3> QED
      BY <2>1, <3>1, ChosenAgree
  <2>3. ASSUME NEW m \in Node, NEW n \in Node, NEW s \in DOMAIN history[m] \cap DOMAIN history[n]
        PROVE  history[m][s] = history[n][s]
    <3>1. Chose(votes, s, history[m][s]) /\ Chose(votes, s, history[n][s])
      BY <2>1 DEF DecisionInv
    <3> QED
      BY <2>1, <3>1, ChosenAgree
  <2> QED
    BY <2>2, <2>3 DEF Agreement
<1> QED
  BY <1>1, SafetyIsInvariant, PTL

-------------------------------------------------------------------------------
(* Logs.                                                                   *)

LEMMA VotesOnlyGrow ==
  ASSUME NEW n, OneStep(n)
  PROVE  votes \subseteq votes'
<1>1. ASSUME NEW new, NEW w, NEW out, NEW used, Finish(n, new, w, out, used)
      PROVE  votes \subseteq votes'
  BY <1>1 DEF Finish, Discharged, CutShort
<1>2. IdleStep(n) \/ WorkStep(n) => votes \subseteq votes'
  BY <1>1 DEF IdleStep, WorkStep
<1>3. ASSUME NEW a \in AnchorType, InstallChosenTrim(n, a) PROVE votes \subseteq votes'
  BY <1>1, <1>3 DEF InstallChosenTrim, FinishResult
<1> QED
  BY <1>2, <1>3 DEF OneStep, AdvanceMemoryFloor, BeginRecovery, SetCampaignEnabled, Crash

\* Agreement, as a relation between the votes and two values.
OneChoice == \A s, u, v : Chose(votes, s, u) /\ Chose(votes, s, v) => u = v

LEMMA SoundAgrees ==
  ASSUME SoundInv
  PROVE  OneChoice
  BY ChosenAgree DEF OneChoice, SoundInv, ConsensusInv, SafetyInv

LEMMA LogsGrow ==
  ASSUME ~LaggingHost, SoundInv, SoundInv', OneChoice', Next
  PROVE  \A k \in Node : /\ Len(history'[k]) >= Len(history[k])
                         /\ \A s \in DOMAIN history[k] : history'[k][s] = history[k][s]
<1>1. /\ TypeInv /\ TypeInv' /\ DecisionInv /\ DecisionInv' /\ WindowInv
      /\ \A k \in Node : Within(node[k])
  BY DEF SoundInv, ConsensusInv
<1>2. PICK n \in Node : OneStep(n)
  BY <1>1, StepsAreOfAKind
<1>3. votes \subseteq votes' /\ Moves(n)
  BY <1>1, <1>2, VotesOnlyGrow, StepsMove
<1> SUFFICES ASSUME NEW k \in Node
             PROVE  /\ Len(history'[k]) >= Len(history[k])
                    /\ \A s \in DOMAIN history[k] : history'[k][s] = history[k][s]
  OBVIOUS
<1>4. /\ history[k] \in Seq(Values) /\ Len(history[k]) = node[k].delivered_through
      /\ history'[k] \in Seq(Values) /\ Len(history'[k]) = node'[k].delivered_through
  BY <1>1 DEF TypeInv, HostTyped
<1>5. node'[k].delivered_through >= node[k].delivered_through
  BY <1>1, <1>3, NodeFacts DEF Moves
<1>6. Len(history'[k]) >= Len(history[k])
  BY <1>4, <1>5
<1>7. ASSUME NEW s \in DOMAIN history[k] PROVE history'[k][s] = history[k][s]
  <2>1. s \in DOMAIN history'[k]
    BY <1>4, <1>6
  <2>2. Chose(votes', s, history[k][s]) /\ Chose(votes', s, history'[k][s])
    BY <1>1, <1>3, <2>1, ChoseMore DEF DecisionInv
  <2> QED
    BY <2>2 DEF OneChoice
<1> QED
  BY <1>6, <1>7

\* No host's log ever goes back: what it was handed stays, entry by entry, through crashes in
\* a batch, restarts, late floors and images of another member's state (consensus.odin
\* record_commit; node.odin node_restore, begin_recovery).
THEOREM LogsAlwaysGrow ==
  ASSUME ~LaggingHost, "partial" \notin Calls, "Prepare" \in OnceOnly
  PROVE  Spec => LogsOnlyGrow
<1>1. SoundInv => OneChoice
  BY SoundAgrees
<1>2. SoundInv /\ SoundInv' /\ OneChoice' /\ [Next]_vars
        => [ \A n \in Node : /\ Len(history'[n]) >= Len(history[n])
                             /\ \A s \in DOMAIN history[n] : history'[n][s] = history[n][s] ]_vars
  BY LogsGrow
<1> QED
  BY <1>1, <1>2, SafetyIsInvariant, PTL DEF Spec, LogsOnlyGrow

-------------------------------------------------------------------------------
(* The abstract specification.                                             *)

\* The greatest ballot that node n has promised or voted in for slot s.
Ceiling(D, V, n, s) ==
  Max({D[n].promised} \cup {w.ballot : w \in {u \in V : u.acceptor = n /\ u.slot = s}})

LEMMA CeilingFacts ==
  ASSUME NEW D, NEW V, V \subseteq VoteType, NEW n, D[n].promised \in BallotSet, NEW s,
         NEW b, b = Ceiling(D, V, n, s)
  PROVE  /\ b \in BallotSet /\ D[n].promised <= b
         /\ \A x \in V : x.acceptor = n /\ x.slot = s => x.ballot <= b
         /\ b = D[n].promised \/ \E x \in V : x.acceptor = n /\ x.slot = s /\ x.ballot = b
<1> DEFINE cast == {w.ballot : w \in {u \in V : u.acceptor = n /\ u.slot = s}}
           S == {D[n].promised} \cup cast
<1>1. cast \subseteq BallotSet
  BY DEF VoteType
<1>2. S \subseteq BallotSet /\ S # {}
  BY <1>1
<1>3. PICK top \in Nat : \A x \in BallotSet : x <= top
  BY BallotsAreBounded
<1>4. S \subseteq Nat /\ \A x \in S : x <= top
  BY <1>2, <1>3, BallotsAreBounded
<1>5. Max(S) \in S /\ \A x \in S : x <= Max(S)
  BY <1>2, <1>3, <1>4, MaxIsGreatest
<1>6. b \in S /\ \A x \in S : x <= b
  BY <1>5 DEF Ceiling
<1>7. b \in BallotSet /\ D[n].promised <= b
  BY <1>2, <1>6
<1>8. \A x \in V : x.acceptor = n /\ x.slot = s => x.ballot <= b
  BY <1>6
<1>9. b = D[n].promised \/ \E x \in V : x.acceptor = n /\ x.slot = s /\ x.ballot = b
  BY <1>6
<1> QED
  BY <1>7, <1>8, <1>9

LEMMA CeilingIs ==
  ASSUME NEW D, NEW V, V \subseteq VoteType, NEW n, D[n].promised \in BallotSet, NEW s,
         NEW b \in BallotSet, D[n].promised <= b,
         \A x \in V : x.acceptor = n /\ x.slot = s => x.ballot <= b,
         b = D[n].promised \/ \E x \in V : x.acceptor = n /\ x.slot = s /\ x.ballot = b
  PROVE  Ceiling(D, V, n, s) = b
<1>1. PICK c : c = Ceiling(D, V, n, s)
  OBVIOUS
<1>2. /\ c \in BallotSet /\ D[n].promised <= c
      /\ \A x \in V : x.acceptor = n /\ x.slot = s => x.ballot <= c
      /\ c = D[n].promised \/ \E x \in V : x.acceptor = n /\ x.slot = s /\ x.ballot = c
  BY <1>1, CeilingFacts
<1>3. b \in Nat /\ c \in Nat
  BY <1>2, BallotsAreBounded
<1>4. b <= c /\ c <= b
  BY <1>2
<1> QED
  BY <1>1, <1>3, <1>4

LEMMA CeilingSame ==
  ASSUME NEW D, NEW V, NEW E, NEW W, NEW n, NEW s, E[n].promised = D[n].promised,
         \A x : x.acceptor = n /\ x.slot = s => (x \in W <=> x \in V)
  PROVE  Ceiling(E, W, n, s) = Ceiling(D, V, n, s)
<1>1. {u \in W : u.acceptor = n /\ u.slot = s} = {u \in V : u.acceptor = n /\ u.slot = s}
  OBVIOUS
<1> QED
  BY <1>1 DEF Ceiling

\* A step adds no vote, or votes of one ballot, which is not below the voter's promise or its
\* earlier votes.
Casts(n) ==
  \/ votes' = votes
  \/ \E b \in BallotSet :
       /\ disk'[n].promised = disk[n].promised /\ disk[n].promised <= b
       /\ \A x \in votes' \ votes :
            /\ x.acceptor = n /\ x.ballot = b
            /\ \A y \in votes : y.acceptor = n /\ y.slot = x.slot => y.ballot <= b

LEMMA WorkCasts ==
  ASSUME TypeInv, WindowInv, NEW n \in Node, Within(node[n]), \A x \in votes : VoteKept(x),
         NEW new, NEW w, NEW out, NEW used, Finish(n, new, w, out, used), Works(node[n], new, w)
  PROVE  Casts(n)
<1> DEFINE nd == node[n]
           t == nd.delivered_through
<1>1. PICK kept \in Prefixes(w) : /\ votes' = votes \cup VotesIn(n, kept)
                                  /\ disk'[n] = ledger_replay_fold(disk[n], kept)
  BY FinishVotes DEF TypeInv
<1>2. NodeTyped(nd) /\ WindowOK(nd) /\ DiskOK(nd, disk[n]) /\ t \in Nat
      /\ LedgerTyped(disk[n], t + Window)
  BY NodeFacts DEF WindowInv, HostTyped
<1>3. /\ Places(disk[n], disk'[n], t, kept) /\ WritesTyped(kept, t + Window)
  BY <1>1, <1>2, JournalPlaces
<1>4. \A s \in DOMAIN kept.votes : s \in DOMAIN w.votes /\ kept.votes[s] = w.votes[s]
  BY PrefixIsPart DEF Works, Extends
<1>5. CASE DOMAIN kept.votes = {}
  BY <1>1, <1>5 DEF Casts, VotesIn
<1>6. CASE DOMAIN kept.votes # {}
  <2>1. PICK s0 \in DOMAIN kept.votes : TRUE
    BY <1>6
  <2>2. PICK b : b = kept.votes[s0].ballot
    OBVIOUS
  <2>3. b \in BallotSet /\ disk'[n].promised = disk[n].promised
    BY <1>3, <2>2 DEF WritesTyped, Places
  <2>4. \A s \in DOMAIN kept.votes : kept.votes[s].ballot = b
    BY <1>4, <2>1, <2>2 DEF Works, Bids, OneBallot
  <2>5. Rises(nd.ledger, w)
    BY <1>2, WorksRise
  <2>6. disk[n].promised <= b
    BY <1>2, <1>4, <2>1, <2>2, <2>5 DEF Rises, DiskOK
  <2>7. ASSUME NEW x \in votes' \ votes
        PROVE  /\ x.acceptor = n /\ x.ballot = b
               /\ \A y \in votes : y.acceptor = n /\ y.slot = x.slot => y.ballot <= b
    <3>1. PICK s \in DOMAIN kept.votes :
             x = VoteOf(n, s, kept.votes[s].ballot, kept.votes[s].value)
      BY <1>1, VotesInForm
    <3>2. x.acceptor = n /\ x.ballot = b /\ x.slot = s
      BY <2>4, <3>1 DEF VoteOf
    <3>3. /\ s \in WrittenSlots(kept) /\ s \in Slot /\ s > t /\ ~ ledger_is_chosen(disk[n], s)
      BY <1>2, <1>3 DEF WrittenSlots, WritesTyped, Places
    <3>4. ASSUME NEW y \in votes, y.acceptor = n, y.slot = s PROVE y.ballot <= b
      <4>1. /\ ~ (s <= t) /\ y.ballot \in BallotSet
        BY <1>2, <3>3, Constants DEF TypeInv, VoteType
      <4>2. /\ Cell(disk[n], s).slot = s /\ Cell(disk[n], s).state # "Chosen"
            /\ Cell(disk[n], s).vote_ballot >= y.ballot
        BY <3>3, <3>4, <4>1 DEF VoteKept, Kept, Accepted, ledger_is_chosen
      <4>3. Cell(nd.ledger, s) = Cell(disk[n], s)
        BY <1>2, <3>3, <4>2 DEF DiskOK
      <4>4. Cell(disk[n], s).vote_ballot <= b
        BY <1>4, <2>4, <2>5, <4>2, <4>3 DEF Rises
      <4>5. Cell(disk[n], s).vote_ballot \in BallotSet
        BY <1>2, <3>3, SlotsHaveCells DEF LedgerTyped, LedgerType, CellType, Cell
      <4> QED
        BY <2>3, <4>1, <4>2, <4>4, <4>5, BallotOrder
    <3> QED
      BY <3>2, <3>4
  <2> QED
    BY <2>3, <2>6, <2>7 DEF Casts
<1> QED
  BY <1>5, <1>6

LEMMA StepCasts ==
  ASSUME TypeInv, WindowInv, NEW n \in Node, Within(node[n]), \A x \in votes : VoteKept(x),
         OneStep(n)
  PROVE  Casts(n)
<1>1. n \in DOMAIN disk
  BY DEF TypeInv
<1>2. ASSUME NEW new, NEW w, NEW out, NEW used, Finish(n, new, w, out, used),
             NEW top, WritesTyped(w, top), DOMAIN w.votes = {}
      PROVE  Casts(n)
  BY <1>1, <1>2, NothingVoted DEF Casts
<1>3. CASE IdleStep(n)
  <2>1. PICK new, w, out, used : Finish(n, new, w, out, used) /\ Idles(node[n], new, w)
    BY <1>3 DEF IdleStep
  <2>2. WritesTyped(w, node[n].delivered_through + Window) /\ DOMAIN w.votes = {}
    BY <2>1 DEF Idles, Extends, WrittenSlots
  <2> QED
    BY <1>2, <2>1, <2>2
<1>4. CASE WorkStep(n)
  BY <1>4, WorkCasts DEF WorkStep
<1>5. CASE \E a \in AnchorType : InstallChosenTrim(n, a)
  <2>1. PICK a \in AnchorType : InstallChosenTrim(n, a)
    BY <1>5
  <2>2. \E new : Finish(n, new, WriteTrim(a), {}, {})
    BY <2>1, TrimKeeps
  <2>3. WritesTyped(WriteTrim(a), 0) /\ DOMAIN WriteTrim(a).votes = {}
    BY TrimBatch
  <2> QED
    BY <1>2, <2>2, <2>3
<1>6. CASE \/ \E s \in Slot : AdvanceMemoryFloor(n, s)
           \/ \E donor \in Node : BeginRecovery(n, donor)
           \/ \E enabled \in BOOLEAN : SetCampaignEnabled(n, enabled)
           \/ Crash(n)
  <2>1. votes' = votes
    BY <1>6, Zenon DEF AdvanceMemoryFloor, BeginRecovery, SetCampaignEnabled, Crash
  <2> QED
    BY <2>1 DEF Casts
<1> QED
  BY <1>3, <1>4, <1>5, <1>6 DEF OneStep

\* The abstract promises, node by node and slot by slot.
Ceilings(D, V) == [k \in Node |-> [s \in Slot |-> Ceiling(D, V, k, s)]]

LEMMA CeilingsAreMapped ==
  /\ [n \in Node |-> [s \in Slot |-> AcceptorPromise(n, s)]] = Ceilings(disk, votes)
  /\ [n \in Node |-> [s \in Slot |-> AcceptorPromise(n, s)]]' = Ceilings(disk', votes')
BY DEF Ceilings, Ceiling, AcceptorPromise

LEMMA IsAPromise ==
  ASSUME NEW n \in Node, NEW S \in SUBSET Slot, NEW b \in BallotSet, votes' = votes,
         \A s \in S : b >= Ceilings(disk, votes)[n][s],
         Ceilings(disk', votes') =
           [Ceilings(disk, votes) EXCEPT ![n] = [s \in Slot |-> IF s \in S THEN b ELSE @[s]]]
  PROVE  Abstract!Next
<1>1. Abstract!Promise(n, S, b)
  BY CeilingsAreMapped DEF Abstract!Promise
<1> QED
  BY <1>1 DEF Abstract!Next

LEMMA IsAVote ==
  ASSUME NEW n \in Node, NEW S \in SUBSET Slot, NEW b \in BallotSet, NEW val \in [S -> Values],
         votes' = votes \cup {VoteOf(n, s, b, val[s]) : s \in S},
         \A s \in S : b >= Ceilings(disk, votes)[n][s] /\ Abstract!MayPropose(s, b, val[s]),
         Ceilings(disk', votes') =
           [Ceilings(disk, votes) EXCEPT ![n] = [s \in Slot |-> IF s \in S THEN b ELSE @[s]]]
  PROVE  Abstract!Next
<1>1. Abstract!CastVotes(n, S, b, val)
  BY CeilingsAreMapped DEF Abstract!CastVotes, Abstract!MayVote, Abstract!VoteOf, VoteOf
<1> QED
  BY <1>1 DEF Abstract!Next

LEMMA CeilingsAbove ==
  ASSUME TypeInv, NEW k \in Node, NEW s \in Slot
  PROVE  /\ Ceilings(disk, votes)[k][s] = Ceiling(disk, votes, k, s)
         /\ disk[k].promised \in BallotSet /\ votes \subseteq VoteType
         /\ Ceiling(disk, votes, k, s) \in BallotSet
         /\ disk[k].promised <= Ceiling(disk, votes, k, s)
<1>1. disk[k].promised \in BallotSet /\ votes \subseteq VoteType
  BY DEF TypeInv, HostTyped, LedgerTyped, LedgerType
<1>2. PICK b : b = Ceiling(disk, votes, k, s)
  OBVIOUS
<1>3. b \in BallotSet /\ disk[k].promised <= b
  BY <1>1, <1>2, CeilingFacts
<1> QED
  BY <1>1, <1>2, <1>3 DEF Ceilings

LEMMA NewVoteIsProposed ==
  ASSUME TypeInv, AllSafe', OneValue(net', votes'), votes \subseteq votes',
         \A k \in Node : disk'[k].promised = disk[k].promised,
         NEW b \in BallotSet, \A y \in votes' \ votes : y.ballot = b,
         NEW s \in Slot, NEW v, NEW x \in votes', x.slot = s, x.ballot = b, x.value = v
  PROVE  Abstract!MayPropose(s, b, v)
<1>1. Said(net', votes', s, b, v)
  BY DEF Said
<1>2. ASSUME NEW w \in votes, w.slot = s, w.ballot = b PROVE w.value = v
  <2>1. Said(net', votes', s, b, w.value)
    BY <1>2 DEF Said
  <2> QED
    BY <1>1, <2>1 DEF OneValue
<1>3. Allowed(disk', votes', s, b, v)
  BY <1>1 DEF AllSafe, Safe
<1>4. PICK Q \in Quorums :
        /\ \A p \in Q : disk'[p].promised >= b
        /\ \/ \A y \in votes' : ~ (y.acceptor \in Q /\ y.slot = s /\ y.ballot < b)
           \/ \E w \in votes' :
                /\ w.acceptor \in Q /\ w.slot = s /\ w.ballot < b /\ w.value = v
                /\ \A y \in votes' : y.acceptor \in Q /\ y.slot = s /\ y.ballot < b
                                       => y.ballot <= w.ballot
  BY <1>3 DEF Allowed
<1>5. Q \in Abstract!ReadQuorums /\ \A p \in Q : p \in Node
  BY DEF Quorums, Abstract!ReadQuorums, Abstract!Cardinality, Cardinality
<1>6. ASSUME NEW p \in Q PROVE Ceilings(disk, votes)[p][s] >= b
  <2>1. PICK c, d : c = Ceiling(disk, votes, p, s) /\ d = disk[p].promised
    OBVIOUS
  <2>2. Ceilings(disk, votes)[p][s] = c /\ c \in Nat /\ d \in Nat /\ d <= c
    BY <1>5, <2>1, CeilingsAbove, BallotsAreBounded
  <2>3. d >= b /\ b \in Nat
    BY <1>4, <1>5, <2>1, BallotsAreBounded
  <2> QED
    BY <2>2, <2>3
<1>7. \A y \in votes' : y.ballot < b => y \in votes
  BY BallotsAreBounded
<1>8. Abstract!Recoverable(Q, s, b, v)
  <2>1. CASE \A y \in votes' : ~ (y.acceptor \in Q /\ y.slot = s /\ y.ballot < b)
    BY <2>1 DEF Abstract!Recoverable
  <2>2. CASE \E w \in votes' :
                /\ w.acceptor \in Q /\ w.slot = s /\ w.ballot < b /\ w.value = v
                /\ \A y \in votes' : y.acceptor \in Q /\ y.slot = s /\ y.ballot < b
                                       => y.ballot <= w.ballot
    BY <1>7, <2>2 DEF Abstract!Recoverable
  <2> QED
    BY <1>4, <2>1, <2>2
<1>9. \A p \in Q : [k \in Node |-> [t \in Slot |-> AcceptorPromise(k, t)]][p][s] >= b
  BY <1>6, CeilingsAreMapped
<1> QED
  BY <1>2, <1>5, <1>8, <1>9 DEF Abstract!MayPropose

LEMMA PromiseFollows ==
  ASSUME TypeInv, TypeInv', NEW n \in Node,
         \A k \in Node \ {n} : disk'[k] = disk[k],
         disk'[n].promised >= disk[n].promised, votes' = votes
  PROVE  Abstract!Next
<1>1. PICK b : b = disk'[n].promised
  OBVIOUS
<1>2. /\ b \in BallotSet /\ b \in Nat /\ disk[n].promised \in Nat /\ b >= disk[n].promised
      /\ votes \subseteq VoteType
  BY <1>1, BallotsAreBounded DEF TypeInv, HostTyped, LedgerTyped, LedgerType
<1> DEFINE S == {s \in Slot : Ceiling(disk, votes, n, s) <= b}
<1>3. \A s \in S : b >= Ceilings(disk, votes)[n][s]
  <2> SUFFICES ASSUME NEW s \in S PROVE b >= Ceilings(disk, votes)[n][s]
    OBVIOUS
  <2>1. PICK c : c = Ceiling(disk, votes, n, s)
    OBVIOUS
  <2>2. c \in Nat /\ c = Ceilings(disk, votes)[n][s] /\ c <= b
    BY <2>1, CeilingsAbove, BallotsAreBounded
  <2> QED
    BY <1>2, <2>2
<1>4. ASSUME NEW k \in Node, NEW s \in Slot
      PROVE  Ceiling(disk', votes', k, s) =
               IF k = n /\ s \in S THEN b ELSE Ceiling(disk, votes, k, s)
  <2>1. CASE k # n
    BY <2>1, CeilingSame
  <2>2. PICK c : c = Ceiling(disk, votes, n, s)
    OBVIOUS
  <2>3. /\ c \in BallotSet /\ c \in Nat /\ disk[n].promised <= c
        /\ \A x \in votes : x.acceptor = n /\ x.slot = s => x.ballot <= c
        /\ c = disk[n].promised \/ \E x \in votes : x.acceptor = n /\ x.slot = s /\ x.ballot = c
    <3>1. c \in BallotSet /\ disk[n].promised <= c /\ disk[n].promised \in BallotSet
      BY <2>2, CeilingsAbove
    <3>2. /\ \A x \in votes : x.acceptor = n /\ x.slot = s => x.ballot <= c
          /\ c = disk[n].promised \/ \E x \in votes : x.acceptor = n /\ x.slot = s /\ x.ballot = c
      BY <1>2, <2>2, <3>1, CeilingFacts
    <3> QED
      BY <3>1, <3>2, BallotsAreBounded
  <2>4. CASE k = n /\ s \in S
    <3>1. c <= b
      BY <2>2, <2>4
    <3>2. \A x \in votes' : x.acceptor = n /\ x.slot = s => x.ballot <= b
      <4> SUFFICES ASSUME NEW x \in votes, x.acceptor = n, x.slot = s PROVE x.ballot <= b
        OBVIOUS
      <4>1. x.ballot \in Nat /\ x.ballot <= c
        BY <1>2, <2>3, BallotsAreBounded DEF VoteType
      <4> QED
        BY <1>2, <2>3, <3>1, <4>1
    <3>3. PICK D, V : D = disk' /\ V = votes'
      OBVIOUS
    <3>4. /\ V \subseteq VoteType /\ D[n].promised = b /\ b <= b
          /\ \A x \in V : x.acceptor = n /\ x.slot = s => x.ballot <= b
      BY <1>1, <1>2, <3>2, <3>3
    <3>5. Ceiling(D, V, n, s) = b
      BY <1>2, <3>4, CeilingIs
    <3> QED
      BY <2>4, <3>3, <3>5
  <2>5. CASE k = n /\ s \notin S
    <3>1. ~ (c <= b)
      BY <2>2, <2>5
    <3>2. disk'[n].promised <= c /\ c # disk[n].promised
      BY <1>1, <1>2, <2>3, <3>1
    <3>3. Ceiling(disk', votes', n, s) = c
      BY <1>1, <1>2, <2>3, <3>2, CeilingIs
    <3> QED
      BY <2>2, <2>5, <3>3
  <2> QED
    BY <2>1, <2>4, <2>5
<1>5. S \in SUBSET Slot
  OBVIOUS
<1> HIDE DEF S
<1>6. Ceilings(disk', votes') =
        [Ceilings(disk, votes) EXCEPT ![n] = [s \in Slot |-> IF s \in S THEN b ELSE @[s]]]
  BY <1>4, <1>5 DEF Ceilings
<1> QED
  BY <1>2, <1>3, <1>5, <1>6, IsAPromise

LEMMA VotesFollow ==
  ASSUME TypeInv, TypeInv', AllSafe', OneValue(net', votes'), votes \subseteq votes',
         NEW n \in Node, \A k \in Node \ {n} : disk'[k] = disk[k],
         NEW b \in BallotSet,
         disk'[n].promised = disk[n].promised, disk[n].promised <= b,
         \A x \in votes' \ votes :
           /\ x.acceptor = n /\ x.ballot = b
           /\ \A y \in votes : y.acceptor = n /\ y.slot = x.slot => y.ballot <= b
  PROVE  Abstract!Next
<1> DEFINE new == votes' \ votes
           S == {x.slot : x \in new}
           val == [s \in S |-> (CHOOSE x \in new : x.slot = s).value]
<1>1. votes' \subseteq VoteType /\ votes \subseteq VoteType /\ new \subseteq VoteType
  BY DEF TypeInv
<1>2. S \in SUBSET Slot /\ b \in Nat
  BY <1>1, BallotsAreBounded DEF VoteType
<1>3. \A k \in Node : disk'[k].promised = disk[k].promised
  OBVIOUS
<1>4. ASSUME NEW x \in new
      PROVE  /\ x.slot \in S /\ x.acceptor = n /\ x.ballot = b
             /\ x.value = val[x.slot] /\ x.value \in Values
             /\ x = VoteOf(n, x.slot, b, val[x.slot])
  <2>1. PICK y : y \in new /\ y.slot = x.slot /\ val[x.slot] = y.value
    BY <1>4
  <2>2. Said(net', votes', x.slot, b, x.value) /\ Said(net', votes', x.slot, b, y.value)
    BY <1>4, <2>1 DEF Said
  <2>3. x.value = y.value
    BY <2>2 DEF OneValue
  <2>4. x.acceptor = n /\ x.ballot = b /\ x \in VoteType
    BY <1>1, <1>4
  <2>5. x = VoteOf(n, x.slot, b, x.value) /\ x.value \in Values
    BY <2>4 DEF VoteType, VoteOf
  <2> QED
    BY <2>1, <2>3, <2>4, <2>5
<1>5. \A s \in S : \E x \in new : x.slot = s /\ x.value = val[s]
  <2> SUFFICES ASSUME NEW s \in S PROVE \E x \in new : x.slot = s /\ x.value = val[s]
    OBVIOUS
  <2>1. PICK x \in new : x.slot = s
    OBVIOUS
  <2>2. x.value = val[s]
    BY <1>4, <2>1
  <2> QED
    BY <2>1, <2>2
<1> HIDE DEF val, S
<1>6. val \in [S -> Values]
  BY <1>4, <1>5 DEF val
<1>7. votes' = votes \cup {VoteOf(n, s, b, val[s]) : s \in S}
  <2>1. \A x \in votes' : x \in votes \/ x \in new
    OBVIOUS
  <2>2. \A x \in new : \E s \in S : x = VoteOf(n, s, b, val[s])
    BY <1>4
  <2>3. \A s \in S : VoteOf(n, s, b, val[s]) \in votes'
    BY <1>4, <1>5
  <2> HIDE DEF new
  <2> QED
    BY <2>1, <2>2, <2>3
<1>8. ASSUME NEW s \in S
      PROVE  b >= Ceilings(disk, votes)[n][s] /\ Abstract!MayPropose(s, b, val[s])
  <2>1. PICK x \in new : x.slot = s /\ x.value = val[s]
    BY <1>5
  <2>2. Abstract!MayPropose(s, b, val[s])
    BY <1>2, <1>3, <1>4, <2>1, NewVoteIsProposed
  <2>3. PICK c : c = Ceiling(disk, votes, n, s)
    OBVIOUS
  <2>4. /\ c = Ceilings(disk, votes)[n][s] /\ c \in Nat /\ disk[n].promised \in BallotSet
    BY <1>2, <2>3, CeilingsAbove, BallotsAreBounded
  <2>5. c = disk[n].promised \/ \E y \in votes : y.acceptor = n /\ y.slot = s /\ y.ballot = c
    <3>1. PICK D, V : D = disk /\ V = votes
      OBVIOUS
    <3>2. V \subseteq VoteType /\ D[n].promised \in BallotSet /\ c = Ceiling(D, V, n, s)
      BY <1>1, <2>3, <2>4, <3>1
    <3>3. c = D[n].promised \/ \E y \in V : y.acceptor = n /\ y.slot = s /\ y.ballot = c
      BY <3>2, CeilingFacts
    <3> QED
      BY <3>1, <3>3
  <2>6. c <= b
    BY <2>1, <2>5
  <2> QED
    BY <1>2, <2>2, <2>4, <2>6
<1>9. ASSUME NEW k \in Node, NEW s \in Slot
      PROVE  Ceiling(disk', votes', k, s) =
               IF k = n /\ s \in S THEN b ELSE Ceiling(disk, votes, k, s)
  <2>1. PICK D, V, E, W : D = disk /\ V = votes /\ E = disk' /\ W = votes'
    OBVIOUS
  <2>2. CASE ~ (k = n /\ s \in S)
    <3>1. \A x : x.acceptor = k /\ x.slot = s => (x \in W <=> x \in V)
      BY <1>4, <2>1, <2>2
    <3>2. E[k].promised = D[k].promised
      BY <1>3, <2>1
    <3>3. Ceiling(E, W, k, s) = Ceiling(D, V, k, s)
      BY <3>1, <3>2, CeilingSame
    <3> QED
      BY <2>1, <2>2, <3>3
  <2>3. CASE k = n /\ s \in S
    <3>1. PICK x \in new : x.slot = s
      BY <1>5, <2>3
    <3>2. \A y \in W : y.acceptor = n /\ y.slot = s => y.ballot <= b
      <4>1. \A y \in votes : y.acceptor = n /\ y.slot = s => y.ballot <= b
        BY <3>1
      <4>2. \A y \in new : y.ballot <= b
        BY <1>2
      <4> QED
        BY <2>1, <4>1, <4>2
    <3>3. x \in W /\ x.acceptor = n /\ x.slot = s /\ x.ballot = b
      BY <1>4, <2>1, <3>1
    <3>4. W \subseteq VoteType /\ E[n].promised \in BallotSet /\ E[n].promised <= b
      BY <1>1, <1>3, <2>1 DEF TypeInv, HostTyped, LedgerTyped, LedgerType
    <3>5. Ceiling(E, W, n, s) = b
      BY <3>2, <3>3, <3>4, CeilingIs
    <3> QED
      BY <2>1, <2>3, <3>5
  <2> QED
    BY <2>2, <2>3
<1>10. Ceilings(disk', votes') =
         [Ceilings(disk, votes) EXCEPT ![n] = [s \in Slot |-> IF s \in S THEN b ELSE @[s]]]
  <2> HIDE DEF new
  <2> QED
    BY <1>2, <1>9 DEF Ceilings
<1> HIDE DEF new
<1> QED
  BY <1>2, <1>6, <1>7, <1>8, <1>10, IsAVote

LEMMA StepFollows ==
  ASSUME ~LaggingHost, SoundInv, SoundInv', Next
  PROVE  Abstract!Next
<1>1. /\ TypeInv /\ TypeInv' /\ WindowInv /\ AllSafe' /\ OneValue(net', votes')
      /\ \A x \in votes : VoteKept(x)
      /\ \A k \in Node : Within(node[k])
  BY DEF SoundInv, SafetyInv, ConsensusInv, TermInv
<1>2. PICK n \in Node : OneStep(n)
  BY <1>1, StepsAreOfAKind
<1>3. votes \subseteq votes' /\ Moves(n) /\ Casts(n)
  BY <1>1, <1>2, VotesOnlyGrow, StepsMove, StepCasts
<1>4. (\A k \in Node \ {n} : disk'[k] = disk[k]) /\ disk'[n].promised >= disk[n].promised
  BY <1>3 DEF Moves, Grows
<1>5. CASE votes' = votes
  BY <1>1, <1>4, <1>5, PromiseFollows
<1>6. CASE \E b \in BallotSet :
             /\ disk'[n].promised = disk[n].promised /\ disk[n].promised <= b
             /\ \A x \in votes' \ votes :
                  /\ x.acceptor = n /\ x.ballot = b
                  /\ \A y \in votes : y.acceptor = n /\ y.slot = x.slot => y.ballot <= b
  BY <1>1, <1>3, <1>4, <1>6, VotesFollow
<1> QED
  BY <1>3, <1>5, <1>6 DEF Casts

LEMMA StartFollows ==
  ASSUME Init
  PROVE  Abstract!Init
<1>1. votes = {} /\ \A k \in Node : disk[k].promised = BALLOT_ZERO
  BY DEF Init, EmptyLedger, ledger_open
<1>2. ASSUME NEW k \in Node, NEW s \in Slot PROVE AcceptorPromise(k, s) = 0
  <2>1. PICK D, V, c : D = disk /\ V = votes /\ c = Ceiling(D, V, k, s)
    OBVIOUS
  <2>2. D[k].promised = 0 /\ D[k].promised \in BallotSet /\ V \subseteq VoteType /\ V = {}
    BY <1>1, <2>1, BallotsAreBounded DEF BALLOT_ZERO
  <2>3. c = D[k].promised \/ \E x \in V : x.acceptor = k /\ x.slot = s /\ x.ballot = c
    BY <2>1, <2>2, CeilingFacts
  <2>4. c = 0
    BY <2>2, <2>3
  <2> QED
    BY <2>1, <2>4 DEF Ceiling, AcceptorPromise
<1> QED
  BY <1>1, <1>2 DEF Abstract!Init

\* The cluster implements Synod: whatever a step of a node does, and wherever a crash cuts
\* its batch, what reaches the disk is one promise of one voter, or votes of one ballot that
\* its promises allow, for values that a read quorum's promises and votes allow (storage.odin
\* ledger_replay_fold, election.odin on_prepare, resolve_chunk; consensus.odin send_accept,
\* on_accept).
THEOREM ClusterImplementsSynod ==
  ASSUME ~LaggingHost, "partial" \notin Calls, "Prepare" \in OnceOnly
  PROVE  Spec => ImplementsSynod
<1>1. Init => Abstract!Init
  BY StartFollows
<1>2. SoundInv /\ SoundInv' /\ [Next]_vars => [Abstract!Next]_(Abstract!vars)
  <2>1. ASSUME SoundInv, SoundInv', Next PROVE Abstract!Next
    BY <2>1, StepFollows
  <2>2. ASSUME UNCHANGED vars PROVE UNCHANGED Abstract!vars
    BY <2>2 DEF vars, Abstract!vars, AcceptorPromise
  <2> QED
    BY <2>1, <2>2
<1> QED
  BY <1>1, <1>2, SafetyIsInvariant, PTL DEF Spec, ImplementsSynod, Abstract!Spec
===============================================================================
