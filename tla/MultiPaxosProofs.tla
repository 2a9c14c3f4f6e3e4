--------------------------- MODULE MultiPaxosProofs ---------------------------
(***************************************************************************)
(* For every cluster, window and chunk, and whatever the network and the   *)
(* crashes do: every node stays well typed, no candidate or leader goes on *)
(* above its ballot, a node's memory and its journal stay in step, its     *)
(* live window and its cells stay in bijection, and what it told others it *)
(* finds again after a restart.                                            *)
(*                                                                         *)
(* A step is cut into a transition and its discharge.  Of a transition the *)
(* lemmas say whether it leaves the cells alone (Idles) or writes some     *)
(* (Works), once for each handler; of a discharge, whole or cut short by a *)
(* crash, what it makes of that.  The invariants then have two kinds of    *)
(* transition and five host calls to be kept by, and no handler.           *)
(*                                                                         *)
(* The host is one that retains what it consumes (~LaggingHost): after a   *)
(* restart its log and the node's frontier are the same.  For the window   *)
(* it also consumes all it was handed ("partial" \notin Calls).            *)
(***************************************************************************)
EXTENDS MultiPaxos, TLAPS, FiniteSetTheorems, SequenceTheorems, WellFoundedInduction

-------------------------------------------------------------------------------
(* Ballots and the window: what their packing guarantees, for every round, *)
(* priority, node, slot and window size.                                   *)

\* Numbers in base N are ordered by their high part first.
LEMMA HighPartDecides ==
  ASSUME NEW N \in Nat, NEW p \in Nat, NEW q \in Nat,
         NEW m \in 0 .. (N - 1), NEW n \in 0 .. (N - 1), p < q
  PROVE  p * N + m < q * N + n
<1>1. PICK k \in Nat : q = p + 1 + k
  <2>1. q - p - 1 \in Nat /\ q = p + 1 + (q - p - 1)
    OBVIOUS
  <2> QED
    BY <2>1
<1>2. q * N = p * N + N + k * N
  BY <1>1
<1>3. k * N >= 0 /\ k * N \in Int /\ p * N \in Int
  BY <1>1
<1> QED
  BY <1>2, <1>3

\* Equal numbers in base N have equal parts.
LEMMA PartsAreEqual ==
  ASSUME NEW N \in Nat, NEW p \in Nat, NEW q \in Nat,
         NEW m \in 0 .. (N - 1), NEW n \in 0 .. (N - 1),
         p * N + m = q * N + n
  PROVE  p = q /\ m = n
<1>1. p * N + m \in Int /\ q * N + n \in Int /\ p * N \in Int
  OBVIOUS
<1>2. ~ (p < q)
  BY <1>1, HighPartDecides
<1>3. ~ (q < p)
  BY <1>1, HighPartDecides
<1>4. p = q
  BY <1>2, <1>3
<1> QED
  BY <1>1, <1>4

\* A number in base N gives back its parts.
LEMMA PartsOfNumber ==
  ASSUME NEW N \in Nat, NEW x \in Nat, NEW m \in 0 .. (N - 1)
  PROVE  (x * N + m) \div N = x /\ (x * N + m) % N = m
<1>1. PICK y \in Nat : y = x * N + m
  <2>1. x * N \in Nat /\ m \in Nat
    OBVIOUS
  <2>2. x * N + m \in Nat
    BY <2>1
  <2>3. QED
    BY <2>2
<1>2. N > 0 /\ N \in Int /\ y \in Int
  OBVIOUS
<1>3. PICK q \in Int, r \in 0 .. (N - 1) : q = y \div N /\ r = y % N /\ y = N * q + r
  <2>1. y \div N \in Int /\ y % N \in 0 .. (N - 1) /\ y = N * (y \div N) + (y % N)
    BY <1>2
  <2>2. QED
    BY <2>1
<1>4. q \in Nat
  <2>1. SUFFICES ASSUME q < 0 PROVE FALSE
    OBVIOUS
  <2>2. N * q <= N * (-1)
    BY <1>2, <2>1
  <2>3. N * q + r < 0
    BY <1>2, <2>2
  <2>4. QED
    BY <1>3, <2>3
<1>5. q * N + r = x * N + m
  BY <1>1, <1>2, <1>3
<1>6. q = x /\ r = m
  BY <1>4, <1>5, PartsAreEqual
<1>7. QED
  BY <1>1, <1>3, <1>6

LEMMA Spans ==
  /\ NodeSpan \in Nat /\ PrioritySpan \in Nat /\ RoundUnit = NodeSpan * PrioritySpan
  /\ 0 \in Priorities /\ 1 \in NodeId
  /\ \A n \in NodeId : n \in Nat /\ n \in 0 .. (NodeSpan - 1)
  /\ \A p \in Priorities : p \in Nat /\ p \in 0 .. (PrioritySpan - 1) /\ p < PrioritySpan
<1>1. /\ NodeSpan \in Nat /\ NodeSpan > 1
      /\ PrioritySpan \in Nat /\ PrioritySpan > 0
  BY SMT DEF NodeSpan, PrioritySpan
<1>2. QED
  BY <1>1 DEF RoundUnit, NodeId, Priorities

\* A ballot is a number in base NodeSpan over one in base PrioritySpan.
LEMMA BallotInBases ==
  ASSUME NEW r \in Nat, NEW p \in Priorities, NEW m \in NodeId
  PROVE  /\ ballot_make(r, p, m) = (r * PrioritySpan + p) * NodeSpan + m
         /\ r * PrioritySpan + p \in Nat
         /\ NodeSpan \in Nat /\ PrioritySpan \in Nat
         /\ m \in 0 .. (NodeSpan - 1) /\ p \in 0 .. (PrioritySpan - 1)
<1>1. PICK N \in Nat, P \in Nat : N = NodeSpan /\ P = PrioritySpan
  BY Spans
<1>2. m \in Nat /\ p \in Nat
  BY Spans
<1>3. r * P \in Nat /\ r * (N * P) = (r * P) * N
  OBVIOUS
<1>4. r * P + p \in Nat /\ r * (N * P) + p * N + m = (r * P + p) * N + m
  BY <1>2, <1>3
<1>5. QED
  BY <1>1, <1>4, Spans DEF ballot_make

\* A ballot of a later round is above every ballot of an earlier one, whoever
\* makes them: start_campaign's greatest + 1 outbids all it has seen.
THEOREM LaterRoundsAreGreater ==
  ASSUME NEW r \in Nat, NEW p \in Priorities, NEW m \in NodeId,
         NEW s \in Nat, NEW q \in Priorities, NEW n \in NodeId,
         r < s
  PROVE  ballot_make(r, p, m) < ballot_make(s, q, n)
<1>1. r * PrioritySpan + p < s * PrioritySpan + q
  BY BallotInBases, HighPartDecides
<1>2. PICK x \in Nat, y \in Nat :
        /\ x < y
        /\ ballot_make(r, p, m) = x * NodeSpan + m
        /\ ballot_make(s, q, n) = y * NodeSpan + n
  BY <1>1, BallotInBases
<1>3. NodeSpan \in Nat /\ m \in 0 .. (NodeSpan - 1) /\ n \in 0 .. (NodeSpan - 1)
  BY BallotInBases
<1>4. x * NodeSpan + m < y * NodeSpan + n
  BY <1>2, <1>3, HighPartDecides
<1> QED
  BY <1>2, <1>4

\* B1 of the Synod: proposers never share a ballot, and one proposer never
\* makes one ballot in two rounds (D1 of POD 0008, ballot_make).
THEOREM BallotsAreDistinct ==
  ASSUME NEW r \in Nat, NEW p \in Priorities, NEW m \in NodeId,
         NEW s \in Nat, NEW q \in Priorities, NEW n \in NodeId,
         ballot_make(r, p, m) = ballot_make(s, q, n)
  PROVE  r = s /\ p = q /\ m = n
<1>1. PICK x \in Nat, y \in Nat :
        /\ x = r * PrioritySpan + p /\ y = s * PrioritySpan + q
        /\ ballot_make(r, p, m) = x * NodeSpan + m
        /\ ballot_make(s, q, n) = y * NodeSpan + n
  BY BallotInBases
<1>2. /\ NodeSpan \in Nat /\ m \in 0 .. (NodeSpan - 1) /\ n \in 0 .. (NodeSpan - 1)
      /\ PrioritySpan \in Nat
      /\ p \in 0 .. (PrioritySpan - 1) /\ q \in 0 .. (PrioritySpan - 1)
  BY BallotInBases
<1>3. x * NodeSpan + m = y * NodeSpan + n
  BY <1>1
<1>4. x = y /\ m = n
  BY <1>2, <1>3, PartsAreEqual
<1>5. r * PrioritySpan + p = s * PrioritySpan + q
  BY <1>1, <1>4
<1>6. r = s /\ p = q
  BY <1>2, <1>5, PartsAreEqual
<1> QED
  BY <1>4, <1>6

\* The parts can be read back from a ballot (ballot_round, ballot_priority and
\* ballot_node undo ballot_make), which is what lets a node outbid a ballot it
\* only knows as a number.
THEOREM PartsAreRecovered ==
  ASSUME NEW r \in Nat, NEW p \in Priorities, NEW n \in NodeId
  PROVE  /\ ballot_round(ballot_make(r, p, n)) = r
         /\ ballot_priority(ballot_make(r, p, n)) = p
         /\ ballot_node(ballot_make(r, p, n)) = n
<1>0. PICK b : b = ballot_make(r, p, n)
  OBVIOUS
<1>1. PICK N \in Nat, P \in Nat : N = NodeSpan /\ P = PrioritySpan
  BY Spans
<1>2. /\ b = (r * P + p) * N + n /\ r * P + p \in Nat
      /\ n \in 0 .. (N - 1) /\ p \in 0 .. (P - 1)
  BY <1>0, <1>1, BallotInBases
<1>3. b \div N = r * P + p /\ b % N = n
  BY <1>2, PartsOfNumber
<1>4. (r * P + p) % P = p
  BY <1>2, PartsOfNumber
<1>5. b \div (N * P) = r
  <2>1. PICK z : z = p * N + n
    OBVIOUS
  <2>2. p \in Nat /\ n \in Nat /\ p < P /\ 0 \in 0 .. (N - 1)
    BY <1>2
  <2>3. z < P * N + 0
    BY <1>2, <2>1, <2>2, HighPartDecides
  <2>4. p * N \in Nat /\ N * P \in Nat /\ P * N = N * P
    BY <2>2
  <2>5. z \in 0 .. (N * P - 1)
    BY <2>1, <2>2, <2>3, <2>4
  <2>6. (r * P + p) * N = r * (N * P) + p * N
    BY <2>2
  <2>7. r * (N * P) \in Nat
    BY <2>4
  <2>8. b = r * (N * P) + z
    BY <1>2, <2>1, <2>2, <2>4, <2>6, <2>7
  <2>9. QED
    BY <2>4, <2>5, <2>8, PartsOfNumber
<1> QED
  BY <1>0, <1>1, <1>3, <1>4, <1>5, Spans DEF ballot_round, ballot_priority, ballot_node

\* Two slots less than a window apart never share a cell.
LEMMA CellsAreDistinct ==
  ASSUME NEW s \in Nat, NEW t \in Nat, 0 < s, s < t, t - s < Window
  PROVE  cell_of(s) # cell_of(t)
<1> DEFINE W == Window
<1>1. W \in Nat /\ W > 0
  BY BallotAssumption
<1>2. PICK a \in Int, c \in 0 .. (W - 1) : s - 1 = W * a + c /\ c = cell_of(s)
  <2>1. s - 1 = (W * ((s - 1) \div W)) + ((s - 1) % W)
    BY <1>1
  <2>2. (s - 1) % W \in 0 .. (W - 1) /\ (s - 1) \div W \in Int
    BY <1>1
  <2> QED
    BY <2>1, <2>2 DEF cell_of
<1>3. PICK b \in Int, d \in 0 .. (W - 1) : t - 1 = W * b + d /\ d = cell_of(t)
  <2>1. t - 1 = (W * ((t - 1) \div W)) + ((t - 1) % W)
    BY <1>1
  <2>2. (t - 1) % W \in 0 .. (W - 1) /\ (t - 1) \div W \in Int
    BY <1>1
  <2> QED
    BY <2>1, <2>2 DEF cell_of
<1>4. SUFFICES ASSUME c = d PROVE FALSE
  BY <1>2, <1>3
<1>5. t - s = W * b - W * a
  BY <1>1, <1>2, <1>3, <1>4
<1>6. W * b - W * a = W * (b - a)
  BY <1>1
<1>7. 0 < W * (b - a) /\ W * (b - a) < W
  BY <1>5, <1>6
<1>8. b - a \in Int
  OBVIOUS
<1>9. CASE b - a <= 0
  <2>1. W * (b - a) <= 0
    BY <1>1, <1>8, <1>9
  <2> QED
    BY <2>1, <1>1, <1>7, <1>8
<1>10. CASE b - a >= 1
  <2>1. W * (b - a) >= W
    BY <1>1, <1>8, <1>10
  <2> QED
    BY <2>1, <1>1, <1>7, <1>8
<1> QED
  BY <1>8, <1>9, <1>10

\* Lemma 16 of POD 0008: the slots of a live window (floor, floor + Window] and
\* the cells are in bijection, so claim_live never gives one cell to two.
THEOREM LiveSlotsHaveTheirOwnCell ==
  \A floor \in Nat : \A s, t \in (floor + 1) .. (floor + Window) :
    cell_of(s) = cell_of(t) => s = t
<1> SUFFICES ASSUME NEW floor \in Nat,
                    NEW s \in (floor + 1) .. (floor + Window),
                    NEW t \in (floor + 1) .. (floor + Window),
                    cell_of(s) = cell_of(t), s # t
             PROVE  FALSE
  OBVIOUS
<1>1. Window \in Nat
  BY BallotAssumption
<1>2. s \in Nat /\ t \in Nat /\ 0 < s /\ 0 < t
  BY <1>1
<1>3. CASE s < t
  BY <1>1, <1>2, <1>3, CellsAreDistinct
<1>4. CASE t < s
  BY <1>1, <1>2, <1>4, CellsAreDistinct
<1> QED
  BY <1>2, <1>3, <1>4

-------------------------------------------------------------------------------
(* Types.                                                                  *)

\* A cell in its place: a cell that holds a slot is that slot's cell, an empty one may
\* hold none, and a value is there as soon as there is a vote or a decision.
CellTyped(cell, c) ==
  /\ cell.slot # 0 => cell_of(cell.slot) = c
  /\ cell.slot = 0 => cell.state = "Empty"
  /\ cell.state # "Empty" => cell.value \in Values
  /\ cell.vote_ballot <= cell.promised_at

LedgerTyped(l, top) ==
  /\ l \in LedgerType(BallotSet)
  /\ \A c \in Cells : CellTyped(l.cell[c], c) /\ l.cell[c].slot <= top

\* What a campaign has collected.  more is only reported below the last slot.
RecoveryTyped(rec) ==
  /\ rec = [base |-> rec.base, last |-> rec.last, ready |-> rec.ready, more |-> rec.more,
            peer |-> rec.peer, recovered |-> rec.recovered]
  /\ rec.base \in Slot /\ rec.last = slot_add(rec.base, Chunk - 1)
  /\ rec.ready \in BOOLEAN /\ rec.more \in BOOLEAN
  /\ rec.peer \in [Node -> PeerType]
  /\ rec.recovered \in [rec.base .. rec.last -> ReportType]
  /\ rec.more => rec.last < MaxSlot
  /\ \A p \in Node : rec.peer[p].more => rec.last < MaxSlot
  /\ \A s \in rec.base .. rec.last :
       rec.recovered[s].state # "Empty" => rec.recovered[s].value \in Values

LeadType == [slot : 0 .. MaxSlot, ballot : BallotSet, acks : SUBSET Node]

NodeTyped(nd) ==
  /\ nd = [role |-> nd.role, ballot |-> nd.ballot,
           highest_observed_round |-> nd.highest_observed_round,
           next_slot |-> nd.next_slot, leader_base |-> nd.leader_base,
           delivered_through |-> nd.delivered_through, memory_floor |-> nd.memory_floor,
           campaign_enabled |-> nd.campaign_enabled, ledger |-> nd.ledger,
           recovery |-> nd.recovery, lead |-> nd.lead]
  /\ nd.role \in {"Follower", "Preparing", "Leader"}
  /\ nd.ballot \in BallotSet
  /\ nd.highest_observed_round \in 0 .. MaxRound
  /\ nd.next_slot \in Slot /\ nd.leader_base \in Slot
  /\ nd.delivered_through \in 0 .. MaxSlot
  /\ nd.memory_floor \in 0 .. nd.delivered_through
  /\ nd.campaign_enabled \in BOOLEAN
  /\ LedgerTyped(nd.ledger, nd.memory_floor + Window)
  /\ nd.ledger.anchor.chosen_trim_slot <= nd.memory_floor
  /\ nd.recovery = NoRecovery \/ RecoveryTyped(nd.recovery)
  /\ nd.role = "Preparing" => RecoveryTyped(nd.recovery)
  /\ nd.lead \in [Cells -> LeadType]

MessageTyped(m) ==
  /\ m.from \in Node
  /\ m.type \in {"Prepare", "Promise", "Promise_Range", "Accept", "Accepted", "Heartbeat"}
       => m.ballot \in BallotSet
  /\ m.type \in {"Promise", "Accept", "Accepted", "Commit"} => m.slot \in Slot
  /\ m.type \in {"Promise", "Accept", "Commit"} => m.value \in Values
  /\ m.type \in {"Prepare", "Promise_Range"}
       => m.first \in Slot /\ m.last = slot_add(m.first, Chunk - 1)
  /\ m.type = "Promise" => m.vote \in BallotSet /\ m.state \in {"Voted", "Chosen"}
  /\ m.type = "Promise_Range" =>
       /\ m.anchor \in AnchorType /\ m.chosen_through \in 0 .. MaxSlot
       /\ m.reported \in 0 .. Chunk /\ m.more \in BOOLEAN
       /\ m.more => m.last < MaxSlot
  /\ m.type = "Nack" => m.rejected \in BallotSet /\ m.promised \in BallotSet
  /\ m.type = "Learn" => m.from_slot \in 1 .. (MaxSlot + 1)
  /\ m.type = "Heartbeat" => m.decided_through \in 0 .. MaxSlot

HostTyped(n) ==
  /\ history[n] \in Seq(Values)
  /\ Len(history[n]) = node[n].delivered_through
  /\ LedgerTyped(disk[n], node[n].delivered_through + Window)
  /\ disk[n].anchor.chosen_trim_slot <= node[n].delivered_through

TypeInv ==
  /\ DOMAIN node = Node /\ DOMAIN disk = Node /\ DOMAIN history = Node
  /\ \A n \in Node : NodeTyped(node[n]) /\ HostTyped(n)
  /\ \A m \in net : MessageTyped(m)
  /\ votes \subseteq VoteType
  /\ crashes \in 0 .. MaxCrashes

WindowOK(nd) ==
  /\ \A c \in Cells : nd.ledger.cell[c].slot \in 1 .. nd.memory_floor
                        => nd.ledger.cell[c].state = "Chosen"
  /\ \A s \in (nd.memory_floor + 1) .. nd.delivered_through :
       s <= nd.memory_floor + Window => ledger_is_chosen(nd.ledger, s)

\* What the journal holds up to the frontier is decided or trimmed; above the frontier
\* it holds what the memory holds.
DiskOK(nd, d) ==
  /\ d.anchor = nd.ledger.anchor /\ d.promised = nd.ledger.promised
  /\ \A c \in Cells : d.cell[c].slot \in 1 .. nd.delivered_through
         => d.cell[c].state = "Chosen" \/ d.cell[c].slot <= d.anchor.chosen_trim_slot
  /\ \A s \in Slot : s > nd.delivered_through
                        /\ s \in {Cell(d, s).slot, Cell(nd.ledger, s).slot}
         => Cell(d, s) = Cell(nd.ledger, s)

WindowInv == \A n \in Node : WindowOK(node[n]) /\ DiskOK(node[n], disk[n])

-------------------------------------------------------------------------------
(* Greatest elements, slots and ballots.                                   *)

\* The least-number principle, for sets.
LEMMA LeastNat ==
  ASSUME NEW T, T \subseteq Nat, T # {}
  PROVE  \E x \in T : \A y \in T : x <= y
<1> DEFINE R == OpToRel(<, Nat)
<1>1. IsWellFoundedOn(R, Nat)
  BY NatLessThanWellFounded
<1>2. \A x, y \in Nat : x < y => <<x, y>> \in R
  BY DEF OpToRel
<1> HIDE DEF R
<1>3. PICK x \in T : \A y \in T : ~(<<y, x>> \in R)
  BY <1>1, WFMin
<1>4. \A y \in T : ~(y < x)
  BY <1>2, <1>3
<1>5. \A a, b \in Nat : ~(a < b) => b <= a
  OBVIOUS
<1>6. QED
  BY <1>4, <1>5

\* A bounded set of naturals has a greatest element, and Max is it.
LEMMA MaxIsGreatest ==
  ASSUME NEW S, S \subseteq Nat, S # {}, NEW B \in Nat, \A x \in S : x <= B
  PROVE  Max(S) \in S /\ \A x \in S : x <= Max(S)
<1> DEFINE T == {B - x : x \in S}
<1>1. T \subseteq Nat /\ T # {}
  <2>1. \A x \in S : x \in Nat /\ x <= B
    OBVIOUS
  <2>2. \A x \in S : B - x \in Nat
    BY <2>1
  <2>3. QED
    BY <2>2
<1>2. PICK d \in T : \A e \in T : d <= e
  BY <1>1, LeastNat
<1>3. PICK x \in S : d = B - x
  OBVIOUS
<1>4. \A y \in S : x >= y
  <2> SUFFICES ASSUME NEW y \in S PROVE x >= y
    OBVIOUS
  <2>1. B - y \in T /\ B - x <= B - y
    BY <1>2, <1>3
  <2>2. QED
    BY <2>1
<1>5. \E z \in S : \A y \in S : z >= y
  BY <1>3, <1>4
<1>6. Max(S) \in S /\ \A y \in S : Max(S) >= y
  BY <1>5 DEF Max
<1>7. QED
  BY <1>6

LEMMA Constants ==
  /\ MaxSlot \in Nat /\ MaxSlot >= 1 /\ MaxRound \in Nat /\ MaxRound >= 1
  /\ Window \in Nat /\ Window >= 1 /\ Chunk \in Nat /\ Chunk >= 1 /\ Chunk <= Window
  /\ Slot \subseteq Nat /\ Node \subseteq NodeId /\ IsFiniteSet(Node)
  /\ Priority \in [Node -> Priorities] /\ MaxTrims \in Nat /\ MaxCrashes \in Nat
<1>1. NodeId \subseteq Int /\ NodeId = 1 .. (NodeSpan - 1) /\ NodeSpan - 1 \in Int
  BY DEF NodeId, NodeSpan
<1>2. IsFiniteSet(NodeId)
  BY <1>1, FS_Interval
<1>3. Node \subseteq NodeId
  BY MultiPaxosAssumption
<1>4. IsFiniteSet(Node)
  BY <1>2, <1>3, FS_Subset
<1>5. QED
  BY <1>3, <1>4, BallotAssumption, MultiPaxosAssumption DEF Slot

\* Every slot has a cell.
LEMMA CellOfSlot ==
  ASSUME NEW s \in Int
  PROVE  cell_of(s) \in Cells
BY Constants, SMTT(30) DEF cell_of, Cells

LEMMA SlotsHaveCells ==
  ASSUME NEW s \in Slot
  PROVE  s \in Nat /\ s \in Int /\ cell_of(s) \in Cells
  BY Constants, CellOfSlot

LEMMA SlotAdd ==
  ASSUME NEW s \in 0 .. (MaxSlot + 1), NEW k \in Nat
  PROVE  /\ s <= MaxSlot => slot_add(s, k) \in s .. MaxSlot
         /\ slot_add(s, k) \in 0 .. MaxSlot
         /\ slot_add(s, k) <= s + k
         /\ slot_add(s, k) # MaxSlot => slot_add(s, k) = s + k
  BY Constants DEF slot_add

LEMMA BallotsAreBounded ==
  /\ BallotSet \subseteq Nat /\ BALLOT_ZERO \in BallotSet
  /\ \A b \in BallotSet : b <= ballot_make(MaxRound + 1, 0, 1)
  /\ ballot_make(MaxRound + 1, 0, 1) \in Nat
  /\ \A b \in BallotSet : ballot_round(b) \in 0 .. MaxRound
  /\ \A n \in Node : \A r \in 1 .. MaxRound : ballot_make(r, Priority[n], n) \in BallotSet
<1>1. \A n \in Node : Priority[n] \in Priorities /\ n \in NodeId
  BY Constants
<1>2. 0 \in Priorities /\ 1 \in NodeId
  BY Spans
<1>3. \A r \in Nat, p \in Priorities, n \in NodeId : ballot_make(r, p, n) \in Nat
  <2> SUFFICES ASSUME NEW r \in Nat, NEW p \in Priorities, NEW n \in NodeId
               PROVE  ballot_make(r, p, n) \in Nat
    OBVIOUS
  <2>1. PICK k \in Nat : k = r * PrioritySpan + p /\ ballot_make(r, p, n) = k * NodeSpan + n
    BY BallotInBases
  <2>2. n \in Nat /\ NodeSpan \in Nat
    BY Spans
  <2>3. QED
    BY <2>1, <2>2
<1>4. BallotSet \subseteq Nat
  <2> SUFFICES ASSUME NEW b \in BallotSet PROVE b \in Nat
    OBVIOUS
  <2>1. CASE b = BALLOT_ZERO
    BY <2>1 DEF BALLOT_ZERO
  <2>2. CASE \E r \in 1 .. MaxRound, n \in Node : b = ballot_make(r, Priority[n], n)
    <3>1. PICK r \in 1 .. MaxRound, n \in Node : b = ballot_make(r, Priority[n], n)
      BY <2>2
    <3>2. r \in Nat
      BY <3>1, Constants
    <3>3. QED
      BY <3>1, <3>2, <1>1, <1>3
  <2>3. QED
    BY <2>1, <2>2 DEF BallotSet
<1>5. \A b \in BallotSet : b <= ballot_make(MaxRound + 1, 0, 1)
  <2> SUFFICES ASSUME NEW b \in BallotSet PROVE b <= ballot_make(MaxRound + 1, 0, 1)
    OBVIOUS
  <2>1. CASE b = BALLOT_ZERO
    BY <2>1, <1>2, <1>3, Constants DEF BALLOT_ZERO
  <2>2. CASE \E r \in 1 .. MaxRound, n \in Node : b = ballot_make(r, Priority[n], n)
    <3>1. PICK r \in 1 .. MaxRound, n \in Node : b = ballot_make(r, Priority[n], n)
      BY <2>2
    <3>2. r \in Nat /\ MaxRound + 1 \in Nat /\ r < MaxRound + 1
      BY Constants
    <3>3. b < ballot_make(MaxRound + 1, 0, 1)
      BY <3>1, <3>2, <1>1, <1>2, LaterRoundsAreGreater
    <3>4. QED
      BY <3>2, <3>3, <1>2, <1>3, <1>4
  <2>3. QED
    BY <2>1, <2>2 DEF BallotSet
<1>6. \A b \in BallotSet : ballot_round(b) \in 0 .. MaxRound
  <2> SUFFICES ASSUME NEW b \in BallotSet PROVE ballot_round(b) \in 0 .. MaxRound
    OBVIOUS
  <2>1. CASE b = BALLOT_ZERO
    <3>1. ballot_round(b) = 0
      BY <2>1, SMT DEF BALLOT_ZERO, ballot_round, RoundUnit, NodeSpan, PrioritySpan
    <3>2. QED
      BY <3>1, Constants
  <2>2. CASE \E r \in 1 .. MaxRound, n \in Node : b = ballot_make(r, Priority[n], n)
    <3>1. PICK r \in 1 .. MaxRound, n \in Node : b = ballot_make(r, Priority[n], n)
      BY <2>2
    <3>2. ballot_round(b) = r
      BY <3>1, <1>1, Constants, PartsAreRecovered
    <3>3. QED
      BY <3>2, Constants
  <2>3. QED
    BY <2>1, <2>2 DEF BallotSet
<1>7. \A n \in Node : \A r \in 1 .. MaxRound : ballot_make(r, Priority[n], n) \in BallotSet
  BY DEF BallotSet
<1>8. QED
  BY <1>2, <1>3, <1>4, <1>5, <1>6, <1>7, Constants DEF BallotSet

LEMMA BallotOrder ==
  /\ \A a, b, c \in BallotSet : a <= b /\ b <= c => a <= c
  /\ \A a, b \in BallotSet : a < b => a <= b
  /\ \A a \in BallotSet : a <= a /\ BALLOT_ZERO <= a /\ MaxOf(a, BALLOT_ZERO) = a
  /\ \A a, b \in BallotSet : /\ a <= b => MaxOf(a, b) = b /\ b >= a
                             /\ b >= a => MaxOf(a, b) = b /\ a <= b
                             /\ a <= MaxOf(a, b) /\ b <= MaxOf(a, b)
                             /\ MaxOf(a, b) \in BallotSet
<1>1. BallotSet \subseteq Nat /\ BALLOT_ZERO = 0
  BY BallotsAreBounded DEF BALLOT_ZERO
<1>2. QED
  BY <1>1 DEF MaxOf

-------------------------------------------------------------------------------
(* Ledgers and write records.                                              *)

\* A batch of records for slots up to top.
WritesTyped(w, top) ==
  /\ w = [promise |-> w.promise, trim |-> w.trim, votes |-> w.votes, chosen |-> w.chosen]
  /\ w.promise \in BallotSet /\ w.trim \in AnchorType
  /\ \A s \in DOMAIN w.votes :
       s \in Slot /\ s <= top /\ w.votes[s].ballot \in BallotSet /\ w.votes[s].value \in Values
  /\ \A s \in DOMAIN w.chosen : s \in Slot /\ s <= top /\ w.chosen[s] \in Values

LEMMA EmptyBatch ==
  ASSUME NEW top
  PROVE  /\ WritesTyped(NoWrites, top) /\ WrittenSlots(NoWrites) = {}
         /\ DOMAIN NoWrites.votes = {} /\ DOMAIN NoWrites.chosen = {}
         /\ NoWrites.trim = NoAnchor /\ NoWrites.promise = BALLOT_ZERO
<1>1. DOMAIN << >> = {}
  OBVIOUS
<1>2. NoAnchor \in AnchorType
  BY Constants DEF NoAnchor, AnchorType
<1>3. QED
  BY <1>1, <1>2, BallotsAreBounded DEF WritesTyped, NoWrites, WrittenSlots

LEMMA PromiseBatch ==
  ASSUME NEW top, NEW b \in BallotSet
  PROVE  /\ WritesTyped(WritePromise(b), top) /\ WrittenSlots(WritePromise(b)) = {}
         /\ DOMAIN WritePromise(b).votes = {} /\ DOMAIN WritePromise(b).chosen = {}
         /\ WritePromise(b).trim = NoAnchor /\ WritePromise(b).promise = b
  BY EmptyBatch DEF WritesTyped, WritePromise, WrittenSlots, NoWrites

LEMMA TrimBatch ==
  ASSUME NEW top, NEW a \in AnchorType
  PROVE  /\ WritesTyped(WriteTrim(a), top) /\ WrittenSlots(WriteTrim(a)) = {}
         /\ DOMAIN WriteTrim(a).votes = {} /\ DOMAIN WriteTrim(a).chosen = {}
         /\ WriteTrim(a).trim = a /\ WriteTrim(a).promise = BALLOT_ZERO
  BY EmptyBatch DEF WritesTyped, WriteTrim, WrittenSlots, NoWrites

LEMMA VoteBatch ==
  ASSUME NEW top, NEW s \in Slot, s <= top, NEW b \in BallotSet, NEW v \in Values
  PROVE  /\ WritesTyped(WriteVote(s, b, v), top) /\ WrittenSlots(WriteVote(s, b, v)) = {s}
         /\ DOMAIN WriteVote(s, b, v).votes = {s} /\ DOMAIN WriteVote(s, b, v).chosen = {}
         /\ WriteVote(s, b, v).votes[s] = [ballot |-> b, value |-> v]
         /\ WriteVote(s, b, v).trim = NoAnchor /\ WriteVote(s, b, v).promise = BALLOT_ZERO
  BY EmptyBatch DEF WritesTyped, WriteVote, WrittenSlots, NoWrites

LEMMA ChosenBatch ==
  ASSUME NEW top, NEW s \in Slot, s <= top, NEW v \in Values
  PROVE  /\ WritesTyped(WriteChosen(s, v), top) /\ WrittenSlots(WriteChosen(s, v)) = {s}
         /\ DOMAIN WriteChosen(s, v).votes = {} /\ DOMAIN WriteChosen(s, v).chosen = {s}
         /\ WriteChosen(s, v).chosen[s] = v
         /\ WriteChosen(s, v).trim = NoAnchor /\ WriteChosen(s, v).promise = BALLOT_ZERO
  BY EmptyBatch DEF WritesTyped, WriteChosen, WrittenSlots, NoWrites

\* What a crash leaves of a batch is a batch, of no other records.
LEMMA PrefixIsPart ==
  ASSUME NEW top, NEW w, WritesTyped(w, top), NEW kept \in Prefixes(w)
  PROVE  /\ WritesTyped(kept, top)
         /\ DOMAIN kept.votes \subseteq DOMAIN w.votes
         /\ DOMAIN kept.chosen \subseteq DOMAIN w.chosen
         /\ WrittenSlots(kept) \subseteq WrittenSlots(w)
         /\ \A s \in DOMAIN kept.votes : kept.votes[s] = w.votes[s]
         /\ \A s \in DOMAIN kept.chosen : kept.chosen[s] = w.chosen[s]
         /\ kept.trim = w.trim \/ kept.trim = NoAnchor
         /\ kept.promise = w.promise \/ kept.promise = BALLOT_ZERO
<1>1. CASE kept = NoWrites
  BY <1>1, EmptyBatch
<1>2. CASE kept = w
  BY <1>2
<1>3. CASE \E cut \in WrittenSlots(w) :
        kept = [w EXCEPT !.votes = [s \in {t \in DOMAIN w.votes : t <= cut} |-> w.votes[s]],
                         !.chosen = [s \in {t \in DOMAIN w.chosen : t < cut} |-> w.chosen[s]]]
  <2>1. PICK V \in SUBSET DOMAIN w.votes, C \in SUBSET DOMAIN w.chosen :
          kept = [w EXCEPT !.votes = [s \in V |-> w.votes[s]],
                           !.chosen = [s \in C |-> w.chosen[s]]]
    BY <1>3
  <2>2. /\ kept.votes = [s \in V |-> w.votes[s]] /\ kept.chosen = [s \in C |-> w.chosen[s]]
        /\ kept.trim = w.trim /\ kept.promise = w.promise
        /\ kept = [promise |-> kept.promise, trim |-> kept.trim,
                   votes |-> kept.votes, chosen |-> kept.chosen]
    BY <2>1 DEF WritesTyped
  <2>3. QED
    BY <2>2 DEF WritesTyped, WrittenSlots
<1>4. QED
  BY <1>1, <1>2, <1>3 DEF Prefixes

LEMMA LargerBallot ==
  ASSUME NEW a \in BallotSet, NEW b \in BallotSet
  PROVE  MaxOf(a, b) \in BallotSet
  BY DEF MaxOf

\* A cell that holds no slot.
LEMMA OpenCell ==
  /\ ledger_open(0) \in CellType(BallotSet) /\ ledger_open(0).slot = 0
  /\ ledger_open(0).state = "Empty"
  /\ ledger_open(0).vote_ballot <= ledger_open(0).promised_at
  /\ \A c \in Cells : CellTyped(ledger_open(0), c)
<1>1. PICK b \in BallotSet : b = BALLOT_ZERO
  BY BallotsAreBounded
<1>2. b <= b
  BY BallotOrder
<1>3. ledger_open(0) = [slot |-> 0, promised_at |-> b, vote_ballot |-> b,
                        state |-> "Empty", value |-> NoValue]
  BY <1>1 DEF ledger_open
<1>4. 0 \in 0 .. MaxSlot
  BY Constants
<1>5. ledger_open(0) \in CellType(BallotSet)
  BY <1>3, <1>4 DEF CellType
<1>6. QED
  BY <1>2, <1>3, <1>5 DEF CellTyped

\* Claiming a cell for a slot and applying the records of the slot to it.
LEMMA ApplySlotFacts ==
  ASSUME NEW top, NEW w, WritesTyped(w, top), NEW s \in WrittenSlots(w),
         NEW cell \in CellType(BallotSet)
  PROVE  /\ ApplySlot(cell, s, w) \in CellType(BallotSet)
         /\ ApplySlot(cell, s, w).slot = s
         /\ ApplySlot(cell, s, w).state \in {"Voted", "Chosen"}
         /\ ApplySlot(cell, s, w).value \in Values \/ Claim(cell, s).state = "Chosen"
         /\ s \in DOMAIN w.chosen => /\ ApplySlot(cell, s, w).state = "Chosen"
                                     /\ ApplySlot(cell, s, w).value = w.chosen[s]
         /\ s \notin DOMAIN w.chosen =>
              /\ s \in DOMAIN w.votes
              /\ ApplySlot(cell, s, w) = ReplayVote(Claim(cell, s), w.votes[s])
              /\ Claim(cell, s).state = "Chosen" =>
                   /\ ApplySlot(cell, s, w).state = "Chosen"
                   /\ ApplySlot(cell, s, w).value = Claim(cell, s).value
              /\ Claim(cell, s).state # "Chosen" => ApplySlot(cell, s, w).state = "Voted"
<1> DEFINE claimed == Claim(cell, s)
           voted == IF s \in DOMAIN w.votes THEN ReplayVote(claimed, w.votes[s]) ELSE claimed
<1>1. s \in Slot
  BY DEF WritesTyped, WrittenSlots
<1>2. claimed \in CellType(BallotSet) /\ claimed.slot = s
  BY <1>1, BallotsAreBounded, Constants DEF Claim, ledger_open, CellType, Slot
<1>3. ASSUME s \in DOMAIN w.votes
      PROVE  /\ voted \in CellType(BallotSet) /\ voted.slot = s
             /\ claimed.state = "Chosen" => voted.state = "Chosen" /\ voted.value = claimed.value
             /\ claimed.state # "Chosen" => voted.state = "Voted" /\ voted.value \in Values
  <2> DEFINE b == w.votes[s].ballot
             v == w.votes[s].value
  <2>1. b \in BallotSet /\ v \in Values
    BY <1>3 DEF WritesTyped
  <2>2. MaxOf(claimed.promised_at, b) \in BallotSet
    BY <1>2, <2>1, LargerBallot DEF CellType
  <2>3. voted = IF claimed.state = "Chosen"
                  THEN [claimed EXCEPT !.promised_at = MaxOf(claimed.promised_at, b)]
                  ELSE [claimed EXCEPT !.promised_at = MaxOf(claimed.promised_at, b),
                                       !.vote_ballot = b, !.state = "Voted", !.value = v]
    BY <1>3, <1>2 DEF ReplayVote, RecordVote, CellType
  <2> HIDE DEF claimed, voted, b, v
  <2>4. QED
    BY <1>2, <2>1, <2>2, <2>3 DEF CellType
<1>4. voted \in CellType(BallotSet) /\ voted.slot = s
  BY <1>2, <1>3
<1>5. ApplySlot(cell, s, w) = IF s \in DOMAIN w.chosen THEN RecordChosen(voted, w.chosen[s])
                                                       ELSE voted
  BY DEF ApplySlot
<1>6. s \in DOMAIN w.votes \/ s \in DOMAIN w.chosen
  BY DEF WrittenSlots
<1>7. CASE s \in DOMAIN w.chosen
  <2>1. w.chosen[s] \in Values
    BY <1>7 DEF WritesTyped
  <2>2. ApplySlot(cell, s, w) = [voted EXCEPT !.state = "Chosen", !.value = w.chosen[s]]
    BY <1>5, <1>7 DEF RecordChosen
  <2> HIDE DEF claimed, voted
  <2>3. QED
    BY <1>4, <1>7, <2>1, <2>2 DEF CellType, Values
<1>8. CASE s \notin DOMAIN w.chosen
  <2>1. ApplySlot(cell, s, w) = voted /\ s \in DOMAIN w.votes
    BY <1>5, <1>6, <1>8
  <2>2. voted = ReplayVote(claimed, w.votes[s])
    BY <2>1
  <2>3. QED
    BY <1>3, <1>8, <2>1, <2>2
<1>9. QED
  BY <1>7, <1>8

LEMMA ApplySlotOrder ==
  ASSUME NEW top, NEW w, WritesTyped(w, top), NEW s \in WrittenSlots(w),
         NEW cell \in CellType(BallotSet), cell.vote_ballot <= cell.promised_at
  PROVE  ApplySlot(cell, s, w).vote_ballot <= ApplySlot(cell, s, w).promised_at
<1> DEFINE claimed == Claim(cell, s)
           vote == w.votes[s]
           voted == IF s \in DOMAIN w.votes THEN ReplayVote(claimed, vote) ELSE claimed
<1>1. s \in Slot
  BY DEF WritesTyped, WrittenSlots
<1>2. claimed \in CellType(BallotSet)
  BY <1>1, BallotsAreBounded, Constants DEF Claim, ledger_open, CellType, Slot
<1>3. claimed.vote_ballot <= claimed.promised_at
  BY BallotsAreBounded, BallotOrder DEF Claim, ledger_open
<1>4. voted \in CellType(BallotSet) /\ voted.vote_ballot <= voted.promised_at
  <2>1. CASE s \in DOMAIN w.votes
    <3>1. PICK k, v : k = vote.ballot /\ v = vote.value
      OBVIOUS
    <3>2. k \in BallotSet /\ v \in Values
      BY <2>1, <3>1 DEF WritesTyped
    <3>3. PICK p : p = MaxOf(claimed.promised_at, k)
      OBVIOUS
    <3>4. PICK old \in BallotSet, own \in BallotSet :
            old = claimed.promised_at /\ own = claimed.vote_ballot /\ own <= old
      BY <1>2, <1>3 DEF CellType
    <3>5. p \in BallotSet /\ k <= p /\ own <= p
      <4>1. p \in BallotSet /\ k <= p /\ old <= p
        BY <3>2, <3>3, <3>4, BallotOrder
      <4>2. QED
        BY <3>4, <4>1, BallotOrder
    <3>6. voted = IF claimed.state = "Chosen"
                    THEN [claimed EXCEPT !.promised_at = p]
                    ELSE [claimed EXCEPT !.promised_at = p, !.vote_ballot = k,
                                         !.state = "Voted", !.value = v]
      BY <1>2, <2>1, <3>1, <3>3 DEF ReplayVote, RecordVote, CellType
    <3> HIDE DEF claimed, voted
    <3>7. QED
      BY <1>2, <3>2, <3>4, <3>5, <3>6 DEF CellType
  <2>2. CASE s \notin DOMAIN w.votes
    BY <1>2, <1>3, <2>2
  <2>3. QED
    BY <2>1, <2>2
<1>5. ApplySlot(cell, s, w) = IF s \in DOMAIN w.chosen THEN RecordChosen(voted, w.chosen[s])
                                                       ELSE voted
  BY DEF ApplySlot
<1> HIDE DEF voted
<1>6. QED
  BY <1>4, <1>5 DEF RecordChosen, CellType

\* Every cell of the ledger after the batch: the one before, or a written slot's.
LEMMA CellAfter ==
  ASSUME NEW l, NEW w, NEW S, NEW c \in Cells
  PROVE  LET after == ApplyWrites(l, w, S).cell[c] IN
         \/ (\A s \in S : cell_of(s) # c) /\ after = l.cell[c]
         \/ \E s \in S : cell_of(s) = c /\ after = ApplySlot(l.cell[c], s, w)
<1>1. ApplyWrites(l, w, S).cell[c] =
        IF \E s \in S : cell_of(s) = c
          THEN ApplySlot(l.cell[c], CHOOSE s \in S : cell_of(s) = c, w) ELSE l.cell[c]
  BY DEF ApplyWrites
<1>2. CASE \E s \in S : cell_of(s) = c
  <2>1. (CHOOSE s \in S : cell_of(s) = c) \in S
        /\ cell_of(CHOOSE s \in S : cell_of(s) = c) = c
    BY <1>2
  <2>2. QED
    BY <1>1, <1>2, <2>1
<1>3. QED
  BY <1>1, <1>2

\* A batch never takes a decision of a slot back, and leaves the ledger typed.
LEMMA ApplyTyped ==
  ASSUME NEW top \in Nat, NEW l, LedgerTyped(l, top), NEW w, WritesTyped(w, top),
         NEW S, S \subseteq WrittenSlots(w)
  PROVE  /\ LedgerTyped(ApplyWrites(l, w, S), top)
         /\ ApplyWrites(l, w, S).promised = MaxOf(l.promised, w.promise)
         /\ ApplyWrites(l, w, S).anchor = IF w.trim.trim_id > l.anchor.trim_id
                                            THEN w.trim ELSE l.anchor
<1> DEFINE after == ApplyWrites(l, w, S)
<1>1. l.promised \in BallotSet /\ l.anchor \in AnchorType
      /\ l.cell \in [Cells -> CellType(BallotSet)]
  BY DEF LedgerTyped, LedgerType
<1>2. after.promised \in BallotSet /\ after.anchor \in AnchorType
  BY <1>1, LargerBallot DEF ApplyWrites, WritesTyped
<1>3. ASSUME NEW c \in Cells
      PROVE  /\ after.cell[c] \in CellType(BallotSet)
             /\ CellTyped(after.cell[c], c) /\ after.cell[c].slot <= top
  <2>1. l.cell[c] \in CellType(BallotSet) /\ CellTyped(l.cell[c], c) /\ l.cell[c].slot <= top
    BY <1>1 DEF LedgerTyped
  <2>2. CASE after.cell[c] = l.cell[c]
    BY <2>1, <2>2
  <2>3. CASE \E s \in S : cell_of(s) = c /\ after.cell[c] = ApplySlot(l.cell[c], s, w)
    <3>1. PICK s \in S : cell_of(s) = c /\ after.cell[c] = ApplySlot(l.cell[c], s, w)
      BY <2>3
    <3>2. s \in WrittenSlots(w) /\ s \in Slot /\ s <= top /\ s # 0
      BY Constants DEF WritesTyped, WrittenSlots, Slot
    <3>3. Claim(l.cell[c], s).state = "Chosen" => Claim(l.cell[c], s).value \in Values
      BY <2>1 DEF Claim, ledger_open, CellTyped
    <3>4. /\ after.cell[c] \in CellType(BallotSet) /\ after.cell[c].slot = s
          /\ after.cell[c].value \in Values
      <4>1. /\ after.cell[c] \in CellType(BallotSet) /\ after.cell[c].slot = s
            /\ \/ after.cell[c].value \in Values
               \/ /\ Claim(l.cell[c], s).state = "Chosen"
                  /\ \/ after.cell[c].value = Claim(l.cell[c], s).value
                     \/ s \in DOMAIN w.chosen /\ after.cell[c].value = w.chosen[s]
        BY <2>1, <3>1, <3>2, ApplySlotFacts
      <4>2. s \in DOMAIN w.chosen => w.chosen[s] \in Values
        BY DEF WritesTyped
      <4>3. QED
        BY <3>3, <4>1, <4>2
    <3>5. after.cell[c].vote_ballot <= after.cell[c].promised_at
      BY <2>1, <3>1, <3>2, ApplySlotOrder DEF CellTyped
    <3>6. QED
      BY <3>1, <3>2, <3>4, <3>5 DEF CellTyped
  <2>4. QED
    BY <2>2, <2>3, CellAfter
<1>4. after = [promised |-> after.promised, anchor |-> after.anchor, cell |-> after.cell]
      /\ after.cell = [c \in Cells |-> after.cell[c]]
  BY DEF ApplyWrites
<1>5. LedgerTyped(after, top)
  <2> HIDE DEF after
  <2>1. QED
    BY <1>2, <1>3, <1>4 DEF LedgerTyped, LedgerType
<1>6. QED
  BY <1>5 DEF ApplyWrites

-------------------------------------------------------------------------------
(* Releasing and restarting.                                               *)

LEMMA WiderLedger ==
  ASSUME NEW a \in Nat, NEW b \in Nat, a <= b, NEW l, LedgerTyped(l, a)
  PROVE  LedgerTyped(l, b)
<1>1. \A c \in Cells : l.cell[c].slot \in 0 .. MaxSlot /\ l.cell[c].slot <= a
  BY DEF LedgerTyped, LedgerType, CellType
<1>2. \A c \in Cells : l.cell[c].slot <= b
  BY <1>1, Constants
<1>3. QED
  BY <1>2 DEF LedgerTyped

\* emit_contiguous releases a run of decisions, and stops in the window.
LEMMA EmitsDecisions ==
  ASSUME NEW l, NEW through \in 0 .. MaxSlot
  PROVE  /\ emit_contiguous(l, through) \in through .. MaxSlot
         /\ \A s \in (through + 1) .. emit_contiguous(l, through) : ledger_is_chosen(l, s)
<1> DEFINE top == MinOf(through + Window, MaxSlot)
           S == {t \in through .. top : \A s \in (through + 1) .. t : ledger_is_chosen(l, s)}
<1>1. top \in Nat /\ through <= top /\ top <= MaxSlot
  BY Constants DEF MinOf
<1>2. through \in S
  BY <1>1
<1>3. S \subseteq Nat /\ \A x \in S : x <= top
  BY <1>1
<1>4. Max(S) \in S
  BY <1>1, <1>2, <1>3, MaxIsGreatest
<1>5. emit_contiguous(l, through) = Max(S)
  BY DEF emit_contiguous
<1>6. Max(S) \in through .. top /\ \A s \in (through + 1) .. Max(S) : ledger_is_chosen(l, s)
  BY <1>4
<1> HIDE DEF top, S
<1>7. QED
  BY <1>1, <1>5, <1>6, Constants

LEMMA EmittedFacts ==
  ASSUME NEW nd, NodeTyped(nd)
  PROVE  /\ NodeTyped(Emitted(nd))
         /\ Emitted(nd).delivered_through \in nd.delivered_through .. MaxSlot
         /\ \A s \in (nd.delivered_through + 1) .. Emitted(nd).delivered_through :
              ledger_is_chosen(nd.ledger, s)
         /\ Emitted(nd).ledger = nd.ledger /\ Emitted(nd).memory_floor = nd.memory_floor
         /\ Emitted(nd).role = nd.role /\ Emitted(nd).ballot = nd.ballot
         /\ Emitted(nd).recovery = nd.recovery /\ Emitted(nd).lead = nd.lead
         /\ Emitted(nd).next_slot = nd.next_slot
         /\ Emitted(nd).highest_observed_round = nd.highest_observed_round
<1> DEFINE e == emit_contiguous(nd.ledger, nd.delivered_through)
<1>1. nd.delivered_through \in 0 .. MaxSlot /\ nd.memory_floor \in 0 .. nd.delivered_through
  BY DEF NodeTyped
<1>2. e \in nd.delivered_through .. MaxSlot
      /\ \A s \in (nd.delivered_through + 1) .. e : ledger_is_chosen(nd.ledger, s)
  BY <1>1, EmitsDecisions
<1>3. Emitted(nd) = [nd EXCEPT !.delivered_through = e]
  BY DEF Emitted, NodeTyped
<1> HIDE DEF e
<1>4. /\ Emitted(nd).ledger = nd.ledger /\ Emitted(nd).memory_floor = nd.memory_floor
      /\ Emitted(nd).role = nd.role /\ Emitted(nd).ballot = nd.ballot
      /\ Emitted(nd).recovery = nd.recovery /\ Emitted(nd).lead = nd.lead
      /\ Emitted(nd).next_slot = nd.next_slot
      /\ Emitted(nd).leader_base = nd.leader_base
      /\ Emitted(nd).campaign_enabled = nd.campaign_enabled
      /\ Emitted(nd).highest_observed_round = nd.highest_observed_round
      /\ Emitted(nd).delivered_through = e
  BY <1>3 DEF NodeTyped
<1>5. e \in 0 .. MaxSlot /\ nd.memory_floor \in 0 .. e
  BY <1>1, <1>2, Constants
<1>6. NodeTyped(Emitted(nd))
  BY <1>3, <1>4, <1>5 DEF NodeTyped
<1>7. QED
  BY <1>2, <1>4, <1>6

LEMMA HighestUsed ==
  ASSUME NEW l, NEW top, LedgerTyped(l, top)
  PROVE  ledger_highest_used(l) \in 0 .. MaxSlot
<1> DEFINE S == {0} \cup UsedSlots(l)
<1>1. \A c \in Cells : l.cell[c].slot \in 0 .. MaxSlot
  BY DEF LedgerTyped, LedgerType, CellType
<1>2. S \subseteq 0 .. MaxSlot /\ S # {}
  BY <1>1, Constants DEF UsedSlots, UsedCells
<1>3. S \subseteq Nat /\ \A x \in S : x <= MaxSlot
  BY <1>2, Constants
<1>4. Max(S) \in S /\ \A x \in S : x <= Max(S)
  BY <1>2, <1>3, Constants, MaxIsGreatest
<1>5. QED
  BY <1>2, <1>4 DEF ledger_highest_used

\* A node resumed at base has released everything up to base, and holds of ledger l
\* what is above base or decided.
LEMMA ResumedFacts ==
  ASSUME NEW n \in Node, NEW base \in 0 .. MaxSlot, NEW l, LedgerTyped(l, base + Window),
         l.anchor.chosen_trim_slot <= base
  PROVE  /\ NodeTyped(Resumed(n, l, base))
         /\ Resumed(n, l, base).delivered_through = base
         /\ Resumed(n, l, base).memory_floor = base
         /\ Resumed(n, l, base).role = "Follower"
         /\ Resumed(n, l, base).recovery = NoRecovery
         /\ Resumed(n, l, base).ledger.promised = l.promised
         /\ Resumed(n, l, base).ledger.anchor = l.anchor
         /\ \A c \in Cells : Resumed(n, l, base).ledger.cell[c] =
              IF l.cell[c].slot <= base /\ l.cell[c].state # "Chosen"
                THEN ledger_open(0) ELSE l.cell[c]
<1> DEFINE kept == ReopenedThrough(l, base)
           next == slot_add(MaxOf(ledger_highest_used(kept), base), 1)
           nd == Resumed(n, l, base)
<1>1. l \in LedgerType(BallotSet)
  BY DEF LedgerTyped
<1>2. kept = [promised |-> l.promised, anchor |-> l.anchor,
              cell |-> [c \in Cells |-> IF l.cell[c].slot <= base /\ l.cell[c].state # "Chosen"
                                          THEN ledger_open(0) ELSE l.cell[c]]]
  BY <1>1 DEF ReopenedThrough, LedgerType
<1>3. ledger_open(0) \in CellType(BallotSet) /\ ledger_open(0).slot = 0
      /\ ledger_open(0).state = "Empty"
      /\ ledger_open(0).vote_ballot <= ledger_open(0).promised_at
  BY OpenCell
<1>4. base + Window \in Nat
  BY Constants
<1>5. LedgerTyped(kept, base + Window)
  <2>1. \A c \in Cells : /\ kept.cell[c] \in CellType(BallotSet)
                         /\ CellTyped(kept.cell[c], c) /\ kept.cell[c].slot <= base + Window
    BY <1>1, <1>2, <1>3, <1>4 DEF LedgerTyped, LedgerType, CellTyped
  <2> HIDE DEF kept
  <2>2. kept.cell \in [Cells -> CellType(BallotSet)]
    BY <1>2, <2>1
  <2>3. QED
    BY <1>1, <1>2, <2>1, <2>2 DEF LedgerTyped, LedgerType
<1>6. ledger_highest_used(kept) \in 0 .. MaxSlot
  BY <1>5, HighestUsed
<1>7. MaxOf(ledger_highest_used(kept), base) \in 0 .. MaxSlot
  BY <1>6 DEF MaxOf
<1>8. next \in Slot
  <2> DEFINE h == MaxOf(ledger_highest_used(kept), base)
  <2> HIDE DEF h
  <2>1. h \in 0 .. MaxSlot
    BY <1>7 DEF h
  <2>0. h \in 0 .. (MaxSlot + 1) /\ 1 \in Nat
    BY <2>1, Constants
  <2>2. slot_add(h, 1) \in 0 .. MaxSlot /\ (slot_add(h, 1) # MaxSlot => slot_add(h, 1) = h + 1)
    BY <2>0, SlotAdd
  <2>3. slot_add(h, 1) \in Slot
    BY <2>1, <2>2, Constants DEF Slot
  <2>4. QED
    BY <2>3 DEF h
<1>9. nd = [role |-> "Follower", ballot |-> BALLOT_ZERO, highest_observed_round |-> 0,
            next_slot |-> next, leader_base |-> next, delivered_through |-> base,
            memory_floor |-> base, campaign_enabled |-> n \in Campaigners,
            ledger |-> kept, recovery |-> NoRecovery, lead |-> NoLead]
  BY DEF Resumed
<1>10. NoLead \in [Cells -> LeadType]
  BY BallotsAreBounded, Constants DEF NoLead, LeadType
<1>11. kept.anchor.chosen_trim_slot <= base /\ kept.promised = l.promised
       /\ kept.anchor = l.anchor
  BY <1>2
<1> HIDE DEF nd, next, kept
<1>12. NodeTyped(nd)
  <2>1. nd.role = "Follower" /\ nd.ballot = BALLOT_ZERO /\ nd.highest_observed_round = 0
        /\ nd.next_slot = next /\ nd.leader_base = next /\ nd.delivered_through = base
        /\ nd.memory_floor = base /\ nd.campaign_enabled = (n \in Campaigners)
        /\ nd.ledger = kept /\ nd.recovery = NoRecovery /\ nd.lead = NoLead
    BY <1>9
  <2>2. nd.campaign_enabled \in BOOLEAN
    BY <2>1
  <2>3. base \in 0 .. base /\ 0 \in 0 .. MaxRound
    BY Constants
  <2>4. nd = [role |-> nd.role, ballot |-> nd.ballot,
           highest_observed_round |-> nd.highest_observed_round,
           next_slot |-> nd.next_slot, leader_base |-> nd.leader_base,
           delivered_through |-> nd.delivered_through, memory_floor |-> nd.memory_floor,
           campaign_enabled |-> nd.campaign_enabled, ledger |-> nd.ledger,
           recovery |-> nd.recovery, lead |-> nd.lead]
    BY <1>9
  <2>5. QED
    BY <1>5, <1>8, <1>10, <1>11, <2>1, <2>2, <2>3, <2>4, BallotsAreBounded DEF NodeTyped
<1>13. nd.ledger.cell = [c \in Cells |-> IF l.cell[c].slot <= base /\ l.cell[c].state # "Chosen"
                                          THEN ledger_open(0) ELSE l.cell[c]]
  BY <1>2, <1>9
<1>14. QED
  BY <1>9, <1>11, <1>12, <1>13 DEF nd

\* What every transition of a node does: nothing is taken back, and what it releases is
\* a decision, in memory or in the batch.
Extends(nd, new, w) ==
  /\ NodeTyped(new)
  /\ new.memory_floor >= nd.memory_floor
  /\ new.delivered_through >= nd.delivered_through
  /\ WritesTyped(w, nd.delivered_through + Window)
  /\ \A s \in (nd.delivered_through + 1) .. new.delivered_through :
       s \in DOMAIN w.chosen \/ ledger_is_chosen(new.ledger, s)
  /\ w.trim.chosen_trim_slot <= nd.delivered_through

LEMMA ReleasedFacts ==
  ASSUME NEW nd, NEW new, NEW w, NodeTyped(nd), Extends(nd, new, w),
         NEW through \in nd.delivered_through .. new.delivered_through
  PROVE  LET r == Released(new, w, nd.delivered_through, through)
         IN  r \in Seq(Values) /\ Len(r) = through - nd.delivered_through
<1> DEFINE T == nd.delivered_through
           k == through - T
           r == Released(new, w, T, through)
<1>1. T \in Nat /\ new.delivered_through \in Nat /\ k \in Nat
      /\ new.delivered_through <= MaxSlot /\ through <= MaxSlot
  BY Constants DEF NodeTyped, Extends
<1>2. ASSUME NEW i \in 1 .. k PROVE r[i] \in Values
  <2>1. T + i \in (T + 1) .. new.delivered_through /\ T + i \in Int
    BY <1>1
  <2>2. r[i] = IF T + i \in DOMAIN w.chosen THEN w.chosen[T + i]
                                             ELSE Cell(new.ledger, T + i).value
    BY DEF Released
  <2>3. T + i \in DOMAIN w.chosen => w.chosen[T + i] \in Values
    BY DEF Extends, WritesTyped
  <2>4. ledger_is_chosen(new.ledger, T + i) => Cell(new.ledger, T + i).value \in Values
    BY <2>1, CellOfSlot DEF Extends, NodeTyped, LedgerTyped, CellTyped, ledger_is_chosen, Cell
  <2>5. QED
    BY <2>1, <2>2, <2>3, <2>4 DEF Extends
<1>3. r = [i \in 1 .. k |-> r[i]]
  BY DEF Released
<1> HIDE DEF r, k
<1>4. r \in [1 .. k -> Values]
  BY <1>2, <1>3
<1>5. r \in Seq(Values) /\ Len(r) = k
  BY <1>1, <1>4
<1>6. QED
  BY <1>5 DEF r, k

LEMMA ReplayTyped ==
  ASSUME NEW top \in Nat, NEW d, LedgerTyped(d, top), NEW w, WritesTyped(w, top)
  PROVE  /\ LedgerTyped(ledger_replay_fold(d, w), top)
         /\ ledger_replay_fold(d, w).promised = MaxOf(d.promised, w.promise)
         /\ ledger_replay_fold(d, w).anchor = IF w.trim.trim_id > d.anchor.trim_id
                                                THEN w.trim ELSE d.anchor
<1>1. {s \in WrittenSlots(w) : ledger_claim(d, s)} \subseteq WrittenSlots(w)
  OBVIOUS
<1>2. QED
  BY <1>1, ApplyTyped DEF ledger_replay_fold

\* The other nodes are not touched by the transition of one.
LEMMA VotesAreTyped ==
  ASSUME NEW n \in Node, NEW top, NEW w, WritesTyped(w, top)
  PROVE  VotesIn(n, w) \subseteq VoteType
  BY DEF VotesIn, VoteType, WritesTyped

LEMMA DischargeIsTyped ==
  ASSUME TypeInv, NEW n \in Node, NEW new, NEW w, Extends(node[n], new, w),
         NEW out, \A m \in out : MessageTyped(m), NEW used, Discharged(n, new, w, out, used)
  PROVE  TypeInv'
<1> DEFINE old == node[n]
           T == old.delivered_through
           T2 == new.delivered_through
<1>1. /\ NodeTyped(old) /\ HostTyped(n)
      /\ DOMAIN node = Node /\ DOMAIN disk = Node /\ DOMAIN history = Node
  BY DEF TypeInv
<1>2. /\ node' = [node EXCEPT ![n] = new]
      /\ disk' = [disk EXCEPT ![n] = ledger_replay_fold(disk[n], w)]
      /\ history' = [history EXCEPT ![n] = history[n] \o Released(new, w, T, T2)]
      /\ net' = (net \ used) \cup {m \in out : m.type \notin Lost}
      /\ votes' = votes \cup VotesIn(n, w) /\ crashes' = crashes
  BY <1>1 DEF Discharged
<1>3. T \in Nat /\ T2 \in Nat /\ T <= T2 /\ T2 \in T .. T2
  BY <1>1, Constants DEF NodeTyped, Extends
<1>4. Released(new, w, T, T2) \in Seq(Values) /\ Len(Released(new, w, T, T2)) = T2 - T
  BY <1>1, <1>3, ReleasedFacts
<1>5. history[n] \in Seq(Values) /\ Len(history[n]) = T
  BY <1>1 DEF HostTyped
<1>6. history'[n] \in Seq(Values) /\ Len(history'[n]) = T2
  <2>1. PICK r \in Seq(Values) : r = Released(new, w, T, T2) /\ Len(r) = T2 - T
    BY <1>4
  <2>2. PICK h \in Seq(Values) : h = history[n] /\ Len(h) = T
    BY <1>5
  <2>3. history'[n] = h \o r
    BY <1>1, <1>2, <2>1, <2>2
  <2>4. h \o r \in Seq(Values) /\ Len(h \o r) = Len(h) + Len(r)
    BY ConcatProperties
  <2>5. QED
    BY <1>3, <2>1, <2>2, <2>3, <2>4
<1>7. LedgerTyped(disk'[n], T2 + Window) /\ disk'[n].anchor.chosen_trim_slot <= T2
  <2>1. T + Window \in Nat /\ T2 + Window \in Nat /\ T + Window <= T2 + Window
    BY <1>3, Constants
  <2>2. LedgerTyped(disk[n], T + Window) /\ disk[n].anchor.chosen_trim_slot <= T
    BY <1>1 DEF HostTyped
  <2>3. WritesTyped(w, T + Window) /\ w.trim.chosen_trim_slot <= T
    BY DEF Extends
  <2>4. disk'[n] = ledger_replay_fold(disk[n], w)
    BY <1>1, <1>2
  <2>5. /\ LedgerTyped(disk'[n], T + Window)
        /\ disk'[n].anchor = IF w.trim.trim_id > disk[n].anchor.trim_id
                               THEN w.trim ELSE disk[n].anchor
    BY <2>1, <2>2, <2>3, <2>4, ReplayTyped
  <2>6. disk'[n].anchor.chosen_trim_slot <= T /\ disk'[n].anchor.chosen_trim_slot \in Nat
    BY <2>2, <2>3, <2>5, Constants DEF LedgerTyped, LedgerType, AnchorType
  <2>7. LedgerTyped(disk'[n], T2 + Window)
    BY <2>1, <2>5, WiderLedger
  <2>8. QED
    BY <2>6, <2>7, <1>3
<1>8. ASSUME NEW k \in Node PROVE NodeTyped(node'[k]) /\ HostTyped(k)'
  <2>1. CASE k = n
    <3>1. node'[n] = new /\ NodeTyped(new)
      BY <1>1, <1>2 DEF Extends
    <3>2. QED
      BY <2>1, <3>1, <1>6, <1>7 DEF HostTyped
  <2>2. CASE k # n
    <3>1. node'[k] = node[k] /\ disk'[k] = disk[k] /\ history'[k] = history[k]
      BY <1>1, <1>2, <2>2
    <3>2. NodeTyped(node[k]) /\ HostTyped(k)
      BY DEF TypeInv
    <3>3. QED
      BY <3>1, <3>2 DEF HostTyped
  <2>3. QED
    BY <2>1, <2>2
<1>9. \A m \in net' : MessageTyped(m)
  BY <1>2 DEF TypeInv
<1>10. votes' \subseteq VoteType
  <2>1. VotesIn(n, w) \subseteq VoteType
    BY VotesAreTyped DEF Extends
  <2>2. QED
    BY <1>2, <2>1 DEF TypeInv
<1>11. DOMAIN node' = Node /\ DOMAIN disk' = Node /\ DOMAIN history' = Node
  BY <1>1, <1>2
<1>12. crashes' \in 0 .. MaxCrashes
  BY <1>2 DEF TypeInv
<1>13. QED
  BY <1>8, <1>9, <1>10, <1>11, <1>12 DEF TypeInv

\* A restart from a journal, with the log the host retained.
LEMMA RestartFacts ==
  ASSUME ~LaggingHost, NEW n \in Node, NEW l, NEW log \in Seq(Values), Len(log) <= MaxSlot,
         LedgerTyped(l, Len(log) + Window), l.anchor.chosen_trim_slot <= Len(log),
         Restarted(n, l, log)
  PROVE  /\ node' = [node EXCEPT ![n] = Resumed(n, l, Len(log))]
         /\ history' = [history EXCEPT ![n] = log]
         /\ NodeTyped(Resumed(n, l, Len(log)))
         /\ Resumed(n, l, Len(log)).delivered_through = Len(log)
<1>1. Len(log) \in Nat /\ Len(log) \in 0 .. MaxSlot
  BY Constants
<1>2. l.anchor.chosen_trim_slot \in Nat
  BY Constants DEF LedgerTyped, LedgerType, AnchorType
<1>3. MaxOf(Len(log), l.anchor.chosen_trim_slot) = Len(log)
  BY <1>1, <1>2 DEF MaxOf
<1>4. /\ node' = [node EXCEPT ![n] = node_restore(n, l, Len(log))]
      /\ history' = [history EXCEPT ![n] = log]
  BY DEF Restarted
<1>5. node_restore(n, l, Len(log)) = Resumed(n, l, Len(log))
  BY <1>3 DEF node_restore
<1>6. QED
  BY <1>1, <1>4, <1>5, ResumedFacts

LEMMA RestartIsTyped ==
  ASSUME TypeInv, ~LaggingHost, NEW n \in Node, NEW log \in Seq(Values), Len(log) <= MaxSlot,
         DOMAIN disk' = Node, \A k \in Node \ {n} : disk'[k] = disk[k],
         LedgerTyped(disk'[n], Len(log) + Window),
         disk'[n].anchor.chosen_trim_slot <= Len(log),
         Restarted(n, disk'[n], log),
         \A m \in net' : MessageTyped(m), votes' \subseteq VoteType,
         crashes' \in 0 .. MaxCrashes
  PROVE  TypeInv'
<1>1. /\ node' = [node EXCEPT ![n] = Resumed(n, disk'[n], Len(log))]
      /\ history' = [history EXCEPT ![n] = log]
      /\ NodeTyped(Resumed(n, disk'[n], Len(log)))
      /\ Resumed(n, disk'[n], Len(log)).delivered_through = Len(log)
  BY RestartFacts
<1>2. DOMAIN node = Node /\ DOMAIN history = Node
  BY DEF TypeInv
<1>3. DOMAIN node' = Node /\ DOMAIN history' = Node
  BY <1>1, <1>2
<1>4. NodeTyped(node'[n]) /\ HostTyped(n)'
  <2>1. node'[n] = Resumed(n, disk'[n], Len(log)) /\ history'[n] = log
    BY <1>1, <1>2
  <2>2. QED
    BY <1>1, <2>1 DEF HostTyped
<1>5. ASSUME NEW k \in Node \ {n} PROVE NodeTyped(node'[k]) /\ HostTyped(k)'
  <2>1. node'[k] = node[k] /\ disk'[k] = disk[k] /\ history'[k] = history[k]
    BY <1>1, <1>2
  <2>2. NodeTyped(node[k]) /\ HostTyped(k)
    BY DEF TypeInv
  <2>3. QED
    BY <2>1, <2>2 DEF HostTyped
<1>6. QED
  BY <1>3, <1>4, <1>5 DEF TypeInv

\* A crash inside a batch: a prefix of it is in the journal, and the host has a log no
\* longer than what the node had released.
LEMMA CutShortFacts ==
  ASSUME TypeInv, ~LaggingHost, NEW n \in Node, NEW new, NEW w, Extends(node[n], new, w),
         NEW out, NEW used, CutShort(n, new, w, out, used)
  PROVE  \E kept \in Prefixes(w), log \in Seq(Values) :
           /\ Len(log) >= node[n].delivered_through
           /\ Len(log) <= new.delivered_through /\ Len(log) <= MaxSlot
           /\ kept # w => Len(log) = node[n].delivered_through
           /\ disk'[n] = ledger_replay_fold(disk[n], kept) /\ DOMAIN disk' = Node
           /\ \A k \in Node \ {n} : disk'[k] = disk[k]
           /\ Restarted(n, disk'[n], log)
           /\ LedgerTyped(disk'[n], Len(log) + Window)
           /\ disk'[n].anchor.chosen_trim_slot <= Len(log)
           /\ WritesTyped(kept, node[n].delivered_through + Window)
           /\ votes' = votes \cup VotesIn(n, kept)
<1> DEFINE T == node[n].delivered_through
<1>1. /\ NodeTyped(node[n]) /\ HostTyped(n) /\ DOMAIN disk = Node
  BY DEF TypeInv
<1>2. PICK kept \in Prefixes(w) :
        \E through \in T .. (IF kept = w THEN new.delivered_through ELSE T) :
         /\ disk' = [disk EXCEPT ![n] = ledger_replay_fold(disk[n], kept)]
         /\ Restarted(n, disk'[n], history[n] \o Released(new, w, T, through))
         /\ votes' = votes \cup VotesIn(n, kept)
  BY <1>1 DEF CutShort
<1>3. PICK through \in T .. (IF kept = w THEN new.delivered_through ELSE T) :
         /\ disk' = [disk EXCEPT ![n] = ledger_replay_fold(disk[n], kept)]
         /\ Restarted(n, disk'[n], history[n] \o Released(new, w, T, through))
         /\ votes' = votes \cup VotesIn(n, kept)
  BY <1>2
<1>4. T \in Nat /\ new.delivered_through \in 0 .. MaxSlot /\ T <= new.delivered_through
  BY <1>1, Constants DEF NodeTyped, Extends
<1>5. through \in T .. new.delivered_through /\ through \in Nat /\ through <= MaxSlot
  BY <1>4, Constants
<1>6. PICK r \in Seq(Values) : r = Released(new, w, T, through) /\ Len(r) = through - T
  BY <1>1, <1>5, ReleasedFacts
<1>7. PICK h \in Seq(Values) : h = history[n] /\ Len(h) = T
  BY <1>1 DEF HostTyped
<1>8. h \o r \in Seq(Values) /\ Len(h \o r) = through
  <2>1. h \o r \in Seq(Values) /\ Len(h \o r) = Len(h) + Len(r)
    BY ConcatProperties
  <2>2. QED
    BY <2>1, <1>4, <1>5, <1>6, <1>7
<1>9. Restarted(n, disk'[n], h \o r)
  BY <1>3, <1>6, <1>7
<1>10. disk'[n] = ledger_replay_fold(disk[n], kept) /\ DOMAIN disk' = Node
       /\ \A k \in Node \ {n} : disk'[k] = disk[k]
  BY <1>1, <1>3
<1>11. WritesTyped(kept, T + Window) /\ kept.trim.chosen_trim_slot <= T
  <2>1. WritesTyped(w, T + Window) /\ w.trim.chosen_trim_slot <= T
    BY DEF Extends
  <2>2. WritesTyped(kept, T + Window) /\ (kept.trim = w.trim \/ kept.trim = NoAnchor)
    BY <2>1, PrefixIsPart
  <2>3. QED
    BY <2>1, <2>2, <1>4 DEF NoAnchor
<1>12. LedgerTyped(disk'[n], through + Window) /\ disk'[n].anchor.chosen_trim_slot <= through
  <2>1. T + Window \in Nat /\ through + Window \in Nat /\ T + Window <= through + Window
    BY <1>4, <1>5, Constants
  <2>2. LedgerTyped(disk[n], T + Window) /\ disk[n].anchor.chosen_trim_slot <= T
    BY <1>1 DEF HostTyped
  <2>3. /\ LedgerTyped(disk'[n], T + Window)
        /\ disk'[n].anchor = IF kept.trim.trim_id > disk[n].anchor.trim_id
                               THEN kept.trim ELSE disk[n].anchor
    BY <2>1, <2>2, <1>10, <1>11, ReplayTyped
  <2>4. disk'[n].anchor.chosen_trim_slot <= T /\ disk'[n].anchor.chosen_trim_slot \in Nat
    BY <2>2, <2>3, <1>11, Constants DEF LedgerTyped, LedgerType, AnchorType
  <2>5. LedgerTyped(disk'[n], through + Window)
    BY <2>1, <2>3, WiderLedger
  <2>6. QED
    BY <2>4, <2>5, <1>4, <1>5
<1> HIDE DEF T
<1>13. /\ Len(h \o r) >= T /\ Len(h \o r) <= new.delivered_through /\ Len(h \o r) <= MaxSlot
       /\ kept # w => Len(h \o r) = T
  BY <1>3, <1>4, <1>5, <1>8, Constants
<1>14. LedgerTyped(disk'[n], Len(h \o r) + Window)
       /\ disk'[n].anchor.chosen_trim_slot <= Len(h \o r)
  BY <1>8, <1>12
<1>15. PICK log \in Seq(Values) : log = h \o r
  BY <1>8
<1>16. QED
  BY <1>3, <1>9, <1>10, <1>11, <1>13, <1>14, <1>15 DEF T

LEMMA CutShortIsTyped ==
  ASSUME TypeInv, ~LaggingHost, NEW n \in Node, NEW new, NEW w, Extends(node[n], new, w),
         NEW out, \A m \in out : MessageTyped(m), NEW used, CutShort(n, new, w, out, used)
  PROVE  TypeInv'
<1>1. PICK kept \in Prefixes(w), log \in Seq(Values) :
        /\ Len(log) <= MaxSlot /\ DOMAIN disk' = Node
        /\ \A k \in Node \ {n} : disk'[k] = disk[k]
        /\ Restarted(n, disk'[n], log)
        /\ LedgerTyped(disk'[n], Len(log) + Window)
        /\ disk'[n].anchor.chosen_trim_slot <= Len(log)
        /\ WritesTyped(kept, node[n].delivered_through + Window)
        /\ votes' = votes \cup VotesIn(n, kept)
  BY CutShortFacts
<1>2. votes' \subseteq VoteType
  <2>1. VotesIn(n, kept) \subseteq VoteType
    BY <1>1, VotesAreTyped
  <2>2. QED
    BY <1>1, <2>1 DEF TypeInv
<1>3. \A m \in net' : MessageTyped(m)
  BY DEF CutShort, TypeInv
<1>4. crashes' \in 0 .. MaxCrashes
  <2>1. crashes \in Nat /\ crashes < MaxCrashes /\ crashes' = crashes + 1
    BY Constants DEF CutShort, TypeInv
  <2>2. QED
    BY <2>1, Constants
<1>5. QED
  BY <1>1, <1>2, <1>3, <1>4, RestartIsTyped

\* Whether a transition is discharged whole or cut short, the types are kept.
LEMMA FinishIsTyped ==
  ASSUME TypeInv, ~LaggingHost, NEW n \in Node, NEW new, NEW w, Extends(node[n], new, w),
         NEW out, \A m \in out : MessageTyped(m), NEW used, Finish(n, new, w, out, used)
  PROVE  TypeInv'
<1>1. CASE Discharged(n, new, w, out, used)
  BY <1>1, DischargeIsTyped
<1>2. CASE CutShort(n, new, w, out, used)
  BY <1>2, CutShortIsTyped
<1>3. QED
  BY <1>1, <1>2 DEF Finish

-------------------------------------------------------------------------------
(* The messages of a transition.                                           *)

LEMMA MessageForms ==
  ASSUME NEW n \in Node
  PROVE  /\ \A p, q : \A b \in BallotSet, first \in Slot :
              MessageTyped(Prepare(n, p, b, first, slot_add(first, Chunk - 1)))
         /\ \A p : \A b \in BallotSet, s \in Slot, v \in Values :
              MessageTyped(Accept(n, p, b, s, v))
         /\ \A p : \A b \in BallotSet, s \in Slot : MessageTyped(Accepted(n, p, b, s))
         /\ \A p : \A s \in Slot, v \in Values : MessageTyped(Commit(n, p, s, v))
         /\ \A p : \A b, c \in BallotSet : MessageTyped(Nack(n, p, b, c))
         /\ \A p : \A s \in 1 .. (MaxSlot + 1) : MessageTyped(Learn(n, p, s))
         /\ \A p : \A b \in BallotSet, t \in 0 .. MaxSlot : MessageTyped(Heartbeat(n, p, b, t))
<1>1. \A p, q : \A b \in BallotSet, first \in Slot :
        MessageTyped(Prepare(n, p, b, first, slot_add(first, Chunk - 1)))
  BY DEF MessageTyped, Prepare
<1>2. \A p : \A b \in BallotSet, s \in Slot, v \in Values : MessageTyped(Accept(n, p, b, s, v))
  BY DEF MessageTyped, Accept
<1>3. \A p : \A b \in BallotSet, s \in Slot : MessageTyped(Accepted(n, p, b, s))
  BY DEF MessageTyped, Accepted
<1>4. \A p : \A s \in Slot, v \in Values : MessageTyped(Commit(n, p, s, v))
  BY DEF MessageTyped, Commit
<1>5. \A p : \A b, c \in BallotSet : MessageTyped(Nack(n, p, b, c))
  BY DEF MessageTyped, Nack
<1>6. \A p : \A s \in 1 .. (MaxSlot + 1) : MessageTyped(Learn(n, p, s))
  BY DEF MessageTyped, Learn
<1>7. \A p : \A b \in BallotSet, t \in 0 .. MaxSlot : MessageTyped(Heartbeat(n, p, b, t))
  BY DEF MessageTyped, Heartbeat
<1>8. QED
  BY <1>1, <1>2, <1>3, <1>4, <1>5, <1>6, <1>7

\* A cell that holds a decision, or a vote, holds them for a slot.
LEMMA UsedCellFacts ==
  ASSUME NEW l, NEW top, LedgerTyped(l, top), NEW c \in Cells, l.cell[c].state # "Empty"
  PROVE  /\ l.cell[c].slot \in Slot /\ l.cell[c].value \in Values
         /\ l.cell[c].vote_ballot \in BallotSet /\ l.cell[c].promised_at \in BallotSet
         /\ l.cell[c].state \in {"Voted", "Chosen"}
         /\ cell_of(l.cell[c].slot) = c
<1>1. l.cell[c] \in CellType(BallotSet) /\ CellTyped(l.cell[c], c)
  BY DEF LedgerTyped, LedgerType
<1>2. l.cell[c].slot # 0 /\ l.cell[c].slot \in 0 .. MaxSlot
  BY <1>1 DEF CellTyped, CellType
<1>3. l.cell[c].slot \in Slot
  BY <1>2, Constants DEF Slot
<1>4. QED
  BY <1>1, <1>2, <1>3 DEF CellTyped, CellType

LEMMA ChosenSlotFacts ==
  ASSUME NEW l, NEW top, LedgerTyped(l, top), NEW s \in Slot, ledger_is_chosen(l, s)
  PROVE  Cell(l, s).value \in Values /\ s <= top
<1>1. s \in Int
  BY Constants
<1>2. cell_of(s) \in Cells
  BY <1>1, CellOfSlot
<1>3. QED
  BY <1>2 DEF ledger_is_chosen, Cell, LedgerTyped, CellTyped

\* No more cells hold slots of a chunk than the chunk has slots.
LEMMA InsideFitsTheChunk ==
  ASSUME NEW l, NEW top, LedgerTyped(l, top), NEW first \in Slot, NEW S, S \subseteq UsedCells(l),
         \A c \in S : l.cell[c].slot \in first .. slot_add(first, Chunk - 1)
  PROVE  Cardinality(S) \in 0 .. Chunk
<1> DEFINE last == slot_add(first, Chunk - 1)
           f == [c \in S |-> l.cell[c].slot]
<1>1. first \in 0 .. (MaxSlot + 1) /\ Chunk - 1 \in Nat /\ first \in Int
  BY Constants DEF Slot
<1>2. last \in 0 .. MaxSlot /\ last <= first + (Chunk - 1) /\ last \in Int
  <2>1. last \in 0 .. MaxSlot /\ last <= first + (Chunk - 1)
    BY <1>1, SlotAdd
  <2>2. QED
    BY <2>1, Constants
<1>3. S \subseteq Cells /\ \A c \in S : l.cell[c].state # "Empty"
  BY DEF UsedCells
<1>4. \A c \in S : cell_of(l.cell[c].slot) = c
  BY <1>3, UsedCellFacts
<1>5. f \in Injection(S, first .. last)
  <2>1. f \in [S -> first .. last]
    OBVIOUS
  <2>2. \A c, d \in S : f[c] = f[d] => c = d
    BY <1>4
  <2>3. QED
    BY <2>1, <2>2 DEF Injection, IsInjective
<1>6. IsFiniteSet(first .. last)
      /\ Cardinality(first .. last) = IF first > last THEN 0 ELSE last - first + 1
  BY <1>1, <1>2, FS_Interval
<1> HIDE DEF f, last
<1>7. IsFiniteSet(S) /\ Cardinality(S) <= Cardinality(first .. last)
  BY <1>5, <1>6, FS_Injection
<1>8. Cardinality(S) \in Nat
  BY <1>7, FS_CardinalityType
<1>9. Cardinality(first .. last) \in Nat /\ Cardinality(first .. last) <= Chunk
  BY <1>1, <1>2, <1>6, Constants
<1>10. QED
  BY <1>7, <1>8, <1>9, Constants

-------------------------------------------------------------------------------
(* Small changes of a node.                                                *)

LEMMA QuietExtends ==
  ASSUME NEW nd, NodeTyped(nd), NEW new, NodeTyped(new),
         new.delivered_through = nd.delivered_through, new.memory_floor >= nd.memory_floor,
         NEW w, WritesTyped(w, nd.delivered_through + Window),
         w.trim.chosen_trim_slot <= nd.delivered_through
  PROVE  Extends(nd, new, w)
<1>1. nd.delivered_through \in Nat
  BY Constants DEF NodeTyped
<1>2. (nd.delivered_through + 1) .. new.delivered_through = {}
  BY <1>1
<1>3. QED
  BY <1>1, <1>2 DEF Extends

LEMMA StayExtends ==
  ASSUME NEW nd, NodeTyped(nd), NEW new, NodeTyped(new),
         new.delivered_through = nd.delivered_through, new.memory_floor = nd.memory_floor
  PROVE  /\ Extends(nd, new, NoWrites)
         /\ \A b \in BallotSet : Extends(nd, new, WritePromise(b))
<1>1. nd.delivered_through \in Nat /\ nd.memory_floor \in Nat /\ new.memory_floor >= nd.memory_floor
  BY Constants DEF NodeTyped
<1>2. NoAnchor.chosen_trim_slot <= nd.delivered_through
  BY <1>1 DEF NoAnchor
<1>3. QED
  BY <1>1, <1>2, QuietExtends, EmptyBatch, PromiseBatch

LEMMA PromisedLedger ==
  ASSUME NEW l, NEW top, LedgerTyped(l, top), NEW b \in BallotSet
  PROVE  /\ LedgerTyped([l EXCEPT !.promised = b], top)
         /\ [l EXCEPT !.promised = b].cell = l.cell
         /\ [l EXCEPT !.promised = b].anchor = l.anchor
         /\ [l EXCEPT !.promised = b].promised = b
  BY DEF LedgerTyped, LedgerType

LEMMA PromisedFacts ==
  ASSUME NEW nd, NodeTyped(nd), NEW b \in BallotSet
  PROVE  LET new == [nd EXCEPT !.ledger.promised = b] IN
         /\ NodeTyped(new)
         /\ new = [nd EXCEPT !.ledger = new.ledger]
         /\ new.ledger = [nd.ledger EXCEPT !.promised = b]
         /\ new.delivered_through = nd.delivered_through /\ new.memory_floor = nd.memory_floor
<1> DEFINE new == [nd EXCEPT !.ledger.promised = b]
           l == [nd.ledger EXCEPT !.promised = b]
<1>1. LedgerTyped(l, nd.memory_floor + Window) /\ l.anchor = nd.ledger.anchor
  BY PromisedLedger DEF NodeTyped
<1>2. new = [nd EXCEPT !.ledger = l]
  OBVIOUS
<1> HIDE DEF l
<1>3. new.ledger = l
  BY <1>2 DEF NodeTyped
<1>4. NodeTyped(new)
  BY <1>1, <1>2 DEF NodeTyped
<1>5. new.delivered_through = nd.delivered_through /\ new.memory_floor = nd.memory_floor
  BY <1>2 DEF NodeTyped
<1>6. QED
  BY <1>2, <1>3, <1>4, <1>5 DEF l

LEMMA LargerRound ==
  ASSUME NEW r \in 0 .. MaxRound, NEW b \in BallotSet
  PROVE  MaxOf(r, ballot_round(b)) \in 0 .. MaxRound
  BY BallotsAreBounded DEF MaxOf

LEMMA FollowFacts ==
  ASSUME NEW nd, NodeTyped(nd)
  PROVE  /\ NodeTyped(Follow(nd))
         /\ Follow(nd).role = "Follower" /\ Follow(nd).ledger = nd.ledger
         /\ Follow(nd).lead = nd.lead /\ Follow(nd).ballot = nd.ballot
         /\ Follow(nd).next_slot = nd.next_slot
         /\ Follow(nd).delivered_through = nd.delivered_through
         /\ Follow(nd).memory_floor = nd.memory_floor
<1> DEFINE new == Follow(nd)
<1>1. new = [nd EXCEPT !.role = "Follower", !.recovery = NoRecovery]
  BY DEF Follow
<1>2. /\ new.role = "Follower" /\ new.ballot = nd.ballot
      /\ new.highest_observed_round = nd.highest_observed_round
      /\ new.next_slot = nd.next_slot /\ new.leader_base = nd.leader_base
      /\ new.delivered_through = nd.delivered_through /\ new.memory_floor = nd.memory_floor
      /\ new.campaign_enabled = nd.campaign_enabled /\ new.ledger = nd.ledger
      /\ new.recovery = NoRecovery /\ new.lead = nd.lead
  BY <1>1 DEF NodeTyped
<1>3. new = [role |-> new.role, ballot |-> new.ballot,
           highest_observed_round |-> new.highest_observed_round,
           next_slot |-> new.next_slot, leader_base |-> new.leader_base,
           delivered_through |-> new.delivered_through, memory_floor |-> new.memory_floor,
           campaign_enabled |-> new.campaign_enabled, ledger |-> new.ledger,
           recovery |-> new.recovery, lead |-> new.lead]
  BY <1>1, <1>2 DEF NodeTyped
<1> HIDE DEF new
<1>4. NodeTyped(new)
  BY <1>2, <1>3 DEF NodeTyped
<1>5. QED
  BY <1>2, <1>4 DEF new

LEMMA ObserveFacts ==
  ASSUME NEW nd, NodeTyped(nd), NEW b \in BallotSet
  PROVE  /\ NodeTyped(observe_leader(nd, b))
         /\ observe_leader(nd, b).ledger = nd.ledger
         /\ observe_leader(nd, b).lead = nd.lead
         /\ observe_leader(nd, b).ballot = nd.ballot
         /\ observe_leader(nd, b).next_slot = nd.next_slot
         /\ observe_leader(nd, b).delivered_through = nd.delivered_through
         /\ observe_leader(nd, b).memory_floor = nd.memory_floor
         /\ \/ nd.ballot = b /\ observe_leader(nd, b).role = nd.role
            \/ nd.ballot # b /\ observe_leader(nd, b).role = "Follower"
<1> DEFINE r == MaxOf(nd.highest_observed_round, ballot_round(b))
           seen == [nd EXCEPT !.highest_observed_round = r]
<1>1. r \in 0 .. MaxRound
  BY LargerRound DEF NodeTyped
<1> HIDE DEF r
<1>2. NodeTyped(seen)
  BY <1>1 DEF NodeTyped
<1>3. NodeTyped([seen EXCEPT !.role = "Follower", !.recovery = NoRecovery])
  <2>1. NodeTyped(Follow(seen))
    BY <1>2, FollowFacts
  <2>2. QED
    BY <2>1 DEF Follow
<1>4. observe_leader(nd, b) = IF nd.ballot = b THEN seen
                              ELSE [seen EXCEPT !.role = "Follower", !.recovery = NoRecovery]
  BY DEF observe_leader, Follow, NodeTyped, r
<1>5. QED
  BY <1>2, <1>3, <1>4 DEF NodeTyped

-------------------------------------------------------------------------------
(* Transitions that touch no cell.                                         *)

\* A node that campaigns or leads does so in the ballot it had, or in one above every
\* ballot of its ledger.
InTerm(nd, new) ==
  \/ new.role = "Follower"
  \/ /\ nd.role # "Follower" /\ new.ballot = nd.ballot
     /\ new.ledger.promised \in {nd.ledger.promised, nd.ballot}
  \/ new.ledger.promised = new.ballot /\ ledger_highest_ballot(nd.ledger) < new.ballot

\* Nothing is released, and no record of a slot is written.
Idles(nd, new, w) ==
  /\ Extends(nd, new, w)
  /\ new.delivered_through = nd.delivered_through /\ new.memory_floor = nd.memory_floor
  /\ new.ledger.cell = nd.ledger.cell /\ new.ledger.anchor = nd.ledger.anchor
  /\ new.ledger.promised = MaxOf(nd.ledger.promised, w.promise)
  /\ WrittenSlots(w) = {} /\ w.trim = NoAnchor
  /\ InTerm(nd, new)

IdleStep(n) ==
  \E new, w, out, used : /\ Finish(n, new, w, out, used)
                         /\ Idles(node[n], new, w)
                         /\ \A m \in out : MessageTyped(m)

LEMMA NodeFacts ==
  ASSUME TypeInv, NEW n \in Node
  PROVE  /\ NodeTyped(node[n]) /\ HostTyped(n)
         /\ node[n].ballot \in BallotSet /\ node[n].ledger.promised \in BallotSet
         /\ node[n].delivered_through \in 0 .. MaxSlot /\ node[n].delivered_through \in Nat
         /\ node[n].memory_floor \in 0 .. node[n].delivered_through
         /\ node[n].memory_floor \in Nat
         /\ LedgerTyped(node[n].ledger, node[n].memory_floor + Window)
         /\ node[n].ledger.anchor \in AnchorType
  BY Constants DEF TypeInv, NodeTyped, LedgerTyped, LedgerType

LEMMA StayIdles ==
  ASSUME TypeInv, NEW n \in Node, NEW new, NodeTyped(new),
         new.delivered_through = node[n].delivered_through,
         new.memory_floor = node[n].memory_floor,
         new.ledger.cell = node[n].ledger.cell, new.ledger.anchor = node[n].ledger.anchor,
         InTerm(node[n], new)
  PROVE  /\ new.ledger.promised = node[n].ledger.promised => Idles(node[n], new, NoWrites)
         /\ \A b \in BallotSet : new.ledger.promised = b /\ b >= node[n].ledger.promised
              => Idles(node[n], new, WritePromise(b))
<1>1. \A b \in BallotSet : MaxOf(b, BALLOT_ZERO) = b
  BY BallotOrder
<1>2. \A b \in BallotSet : b >= node[n].ledger.promised => MaxOf(node[n].ledger.promised, b) = b
  BY NodeFacts, BallotOrder
<1>3. QED
  BY <1>1, <1>2, NodeFacts, StayExtends, EmptyBatch, PromiseBatch DEF Idles

LEMMA SameNodeIdles ==
  ASSUME TypeInv, NEW n \in Node
  PROVE  Idles(node[n], node[n], NoWrites)
  BY NodeFacts, StayIdles DEF InTerm

LEMMA PromiseAndObserve ==
  ASSUME NEW nd, NodeTyped(nd), NEW b \in BallotSet
  PROVE  LET new == observe_leader([nd EXCEPT !.ledger.promised = b], b) IN
         /\ NodeTyped(new) /\ new.ledger.cell = nd.ledger.cell /\ new.ledger.promised = b
         /\ new.ledger.anchor = nd.ledger.anchor
         /\ new.delivered_through = nd.delivered_through /\ new.memory_floor = nd.memory_floor
         /\ InTerm(nd, new)
<1>1. PICK mid : mid = [nd EXCEPT !.ledger.promised = b]
  OBVIOUS
<1>2. /\ NodeTyped(mid) /\ mid.ledger = [nd.ledger EXCEPT !.promised = b]
      /\ mid.delivered_through = nd.delivered_through /\ mid.memory_floor = nd.memory_floor
      /\ mid = [nd EXCEPT !.ledger = mid.ledger]
  BY <1>1, PromisedFacts
<1>3. mid.ballot = nd.ballot /\ mid.role = nd.role
  BY <1>2 DEF NodeTyped
<1>4. mid.ledger.cell = nd.ledger.cell /\ mid.ledger.promised = b
      /\ mid.ledger.anchor = nd.ledger.anchor
  BY <1>2, PromisedLedger DEF NodeTyped
<1>5. PICK new : new = observe_leader(mid, b)
  OBVIOUS
<1>6. /\ NodeTyped(new) /\ new.ledger = mid.ledger /\ new.ballot = mid.ballot
      /\ new.delivered_through = mid.delivered_through /\ new.memory_floor = mid.memory_floor
      /\ (mid.ballot = b /\ new.role = mid.role) \/ new.role = "Follower"
  BY <1>2, <1>5, ObserveFacts
<1>7. InTerm(nd, new)
  BY <1>3, <1>4, <1>6 DEF InTerm
<1>8. QED
  BY <1>1, <1>2, <1>3, <1>4, <1>5, <1>6, <1>7

LEMMA OnPrepareIdles ==
  ASSUME TypeInv, NEW n \in Node, NEW m \in Received(n, "Prepare"), OnPrepare(n, m)
  PROVE  IdleStep(n)
<1> DEFINE nd == node[n]
           l == nd.ledger
           cells == Reported(l, m.first)
           inside == {c \in cells : l.cell[c].slot <= m.last}
           range == [type |-> "Promise_Range", from |-> n, to |-> m.from, ballot |-> m.ballot,
                     anchor |-> l.anchor, chosen_through |-> nd.delivered_through,
                     first |-> m.first, last |-> m.last,
                     reported |-> Cardinality(inside), more |-> inside # cells]
           out == {Promise(n, m.from, m.ballot, l.cell[c]) : c \in inside} \cup {range}
           new == observe_leader([nd EXCEPT !.ledger.promised = m.ballot], m.ballot)
<1>1. /\ m.ballot \in BallotSet /\ m.first \in Slot /\ m.last = slot_add(m.first, Chunk - 1)
  BY DEF Received, TypeInv, MessageTyped
<1>2. NodeTyped(nd) /\ l.promised \in BallotSet /\ LedgerTyped(l, nd.memory_floor + Window)
  BY NodeFacts
<1>3. CASE /\ m.ballot < l.promised
           /\ Finish(n, nd, NoWrites, {Nack(n, m.from, m.ballot, l.promised)}, Consumed(m))
  <2>1. MessageTyped(Nack(n, m.from, m.ballot, l.promised))
    BY <1>1, <1>2, MessageForms
  <2>2. QED
    BY <1>3, <2>1, SameNodeIdles DEF IdleStep
<1>4. CASE /\ m.ballot >= l.promised
           /\ Finish(n, new, IF m.ballot = l.promised THEN NoWrites ELSE WritePromise(m.ballot),
                     out, Consumed(m))
  <2>1. \A c \in inside : /\ c \in Cells /\ l.cell[c].state # "Empty"
                          /\ l.cell[c].slot >= m.first /\ l.cell[c].slot <= m.last
    BY DEF Reported, UsedCells
  <2>2. \A c \in inside : MessageTyped(Promise(n, m.from, m.ballot, l.cell[c]))
    <3> SUFFICES ASSUME NEW c \in inside
                 PROVE  MessageTyped(Promise(n, m.from, m.ballot, l.cell[c]))
      OBVIOUS
    <3>1. /\ l.cell[c].slot \in Slot /\ l.cell[c].value \in Values
          /\ l.cell[c].vote_ballot \in BallotSet /\ l.cell[c].state \in {"Voted", "Chosen"}
      BY <1>2, <2>1, UsedCellFacts
    <3>2. QED
      BY <1>1, <3>1 DEF MessageTyped, Promise
  <2>3. Cardinality(inside) \in 0 .. Chunk
    <3>1. inside \subseteq UsedCells(l)
      BY DEF Reported
    <3>2. \A c \in inside : l.cell[c].slot \in Slot
      BY <1>2, <2>1, UsedCellFacts
    <3>3. \A c \in inside : l.cell[c].slot \in m.first .. slot_add(m.first, Chunk - 1)
      <4>1. m.first \in 0 .. (MaxSlot + 1) /\ Chunk - 1 \in Nat
        BY <1>1, Constants DEF Slot
      <4>2. m.last \in 0 .. MaxSlot
        BY <1>1, <4>1, SlotAdd
      <4>3. m.first \in Int /\ m.last \in Int /\ \A c \in inside : l.cell[c].slot \in Int
        BY <3>2, <4>1, <4>2, Constants DEF Slot
      <4> HIDE DEF inside
      <4>4. QED
        BY <1>1, <2>1, <4>3
    <3>4. QED
      BY <1>1, <1>2, <3>1, <3>3, InsideFitsTheChunk
  <2>4. inside # cells => m.last < MaxSlot
    <3> SUFFICES ASSUME inside # cells PROVE m.last < MaxSlot
      OBVIOUS
    <3>1. PICK c \in cells : ~(l.cell[c].slot <= m.last)
      OBVIOUS
    <3>2. c \in Cells /\ l.cell[c].state # "Empty"
      BY DEF Reported, UsedCells
    <3>3. l.cell[c].slot \in 1 .. MaxSlot
      BY <1>2, <3>2, UsedCellFacts DEF Slot
    <3>4. m.first \in 0 .. (MaxSlot + 1) /\ Chunk - 1 \in Nat
      BY <1>1, Constants DEF Slot
    <3>5. m.last \in 0 .. MaxSlot
      BY <1>1, <3>4, SlotAdd
    <3>6. QED
      BY <3>1, <3>3, <3>5, Constants
  <2>5. MessageTyped(range)
    <3>1. l.anchor \in AnchorType /\ nd.delivered_through \in 0 .. MaxSlot
      BY NodeFacts
    <3>2. (inside # cells) \in BOOLEAN
      OBVIOUS
    <3> DEFINE k == Cardinality(inside)
               more == inside # cells
    <3> HIDE DEF k, more, inside, cells
    <3>3. QED
      BY <1>1, <2>3, <2>4, <3>1, <3>2 DEF MessageTyped, k, more
  <2>6. \A x \in out : MessageTyped(x)
    BY <2>2, <2>5
  <2>7. /\ NodeTyped(new) /\ new.ledger.cell = l.cell /\ new.ledger.promised = m.ballot
        /\ new.ledger.anchor = l.anchor
        /\ new.delivered_through = nd.delivered_through /\ new.memory_floor = nd.memory_floor
        /\ InTerm(nd, new)
    BY <1>1, <1>2, PromiseAndObserve
  <2> HIDE DEF new, out
  <2>8. Idles(nd, new, IF m.ballot = l.promised THEN NoWrites ELSE WritePromise(m.ballot))
    BY <1>1, <1>4, <2>7, StayIdles
  <2>9. QED
    BY <1>4, <2>6, <2>8 DEF IdleStep
<1>5. QED
  BY <1>3, <1>4 DEF OnPrepare

LEMMA OnHeartbeatIdles ==
  ASSUME TypeInv, NEW n \in Node, NEW m \in Received(n, "Heartbeat"), OnHeartbeat(n, m)
  PROVE  IdleStep(n)
<1> DEFINE nd == node[n]
           l == nd.ledger
           new == observe_leader([nd EXCEPT !.ledger.promised = m.ballot], m.ballot)
           out == IF m.decided_through > nd.delivered_through
                    THEN {LearnFrom(n, nd, m.from)} ELSE {}
<1>1. m.ballot \in BallotSet /\ m.decided_through \in 0 .. MaxSlot
  BY DEF Received, TypeInv, MessageTyped
<1>2. NodeTyped(nd) /\ l.promised \in BallotSet /\ nd.delivered_through \in 0 .. MaxSlot
  BY NodeFacts
<1>3. CASE /\ m.ballot < l.promised
           /\ Finish(n, nd, NoWrites, {Nack(n, m.from, m.ballot, l.promised)}, Consumed(m))
  <2>1. MessageTyped(Nack(n, m.from, m.ballot, l.promised))
    BY <1>1, <1>2, MessageForms
  <2>2. QED
    BY <1>3, <2>1, SameNodeIdles DEF IdleStep
<1>4. CASE /\ m.ballot >= l.promised
           /\ Finish(n, new, IF m.ballot = l.promised THEN NoWrites ELSE WritePromise(m.ballot),
                     out, Consumed(m))
  <2>1. \A x \in out : MessageTyped(x)
    <3>1. nd.delivered_through + 1 \in 1 .. (MaxSlot + 1)
      BY <1>2, Constants
    <3>2. MessageTyped(Learn(n, m.from, nd.delivered_through + 1))
      BY <3>1, MessageForms
    <3>3. QED
      BY <3>2 DEF LearnFrom
  <2>2. /\ NodeTyped(new) /\ new.ledger.cell = l.cell /\ new.ledger.promised = m.ballot
        /\ new.ledger.anchor = l.anchor
        /\ new.delivered_through = nd.delivered_through /\ new.memory_floor = nd.memory_floor
        /\ InTerm(nd, new)
    BY <1>1, <1>2, PromiseAndObserve
  <2> HIDE DEF new, out
  <2>3. Idles(nd, new, IF m.ballot = l.promised THEN NoWrites ELSE WritePromise(m.ballot))
    BY <1>1, <1>4, <2>2, StayIdles
  <2>4. QED
    BY <1>4, <2>1, <2>3 DEF IdleStep
<1>5. QED
  BY <1>3, <1>4 DEF OnHeartbeat

LEMMA OnNackIdles ==
  ASSUME TypeInv, NEW n \in Node, NEW m \in Received(n, "Nack"), OnNack(n, m)
  PROVE  IdleStep(n)
<1> DEFINE nd == node[n]
           r == MaxOf(nd.highest_observed_round, ballot_round(m.promised))
           seen == [nd EXCEPT !.highest_observed_round = r]
           new == IF m.rejected = nd.ballot /\ m.promised > nd.ballot THEN Follow(seen) ELSE seen
<1>1. m.promised \in BallotSet
  BY DEF Received, TypeInv, MessageTyped
<1>2. NodeTyped(nd) /\ nd.highest_observed_round \in 0 .. MaxRound
  BY NodeFacts DEF NodeTyped
<1>3. r \in 0 .. MaxRound
  BY <1>1, <1>2, LargerRound
<1>4. seen = [nd EXCEPT !.highest_observed_round =
                MaxOf(@, ballot_round(m.promised))]
  BY <1>2 DEF NodeTyped
<1>5. Finish(n, new, NoWrites, {}, Consumed(m))
  BY <1>4 DEF OnNack
<1> HIDE DEF r
<1>6. /\ NodeTyped(seen) /\ seen.ledger = nd.ledger /\ seen.role = nd.role
      /\ seen.ballot = nd.ballot
      /\ seen.delivered_through = nd.delivered_through /\ seen.memory_floor = nd.memory_floor
  BY <1>2, <1>3 DEF NodeTyped
<1> HIDE DEF seen
<1>7. /\ NodeTyped(new) /\ new.ledger = nd.ledger
      /\ new.delivered_through = nd.delivered_through /\ new.memory_floor = nd.memory_floor
      /\ new.role = "Follower" \/ (new.role = nd.role /\ new.ballot = nd.ballot)
  BY <1>6, FollowFacts
<1> HIDE DEF new
<1>8. InTerm(nd, new)
  BY <1>7 DEF InTerm
<1>9. Idles(nd, new, NoWrites)
  BY <1>7, <1>8, StayIdles
<1>10. QED
  BY <1>5, <1>9 DEF IdleStep

\* The decisions a node answers a Learn with are in its window, or its host has them.
LEMMA OnLearnIdles ==
  ASSUME TypeInv, NEW n \in Node, NEW m \in Received(n, "Learn"), OnLearn(n, m)
  PROVE  IdleStep(n)
<1> DEFINE nd == node[n]
           last == slot_add(m.from_slot, Chunk - 1)
           asked == m.from_slot .. last
           resident == {s \in asked : ledger_is_chosen(nd.ledger, s)}
           served == {s \in asked : s <= nd.memory_floor}
           out == {Commit(n, m.from, s, Cell(nd.ledger, s).value) : s \in resident} \cup
                  {Commit(n, m.from, s, history[n][s]) : s \in served}
<1>1. m.from_slot \in 1 .. (MaxSlot + 1)
  BY DEF Received, TypeInv, MessageTyped
<1>2. last \in 0 .. MaxSlot
  <2>1. m.from_slot \in 0 .. (MaxSlot + 1) /\ Chunk - 1 \in Nat
    BY <1>1, Constants
  <2>2. QED
    BY <2>1, SlotAdd
<1>3. asked \subseteq Slot
  <2> HIDE DEF last
  <2>1. QED
    BY <1>1, <1>2, Constants DEF Slot
<1> HIDE DEF asked
<1>4. \A s \in resident : MessageTyped(Commit(n, m.from, s, Cell(nd.ledger, s).value))
  <2>1. LedgerTyped(nd.ledger, nd.memory_floor + Window)
    BY NodeFacts
  <2>2. \A s \in resident : s \in Slot /\ Cell(nd.ledger, s).value \in Values
    BY <1>3, <2>1, ChosenSlotFacts
  <2>3. QED
    BY <2>2, MessageForms
<1>5. \A s \in served : MessageTyped(Commit(n, m.from, s, history[n][s]))
  <2>1. /\ history[n] \in Seq(Values) /\ Len(history[n]) = nd.delivered_through
        /\ nd.memory_floor \in 0 .. nd.delivered_through /\ nd.delivered_through \in Nat
    BY NodeFacts DEF HostTyped
  <2>2. \A s \in served : s \in Slot /\ s \in 1 .. Len(history[n])
    <3> SUFFICES ASSUME NEW s \in served PROVE s \in Slot /\ s \in 1 .. Len(history[n])
      OBVIOUS
    <3>1. s \in Slot /\ s <= nd.memory_floor
      BY <1>3
    <3>2. s \in Nat /\ s >= 1
      BY <3>1, Constants DEF Slot
    <3>3. QED
      BY <2>1, <3>1, <3>2
  <2>3. \A s \in served : history[n][s] \in Values
    BY <2>1, <2>2
  <2>4. QED
    BY <2>2, <2>3, MessageForms
<1>6. Finish(n, nd, NoWrites, out, Consumed(m))
  BY DEF OnLearn, asked
<1>7. \A x \in out : MessageTyped(x)
  BY <1>4, <1>5
<1> HIDE DEF out
<1>8. QED
  BY <1>6, <1>7, SameNodeIdles DEF IdleStep

LEMMA SendHeartbeatIdles ==
  ASSUME TypeInv, NEW n \in Node, SendHeartbeat(n)
  PROVE  IdleStep(n)
<1>1. node[n].ballot \in BallotSet /\ node[n].delivered_through \in 0 .. MaxSlot
  BY NodeFacts
<1>2. \A p : MessageTyped(Heartbeat(n, p, node[n].ballot, node[n].delivered_through))
  BY <1>1, MessageForms
<1>3. QED
  BY <1>2, SameNodeIdles DEF SendHeartbeat, IdleStep

LEMMA CatchUpIdles ==
  ASSUME TypeInv, NEW n \in Node, NEW p, CatchUp(n, p)
  PROVE  IdleStep(n)
<1>1. node[n].delivered_through + 1 \in 1 .. (MaxSlot + 1)
  BY NodeFacts, Constants
<1>2. MessageTyped(LearnFrom(n, node[n], p))
  BY <1>1, MessageForms DEF LearnFrom
<1>3. QED
  BY <1>2, SameNodeIdles DEF CatchUp, IdleStep

LEMMA ResendToIdles ==
  ASSUME TypeInv, NEW n \in Node, NEW p, ResendTo(n, p)
  PROVE  IdleStep(n)
<1> DEFINE nd == node[n]
           l == nd.ledger
           chosen == {c \in Cells : l.cell[c].state = "Chosen"}
           driven == {c \in Cells : /\ l.cell[c].state = "Voted"
                                    /\ nd.lead[c].slot = l.cell[c].slot
                                    /\ nd.lead[c].ballot = l.cell[c].vote_ballot}
           out == {Commit(n, p, l.cell[c].slot, l.cell[c].value) : c \in chosen} \cup
                  {Accept(n, p, nd.lead[c].ballot, l.cell[c].slot, l.cell[c].value) : c \in driven}
<1>1. LedgerTyped(l, nd.memory_floor + Window) /\ nd.lead \in [Cells -> LeadType]
  BY NodeFacts DEF NodeTyped
<1>2. \A c \in chosen \cup driven : /\ c \in Cells /\ l.cell[c].slot \in Slot
                                    /\ l.cell[c].value \in Values
  BY <1>1, UsedCellFacts
<1>3. \A c \in driven : nd.lead[c].ballot \in BallotSet
  BY <1>1 DEF LeadType
<1>4. \A x \in out : MessageTyped(x)
  BY <1>2, <1>3, MessageForms
<1>5. Finish(n, nd, NoWrites, out, {})
  BY DEF ResendTo
<1> HIDE DEF out
<1>6. QED
  BY <1>4, <1>5, SameNodeIdles DEF IdleStep

\* The greatest ballot of a ledger is one of BallotSet, above all its cells'.
LEMMA HighestBallot ==
  ASSUME NEW l, NEW top, LedgerTyped(l, top)
  PROVE  /\ ledger_highest_ballot(l) \in BallotSet
         /\ l.promised <= ledger_highest_ballot(l)
         /\ \A c \in Cells : /\ l.cell[c].promised_at <= ledger_highest_ballot(l)
                             /\ l.cell[c].vote_ballot <= ledger_highest_ballot(l)
         /\ \A b \in BallotSet :
              /\ l.promised <= b
              /\ \A c \in Cells : l.cell[c].promised_at <= b /\ l.cell[c].vote_ballot <= b
              => ledger_highest_ballot(l) <= b
<1> DEFINE S == {l.promised} \cup {l.cell[c].promised_at : c \in Cells}
                  \cup {l.cell[c].vote_ballot : c \in Cells}
           B == ballot_make(MaxRound + 1, 0, 1)
<1>1. l.promised \in BallotSet
      /\ \A c \in Cells : l.cell[c].promised_at \in BallotSet /\ l.cell[c].vote_ballot \in BallotSet
  BY DEF LedgerTyped, LedgerType, CellType
<1>2. S \subseteq BallotSet /\ S # {}
  BY <1>1
<1>3. S \subseteq Nat /\ B \in Nat /\ \A x \in S : x <= B
  BY <1>2, BallotsAreBounded
<1>4. Max(S) \in S /\ \A x \in S : x <= Max(S)
  <2> HIDE DEF S, B
  <2>1. QED
    BY <1>2, <1>3, MaxIsGreatest
<1>5. ledger_highest_ballot(l) = Max(S)
  BY DEF ledger_highest_ballot
<1> DEFINE h == Max(S)
<1>6. h \in S /\ \A x \in S : x <= h
  BY <1>4
<1> HIDE DEF h
<1>7. /\ h \in BallotSet /\ l.promised <= h
      /\ \A c \in Cells : l.cell[c].promised_at <= h /\ l.cell[c].vote_ballot <= h
  BY <1>2, <1>6
<1>8. \A b \in BallotSet :
        (/\ l.promised <= b
         /\ \A c \in Cells : l.cell[c].promised_at <= b /\ l.cell[c].vote_ballot <= b) => h <= b
  BY <1>6
<1>9. QED
  BY <1>5, <1>7, <1>8 DEF h

LEMMA NewRecoveryTyped ==
  ASSUME NEW base \in Slot, NEW peers \in [Node -> PeerType],
         \A p \in Node : ~peers[p].more
  PROVE  RecoveryTyped(NewRecovery(base, peers))
<1> DEFINE last == slot_add(base, Chunk - 1)
           rec == NewRecovery(base, peers)
<1>1. rec = [base |-> base, last |-> last, ready |-> FALSE, more |-> FALSE,
             peer |-> peers, recovered |-> [s \in base .. last |-> NoReport]]
  BY DEF NewRecovery, ChunkSlots
<1>2. NoReport \in ReportType /\ NoReport.state = "Empty"
  BY BallotsAreBounded DEF NoReport, ReportType
<1> HIDE DEF last
<1>3. /\ rec.base = base /\ rec.last = last /\ rec.ready = FALSE /\ rec.more = FALSE
      /\ rec.peer = peers /\ rec.recovered = [s \in base .. last |-> NoReport]
  BY <1>1
<1>4. rec.recovered \in [base .. last -> ReportType]
  BY <1>2, <1>3
<1>5. \A s \in base .. last : rec.recovered[s].state = "Empty"
  BY <1>2, <1>3
<1>6. rec = [base |-> rec.base, last |-> rec.last, ready |-> rec.ready, more |-> rec.more,
             peer |-> rec.peer, recovered |-> rec.recovered]
  BY <1>1
<1> HIDE DEF rec
<1>7. RecoveryTyped(rec)
  BY <1>3, <1>4, <1>5, <1>6 DEF RecoveryTyped, last
<1>8. QED
  BY <1>7 DEF rec

\* start_campaign: the new ballot is above everything the node has seen.
LEMMA StartCampaignFacts ==
  ASSUME TypeInv, NEW n \in Node, StartCampaign(n)
  PROVE  \E b, new :
           LET rec == NewRecovery(node[n].delivered_through + 1, [p \in Node |-> NoPeer])
               out == {Prepare(n, p, b, rec.base, rec.last) : p \in Node}
           IN  /\ b \in BallotSet /\ Finish(n, new, WritePromise(b), out, {})
               /\ Idles(node[n], new, WritePromise(b)) /\ \A m \in out : MessageTyped(m)
               /\ GreatestRound(node[n]) + 1 \in 1 .. MaxRound
               /\ b = ballot_make(GreatestRound(node[n]) + 1, Priority[n], n)
               /\ ledger_highest_ballot(node[n].ledger) < b
               /\ node[n].delivered_through + 1 \in Slot
               /\ RecoveryTyped(rec) /\ rec.base = node[n].delivered_through + 1
               /\ new.role = "Preparing" /\ new.ballot = b /\ new.ledger.promised = b
               /\ new.recovery = rec /\ new.lead = NoLead
               /\ new.next_slot = node[n].next_slot
<1> DEFINE nd == node[n]
           g == GreatestRound(nd)
           b == ballot_make(g + 1, Priority[n], n)
           base == nd.delivered_through + 1
           peers == [p \in Node |-> NoPeer]
           rec == NewRecovery(base, peers)
           new == [nd EXCEPT !.ballot = b, !.role = "Preparing", !.recovery = rec,
                             !.lead = NoLead, !.ledger.promised = b]
           out == {Prepare(n, p, b, rec.base, rec.last) : p \in Node}
<1>1. /\ NodeTyped(nd) /\ nd.ballot \in BallotSet /\ nd.delivered_through \in 0 .. MaxSlot
      /\ nd.highest_observed_round \in 0 .. MaxRound
      /\ LedgerTyped(nd.ledger, nd.memory_floor + Window)
  BY NodeFacts DEF NodeTyped
<1>2. /\ nd.delivered_through # MaxSlot /\ g < MaxRound
      /\ Finish(n, new, WritePromise(b), out, {})
  BY DEF StartCampaign, CampaignDue, CampaignWrites
<1>3. /\ g \in 0 .. MaxRound /\ ballot_round(ledger_highest_ballot(nd.ledger)) <= g
  <2> DEFINE x == ballot_round(nd.ballot)
             y == ballot_round(ledger_highest_ballot(nd.ledger))
             S == {nd.highest_observed_round, x, y}
  <2>1. x \in 0 .. MaxRound /\ y \in 0 .. MaxRound
    BY <1>1, HighestBallot, BallotsAreBounded
  <2> HIDE DEF x, y
  <2>2. S \subseteq Nat /\ S # {} /\ \A e \in S : e <= MaxRound
    BY <1>1, <2>1, Constants
  <2>3. Max(S) \in S /\ \A e \in S : e <= Max(S)
    BY <2>2, Constants, MaxIsGreatest
  <2>4. g = Max(S)
    BY DEF GreatestRound, x, y
  <2> HIDE DEF g
  <2>5. QED
    BY <2>1, <2>3, <2>4, <1>1 DEF y
<1> HIDE DEF g
<1>4. b \in BallotSet
  <2>1. g + 1 \in 1 .. MaxRound
    BY <1>2, <1>3, Constants
  <2>2. QED
    BY <2>1, BallotsAreBounded
<1>5. ledger_highest_ballot(nd.ledger) < b
  <2> DEFINE h == ledger_highest_ballot(nd.ledger)
  <2>1. h \in BallotSet /\ ballot_round(h) <= g
    BY <1>1, <1>3, HighestBallot
  <2> HIDE DEF h
  <2>2. Priority[n] \in Priorities /\ n \in NodeId
    BY Constants
  <2>3. b \in Nat /\ ballot_round(b) = g + 1
    <3>1. g + 1 \in Nat
      BY <1>3, Constants
    <3>2. ballot_round(b) = g + 1
      BY <2>2, <3>1, PartsAreRecovered
    <3>3. QED
      BY <1>4, <3>2, BallotsAreBounded
  <2>4. CASE h = BALLOT_ZERO
    <3>1. b # 0
      <4>1. ballot_round(0) = 0
        BY SMT DEF ballot_round, RoundUnit, NodeSpan, PrioritySpan
      <4> HIDE DEF b
      <4>2. g + 1 # 0
        BY <1>3, Constants
      <4>3. QED
        BY <2>3, <4>1, <4>2
    <3> HIDE DEF b
    <3>2. QED
      BY <2>3, <2>4, <3>1 DEF BALLOT_ZERO, h
  <2>5. CASE \E r \in 1 .. MaxRound, k \in Node : h = ballot_make(r, Priority[k], k)
    <3>1. PICK r \in 1 .. MaxRound, k \in Node : h = ballot_make(r, Priority[k], k)
      BY <2>5
    <3>2. Priority[k] \in Priorities /\ k \in NodeId /\ r \in Nat /\ g + 1 \in Nat
      BY <1>3, Constants
    <3>3. ballot_round(h) = r
      BY <3>1, <3>2, PartsAreRecovered
    <3>4. r < g + 1
      BY <2>1, <3>2, <3>3, <1>3, Constants
    <3>5. ballot_make(r, Priority[k], k) < b
      BY <2>2, <3>2, <3>4, LaterRoundsAreGreater
    <3>6. QED
      BY <3>1, <3>5 DEF h
  <2>6. QED
    BY <2>1, <2>4, <2>5 DEF BallotSet
<1> HIDE DEF b
<1>6. base \in Slot
  BY <1>1, <1>2, Constants DEF Slot
<1>7. RecoveryTyped(rec)
  <2>1. NoPeer \in PeerType /\ NoPeer.more = FALSE
    BY Constants DEF NoPeer, PeerType, NoAnchor, AnchorType
  <2>2. peers \in [Node -> PeerType] /\ \A p \in Node : ~peers[p].more
    BY <2>1
  <2> HIDE DEF peers, base
  <2>3. QED
    BY <1>6, <2>2, NewRecoveryTyped
<1>8. rec.base = base /\ rec.last = slot_add(base, Chunk - 1)
  BY DEF NewRecovery
<1> HIDE DEF rec, base
<1>9. \A m \in out : MessageTyped(m)
  BY <1>4, <1>6, <1>8, MessageForms
<1>10. NoLead \in [Cells -> LeadType]
  BY BallotsAreBounded, Constants DEF NoLead, LeadType
<1> DEFINE l == [nd.ledger EXCEPT !.promised = b]
<1>11. /\ LedgerTyped(l, nd.memory_floor + Window) /\ l.cell = nd.ledger.cell
       /\ l.anchor = nd.ledger.anchor /\ l.promised = b
  BY <1>1, <1>4, PromisedLedger
<1>12. new = [nd EXCEPT !.ballot = b, !.role = "Preparing", !.recovery = rec,
                        !.lead = NoLead, !.ledger = l]
  OBVIOUS
<1> HIDE DEF l, new
<1>13. /\ new.role = "Preparing" /\ new.ballot = b
       /\ new.highest_observed_round = nd.highest_observed_round
       /\ new.next_slot = nd.next_slot /\ new.leader_base = nd.leader_base
       /\ new.delivered_through = nd.delivered_through /\ new.memory_floor = nd.memory_floor
       /\ new.campaign_enabled = nd.campaign_enabled /\ new.ledger = l
       /\ new.recovery = rec /\ new.lead = NoLead
  BY <1>1, <1>12 DEF NodeTyped
<1>14. new = [role |-> new.role, ballot |-> new.ballot,
           highest_observed_round |-> new.highest_observed_round,
           next_slot |-> new.next_slot, leader_base |-> new.leader_base,
           delivered_through |-> new.delivered_through, memory_floor |-> new.memory_floor,
           campaign_enabled |-> new.campaign_enabled, ledger |-> new.ledger,
           recovery |-> new.recovery, lead |-> new.lead]
  BY <1>1, <1>12, <1>13 DEF NodeTyped
<1>15. NodeTyped(new)
  BY <1>1, <1>4, <1>7, <1>10, <1>11, <1>13, <1>14 DEF NodeTyped
<1>16. InTerm(nd, new)
  BY <1>5, <1>11, <1>13 DEF InTerm
<1>17. Idles(nd, new, WritePromise(b))
  <2>1. b >= nd.ledger.promised
    <3>1. PICK h \in BallotSet, p \in BallotSet :
            h = ledger_highest_ballot(nd.ledger) /\ p = nd.ledger.promised /\ p <= h
      BY <1>1, HighestBallot DEF LedgerTyped, LedgerType
    <3>2. QED
      BY <1>4, <1>5, <3>1, BallotOrder
  <2>2. QED
    BY <1>4, <1>11, <1>13, <1>15, <1>16, <2>1, StayIdles
<1> HIDE DEF out
<1>18. /\ g + 1 \in 1 .. MaxRound /\ g = GreatestRound(nd)
       /\ b = ballot_make(g + 1, Priority[n], n)
  BY <1>2, <1>3, Constants DEF g, b
<1>19. /\ rec = NewRecovery(nd.delivered_through + 1, [p \in Node |-> NoPeer])
       /\ base = nd.delivered_through + 1
       /\ out = {Prepare(n, p, b, rec.base, rec.last) : p \in Node}
  BY DEF rec, base, out
<1>20. /\ b \in BallotSet /\ Finish(n, new, WritePromise(b), out, {})
       /\ Idles(nd, new, WritePromise(b)) /\ \A m \in out : MessageTyped(m)
       /\ nd.delivered_through + 1 \in Slot
       /\ RecoveryTyped(rec) /\ rec.base = nd.delivered_through + 1
       /\ new.role = "Preparing" /\ new.ballot = b /\ new.ledger.promised = b
       /\ new.recovery = rec /\ new.lead = NoLead /\ new.next_slot = nd.next_slot
  BY <1>2, <1>4, <1>6, <1>7, <1>8, <1>9, <1>11, <1>13, <1>17, <1>19
<1> HIDE DEF nd, g, peers
<1>21. QED
  BY <1>5, <1>18, <1>19, <1>20 DEF nd

LEMMA StartCampaignIdles ==
  ASSUME TypeInv, NEW n \in Node, StartCampaign(n)
  PROVE  IdleStep(n)
  BY StartCampaignFacts DEF IdleStep


-------------------------------------------------------------------------------
(* Calls of the host.                                                      *)

\* A call that changes the node alone, and not what it has released.
LEMMA LocalIsTyped ==
  ASSUME TypeInv, NEW n \in Node, NEW new, NodeTyped(new),
         new.delivered_through = node[n].delivered_through,
         node' = [node EXCEPT ![n] = new], UNCHANGED <<disk, history, net, votes, crashes>>
  PROVE  TypeInv'
<1>1. DOMAIN node = Node /\ \A k \in Node : NodeTyped(node[k]) /\ HostTyped(k)
  BY DEF TypeInv
<1>2. \A k \in Node : NodeTyped(node'[k])
                      /\ node'[k].delivered_through = node[k].delivered_through
  BY <1>1
<1>3. \A k \in Node : HostTyped(k)'
  BY <1>1, <1>2 DEF HostTyped
<1>4. DOMAIN node' = Node
  BY <1>1
<1>5. QED
  BY <1>2, <1>3, <1>4 DEF TypeInv

LEMMA SetCampaignIsTyped ==
  ASSUME TypeInv, NEW n \in Node, NEW enabled \in BOOLEAN, SetCampaignEnabled(n, enabled)
  PROVE  /\ TypeInv'
         /\ \E new : /\ node' = [node EXCEPT ![n] = new]
                     /\ NodeTyped(new) /\ new.ledger = node[n].ledger
                     /\ new.delivered_through = node[n].delivered_through
                     /\ new.memory_floor = node[n].memory_floor
                     /\ InTerm(node[n], new)
<1> DEFINE nd == node[n]
           off == [Follow(nd) EXCEPT !.campaign_enabled = FALSE]
           on == [nd EXCEPT !.campaign_enabled = enabled]
           new == IF ~ enabled /\ nd.role = "Preparing" THEN off ELSE on
<1>1. NodeTyped(nd) /\ DOMAIN node = Node
  BY NodeFacts DEF TypeInv
<1>2. /\ NodeTyped(on) /\ on.ledger = nd.ledger /\ on.role = nd.role /\ on.ballot = nd.ballot
      /\ on.delivered_through = nd.delivered_through /\ on.memory_floor = nd.memory_floor
  BY <1>1 DEF NodeTyped
<1>3. PICK f : f = Follow(nd)
  OBVIOUS
<1>4. /\ NodeTyped(f) /\ f.role = "Follower" /\ f.ledger = nd.ledger
      /\ f.delivered_through = nd.delivered_through /\ f.memory_floor = nd.memory_floor
  BY <1>1, <1>3, FollowFacts
<1>5. off = [f EXCEPT !.campaign_enabled = FALSE]
  BY <1>3
<1> HIDE DEF on, off
<1>6. /\ NodeTyped(off) /\ off.ledger = nd.ledger /\ off.role = "Follower"
      /\ off.delivered_through = nd.delivered_through /\ off.memory_floor = nd.memory_floor
  BY <1>4, <1>5 DEF NodeTyped
<1>7. node' = [node EXCEPT ![n] = new] /\ UNCHANGED <<disk, history, net, votes, crashes>>
  BY <1>1 DEF SetCampaignEnabled, on, off
<1>8. /\ NodeTyped(new) /\ new.ledger = nd.ledger
      /\ new.delivered_through = nd.delivered_through /\ new.memory_floor = nd.memory_floor
      /\ (new.role = nd.role /\ new.ballot = nd.ballot) \/ new.role = "Follower"
  BY <1>2, <1>6
<1> HIDE DEF new
<1>9. InTerm(nd, new)
  BY <1>8 DEF InTerm
<1>10. TypeInv'
  BY <1>7, <1>8, LocalIsTyped
<1>11. QED
  BY <1>7, <1>8, <1>9, <1>10

LEMMA RaisedFloor ==
  ASSUME NEW nd, NodeTyped(nd), NEW f \in nd.memory_floor .. nd.delivered_through
  PROVE  /\ NodeTyped([nd EXCEPT !.memory_floor = f])
         /\ [nd EXCEPT !.memory_floor = f].memory_floor = f
         /\ [nd EXCEPT !.memory_floor = f].delivered_through = nd.delivered_through
         /\ [nd EXCEPT !.memory_floor = f].ledger = nd.ledger
         /\ [nd EXCEPT !.memory_floor = f].role = nd.role
         /\ [nd EXCEPT !.memory_floor = f].ballot = nd.ballot
         /\ [nd EXCEPT !.memory_floor = f].recovery = nd.recovery
<1> DEFINE new == [nd EXCEPT !.memory_floor = f]
<1>1. /\ nd.memory_floor \in Nat /\ nd.delivered_through \in Nat /\ f \in Nat
      /\ nd.memory_floor <= f /\ f \in 0 .. nd.delivered_through
  BY Constants DEF NodeTyped
<1>2. LedgerTyped(nd.ledger, f + Window)
  <2>1. nd.memory_floor + Window \in Nat /\ f + Window \in Nat
        /\ nd.memory_floor + Window <= f + Window
    BY <1>1, Constants
  <2>2. LedgerTyped(nd.ledger, nd.memory_floor + Window)
    BY DEF NodeTyped
  <2>3. QED
    BY <2>1, <2>2, WiderLedger
<1>3. nd.ledger.anchor.chosen_trim_slot <= f
  <2>1. /\ nd.ledger.anchor.chosen_trim_slot \in Nat
        /\ nd.ledger.anchor.chosen_trim_slot <= nd.memory_floor
    BY Constants DEF NodeTyped, LedgerTyped, LedgerType, AnchorType
  <2>2. QED
    BY <1>1, <2>1
<1>4. /\ new.role = nd.role /\ new.ballot = nd.ballot
      /\ new.highest_observed_round = nd.highest_observed_round
      /\ new.next_slot = nd.next_slot /\ new.leader_base = nd.leader_base
      /\ new.delivered_through = nd.delivered_through /\ new.memory_floor = f
      /\ new.campaign_enabled = nd.campaign_enabled /\ new.ledger = nd.ledger
      /\ new.recovery = nd.recovery /\ new.lead = nd.lead
  BY DEF NodeTyped
<1>5. new = [role |-> new.role, ballot |-> new.ballot,
           highest_observed_round |-> new.highest_observed_round,
           next_slot |-> new.next_slot, leader_base |-> new.leader_base,
           delivered_through |-> new.delivered_through, memory_floor |-> new.memory_floor,
           campaign_enabled |-> new.campaign_enabled, ledger |-> new.ledger,
           recovery |-> new.recovery, lead |-> new.lead]
  BY <1>4 DEF NodeTyped
<1> HIDE DEF new
<1>6. NodeTyped(new)
  BY <1>1, <1>2, <1>3, <1>4, <1>5 DEF NodeTyped
<1>7. QED
  BY <1>4, <1>6 DEF new

LEMMA AdvanceFloorIsTyped ==
  ASSUME TypeInv, NEW n \in Node, NEW through, AdvanceMemoryFloor(n, through)
  PROVE  TypeInv'
<1>1. /\ NodeTyped(node[n]) /\ node[n].memory_floor \in Nat /\ node[n].delivered_through \in Nat
      /\ through \in (node[n].memory_floor + 1) .. node[n].delivered_through
  BY NodeFacts DEF AdvanceMemoryFloor
<1>2. through \in node[n].memory_floor .. node[n].delivered_through
  BY <1>1
<1>3. PICK new : new = [node[n] EXCEPT !.memory_floor = through]
  OBVIOUS
<1>4. NodeTyped(new) /\ new.delivered_through = node[n].delivered_through
  BY <1>1, <1>2, <1>3, RaisedFloor
<1>5. node' = [node EXCEPT ![n] = new] /\ UNCHANGED <<disk, history, net, votes, crashes>>
  BY <1>3 DEF AdvanceMemoryFloor
<1>6. QED
  BY <1>4, <1>5, LocalIsTyped

LEMMA InstallTrimFacts ==
  ASSUME TypeInv, NEW n \in Node, NEW anchor \in AnchorType, InstallChosenTrim(n, anchor)
  PROVE  \E new :
           /\ Finish(n, new, WriteTrim(anchor), {}, {})
           /\ Extends(node[n], new, WriteTrim(anchor))
           /\ new.ledger.cell = node[n].ledger.cell
           /\ new.ledger.promised = node[n].ledger.promised
           /\ new.ledger.anchor = anchor
           /\ new.memory_floor = MaxOf(node[n].memory_floor, anchor.chosen_trim_slot)
           /\ new.delivered_through = node[n].delivered_through
           /\ new.role = node[n].role /\ new.ballot = node[n].ballot
           /\ new.recovery = node[n].recovery /\ new.next_slot = node[n].next_slot
           /\ new.lead = node[n].lead
<1> DEFINE nd == node[n]
           slot == anchor.chosen_trim_slot
           new == [nd EXCEPT !.ledger.anchor = anchor, !.memory_floor = MaxOf(@, slot)]
           l == [nd.ledger EXCEPT !.anchor = anchor]
           f == MaxOf(nd.memory_floor, slot)
<1>1. NodeTyped(nd) /\ nd.memory_floor \in Nat /\ nd.delivered_through \in Nat
      /\ nd.memory_floor <= nd.delivered_through
      /\ LedgerTyped(nd.ledger, nd.memory_floor + Window)
  BY NodeFacts
<1>2. slot \in 0 .. MaxSlot /\ slot \in Nat /\ slot <= nd.delivered_through
  BY Constants DEF AnchorType, InstallChosenTrim
<1>3. /\ f \in Nat /\ nd.memory_floor <= f /\ slot <= f /\ f \in 0 .. nd.delivered_through
      /\ f \in nd.memory_floor .. nd.delivered_through
  BY <1>1, <1>2 DEF MaxOf
<1>4. /\ LedgerTyped(l, f + Window) /\ l.cell = nd.ledger.cell
      /\ l.promised = nd.ledger.promised /\ l.anchor = anchor
  <2>1. nd.memory_floor + Window \in Nat /\ f + Window \in Nat
        /\ nd.memory_floor + Window <= f + Window
    BY <1>1, <1>3, Constants
  <2>2. LedgerTyped(nd.ledger, f + Window)
    BY <1>1, <2>1, WiderLedger
  <2>3. QED
    BY <2>2 DEF LedgerTyped, LedgerType
<1>5. PICK mid : mid = [nd EXCEPT !.memory_floor = f]
  OBVIOUS
<1>6. /\ NodeTyped(mid) /\ mid.memory_floor = f /\ mid.ledger = nd.ledger
      /\ mid.delivered_through = nd.delivered_through
      /\ mid.role = nd.role /\ mid.ballot = nd.ballot /\ mid.recovery = nd.recovery
      /\ mid.next_slot = nd.next_slot /\ mid.lead = nd.lead
  <2>1. mid.next_slot = nd.next_slot /\ mid.lead = nd.lead
    BY <1>1, <1>5 DEF NodeTyped
  <2> QED
    BY <1>1, <1>3, <1>5, <2>1, RaisedFloor
<1>7. new = [mid EXCEPT !.ledger = l]
  BY <1>5, <1>1 DEF NodeTyped
<1>8. PICK nw : nw = [mid EXCEPT !.ledger = l]
  OBVIOUS
<1> HIDE DEF l, f
<1>9. /\ nw.ledger = l /\ nw.memory_floor = f /\ nw.role = nd.role /\ nw.ballot = nd.ballot
      /\ nw.delivered_through = nd.delivered_through /\ nw.recovery = nd.recovery
      /\ nw.next_slot = nd.next_slot /\ nw.lead = nd.lead
  BY <1>6, <1>8 DEF NodeTyped
<1>10. NodeTyped(nw)
  BY <1>3, <1>4, <1>6, <1>8 DEF NodeTyped
<1>11. /\ WritesTyped(WriteTrim(anchor), nd.delivered_through + Window)
       /\ WriteTrim(anchor).trim = anchor
  BY TrimBatch
<1>12. Extends(nd, nw, WriteTrim(anchor))
  BY <1>1, <1>2, <1>3, <1>9, <1>10, <1>11, QuietExtends
<1>13. Finish(n, nw, WriteTrim(anchor), {}, {})
  BY <1>7, <1>8 DEF InstallChosenTrim
<1>14. QED
  BY <1>4, <1>9, <1>12, <1>13 DEF f

\* Of finitely many naturals one is the greatest.  (A set without a greatest one that
\* has the fewest members would lose that member and still have none.)
LEMMA FinitelyManyHaveAGreatest ==
  ASSUME NEW D, IsFiniteSet(D), D # {}, NEW f \in [D -> Nat]
  PROVE  \E x \in D : \A y \in D : f[x] >= f[y]
<1> DEFINE Bad == {T \in SUBSET D : T # {} /\ ~ \E x \in T : \A y \in T : f[x] >= f[y]}
<1>1. SUFFICES ASSUME Bad # {} PROVE FALSE
  OBVIOUS
<1>2. \A T \in SUBSET D : IsFiniteSet(T) /\ Cardinality(T) \in Nat
  BY FS_Subset, FS_CardinalityType
<1> DEFINE Sizes == {Cardinality(T) : T \in Bad}
<1>3. Sizes \subseteq Nat /\ Sizes # {}
  BY <1>1, <1>2
<1>4. PICK k \in Sizes : \A j \in Sizes : k <= j
  BY <1>3, LeastNat
<1>5. PICK T \in Bad : \A U \in Bad : Cardinality(T) <= Cardinality(U)
  BY <1>4
<1>6. PICK x \in T : TRUE
  OBVIOUS
<1>7. Cardinality(T \ {x}) = Cardinality(T) - 1 /\ T \ {x} \in SUBSET D
  BY <1>2, <1>6, FS_RemoveElement
<1>8. T \ {x} \notin Bad
  <2>1. Cardinality(T) \in Nat
    BY <1>2
  <2> HIDE DEF Bad
  <2>2. T \ {x} \in Bad => Cardinality(T) <= Cardinality(T \ {x})
    BY <1>5
  <2>3. QED
    BY <1>7, <2>1, <2>2
<1>9. \A y, z \in D : f[y] \in Nat /\ f[z] \in Nat
  OBVIOUS
<1>10. CASE T \ {x} = {}
  <2>1. \A y \in T : y = x
    BY <1>10
  <2>2. QED
    BY <1>6, <1>9, <2>1
<1>11. CASE T \ {x} # {}
  <2>1. PICK z \in T \ {x} : \A y \in T \ {x} : f[z] >= f[y]
    BY <1>7, <1>8, <1>11
  <2>2. CASE f[x] >= f[z]
    <3>1. \A y \in T : f[x] >= f[y]
      BY <1>6, <1>9, <2>1, <2>2
    <3>2. QED
      BY <1>6, <3>1
  <2>3. CASE f[z] > f[x]
    <3>1. \A y \in T : f[z] >= f[y]
      BY <1>6, <1>9, <2>1, <2>3
    <3>2. QED
      BY <2>1, <3>1
  <2>4. QED
    BY <1>6, <1>9, <2>1, <2>2, <2>3
<1>12. QED
  BY <1>10, <1>11

\* The anchors a host may install.
LEMMA AnchorsAreTyped ==
  ASSUME TypeInv, NEW n \in Node, NEW a \in TrimRecords \cup NewTrims
  PROVE  a \in AnchorType
<1>1. TrimRecords \subseteq AnchorType /\ node[n].ledger.anchor \in TrimRecords
  BY NodeFacts DEF TrimRecords
<1>2. CASE a \in NewTrims
  <2> DEFINE Newest(r) == \A b \in TrimRecords : r.trim_id >= b.trim_id
             f == [m \in Node |-> node[m].ledger.anchor.trim_id]
  <2>1. f \in [Node -> Nat]
    BY NodeFacts DEF AnchorType
  <2>2. PICK m \in Node : \A k \in Node : f[m] >= f[k]
    BY <2>1, Constants, FinitelyManyHaveAGreatest
  <2>3. node[m].ledger.anchor \in TrimRecords /\ Newest(node[m].ledger.anchor)
    BY <2>2 DEF TrimRecords
  <2>4. PICK last \in TrimRecords :
          /\ last = CHOOSE r \in TrimRecords : Newest(r)
          /\ Newest(last)
    BY <2>3
  <2>5. a \in [trim_id : {last.trim_id + 1}, chosen_trim_slot : last.chosen_trim_slot .. MaxSlot]
    BY <1>2, <2>4 DEF NewTrims
  <2>6. last.trim_id \in Nat /\ last.chosen_trim_slot \in 0 .. MaxSlot
    BY <1>1 DEF AnchorType
  <2>7. QED
    BY <2>5, <2>6, Constants DEF AnchorType
<1>3. QED
  BY <1>1, <1>2

\* node_begin_recovery: the image of the donor's first slots is in its host's log.
LEMMA BeginRecoveryFacts ==
  ASSUME TypeInv, NEW n \in Node, NEW donor \in Node, BeginRecovery(n, donor)
  PROVE  LET base == node[donor].ledger.anchor.chosen_trim_slot
             applied == [node[n].ledger EXCEPT !.anchor = node[donor].ledger.anchor]
             kept == Resumed(n, applied, base)
         IN  /\ TypeInv' /\ node[donor].ledger.anchor \in AnchorType
             /\ base > node[n].delivered_through
             /\ node'[n].role = "Follower" /\ node'[n].ledger = kept.ledger
             /\ node'[n].memory_floor = base /\ node'[n].delivered_through = base
             /\ \A c \in Cells : kept.ledger.cell[c] =
                  IF applied.cell[c].slot <= base /\ applied.cell[c].state # "Chosen"
                    THEN ledger_open(0) ELSE applied.cell[c]
             /\ kept.ledger.anchor = node[donor].ledger.anchor
             /\ kept.ledger.promised = node[n].ledger.promised
             /\ node[donor].ledger.anchor.trim_id > node[n].ledger.anchor.trim_id
             /\ disk'[n] = ledger_replay_fold(disk[n], WriteTrim(node[donor].ledger.anchor))
             /\ \A k \in Node \ {n} : node'[k] = node[k] /\ disk'[k] = disk[k]
<1> DEFINE nd == node[n]
           anchor == node[donor].ledger.anchor
           base == anchor.chosen_trim_slot
           replayed == ledger_replay_fold(nd.ledger, WriteTrim(anchor))
           applied == [nd.ledger EXCEPT !.anchor = anchor]
           log == SubSeq(history[donor], 1, base)
<1>1. /\ NodeTyped(nd) /\ HostTyped(n) /\ nd.delivered_through \in Nat
      /\ nd.memory_floor \in 0 .. nd.delivered_through /\ nd.memory_floor \in Nat
      /\ LedgerTyped(nd.ledger, nd.memory_floor + Window)
      /\ HostTyped(donor) /\ NodeTyped(node[donor]) /\ anchor \in AnchorType
      /\ node[donor].delivered_through \in Nat
      /\ node[donor].memory_floor \in 0 .. node[donor].delivered_through
      /\ node[donor].memory_floor \in Nat
  BY NodeFacts
<1>2. /\ base \in 0 .. MaxSlot /\ base \in Nat /\ base > nd.delivered_through
      /\ anchor.trim_id > nd.ledger.anchor.trim_id
      /\ base <= node[donor].memory_floor
  <2>1. base \in 0 .. MaxSlot /\ base \in Nat
    BY <1>1, Constants DEF AnchorType
  <2>2. base > nd.delivered_through /\ anchor.trim_id > nd.ledger.anchor.trim_id
    BY DEF BeginRecovery, NeedsImage
  <2>3. base <= node[donor].memory_floor
    BY <1>1 DEF NodeTyped
  <2>4. QED
    BY <2>1, <2>2, <2>3
<1>3. base <= Len(history[donor]) /\ history[donor] \in Seq(Values)
  BY <1>1, <1>2 DEF HostTyped
<1>4. log \in Seq(Values) /\ Len(log) = base
  <2>1. \A i \in 1 .. base : history[donor][i] \in Values
    BY <1>2, <1>3
  <2>2. log \in Seq(Values)
    BY <1>2, <1>3, SubSeqProperties
  <2>3. Len(log) = base
    BY <1>2, <1>3, SubSeqProperties
  <2>4. QED
    BY <2>2, <2>3
<1>5. /\ WritesTyped(WriteTrim(anchor), nd.delivered_through + Window)
      /\ WrittenSlots(WriteTrim(anchor)) = {} /\ WriteTrim(anchor).trim = anchor
      /\ WriteTrim(anchor).promise = BALLOT_ZERO
  BY <1>1, TrimBatch
<1>6. replayed = applied
  <2>1. MaxOf(nd.ledger.promised, BALLOT_ZERO) = nd.ledger.promised
    <3>1. nd.ledger.promised \in Nat
      BY <1>1, BallotsAreBounded DEF LedgerTyped, LedgerType
    <3>2. QED
      BY <3>1 DEF MaxOf, BALLOT_ZERO
  <2>2. nd.ledger = [promised |-> nd.ledger.promised, anchor |-> nd.ledger.anchor,
                     cell |-> [c \in Cells |-> nd.ledger.cell[c]]]
    BY <1>1 DEF LedgerTyped, LedgerType
  <2>3. replayed = [promised |-> nd.ledger.promised, anchor |-> anchor,
                    cell |-> [c \in Cells |-> nd.ledger.cell[c]]]
    BY <1>2, <1>5, <2>1 DEF ledger_replay_fold, ApplyWrites
  <2>4. QED
    BY <2>2, <2>3
<1>7. /\ LedgerTyped(applied, base + Window) /\ applied.anchor = anchor
      /\ applied.promised = nd.ledger.promised
  <2>1. nd.memory_floor + Window \in Nat /\ base + Window \in Nat
        /\ nd.memory_floor + Window <= base + Window
    BY <1>1, <1>2, Constants
  <2>2. LedgerTyped(nd.ledger, base + Window)
    BY <1>1, <2>1, WiderLedger
  <2>3. QED
    BY <1>1, <2>2 DEF LedgerTyped, LedgerType
<1>8. PICK r : r = Resumed(n, applied, base)
  OBVIOUS
<1> HIDE DEF applied
<1>9. /\ NodeTyped(r) /\ r.delivered_through = base /\ r.memory_floor = base
      /\ r.role = "Follower" /\ r.ledger.anchor = anchor
      /\ r.ledger.promised = nd.ledger.promised
      /\ \A c \in Cells : r.ledger.cell[c] =
           IF applied.cell[c].slot <= base /\ applied.cell[c].state # "Chosen"
             THEN ledger_open(0) ELSE applied.cell[c]
  <2>1. applied.anchor.chosen_trim_slot <= base /\ base \in 0 .. MaxSlot
    BY <1>2, <1>7
  <2>2. LedgerTyped(applied, base + Window)
    BY <1>7
  <2> HIDE DEF base
  <2>3. /\ NodeTyped(r) /\ r.delivered_through = base /\ r.memory_floor = base
        /\ r.role = "Follower" /\ r.ledger.anchor = applied.anchor
        /\ r.ledger.promised = applied.promised
        /\ \A c \in Cells : r.ledger.cell[c] =
             IF applied.cell[c].slot <= base /\ applied.cell[c].state # "Chosen"
               THEN ledger_open(0) ELSE applied.cell[c]
    BY <1>8, <2>1, <2>2, ResumedFacts
  <2>4. QED
    BY <1>7, <2>3
<1>10. PICK new : new = [r EXCEPT !.ballot = nd.ballot,
                                  !.campaign_enabled = nd.campaign_enabled,
                                  !.highest_observed_round = nd.highest_observed_round]
  OBVIOUS
<1>11. /\ NodeTyped(new) /\ new.delivered_through = base /\ new.memory_floor = base
       /\ new.role = "Follower" /\ new.ledger = r.ledger
  BY <1>1, <1>9, <1>10 DEF NodeTyped
<1>12. /\ node' = [node EXCEPT ![n] = new]
       /\ disk' = [disk EXCEPT ![n] = ledger_replay_fold(disk[n], WriteTrim(anchor))]
       /\ history' = [history EXCEPT ![n] = log]
       /\ UNCHANGED <<net, votes, crashes>>
  BY <1>6, <1>8, <1>10 DEF BeginRecovery, TypeInv
<1>13. DOMAIN node = Node /\ DOMAIN disk = Node /\ DOMAIN history = Node
       /\ \A k \in Node : NodeTyped(node[k]) /\ HostTyped(k)
  BY DEF TypeInv
<1>14. LedgerTyped(disk'[n], base + Window) /\ disk'[n].anchor.chosen_trim_slot <= base
  <2>1. nd.delivered_through + Window \in Nat /\ base + Window \in Nat
        /\ nd.delivered_through + Window <= base + Window
    BY <1>1, <1>2, Constants
  <2>2. LedgerTyped(disk[n], base + Window)
    BY <1>1, <2>1, WiderLedger DEF HostTyped
  <2>3. WritesTyped(WriteTrim(anchor), base + Window)
    BY <1>1, TrimBatch
  <2>4. /\ LedgerTyped(ledger_replay_fold(disk[n], WriteTrim(anchor)), base + Window)
        /\ ledger_replay_fold(disk[n], WriteTrim(anchor)).anchor =
             IF anchor.trim_id > disk[n].anchor.trim_id THEN anchor ELSE disk[n].anchor
    BY <1>5, <2>1, <2>2, <2>3, ReplayTyped
  <2>5. disk[n].anchor.chosen_trim_slot <= nd.delivered_through
        /\ disk[n].anchor.chosen_trim_slot \in Nat
    BY <1>1, <2>2, Constants DEF HostTyped, LedgerTyped, LedgerType, AnchorType
  <2>6. disk'[n] = ledger_replay_fold(disk[n], WriteTrim(anchor))
    BY <1>12, <1>13
  <2>7. QED
    BY <1>1, <1>2, <2>4, <2>5, <2>6
<1>15. HostTyped(n)'
  <2>1. node'[n] = new /\ history'[n] = log
    BY <1>12, <1>13
  <2>2. QED
    BY <1>4, <1>11, <1>14, <2>1 DEF HostTyped
<1>16. \A k \in Node \ {n} : /\ node'[k] = node[k] /\ disk'[k] = disk[k]
                             /\ history'[k] = history[k]
  BY <1>12, <1>13
<1>17. \A k \in Node : NodeTyped(node'[k]) /\ HostTyped(k)'
  BY <1>11, <1>12, <1>13, <1>15, <1>16 DEF HostTyped
<1>18. TypeInv'
  BY <1>12, <1>13, <1>17 DEF TypeInv
<1>19. QED
  BY <1>1, <1>2, <1>8, <1>9, <1>11, <1>12, <1>13, <1>16, <1>18 DEF applied

LEMMA CrashIsTyped ==
  ASSUME TypeInv, ~LaggingHost, NEW n \in Node, Crash(n)
  PROVE  TypeInv'
<1>1. /\ NodeTyped(node[n]) /\ HostTyped(n) /\ node[n].delivered_through \in 0 .. MaxSlot
      /\ node[n].delivered_through \in Nat
  BY NodeFacts
<1>2. /\ history[n] \in Seq(Values) /\ Len(history[n]) = node[n].delivered_through
      /\ Len(history[n]) <= MaxSlot
  BY <1>1, Constants DEF HostTyped
<1>3. disk' = disk /\ net' = net /\ votes' = votes /\ crashes' = crashes + 1
      /\ crashes < MaxCrashes
  BY DEF Crash
<1>4. LedgerTyped(disk'[n], Len(history[n]) + Window)
      /\ disk'[n].anchor.chosen_trim_slot <= Len(history[n])
  BY <1>1, <1>2, <1>3 DEF HostTyped
<1>5. Restarted(n, disk'[n], history[n])
  BY <1>3 DEF Crash
<1>6. DOMAIN disk' = Node /\ (\A k \in Node \ {n} : disk'[k] = disk[k])
      /\ (\A m \in net' : MessageTyped(m)) /\ votes' \subseteq VoteType
      /\ crashes' \in 0 .. MaxCrashes
  BY <1>3, Constants DEF TypeInv
<1>7. QED
  BY <1>2, <1>4, <1>5, <1>6, RestartIsTyped

-------------------------------------------------------------------------------
(* Transitions that write cells.                                           *)

\* Every record of batch w lands in the cell of its slot, which is in the window above f
\* and undecided; the other cells keep what they hold.
Places(l, after, f, w) ==
  /\ after.promised = l.promised /\ after.anchor = l.anchor
  /\ \A s \in WrittenSlots(w) :
       /\ s \in (f + 1) .. (f + Window) /\ ~ ledger_is_chosen(l, s)
       /\ Cell(after, s) = ApplySlot(Cell(l, s), s, w)
  /\ \A c \in Cells : (\A s \in WrittenSlots(w) : cell_of(s) # c)
                        => after.cell[c] = l.cell[c]

\* A cell that is written for a slot of the window holds that slot or none above f.
LEMMA HeldAbove ==
  ASSUME NEW f \in Nat, NEW l, LedgerTyped(l, f + Window), NEW s \in (f + 1) .. (f + Window),
         Cell(l, s).slot > f
  PROVE  Cell(l, s).slot = s
<1>1. s \in Int /\ cell_of(s) \in Cells
  BY Constants, CellOfSlot
<1>2. /\ Cell(l, s) \in CellType(BallotSet) /\ CellTyped(Cell(l, s), cell_of(s))
      /\ Cell(l, s).slot <= f + Window
  BY <1>1 DEF LedgerTyped, LedgerType, Cell
<1>3. Cell(l, s).slot \in Nat /\ Cell(l, s).slot # 0
  BY <1>2, Constants DEF CellType
<1>4. cell_of(Cell(l, s).slot) = cell_of(s)
  BY <1>2, <1>3 DEF CellTyped
<1>5. Cell(l, s).slot \in (f + 1) .. (f + Window)
  BY <1>2, <1>3, Constants
<1>6. QED
  BY <1>4, <1>5, LiveSlotsHaveTheirOwnCell

LEMMA RecordPlaces ==
  ASSUME NEW f \in Nat, NEW l, LedgerTyped(l, f + Window),
         NEW w, WritesTyped(w, f + Window), w.promise = BALLOT_ZERO, w.trim = NoAnchor,
         \A s \in WrittenSlots(w) : s > f /\ ~ ledger_is_chosen(l, s)
  PROVE  Places(l, RecordWrites(l, w), f, w) /\ LedgerTyped(RecordWrites(l, w), f + Window)
<1> DEFINE after == ApplyWrites(l, w, WrittenSlots(w))
<1>1. f + Window \in Nat
  BY Constants
<1>2. /\ LedgerTyped(after, f + Window) /\ after.promised = MaxOf(l.promised, w.promise)
      /\ after.anchor = IF w.trim.trim_id > l.anchor.trim_id THEN w.trim ELSE l.anchor
  BY <1>1, ApplyTyped
<1>3. after.promised = l.promised /\ after.anchor = l.anchor
  <2>1. l.promised \in Nat /\ l.anchor.trim_id \in Nat
    BY BallotsAreBounded DEF LedgerTyped, LedgerType, AnchorType
  <2>2. w.promise = 0 /\ w.trim.trim_id = 0
    BY DEF BALLOT_ZERO, NoAnchor
  <2>3. QED
    BY <1>2, <2>1, <2>2 DEF MaxOf
<1>4. \A s \in WrittenSlots(w) : s \in Slot /\ s \in (f + 1) .. (f + Window)
  BY Constants DEF WritesTyped, WrittenSlots
<1>5. ASSUME NEW s \in WrittenSlots(w)
      PROVE  Cell(after, s) = ApplySlot(Cell(l, s), s, w)
  <2>1. cell_of(s) \in Cells
    BY <1>4, Constants, CellOfSlot
  <2>2. PICK t \in WrittenSlots(w) : /\ cell_of(t) = cell_of(s)
                                     /\ after.cell[cell_of(s)] = ApplySlot(l.cell[cell_of(s)], t, w)
    BY <2>1, CellAfter
  <2>3. t = s
    BY <1>4, <2>2, LiveSlotsHaveTheirOwnCell
  <2>4. QED
    BY <2>2, <2>3 DEF Cell
<1>6. \A c \in Cells : (\A s \in WrittenSlots(w) : cell_of(s) # c) => after.cell[c] = l.cell[c]
  BY CellAfter
<1>7. RecordWrites(l, w) = after
  BY DEF RecordWrites
<1> HIDE DEF after
<1>8. QED
  BY <1>2, <1>3, <1>4, <1>5, <1>6, <1>7 DEF Places

LEMMA PlacedFacts ==
  ASSUME NEW f \in Nat, NEW l, LedgerTyped(l, f + Window), NEW after,
         NEW w, WritesTyped(w, f + Window), Places(l, after, f, w)
  PROVE  /\ \A c \in Cells :
              \/ after.cell[c] = l.cell[c] /\ \A s \in WrittenSlots(w) : cell_of(s) # c
              \/ \E s \in WrittenSlots(w) :
                   /\ cell_of(s) = c /\ after.cell[c] = ApplySlot(l.cell[c], s, w)
                   /\ after.cell[c].slot = s
         /\ \A s \in Slot : ledger_is_chosen(after, s) =>
              \/ s \in DOMAIN w.chosen
              \/ s \notin WrittenSlots(w) /\ ledger_is_chosen(l, s)
         /\ \A s \in Slot : s > f /\ ledger_is_chosen(l, s) => ledger_is_chosen(after, s)
         /\ \A s \in DOMAIN w.chosen : ledger_is_chosen(after, s)
<1>1. \A s \in Slot : cell_of(s) \in Cells
  BY Constants, CellOfSlot
<1>2. \A s \in WrittenSlots(w) : s \in Slot
  BY DEF WritesTyped, WrittenSlots
<1>3. \A c \in Cells : l.cell[c] \in CellType(BallotSet)
  BY DEF LedgerTyped, LedgerType
<1>4. \A s \in WrittenSlots(w) : /\ Cell(after, s) = ApplySlot(Cell(l, s), s, w)
                                 /\ Cell(after, s).slot = s
                                 /\ ~ ledger_is_chosen(l, s)
                                 /\ s \in (f + 1) .. (f + Window)
  <2> SUFFICES ASSUME NEW s \in WrittenSlots(w)
               PROVE  /\ Cell(after, s) = ApplySlot(Cell(l, s), s, w)
                      /\ Cell(after, s).slot = s
                      /\ ~ ledger_is_chosen(l, s)
                      /\ s \in (f + 1) .. (f + Window)
    OBVIOUS
  <2>1. Cell(l, s) \in CellType(BallotSet)
    BY <1>1, <1>2, <1>3 DEF Cell
  <2>2. /\ Cell(after, s) = ApplySlot(Cell(l, s), s, w) /\ ~ ledger_is_chosen(l, s)
        /\ s \in (f + 1) .. (f + Window)
    BY DEF Places
  <2>3. ApplySlot(Cell(l, s), s, w).slot = s
    BY <2>1, ApplySlotFacts
  <2>4. QED
    BY <2>2, <2>3
<1>5. ASSUME NEW c \in Cells
      PROVE  \/ after.cell[c] = l.cell[c] /\ \A s \in WrittenSlots(w) : cell_of(s) # c
             \/ \E s \in WrittenSlots(w) :
                  /\ cell_of(s) = c /\ after.cell[c] = ApplySlot(l.cell[c], s, w)
                  /\ after.cell[c].slot = s
  <2>1. CASE \E s \in WrittenSlots(w) : cell_of(s) = c
    BY <1>4, <2>1 DEF Cell
  <2>2. CASE \A s \in WrittenSlots(w) : cell_of(s) # c
    BY <2>2 DEF Places
  <2>3. QED
    BY <2>1, <2>2
<1>6. ASSUME NEW s \in Slot, ledger_is_chosen(after, s)
      PROVE  \/ s \in DOMAIN w.chosen
             \/ s \notin WrittenSlots(w) /\ ledger_is_chosen(l, s)
  <2>1. Cell(after, s).slot = s /\ Cell(after, s).state = "Chosen"
    BY <1>6 DEF ledger_is_chosen
  <2>2. CASE s \in WrittenSlots(w) /\ s \notin DOMAIN w.chosen
    <3>1. Claim(Cell(l, s), s).state # "Chosen"
      BY <1>4, <2>2 DEF Claim, ledger_open, ledger_is_chosen
    <3>2. Cell(l, s) \in CellType(BallotSet)
      BY <1>1, <1>3 DEF Cell
    <3>3. ApplySlot(Cell(l, s), s, w).state = "Voted"
      BY <2>2, <3>1, <3>2, ApplySlotFacts
    <3>4. QED
      BY <1>4, <2>1, <2>2, <3>3
  <2>3. CASE s \notin WrittenSlots(w)
    <3>1. after.cell[cell_of(s)] = l.cell[cell_of(s)]
      BY <1>1, <1>5, <2>1, <2>3 DEF Cell
    <3>2. QED
      BY <2>1, <2>3, <3>1 DEF ledger_is_chosen, Cell
  <2>4. QED
    BY <2>2, <2>3 DEF WrittenSlots
<1>7. ASSUME NEW s \in Slot, s > f, ledger_is_chosen(l, s)
      PROVE  ledger_is_chosen(after, s)
  <2>1. Cell(l, s).slot = s /\ Cell(l, s).state = "Chosen"
    BY <1>7 DEF ledger_is_chosen
  <2>2. \A t \in WrittenSlots(w) : cell_of(t) # cell_of(s)
    <3> SUFFICES ASSUME NEW t \in WrittenSlots(w), cell_of(t) = cell_of(s) PROVE FALSE
      OBVIOUS
    <3>1. Cell(l, t) = Cell(l, s)
      BY DEF Cell
    <3>2. Cell(l, t).slot = t
      BY <1>4, <1>7, <2>1, <3>1, HeldAbove
    <3>3. QED
      BY <1>4, <1>7, <2>1, <3>1, <3>2
  <2>3. after.cell[cell_of(s)] = l.cell[cell_of(s)]
    BY <1>1, <2>2 DEF Places
  <2>4. QED
    BY <2>1, <2>3 DEF ledger_is_chosen, Cell
<1>8. ASSUME NEW s \in DOMAIN w.chosen
      PROVE  ledger_is_chosen(after, s)
  <2>1. s \in WrittenSlots(w) /\ s \in Slot
    BY <1>2 DEF WrittenSlots
  <2>2. Cell(l, s) \in CellType(BallotSet)
    BY <1>1, <1>3, <2>1 DEF Cell
  <2>3. ApplySlot(Cell(l, s), s, w).state = "Chosen"
    BY <2>1, <2>2, ApplySlotFacts
  <2>4. QED
    BY <1>4, <2>1, <2>3 DEF ledger_is_chosen
<1>9. QED
  BY <1>5, <1>6, <1>7, <1>8

\* No vote of the batch is of a smaller ballot than the promise or the vote in its slot's
\* cell.
Rises(l, w) ==
  \A s \in DOMAIN w.votes :
    /\ l.promised <= w.votes[s].ballot
    /\ Cell(l, s).slot = s => Cell(l, s).vote_ballot <= w.votes[s].ballot

\* The votes of a batch are of one ballot.
OneBallot(w) == \A s, t \in DOMAIN w.votes : w.votes[s].ballot = w.votes[t].ballot

\* A node bids in its term: only a candidate or a leader that goes on in its ballot
\* writes votes without having just followed someone.
Bids(nd, new, w) ==
  \/ new.role = "Follower" /\ Rises(nd.ledger, w) /\ OneBallot(w)
  \/ /\ nd.role # "Follower" /\ new.ballot = nd.ballot
     /\ \A s \in DOMAIN w.votes : w.votes[s].ballot = nd.ballot

\* The decision of the next slot goes past a window that has no cell for it.
Passes(nd, new, w) ==
  /\ new.ledger = nd.ledger /\ new.delivered_through > nd.delivered_through
  /\ ~ claim_live(nd, nd.delivered_through + 1)
  /\ \E v \in Values : w = WriteChosen(nd.delivered_through + 1, v)

Works(nd, new, w) ==
  /\ Extends(nd, new, w)
  /\ new.memory_floor = nd.memory_floor
  /\ w.trim = NoAnchor /\ w.promise = BALLOT_ZERO
  /\ Places(nd.ledger, new.ledger, nd.memory_floor, w) \/ Passes(nd, new, w)
  /\ Bids(nd, new, w)

WorkStep(n) ==
  \E new, w, out, used : /\ Finish(n, new, w, out, used)
                         /\ Works(node[n], new, w)
                         /\ \A m \in out : MessageTyped(m)

LEMMA PlacesWorks ==
  ASSUME NEW nd, NodeTyped(nd), NEW new, NodeTyped(new),
         new.memory_floor = nd.memory_floor,
         NEW w, WritesTyped(w, nd.memory_floor + Window),
         w.trim = NoAnchor, w.promise = BALLOT_ZERO,
         Places(nd.ledger, new.ledger, nd.memory_floor, w), Bids(nd, new, w),
         new.delivered_through >= nd.delivered_through,
         \A s \in (nd.delivered_through + 1) .. new.delivered_through :
           ledger_is_chosen(new.ledger, s)
  PROVE  Works(nd, new, w)
<1>1. /\ nd.memory_floor \in Nat /\ nd.delivered_through \in Nat
      /\ nd.memory_floor <= nd.delivered_through
  BY Constants DEF NodeTyped
<1>2. WritesTyped(w, nd.delivered_through + Window)
  BY <1>1, Constants DEF WritesTyped, Slot
<1>3. w.trim.chosen_trim_slot <= nd.delivered_through
  BY <1>1 DEF NoAnchor
<1>4. Extends(nd, new, w)
  BY <1>1, <1>2, <1>3 DEF Extends
<1>5. QED
  BY <1>4 DEF Works

\* Nothing is written and nothing is released.
LEMMA EmptyPlaces ==
  ASSUME NEW l, NEW f
  PROVE  Places(l, l, f, NoWrites)
  BY EmptyBatch DEF Places

LEMMA RecordedNode ==
  ASSUME NEW nd, NodeTyped(nd), NEW w, WritesTyped(w, nd.memory_floor + Window),
         w.promise = BALLOT_ZERO, w.trim = NoAnchor,
         \A s \in WrittenSlots(w) : s > nd.memory_floor /\ ~ ledger_is_chosen(nd.ledger, s)
  PROVE  LET new == [nd EXCEPT !.ledger = RecordWrites(@, w)] IN
         /\ NodeTyped(new)
         /\ Places(nd.ledger, new.ledger, nd.memory_floor, w)
         /\ new.ledger = RecordWrites(nd.ledger, w)
         /\ new.role = nd.role /\ new.ballot = nd.ballot /\ new.recovery = nd.recovery
         /\ new.next_slot = nd.next_slot /\ new.lead = nd.lead
         /\ new.memory_floor = nd.memory_floor /\ new.delivered_through = nd.delivered_through
<1> DEFINE l == RecordWrites(nd.ledger, w)
           new == [nd EXCEPT !.ledger = l]
<1>1. nd.memory_floor \in Nat /\ LedgerTyped(nd.ledger, nd.memory_floor + Window)
  BY Constants DEF NodeTyped
<1>2. Places(nd.ledger, l, nd.memory_floor, w) /\ LedgerTyped(l, nd.memory_floor + Window)
  BY <1>1, RecordPlaces
<1>3. l.anchor = nd.ledger.anchor
  BY <1>2 DEF Places
<1>4. new = [nd EXCEPT !.ledger = RecordWrites(@, w)]
  OBVIOUS
<1> HIDE DEF l
<1>5. /\ new.ledger = l /\ new.role = nd.role /\ new.ballot = nd.ballot
      /\ new.recovery = nd.recovery /\ new.next_slot = nd.next_slot /\ new.lead = nd.lead
      /\ new.memory_floor = nd.memory_floor /\ new.delivered_through = nd.delivered_through
      /\ NodeTyped(new)
  BY <1>2, <1>3 DEF NodeTyped
<1> HIDE DEF new
<1>6. QED
  BY <1>2, <1>4, <1>5 DEF l

LEMMA LiveCellFacts ==
  ASSUME NEW nd, NodeTyped(nd), NEW s \in Slot
  PROVE  /\ LiveCell(nd, s) \in CellType(BallotSet) /\ LiveCell(nd, s).slot = s
         /\ LiveCell(nd, s).state # "Empty" => LiveCell(nd, s).value \in Values
         /\ LiveCell(nd, s).state = "Chosen" <=> ledger_is_chosen(nd.ledger, s)
         /\ claim_live(nd, s) => s \in (nd.memory_floor + 1) .. (nd.memory_floor + Window)
<1>1. cell_of(s) \in Cells /\ s \in Nat
  BY CellOfSlot, Constants
<1>2. Cell(nd.ledger, s) \in CellType(BallotSet) /\ CellTyped(Cell(nd.ledger, s), cell_of(s))
  BY <1>1 DEF NodeTyped, LedgerTyped, LedgerType, Cell
<1>3. ledger_open(s) \in CellType(BallotSet)
  BY BallotsAreBounded DEF ledger_open, CellType, Slot
<1>4. nd.memory_floor \in Nat
  BY Constants DEF NodeTyped
<1>5. claim_live(nd, s) => s \in (nd.memory_floor + 1) .. (nd.memory_floor + Window)
  BY <1>1, <1>4, Constants DEF claim_live
<1>6. QED
  BY <1>2, <1>3, <1>5 DEF LiveCell, Claim, ledger_open, CellTyped, ledger_is_chosen

LEMMA OnAcceptWorks ==
  ASSUME TypeInv, NEW n \in Node, NEW m \in Received(n, "Accept"), OnAccept(n, m)
  PROVE  IdleStep(n) \/ WorkStep(n)
<1> DEFINE nd == node[n]
           cell == LiveCell(nd, m.slot)
           w == WriteVote(m.slot, m.ballot, m.value)
           ack == Accepted(n, m.from, m.ballot, m.slot)
           again == cell.state = "Voted" /\ cell.vote_ballot = m.ballot
           recorded == [nd EXCEPT !.ledger = RecordWrites(@, w)]
           voted == observe_leader(recorded, m.ballot)
<1>1. /\ m.from \in Node /\ m.ballot \in BallotSet /\ m.slot \in Slot /\ m.value \in Values
  BY DEF TypeInv, Received, MessageTyped
<1>2. NodeTyped(nd) /\ nd.ledger.promised \in BallotSet /\ nd.memory_floor \in Nat
      /\ nd.delivered_through \in Nat
  BY NodeFacts
<1>3. /\ cell \in CellType(BallotSet)
      /\ cell.state # "Empty" => cell.value \in Values
      /\ cell.state = "Chosen" <=> ledger_is_chosen(nd.ledger, m.slot)
      /\ claim_live(nd, m.slot) => m.slot \in (nd.memory_floor + 1) .. (nd.memory_floor + Window)
  BY <1>1, <1>2, LiveCellFacts
<1>4. /\ \A b, c \in BallotSet : MessageTyped(Nack(n, m.from, b, c))
      /\ MessageTyped(ack)
      /\ \A v \in Values : MessageTyped(Commit(n, m.from, m.slot, v))
  BY <1>1, MessageForms
<1>5. Idles(nd, nd, NoWrites)
  BY SameNodeIdles
<1>6. cell.promised_at \in BallotSet
  <2> HIDE DEF cell
  <2>1. QED
    BY <1>3 DEF CellType
<1>7. CASE \E x : MessageTyped(x) /\ Finish(n, nd, NoWrites, {x}, Consumed(m))
  <2>1. PICK x : MessageTyped(x) /\ Finish(n, nd, NoWrites, {x}, Consumed(m))
    BY <1>7
  <2>2. PICK out : out = {x}
    OBVIOUS
  <2>3. Finish(n, nd, NoWrites, out, Consumed(m)) /\ \A y \in out : MessageTyped(y)
    BY <2>1, <2>2
  <2>4. QED
    BY <1>5, <2>3 DEF IdleStep
<1>8. CASE /\ claim_live(nd, m.slot) /\ MayVote(nd, m.slot, m.ballot)
           /\ cell.state # "Chosen" /\ ~ again
           /\ Finish(n, voted, w, {ack}, Consumed(m))
  <2>1. /\ m.slot \in (nd.memory_floor + 1) .. (nd.memory_floor + Window)
        /\ m.slot <= nd.memory_floor + Window /\ m.slot > nd.memory_floor
        /\ ~ ledger_is_chosen(nd.ledger, m.slot)
    BY <1>1, <1>2, <1>3, <1>8, Constants
  <2>2. /\ WritesTyped(w, nd.memory_floor + Window) /\ WrittenSlots(w) = {m.slot}
        /\ w.trim = NoAnchor /\ w.promise = BALLOT_ZERO
        /\ DOMAIN w.votes = {m.slot}
        /\ w.votes[m.slot] = [ballot |-> m.ballot, value |-> m.value]
    BY <1>1, <2>1, VoteBatch
  <2>3. PICK r : r = recorded
    OBVIOUS
  <2> HIDE DEF w
  <2>4. /\ NodeTyped(r) /\ Places(nd.ledger, r.ledger, nd.memory_floor, w)
        /\ r.role = nd.role /\ r.ballot = nd.ballot
        /\ r.memory_floor = nd.memory_floor /\ r.delivered_through = nd.delivered_through
    BY <1>2, <2>1, <2>2, <2>3, RecordedNode
  <2>5. PICK new : new = voted
    OBVIOUS
  <2>6. /\ NodeTyped(new) /\ new.ledger = r.ledger /\ new.ballot = nd.ballot
        /\ new.memory_floor = nd.memory_floor /\ new.delivered_through = nd.delivered_through
        /\ (nd.ballot = m.ballot /\ new.role = nd.role) \/ new.role = "Follower"
    <3>1. new = observe_leader(r, m.ballot)
      BY <2>3, <2>5
    <3>2. m.ballot \in BallotSet
      BY <1>1
    <3>3. QED
      BY <2>4, <3>1, <3>2, ObserveFacts
  <2>7. Rises(nd.ledger, w)
    <3>a. nd.ledger.promised <= m.ballot
      BY <1>8 DEF MayVote
    <3>1. SUFFICES ASSUME Cell(nd.ledger, m.slot).slot = m.slot
                   PROVE  Cell(nd.ledger, m.slot).vote_ballot <= m.ballot
      BY <2>2, <3>a DEF Rises
    <3>2. cell = Cell(nd.ledger, m.slot) /\ cell.promised_at <= m.ballot
      BY <1>1, <1>6, <1>8, <3>1, BallotsAreBounded DEF LiveCell, Claim, MayVote
    <3>3. cell_of(m.slot) \in Cells
      BY <1>1, SlotsHaveCells
    <3>4. cell.vote_ballot <= cell.promised_at
      BY <1>2, <3>2, <3>3 DEF NodeTyped, LedgerTyped, CellTyped, Cell
    <3>5. cell.vote_ballot \in BallotSet
      BY <1>2, <3>2, <3>3 DEF NodeTyped, LedgerTyped, LedgerType, CellType, Cell
    <3> HIDE DEF cell
    <3>6. QED
      BY <1>1, <1>6, <3>2, <3>4, <3>5, BallotOrder
  <2>8. Bids(nd, new, w)
    BY <2>2, <2>6, <2>7 DEF Bids, OneBallot
  <2>9. Works(nd, new, w)
    BY <1>2, <2>2, <2>4, <2>6, <2>8, PlacesWorks
  <2>10. PICK out : out = {ack}
    OBVIOUS
  <2>11. Finish(n, new, w, out, Consumed(m)) /\ \A y \in out : MessageTyped(y)
    BY <1>4, <1>8, <2>5, <2>10
  <2>12. QED
    BY <2>9, <2>11 DEF WorkStep
<1>9. QED
  <2>1. \/ Finish(n, nd, NoWrites, {Nack(n, m.from, m.ballot, nd.ledger.promised)}, Consumed(m))
        \/ Finish(n, nd, NoWrites, {Nack(n, m.from, m.ballot, cell.promised_at)}, Consumed(m))
        \/ /\ cell.state = "Chosen"
           /\ Finish(n, nd, NoWrites,
                {IF cell.value = m.value THEN ack ELSE Commit(n, m.from, m.slot, cell.value)},
                Consumed(m))
        \/ Finish(n, nd, NoWrites, {ack}, Consumed(m))
        \/ /\ claim_live(nd, m.slot) /\ MayVote(nd, m.slot, m.ballot)
           /\ cell.state # "Chosen" /\ ~ again
           /\ Finish(n, voted, w, {ack}, Consumed(m))
    BY DEF OnAccept
  <2> HIDE DEF nd, cell, ack, voted, w
  <2>2. MessageTyped(Nack(n, m.from, m.ballot, nd.ledger.promised))
        /\ MessageTyped(Nack(n, m.from, m.ballot, cell.promised_at))
    BY <1>1, <1>2, <1>4, <1>6
  <2>3. cell.state = "Chosen" =>
          MessageTyped(IF cell.value = m.value THEN ack
                       ELSE Commit(n, m.from, m.slot, cell.value))
    BY <1>3, <1>4
  <2>4. QED
    BY <1>4, <1>7, <1>8, <2>1, <2>2, <2>3

\* A node that records nothing, and may find that it can release more.
LEMMA NothingWorks ==
  ASSUME NEW nd, NodeTyped(nd), NEW new \in {nd, Emitted(nd)}
  PROVE  Works(nd, new, NoWrites)
<1>1. nd.memory_floor \in Nat /\ nd.delivered_through \in Nat
  BY Constants DEF NodeTyped
<1>2. /\ NodeTyped(new) /\ new.memory_floor = nd.memory_floor /\ new.ledger = nd.ledger
      /\ new.role = nd.role /\ new.ballot = nd.ballot
      /\ new.delivered_through >= nd.delivered_through
      /\ \A s \in (nd.delivered_through + 1) .. new.delivered_through :
           ledger_is_chosen(new.ledger, s)
  <2>1. CASE new = nd
    <3>1. (nd.delivered_through + 1) .. nd.delivered_through = {}
      BY <1>1
    <3>2. QED
      BY <1>1, <2>1, <3>1
  <2>2. CASE new = Emitted(nd)
    BY <1>1, <2>2, EmittedFacts
  <2>3. QED
    BY <2>1, <2>2
<1>3. Places(nd.ledger, new.ledger, nd.memory_floor, NoWrites)
  BY <1>2, EmptyPlaces
<1>4. Bids(nd, new, NoWrites)
  BY <1>2, EmptyBatch DEF Bids, Rises, OneBallot
<1>5. /\ WritesTyped(NoWrites, nd.memory_floor + Window)
      /\ NoWrites.trim = NoAnchor /\ NoWrites.promise = BALLOT_ZERO
  BY EmptyBatch
<1>6. QED
  BY <1>2, <1>3, <1>4, <1>5, PlacesWorks

LEMMA RecordCommitWorks ==
  ASSUME NEW nd, NodeTyped(nd), NEW s \in Slot, NEW v \in Values
  PROVE  Works(nd, record_commit(nd, s, v).nd, record_commit(nd, s, v).w)
         /\ record_commit(nd, s, v).out = {}
<1> DEFINE r == record_commit(nd, s, v)
           w == WriteChosen(s, v)
           passed == [nd EXCEPT !.delivered_through = s]
           placed == [nd EXCEPT !.ledger = RecordWrites(@, w)]
<1>1. /\ nd.memory_floor \in Nat /\ nd.delivered_through \in Nat /\ s \in Nat
      /\ nd.memory_floor <= nd.delivered_through
  BY Constants DEF NodeTyped
<1>2. \/ r = Nothing(nd)
      \/ r = Nothing(Emitted(nd))
      \/ /\ ~ claim_live(nd, s) /\ s = nd.delivered_through + 1
         /\ r = Result(Emitted(passed), w, {})
      \/ /\ claim_live(nd, s) /\ LiveCell(nd, s).state # "Chosen"
         /\ r = Result(Emitted(placed), w, {})
  BY DEF record_commit, PassesThrough
<1> HIDE DEF r
<1>3. CASE r = Nothing(nd) \/ r = Nothing(Emitted(nd))
  <2>1. r.nd \in {nd, Emitted(nd)} /\ r.w = NoWrites /\ r.out = {}
    BY <1>3 DEF Nothing, Result
  <2>2. QED
    BY <2>1, NothingWorks DEF r
<1>4. CASE /\ ~ claim_live(nd, s) /\ s = nd.delivered_through + 1
           /\ r = Result(Emitted(passed), w, {})
  <2>1. PICK p : p = passed
    OBVIOUS
  <2>2. /\ NodeTyped(p) /\ p.delivered_through = s /\ p.memory_floor = nd.memory_floor
        /\ p.ledger = nd.ledger /\ p.role = nd.role /\ p.ballot = nd.ballot
    <3>1. s \in 0 .. MaxSlot /\ nd.memory_floor \in 0 .. s
      BY <1>1, <1>4, Constants DEF Slot
    <3>2. QED
      BY <2>1, <3>1 DEF NodeTyped
  <2>3. PICK new : new = Emitted(p)
    OBVIOUS
  <2>4. /\ NodeTyped(new) /\ new.memory_floor = nd.memory_floor /\ new.ledger = nd.ledger
        /\ new.role = nd.role /\ new.ballot = nd.ballot
        /\ new.delivered_through \in s .. MaxSlot
        /\ \A t \in (s + 1) .. new.delivered_through : ledger_is_chosen(new.ledger, t)
    BY <2>2, <2>3, EmittedFacts
  <2>5. /\ WritesTyped(w, nd.delivered_through + Window)
        /\ DOMAIN w.votes = {} /\ DOMAIN w.chosen = {s}
        /\ w.trim = NoAnchor /\ w.promise = BALLOT_ZERO
    <3>1. s <= nd.delivered_through + Window
      BY <1>1, <1>4, Constants
    <3>2. QED
      BY <3>1, ChosenBatch
  <2>6. Extends(nd, new, w)
    <3>1. w.trim.chosen_trim_slot <= nd.delivered_through
      BY <1>1, <2>5 DEF NoAnchor
    <3>2. new.delivered_through \in Nat /\ new.delivered_through >= nd.delivered_through
      BY <1>1, <1>4, <2>4, Constants
    <3>3. \A t \in (nd.delivered_through + 1) .. new.delivered_through :
            t = s \/ t \in (s + 1) .. new.delivered_through
      BY <1>1, <1>4, <3>2
    <3>4. \A t \in (nd.delivered_through + 1) .. new.delivered_through :
            t \in DOMAIN w.chosen \/ ledger_is_chosen(new.ledger, t)
      BY <2>4, <2>5, <3>3
    <3>5. new.memory_floor >= nd.memory_floor
      BY <1>1, <2>4
    <3>6. QED
      BY <2>4, <2>5, <3>1, <3>2, <3>4, <3>5 DEF Extends
  <2>7. Passes(nd, new, w)
    <3>1. new.delivered_through > nd.delivered_through
      BY <1>1, <1>4, <2>4, Constants
    <3>2. QED
      BY <1>4, <2>4, <3>1 DEF Passes
  <2>8. Bids(nd, new, w)
    BY <2>4, <2>5 DEF Bids, Rises, OneBallot
  <2>9. r.nd = new /\ r.w = w /\ r.out = {}
    BY <1>4, <2>1, <2>3 DEF Result
  <2>10. Works(nd, new, w)
    BY <2>4, <2>5, <2>6, <2>7, <2>8 DEF Works
  <2>11. QED
    BY <2>9, <2>10 DEF r
<1>5. CASE /\ claim_live(nd, s) /\ LiveCell(nd, s).state # "Chosen"
           /\ r = Result(Emitted(placed), w, {})
  <2>1. /\ s <= nd.memory_floor + Window /\ s > nd.memory_floor
        /\ ~ ledger_is_chosen(nd.ledger, s)
    BY <1>1, <1>5, LiveCellFacts, Constants
  <2>2. /\ WritesTyped(w, nd.memory_floor + Window) /\ WrittenSlots(w) = {s}
        /\ w.trim = NoAnchor /\ w.promise = BALLOT_ZERO /\ DOMAIN w.votes = {}
    BY <2>1, ChosenBatch
  <2> HIDE DEF w
  <2>3. PICK p : p = placed
    OBVIOUS
  <2>4. /\ NodeTyped(p) /\ Places(nd.ledger, p.ledger, nd.memory_floor, w)
        /\ p.role = nd.role /\ p.ballot = nd.ballot
        /\ p.memory_floor = nd.memory_floor /\ p.delivered_through = nd.delivered_through
    BY <2>1, <2>2, <2>3, RecordedNode
  <2>5. PICK new : new = Emitted(p)
    OBVIOUS
  <2>6. /\ NodeTyped(new) /\ new.memory_floor = nd.memory_floor /\ new.ledger = p.ledger
        /\ new.role = nd.role /\ new.ballot = nd.ballot
        /\ new.delivered_through \in nd.delivered_through .. MaxSlot
        /\ \A t \in (nd.delivered_through + 1) .. new.delivered_through :
             ledger_is_chosen(new.ledger, t)
    BY <2>4, <2>5, EmittedFacts
  <2>7. new.delivered_through >= nd.delivered_through
    BY <1>1, <2>6, Constants
  <2>8. Bids(nd, new, w)
    BY <2>2, <2>6 DEF Bids, Rises, OneBallot
  <2>9. Works(nd, new, w)
    BY <2>2, <2>4, <2>6, <2>7, <2>8, PlacesWorks
  <2>10. r.nd = new /\ r.w = w /\ r.out = {}
    BY <1>5, <2>3, <2>5 DEF Result
  <2>11. QED
    BY <2>9, <2>10 DEF r
<1>6. QED
  BY <1>2, <1>3, <1>4, <1>5

LEMMA OnCommitWorks ==
  ASSUME TypeInv, NEW n \in Node, NEW m \in Received(n, "Commit"), OnCommit(n, m)
  PROVE  WorkStep(n)
<1> DEFINE r == record_commit(node[n], m.slot, m.value)
<1>1. m.slot \in Slot /\ m.value \in Values
  BY DEF TypeInv, Received, MessageTyped
<1>2. Works(node[n], r.nd, r.w) /\ r.out = {}
  BY <1>1, NodeFacts, RecordCommitWorks
<1>3. Finish(n, r.nd, r.w, r.out, Consumed(m))
  BY DEF OnCommit, FinishResult
<1>4. QED
  BY <1>2, <1>3 DEF WorkStep

\* What a transition does depends on what the node has, not on how it counts.
LEMMA SameWindowWorks ==
  ASSUME NEW nd, NEW like, like.ledger = nd.ledger, like.role = nd.role,
         like.ballot = nd.ballot, like.memory_floor = nd.memory_floor,
         like.delivered_through = nd.delivered_through,
         NEW new, NEW w, Works(like, new, w)
  PROVE  Works(nd, new, w)
  BY DEF Works, Extends, Passes, Bids, claim_live

LEMMA OnAcceptedWorks ==
  ASSUME TypeInv, NEW n \in Node, NEW m \in Received(n, "Accepted"), OnAccepted(n, m)
  PROVE  WorkStep(n)
<1> DEFINE nd == node[n]
           c == cell_of(m.slot)
           counted == [nd EXCEPT !.lead[c].acks = @ \cup {m.from}]
           v == Cell(nd.ledger, m.slot).value
           decided == record_commit(counted, m.slot, v)
           told == {Commit(n, p, m.slot, v) : p \in Peers(n)}
<1>1. NodeTyped(nd)
  BY NodeFacts
<1>2. m.slot \in Slot /\ m.from \in Node /\ c \in Cells
  <2>1. m.slot \in Slot /\ m.from \in Node
    BY DEF TypeInv, Received, MessageTyped
  <2>2. \A s \in Slot : s \in Int
    BY Constants DEF Slot
  <2>3. QED
    BY <2>1, <2>2, CellOfSlot
<1>3. PICK k : k = counted
  OBVIOUS
<1>4. /\ NodeTyped(k) /\ k.ledger = nd.ledger /\ k.role = nd.role /\ k.ballot = nd.ballot
      /\ k.memory_floor = nd.memory_floor /\ k.delivered_through = nd.delivered_through
  <2>1. nd.lead \in [Cells -> LeadType]
    BY <1>1 DEF NodeTyped
  <2>2. PICK lead : lead = [nd.lead EXCEPT ![c].acks = @ \cup {m.from}]
    OBVIOUS
  <2>3. lead \in [Cells -> LeadType]
    BY <1>2, <2>1, <2>2 DEF LeadType
  <2>4. k = [nd EXCEPT !.lead = lead]
    BY <1>1, <1>3, <2>2 DEF NodeTyped
  <2>5. QED
    BY <1>1, <2>3, <2>4 DEF NodeTyped
<1>5. CASE Finish(n, counted, NoWrites, {}, Consumed(m))
  <2>1. Works(k, k, NoWrites)
    BY <1>4, NothingWorks
  <2>2. Works(nd, k, NoWrites)
    BY <1>4, <2>1, SameWindowWorks
  <2>3. \A x \in {} : MessageTyped(x)
    OBVIOUS
  <2>4. QED
    BY <1>3, <1>5, <2>2, <2>3 DEF WorkStep
<1>6. CASE /\ StillDriving(nd, m)
           /\ Finish(n, decided.nd, decided.w, told, Consumed(m))
  <2>1. v \in Values
    <3>1. Cell(nd.ledger, m.slot).state # "Empty"
      BY <1>6 DEF StillDriving
    <3>2. LedgerTyped(nd.ledger, nd.memory_floor + Window)
      BY <1>1 DEF NodeTyped
    <3>3. QED
      BY <1>2, <3>1, <3>2, UsedCellFacts DEF Cell
  <2>2. PICK r : r = record_commit(k, m.slot, v)
    OBVIOUS
  <2>3. Works(k, r.nd, r.w)
    BY <1>2, <1>4, <2>1, <2>2, RecordCommitWorks
  <2>4. Works(nd, r.nd, r.w)
    BY <1>4, <2>3, SameWindowWorks
  <2>5. \A p : MessageTyped(Commit(n, p, m.slot, v))
    BY <1>2, <2>1, MessageForms
  <2>6. \A x \in told : MessageTyped(x)
    BY <2>5
  <2>7. QED
    BY <1>3, <1>6, <2>2, <2>4, <2>6 DEF WorkStep
<1>7. QED
  BY <1>5, <1>6 DEF OnAccepted

\* send_accept: the votes land in the window, and only decisions are released.
LEMMA SendAcceptsFacts ==
  ASSUME NEW n \in Node, NEW nd, NodeTyped(nd), NEW S, NEW val,
         \A s \in S : /\ s \in Slot /\ s \in (nd.memory_floor + 1) .. (nd.memory_floor + Window)
                      /\ ~ ledger_is_chosen(nd.ledger, s) /\ val[s] \in Values
  PROVE  LET r == SendAccepts(n, nd, S, val) IN
         /\ NodeTyped(r.nd) /\ Places(nd.ledger, r.nd.ledger, nd.memory_floor, r.w)
         /\ WritesTyped(r.w, nd.memory_floor + Window)
         /\ r.w.trim = NoAnchor /\ r.w.promise = BALLOT_ZERO
         /\ r.nd.role = nd.role /\ r.nd.ballot = nd.ballot /\ r.nd.recovery = nd.recovery
         /\ r.nd.next_slot = nd.next_slot /\ r.nd.memory_floor = nd.memory_floor
         /\ r.nd.delivered_through >= nd.delivered_through
         /\ \A s \in (nd.delivered_through + 1) .. r.nd.delivered_through :
              ledger_is_chosen(r.nd.ledger, s)
         /\ DOMAIN r.w.votes = S /\ DOMAIN r.w.chosen \subseteq S
         /\ \A s \in S : r.w.votes[s] = [ballot |-> nd.ballot, value |-> val[s]]
         /\ \A s \in DOMAIN r.w.chosen : r.w.chosen[s] = val[s]
         /\ \A m \in r.out : MessageTyped(m)
<1> DEFINE w == [NoWrites EXCEPT
                   !.votes = [s \in S |-> [ballot |-> nd.ballot, value |-> val[s]]],
                   !.chosen = IF WriteQuorum = 1 THEN [s \in S |-> val[s]] ELSE <<>>]
           lead == [c \in Cells |->
                      IF \E s \in S : cell_of(s) = c
                        THEN [slot |-> CHOOSE s \in S : cell_of(s) = c,
                              ballot |-> nd.ballot, acks |-> {n}]
                        ELSE nd.lead[c]]
           voted == [nd EXCEPT !.ledger = RecordWrites(@, w), !.lead = lead]
           out == {Accept(n, p, nd.ballot, s, val[s]) : p \in Peers(n), s \in S}
           r == SendAccepts(n, nd, S, val)
<1>1. /\ nd.memory_floor \in Nat /\ nd.delivered_through \in Nat /\ nd.ballot \in BallotSet
      /\ nd.memory_floor <= nd.delivered_through /\ nd.lead \in [Cells -> LeadType]
  BY Constants DEF NodeTyped
<1>2. /\ r.nd = IF WriteQuorum = 1 /\ S # {} THEN Emitted(voted) ELSE voted
      /\ r.w = w /\ r.out = out
  <2>1. voted = [nd EXCEPT !.ledger = RecordWrites(@, w),
                           !.lead = [c \in Cells |->
                              IF \E s \in S : cell_of(s) = c
                                THEN [slot |-> CHOOSE s \in S : cell_of(s) = c,
                                      ballot |-> nd.ballot, acks |-> {n}]
                                ELSE @[c]]]
    BY <1>1 DEF NodeTyped
  <2>2. r = Result(IF WriteQuorum = 1 /\ S # {} THEN Emitted(voted) ELSE voted, w, out)
    BY <2>1 DEF SendAccepts
  <2>3. QED
    BY <2>2 DEF Result
<1>3. /\ w.votes = [s \in S |-> [ballot |-> nd.ballot, value |-> val[s]]]
      /\ w.chosen = IF WriteQuorum = 1 THEN [s \in S |-> val[s]] ELSE << >>
      /\ w.trim = NoAnchor /\ w.promise = BALLOT_ZERO
      /\ w = [promise |-> w.promise, trim |-> w.trim, votes |-> w.votes, chosen |-> w.chosen]
  <2>1. PICK v, d : /\ v = [s \in S |-> [ballot |-> nd.ballot, value |-> val[s]]]
                    /\ d = IF WriteQuorum = 1 THEN [s \in S |-> val[s]] ELSE << >>
    OBVIOUS
  <2>2. w = [NoWrites EXCEPT !.votes = v, !.chosen = d]
    BY <2>1
  <2> HIDE DEF w
  <2>3. w = [promise |-> BALLOT_ZERO, trim |-> NoAnchor, votes |-> v, chosen |-> d]
    BY <2>2 DEF NoWrites
  <2>4. QED
    BY <2>1, <2>3
<1>4. DOMAIN w.votes = S /\ DOMAIN w.chosen \subseteq S /\ WrittenSlots(w) = S
      /\ \A s \in DOMAIN w.chosen : w.chosen[s] = val[s]
  <2>1. DOMAIN << >> = {}
    OBVIOUS
  <2>2. DOMAIN w.votes = S
    BY <1>3
  <2>3. DOMAIN w.chosen = IF WriteQuorum = 1 THEN S ELSE {}
    BY <1>3, <2>1
  <2>4. \A s \in DOMAIN w.chosen : w.chosen[s] = val[s]
    BY <1>3, <2>3
  <2>5. QED
    BY <2>2, <2>3, <2>4 DEF WrittenSlots
<1> HIDE DEF w, r
<1>5. WritesTyped(w, nd.memory_floor + Window)
  <2>1. w.promise \in BallotSet /\ w.trim \in AnchorType
    BY <1>3, EmptyBatch DEF WritesTyped
  <2>2. \A s \in S : s \in Slot /\ s <= nd.memory_floor + Window
    BY <1>1, Constants
  <2>3. QED
    BY <1>1, <1>3, <1>4, <2>1, <2>2 DEF WritesTyped
<1>6. \A s \in WrittenSlots(w) : s > nd.memory_floor /\ ~ ledger_is_chosen(nd.ledger, s)
  BY <1>1, <1>4, Constants
<1>7. PICK p : p = [nd EXCEPT !.ledger = RecordWrites(@, w)]
  OBVIOUS
<1>8. /\ NodeTyped(p) /\ Places(nd.ledger, p.ledger, nd.memory_floor, w)
      /\ p.role = nd.role /\ p.ballot = nd.ballot /\ p.recovery = nd.recovery
      /\ p.next_slot = nd.next_slot
      /\ p.memory_floor = nd.memory_floor /\ p.delivered_through = nd.delivered_through
  BY <1>3, <1>5, <1>6, <1>7, RecordedNode
<1>9. lead \in [Cells -> LeadType]
  <2> SUFFICES ASSUME NEW c \in Cells PROVE lead[c] \in LeadType
    BY DEF LeadType
  <2>1. CASE \E s \in S : cell_of(s) = c
    <3>1. PICK s \in S : s = CHOOSE x \in S : cell_of(x) = c
      BY <2>1
    <3>2. s \in 0 .. MaxSlot
      BY Constants DEF Slot
    <3>3. lead[c] = [slot |-> s, ballot |-> nd.ballot, acks |-> {n}]
      BY <2>1, <3>1
    <3>4. QED
      BY <1>1, <3>2, <3>3 DEF LeadType
  <2>2. CASE ~ \E s \in S : cell_of(s) = c
    BY <1>1, <2>2
  <2>3. QED
    BY <2>1, <2>2
<1>10. voted = [p EXCEPT !.lead = lead]
  BY <1>7
<1> HIDE DEF lead
<1>11. PICK q : q = voted
  OBVIOUS
<1>12. /\ NodeTyped(q) /\ q.ledger = p.ledger /\ q.role = nd.role /\ q.ballot = nd.ballot
       /\ q.recovery = nd.recovery /\ q.next_slot = nd.next_slot
       /\ q.memory_floor = nd.memory_floor /\ q.delivered_through = nd.delivered_through
  BY <1>8, <1>9, <1>10, <1>11 DEF NodeTyped
<1>13. r.nd = q \/ r.nd = Emitted(q)
  BY <1>2, <1>11
<1>14. /\ NodeTyped(r.nd) /\ r.nd.ledger = p.ledger /\ r.nd.role = nd.role
       /\ r.nd.ballot = nd.ballot /\ r.nd.recovery = nd.recovery
       /\ r.nd.next_slot = nd.next_slot /\ r.nd.memory_floor = nd.memory_floor
       /\ r.nd.delivered_through >= nd.delivered_through
       /\ \A s \in (nd.delivered_through + 1) .. r.nd.delivered_through :
            ledger_is_chosen(r.nd.ledger, s)
  <2>1. CASE r.nd = q
    <3>1. (nd.delivered_through + 1) .. nd.delivered_through = {}
      BY <1>1
    <3>2. QED
      BY <1>1, <1>12, <2>1, <3>1
  <2>2. CASE r.nd = Emitted(q)
    <3>1. PICK e : e = Emitted(q)
      OBVIOUS
    <3>2. /\ NodeTyped(e) /\ e.ledger = q.ledger /\ e.role = q.role
          /\ e.ballot = q.ballot /\ e.recovery = q.recovery
          /\ e.next_slot = q.next_slot /\ e.memory_floor = q.memory_floor
          /\ e.delivered_through \in q.delivered_through .. MaxSlot
          /\ \A s \in (q.delivered_through + 1) .. e.delivered_through :
               ledger_is_chosen(q.ledger, s)
      BY <1>12, <3>1, EmittedFacts
    <3>3. e.delivered_through >= nd.delivered_through
      BY <1>1, <1>12, <3>2, Constants
    <3>4. QED
      BY <1>12, <2>2, <3>1, <3>2, <3>3
  <2>3. QED
    BY <1>13, <2>1, <2>2
<1>15. \A m \in out : MessageTyped(m)
  BY <1>1, MessageForms
<1>16. \A s \in S : w.votes[s] = [ballot |-> nd.ballot, value |-> val[s]]
  BY <1>3
<1> HIDE DEF out
<1>17. QED
  BY <1>2, <1>3, <1>4, <1>5, <1>8, <1>14, <1>15, <1>16 DEF r

LEMMA BatchFacts ==
  ASSUME NEW vals \in ProposalBatches
  PROVE  Len(vals) \in Nat /\ Len(vals) >= 1 /\ \A i \in 1 .. Len(vals) : vals[i] \in Value
<1>1. PICK k \in Nat : k >= 1 /\ vals \in [1 .. k -> Value]
  BY Constants DEF ProposalBatches
<1>2. vals \in Seq(Value)
  BY <1>1, SeqDef
<1>3. Len(vals) \in Nat /\ DOMAIN vals = 1 .. Len(vals) /\ DOMAIN vals = 1 .. k
  BY <1>1, <1>2, LenProperties
<1>4. Len(vals) = k
  BY <1>1, <1>3
<1>5. QED
  BY <1>1, <1>4

LEMMA ProposeWorks ==
  ASSUME TypeInv, NEW n \in Node, NEW vals \in ProposalBatches, Propose(n, vals)
  PROVE  WorkStep(n)
<1> DEFINE nd == node[n]
           slots == nd.next_slot .. (nd.next_slot + Len(vals) - 1)
           open == {s \in slots : claim_live(nd, s) /\ LiveCell(nd, s).state # "Chosen"}
           val == [s \in slots |-> vals[s - nd.next_slot + 1]]
           moved == [nd EXCEPT !.next_slot = @ + Len(vals)]
           r == SendAccepts(n, moved, open, val)
<1>1. NodeTyped(nd) /\ nd.next_slot \in Slot /\ nd.next_slot \in Nat
  BY NodeFacts, Constants DEF NodeTyped, Slot
<1>2. Len(vals) \in Nat /\ Len(vals) >= 1 /\ \A i \in 1 .. Len(vals) : vals[i] \in Value
  BY BatchFacts
<1>3. /\ nd.role = "Leader" /\ Len(vals) <= MaxSlot - nd.next_slot
      /\ Finish(n, r.nd, r.w, r.out, {})
  BY DEF Propose, CanPropose, FinishResult
<1>4. PICK k : k = moved
  OBVIOUS
<1>5. /\ NodeTyped(k) /\ k.ledger = nd.ledger /\ k.role = nd.role /\ k.ballot = nd.ballot
      /\ k.memory_floor = nd.memory_floor /\ k.delivered_through = nd.delivered_through
  <2>1. nd.next_slot + Len(vals) \in Slot
    <3>1. PICK a, k1 : a = nd.next_slot /\ k1 = Len(vals)
      OBVIOUS
    <3>2. /\ a \in Nat /\ k1 \in Nat /\ a >= 1 /\ k1 <= MaxSlot - a /\ MaxSlot \in Nat
      BY <1>1, <1>2, <1>3, <3>1, Constants DEF Slot
    <3>3. a + k1 \in 1 .. MaxSlot
      BY <3>2
    <3>4. QED
      BY <3>1, <3>3 DEF Slot
  <2>2. QED
    BY <1>1, <1>4, <2>1 DEF NodeTyped
<1>6. ASSUME NEW s \in open
      PROVE  /\ s \in Slot /\ s \in (k.memory_floor + 1) .. (k.memory_floor + Window)
             /\ ~ ledger_is_chosen(k.ledger, s) /\ val[s] \in Values
  <2>1. s \in Nat /\ s >= nd.next_slot /\ s <= nd.next_slot + Len(vals) - 1
    BY <1>1, <1>2
  <2>2. s \in Slot
    <3>1. PICK a, b : a = nd.next_slot /\ b = Len(vals)
      OBVIOUS
    <3>2. /\ a \in Nat /\ b \in Nat /\ a >= 1 /\ b <= MaxSlot - a /\ MaxSlot \in Nat
          /\ s \in Nat /\ s >= a /\ s <= a + b - 1
      BY <1>1, <1>2, <1>3, <2>1, <3>1, Constants DEF Slot
    <3>3. QED
      BY <3>2 DEF Slot
  <2>3. s - nd.next_slot + 1 \in 1 .. Len(vals)
    BY <1>1, <1>2, <2>1
  <2>4. val[s] \in Values
    BY <1>2, <2>3 DEF Values
  <2>5. QED
    BY <1>1, <1>5, <2>2, <2>4, LiveCellFacts
<1>7. r = SendAccepts(n, k, open, val)
  BY <1>4
<1> HIDE DEF open, val, r, moved
<1>8. /\ NodeTyped(r.nd) /\ Places(k.ledger, r.nd.ledger, k.memory_floor, r.w)
      /\ WritesTyped(r.w, k.memory_floor + Window)
      /\ r.w.trim = NoAnchor /\ r.w.promise = BALLOT_ZERO
      /\ r.nd.ballot = k.ballot /\ r.nd.memory_floor = k.memory_floor
      /\ r.nd.delivered_through >= k.delivered_through
      /\ \A s \in (k.delivered_through + 1) .. r.nd.delivered_through :
           ledger_is_chosen(r.nd.ledger, s)
      /\ DOMAIN r.w.votes = open
      /\ \A s \in open : r.w.votes[s] = [ballot |-> k.ballot, value |-> val[s]]
      /\ \A m \in r.out : MessageTyped(m)
  BY <1>5, <1>6, <1>7, SendAcceptsFacts
<1>9. Bids(k, r.nd, r.w)
  <2>1. k.role # "Follower"
    BY <1>3, <1>5
  <2>2. ASSUME NEW s \in DOMAIN r.w.votes PROVE r.w.votes[s].ballot = k.ballot
    <3>1. r.w.votes[s] = [ballot |-> k.ballot, value |-> val[s]]
      BY <1>8
    <3>2. QED
      BY <3>1
  <2>3. QED
    BY <1>8, <2>1, <2>2 DEF Bids
<1>10. Works(k, r.nd, r.w)
  BY <1>5, <1>8, <1>9, PlacesWorks
<1>11. Works(nd, r.nd, r.w)
  BY <1>5, <1>10, SameWindowWorks
<1>12. QED
  BY <1>3, <1>8, <1>11 DEF WorkStep

\* The fences of a campaign are slots that members have reported.
LEMMA FenceFacts ==
  ASSUME NEW nd, NodeTyped(nd), RecoveryTyped(nd.recovery)
  PROVE  /\ Fence(nd) \in 0 .. MaxSlot /\ nd.delivered_through <= Fence(nd)
         /\ ChosenFence(nd) \in 0 .. MaxSlot
<1> DEFINE own == {nd.ledger.anchor.chosen_trim_slot, nd.delivered_through}
           anchors == {nd.recovery.peer[p].anchor.chosen_trim_slot : p \in Node}
           frontiers == {nd.recovery.peer[p].chosen_through : p \in Node}
<1>1. nd.recovery.peer \in [Node -> PeerType]
  BY DEF RecoveryTyped
<1>2. \A p \in Node : /\ nd.recovery.peer[p].chosen_through \in 0 .. MaxSlot
                      /\ nd.recovery.peer[p].anchor.chosen_trim_slot \in 0 .. MaxSlot
  BY <1>1 DEF PeerType, AnchorType
<1>3. nd.delivered_through \in 0 .. MaxSlot /\ nd.ledger.anchor.chosen_trim_slot \in 0 .. MaxSlot
  BY DEF NodeTyped, LedgerTyped, LedgerType, AnchorType
<1>4. own \subseteq 0 .. MaxSlot /\ anchors \subseteq 0 .. MaxSlot
      /\ frontiers \subseteq 0 .. MaxSlot
  BY <1>2, <1>3
<1>5. PICK A : A = own \cup anchors \cup frontiers
  OBVIOUS
<1>6. PICK B : B = {nd.delivered_through} \cup frontiers
  OBVIOUS
<1>7. Fence(nd) = Max(A) /\ ChosenFence(nd) = Max(B)
  BY <1>5, <1>6 DEF Fence, ChosenFence
<1>8. A \subseteq 0 .. MaxSlot /\ B \subseteq 0 .. MaxSlot
      /\ nd.delivered_through \in A /\ nd.delivered_through \in B
  BY <1>3, <1>4, <1>5, <1>6
<1> HIDE DEF own, anchors, frontiers
<1>9. /\ A \subseteq Nat /\ A # {} /\ B \subseteq Nat /\ B # {}
      /\ MaxSlot \in Nat /\ (\A x \in A : x <= MaxSlot) /\ (\A x \in B : x <= MaxSlot)
  BY <1>8, Constants
<1>10. Max(A) \in A /\ (\A x \in A : x <= Max(A)) /\ Max(B) \in B
  BY <1>9, MaxIsGreatest
<1>11. QED
  BY <1>7, <1>8, <1>10

\* Batch w holds the decisions of w1 and the records of w2, for other slots.
Joins(w1, w2, w) ==
  /\ DOMAIN w1.votes = {} /\ DOMAIN w1.chosen \cap WrittenSlots(w2) = {}
  /\ w.votes = w2.votes /\ DOMAIN w.chosen = DOMAIN w1.chosen \cup DOMAIN w2.chosen
  /\ \A s \in DOMAIN w1.chosen : w.chosen[s] = w1.chosen[s]
  /\ \A s \in DOMAIN w2.chosen : w.chosen[s] = w2.chosen[s]

\* Two batches for different slots of one window are one batch.
LEMMA TwoPlaces ==
  ASSUME NEW f \in Nat, NEW l, LedgerTyped(l, f + Window), NEW k, LedgerTyped(k, f + Window),
         NEW w1, WritesTyped(w1, f + Window), NEW w2, WritesTyped(w2, f + Window),
         NEW after, Places(l, k, f, w1), Places(k, after, f, w2), NEW w, Joins(w1, w2, w)
  PROVE  Places(l, after, f, w)
<1> USE DEF Joins
<1>1. /\ WrittenSlots(w1) = DOMAIN w1.chosen
      /\ WrittenSlots(w) = WrittenSlots(w1) \cup WrittenSlots(w2)
  BY DEF WrittenSlots
<1>2. \A s \in WrittenSlots(w) : s \in (f + 1) .. (f + Window) /\ s \in Slot /\ cell_of(s) \in Cells
  <2>1. \A s \in WrittenSlots(w) : s \in Slot
    BY <1>1 DEF WritesTyped, WrittenSlots
  <2>2. \A s \in Slot : cell_of(s) \in Cells
    BY CellOfSlot, Constants
  <2>3. QED
    BY <1>1, <2>1, <2>2 DEF Places
<1>3. \A s \in WrittenSlots(w1), t \in WrittenSlots(w2) : cell_of(s) # cell_of(t)
  <2> SUFFICES ASSUME NEW s \in WrittenSlots(w1), NEW t \in WrittenSlots(w2),
                      cell_of(s) = cell_of(t)
               PROVE  FALSE
    OBVIOUS
  <2>1. s \in (f + 1) .. (f + Window) /\ t \in (f + 1) .. (f + Window)
    BY <1>1, <1>2
  <2>2. s = t
    BY <2>1, LiveSlotsHaveTheirOwnCell
  <2>3. QED
    BY <1>1, <2>2
<1>4. ASSUME NEW s \in WrittenSlots(w1)
      PROVE  ~ ledger_is_chosen(l, s) /\ Cell(after, s) = ApplySlot(Cell(l, s), s, w)
  <2>1. ~ ledger_is_chosen(l, s) /\ Cell(k, s) = ApplySlot(Cell(l, s), s, w1)
    BY DEF Places
  <2>2. Cell(after, s) = Cell(k, s)
    BY <1>1, <1>2, <1>3 DEF Places, Cell
  <2>3. s \in DOMAIN w1.chosen /\ s \notin WrittenSlots(w2) /\ s \notin DOMAIN w.votes
    BY <1>1 DEF WrittenSlots
  <2>4. ApplySlot(Cell(l, s), s, w1) = ApplySlot(Cell(l, s), s, w)
    BY <2>3 DEF ApplySlot
  <2>5. QED
    BY <2>1, <2>2, <2>4
<1>5. ASSUME NEW s \in WrittenSlots(w2)
      PROVE  ~ ledger_is_chosen(l, s) /\ Cell(after, s) = ApplySlot(Cell(l, s), s, w)
  <2>1. ~ ledger_is_chosen(k, s) /\ Cell(after, s) = ApplySlot(Cell(k, s), s, w2)
    BY DEF Places
  <2>2. Cell(k, s) = Cell(l, s)
    BY <1>1, <1>2, <1>3 DEF Places, Cell
  <2>3. s \notin DOMAIN w1.chosen
    BY <1>1
  <2>4. ApplySlot(Cell(l, s), s, w2) = ApplySlot(Cell(l, s), s, w)
    BY <2>3 DEF ApplySlot
  <2>5. QED
    BY <2>1, <2>2, <2>4 DEF ledger_is_chosen
<1>6. \A c \in Cells : (\A s \in WrittenSlots(w) : cell_of(s) # c)
                         => after.cell[c] = l.cell[c]
  BY <1>1 DEF Places
<1>7. after.promised = l.promised /\ after.anchor = l.anchor
  BY DEF Places
<1>8. QED
  BY <1>1, <1>2, <1>4, <1>5, <1>6, <1>7 DEF Places

\* The slots of a drive, all in the window: those adopted and those proposed.
Drives(nd, drive, val, adopted, open) ==
  /\ \A s \in drive : /\ s \in Slot
                      /\ s \in (nd.memory_floor + 1) .. (nd.memory_floor + Window)
                      /\ val[s] \in Values
  /\ adopted \subseteq drive /\ open \subseteq drive /\ adopted \cap open = {}
  /\ \A s \in adopted \cup open : ~ ledger_is_chosen(nd.ledger, s)

\* The steps of resolve_chunk: learn, release, propose, in one batch w.
Sends(n, nd, val, adopted, open, learnt, adopting, e, sent, w) ==
  /\ learnt = [NoWrites EXCEPT !.chosen = [s \in adopted |-> val[s]]]
  /\ adopting = [nd EXCEPT !.ledger = RecordWrites(@, learnt)]
  /\ e \in {adopting, Emitted(adopting)}
  /\ sent = SendAccepts(n, e, open, val)
  /\ w = [sent.w EXCEPT !.chosen = [s \in DOMAIN @ \cup adopted |-> val[s]]]

LEMMA DriveFacts ==
  ASSUME NEW n \in Node, NEW nd, NodeTyped(nd), NEW drive, NEW val, NEW adopted, NEW open,
         Drives(nd, drive, val, adopted, open),
         NEW learnt, NEW adopting, NEW e, NEW sent, NEW w,
         Sends(n, nd, val, adopted, open, learnt, adopting, e, sent, w)
  PROVE  /\ NodeTyped(sent.nd) /\ Places(nd.ledger, sent.nd.ledger, nd.memory_floor, w)
         /\ WritesTyped(w, nd.memory_floor + Window)
         /\ w.trim = NoAnchor /\ w.promise = BALLOT_ZERO
         /\ sent.nd.role = nd.role /\ sent.nd.ballot = nd.ballot
         /\ sent.nd.recovery = nd.recovery /\ sent.nd.memory_floor = nd.memory_floor
         /\ sent.nd.next_slot = nd.next_slot
         /\ sent.nd.delivered_through >= nd.delivered_through
         /\ \A s \in (nd.delivered_through + 1) .. sent.nd.delivered_through :
              ledger_is_chosen(sent.nd.ledger, s)
         /\ \A s \in DOMAIN w.votes : w.votes[s].ballot = nd.ballot
         /\ adopted \subseteq DOMAIN w.chosen
         /\ \A m \in sent.out : MessageTyped(m)
<1> DEFINE f == nd.memory_floor
<1>a. /\ learnt = [NoWrites EXCEPT !.chosen = [s \in adopted |-> val[s]]]
      /\ adopting = [nd EXCEPT !.ledger = RecordWrites(@, learnt)]
      /\ e \in {adopting, Emitted(adopting)}
      /\ sent = SendAccepts(n, e, open, val)
      /\ w = [sent.w EXCEPT !.chosen = [s \in DOMAIN @ \cup adopted |-> val[s]]]
  BY DEF Sends
<1>b. /\ \A s \in drive : /\ s \in Slot /\ s \in (f + 1) .. (f + Window) /\ val[s] \in Values
      /\ adopted \subseteq drive /\ open \subseteq drive /\ adopted \cap open = {}
      /\ \A s \in adopted \cup open : ~ ledger_is_chosen(nd.ledger, s)
  BY DEF Drives
<1>1. /\ f \in Nat /\ nd.delivered_through \in Nat /\ f <= nd.delivered_through
      /\ LedgerTyped(nd.ledger, f + Window)
  BY Constants DEF NodeTyped
<1>2. /\ learnt.votes = << >> /\ learnt.chosen = [s \in adopted |-> val[s]]
      /\ learnt.promise = BALLOT_ZERO /\ learnt.trim = NoAnchor
      /\ learnt = [promise |-> learnt.promise, trim |-> learnt.trim,
                   votes |-> learnt.votes, chosen |-> learnt.chosen]
  BY <1>a DEF NoWrites
<1>3. DOMAIN learnt.votes = {} /\ DOMAIN learnt.chosen = adopted
      /\ WrittenSlots(learnt) = adopted
      /\ \A s \in adopted : learnt.chosen[s] = val[s]
  BY <1>2 DEF WrittenSlots
<1>4. \A s \in drive : s <= f + Window /\ s > f
  BY <1>b, <1>1, Constants
<1>5. WritesTyped(learnt, f + Window)
  <2>1. BALLOT_ZERO \in BallotSet /\ NoAnchor \in AnchorType
    BY EmptyBatch DEF WritesTyped
  <2>2. QED
    BY <1>b, <1>2, <1>3, <1>4, <2>1 DEF WritesTyped
<1>6. /\ NodeTyped(adopting) /\ Places(nd.ledger, adopting.ledger, f, learnt)
      /\ adopting.role = nd.role /\ adopting.ballot = nd.ballot
      /\ adopting.recovery = nd.recovery /\ adopting.next_slot = nd.next_slot
      /\ adopting.memory_floor = f /\ adopting.delivered_through = nd.delivered_through
  <2>1. \A s \in WrittenSlots(learnt) : s > f /\ ~ ledger_is_chosen(nd.ledger, s)
    BY <1>b, <1>3, <1>4
  <2>2. QED
    <3>1. adopting = [nd EXCEPT !.ledger = RecordWrites(@, learnt)]
      BY <1>a
    <3>2. QED
      BY <1>2, <1>5, <2>1, <3>1, RecordedNode
<1>7. /\ NodeTyped(e) /\ e.ledger = adopting.ledger /\ e.role = nd.role /\ e.ballot = nd.ballot
      /\ e.recovery = nd.recovery /\ e.next_slot = nd.next_slot /\ e.memory_floor = f
      /\ e.delivered_through \in Nat /\ e.delivered_through >= nd.delivered_through
      /\ \A s \in (nd.delivered_through + 1) .. e.delivered_through :
           ledger_is_chosen(e.ledger, s)
  <2>1. CASE e = adopting
    <3>1. (nd.delivered_through + 1) .. nd.delivered_through = {}
      BY <1>1
    <3>2. QED
      BY <1>1, <1>6, <2>1, <3>1
  <2>2. CASE e = Emitted(adopting)
    <3>1. /\ NodeTyped(e) /\ e.ledger = adopting.ledger /\ e.role = adopting.role
          /\ e.ballot = adopting.ballot /\ e.recovery = adopting.recovery
          /\ e.next_slot = adopting.next_slot /\ e.memory_floor = adopting.memory_floor
          /\ e.delivered_through \in adopting.delivered_through .. MaxSlot
          /\ \A s \in (adopting.delivered_through + 1) .. e.delivered_through :
               ledger_is_chosen(adopting.ledger, s)
      BY <1>6, <2>2, EmittedFacts
    <3>2. e.delivered_through \in Nat /\ e.delivered_through >= nd.delivered_through
      BY <1>1, <1>6, <3>1, Constants
    <3>3. QED
      BY <1>6, <3>1, <3>2
  <2>3. QED
    BY <1>a, <2>1, <2>2
<1>8. \A s \in open : ~ ledger_is_chosen(e.ledger, s)
  <2>1. \A s \in Slot : ledger_is_chosen(adopting.ledger, s) =>
              \/ s \in DOMAIN learnt.chosen
              \/ s \notin WrittenSlots(learnt) /\ ledger_is_chosen(nd.ledger, s)
    BY <1>1, <1>5, <1>6, PlacedFacts
  <2>2. QED
    BY <1>b, <1>3, <1>7, <2>1
<1>9. /\ NodeTyped(sent.nd) /\ Places(e.ledger, sent.nd.ledger, e.memory_floor, sent.w)
      /\ WritesTyped(sent.w, e.memory_floor + Window)
      /\ sent.w.trim = NoAnchor /\ sent.w.promise = BALLOT_ZERO
      /\ sent.nd.role = e.role /\ sent.nd.ballot = e.ballot /\ sent.nd.recovery = e.recovery
      /\ sent.nd.next_slot = e.next_slot /\ sent.nd.memory_floor = e.memory_floor
      /\ sent.nd.delivered_through >= e.delivered_through
      /\ \A s \in (e.delivered_through + 1) .. sent.nd.delivered_through :
           ledger_is_chosen(sent.nd.ledger, s)
      /\ DOMAIN sent.w.votes = open /\ DOMAIN sent.w.chosen \subseteq open
      /\ \A s \in open : sent.w.votes[s] = [ballot |-> e.ballot, value |-> val[s]]
      /\ \A s \in DOMAIN sent.w.chosen : sent.w.chosen[s] = val[s]
      /\ \A m \in sent.out : MessageTyped(m)
  <2>1. \A s \in open : /\ s \in Slot /\ s \in (e.memory_floor + 1) .. (e.memory_floor + Window)
                        /\ ~ ledger_is_chosen(e.ledger, s) /\ val[s] \in Values
    BY <1>b, <1>7, <1>8
  <2>2. QED
    BY <1>a, <1>7, <2>1, SendAcceptsFacts
<1>10. /\ w.votes = sent.w.votes /\ w.trim = sent.w.trim /\ w.promise = sent.w.promise
       /\ w.chosen = [s \in DOMAIN sent.w.chosen \cup adopted |-> val[s]]
       /\ w = [promise |-> w.promise, trim |-> w.trim, votes |-> w.votes, chosen |-> w.chosen]
  <2>1. sent.w = [promise |-> sent.w.promise, trim |-> sent.w.trim,
                  votes |-> sent.w.votes, chosen |-> sent.w.chosen]
    BY <1>9 DEF WritesTyped
  <2>2. PICK d : d = [s \in DOMAIN sent.w.chosen \cup adopted |-> val[s]]
    OBVIOUS
  <2>3. w = [sent.w EXCEPT !.chosen = d]
    BY <1>a, <2>1, <2>2
  <2>4. QED
    BY <2>1, <2>2, <2>3
<1>11. /\ DOMAIN w.chosen = DOMAIN learnt.chosen \cup DOMAIN sent.w.chosen
       /\ \A s \in DOMAIN learnt.chosen : w.chosen[s] = learnt.chosen[s]
       /\ \A s \in DOMAIN sent.w.chosen : w.chosen[s] = sent.w.chosen[s]
  BY <1>3, <1>9, <1>10
<1>12. WritesTyped(w, f + Window)
  <2>1. /\ w.promise \in BallotSet /\ w.trim \in AnchorType
        /\ \A s \in DOMAIN w.votes : /\ s \in Slot /\ s <= f + Window
                                     /\ w.votes[s].ballot \in BallotSet
                                     /\ w.votes[s].value \in Values
    BY <1>7, <1>9, <1>10 DEF WritesTyped
  <2>2. \A s \in DOMAIN w.chosen : s \in drive
    BY <1>b, <1>3, <1>9, <1>11
  <2>3. \A s \in DOMAIN w.chosen : s \in Slot /\ s <= f + Window /\ w.chosen[s] \in Values
    BY <1>b, <1>4, <1>10, <1>11, <2>2
  <2>4. QED
    BY <1>10, <2>1, <2>3 DEF WritesTyped
<1>13. Places(nd.ledger, sent.nd.ledger, f, w)
  <2>1. LedgerTyped(adopting.ledger, f + Window)
    BY <1>6 DEF NodeTyped
  <2>2. DOMAIN learnt.chosen \cap WrittenSlots(sent.w) = {}
    BY <1>b, <1>3, <1>9 DEF WrittenSlots
  <2>3. Places(adopting.ledger, sent.nd.ledger, f, sent.w) /\ WritesTyped(sent.w, f + Window)
    BY <1>7, <1>9
  <2>4. QED
    <3>1. Joins(learnt, sent.w, w)
      BY <1>3, <1>10, <1>11, <2>2 DEF Joins
    <3>2. QED
      BY <1>1, <1>5, <1>6, <2>1, <2>3, <3>1, TwoPlaces
<1>14. ASSUME NEW s \in (nd.delivered_through + 1) .. sent.nd.delivered_through
       PROVE  ledger_is_chosen(sent.nd.ledger, s)
  <2>1. sent.nd.delivered_through \in 0 .. MaxSlot
    BY <1>9 DEF NodeTyped
  <2>2. s \in Slot /\ s \in Nat /\ s > f
    BY <1>1, <2>1, Constants DEF Slot
  <2>3. CASE s \in (nd.delivered_through + 1) .. e.delivered_through
    <3>1. ledger_is_chosen(e.ledger, s)
      BY <1>7, <2>3
    <3>2. LedgerTyped(e.ledger, f + Window)
      BY <1>7 DEF NodeTyped
    <3>3. Places(e.ledger, sent.nd.ledger, f, sent.w) /\ WritesTyped(sent.w, f + Window)
      BY <1>7, <1>9
    <3>4. QED
      BY <1>1, <2>2, <3>1, <3>2, <3>3, PlacedFacts
  <2>4. CASE s \in (e.delivered_through + 1) .. sent.nd.delivered_through
    BY <1>9, <2>4
  <2>5. QED
    BY <1>1, <1>7, <2>1, <2>2, <2>3, <2>4, Constants
<1>15. sent.nd.delivered_through >= nd.delivered_through
  <2>1. sent.nd.delivered_through \in Nat
    BY <1>9, Constants DEF NodeTyped
  <2>2. QED
    BY <1>1, <1>7, <1>9, <2>1
<1>16. ASSUME NEW s \in DOMAIN w.votes PROVE w.votes[s].ballot = nd.ballot
  <2>1. w.votes[s] = [ballot |-> e.ballot, value |-> val[s]]
    BY <1>9, <1>10
  <2>2. QED
    BY <1>7, <2>1
<1>17. QED
  BY <1>3, <1>7, <1>9, <1>10, <1>11, <1>12, <1>13, <1>14, <1>15, <1>16

LEMMA NextChunkFacts ==
  ASSUME NEW n \in Node, NEW nd, NodeTyped(nd), RecoveryTyped(nd.recovery),
         nd.recovery.last < MaxSlot
  PROVE  LET r == BeginNextChunk(n, nd) IN
         /\ NodeTyped(r.nd) /\ r.nd.ledger = nd.ledger /\ r.nd.role = nd.role
         /\ r.nd.ballot = nd.ballot /\ r.nd.memory_floor = nd.memory_floor
         /\ r.nd.delivered_through = nd.delivered_through
         /\ \A m \in r.out : MessageTyped(m)
<1> DEFINE base == nd.recovery.last + 1
           peers == [p \in Node |-> [NoPeer EXCEPT
                       !.anchor = nd.recovery.peer[p].anchor,
                       !.chosen_through = nd.recovery.peer[p].chosen_through]]
           rec == NewRecovery(base, peers)
           new == [nd EXCEPT !.recovery = rec]
           out == {Prepare(n, p, nd.ballot, rec.base, rec.last) : p \in Node}
<1>1. nd.recovery.base \in Slot /\ nd.recovery.last = slot_add(nd.recovery.base, Chunk - 1)
      /\ nd.recovery.peer \in [Node -> PeerType]
  BY DEF RecoveryTyped
<1>2. base \in Slot
  <2>1. Chunk - 1 \in Nat /\ nd.recovery.base \in 0 .. (MaxSlot + 1) /\ nd.recovery.base <= MaxSlot
    BY <1>1, Constants DEF Slot
  <2>2. nd.recovery.last \in nd.recovery.base .. MaxSlot
    BY <1>1, <2>1, SlotAdd
  <2>3. QED
    BY <1>1, <2>2, Constants DEF Slot
<1>3. peers \in [Node -> PeerType] /\ \A p \in Node : ~ peers[p].more
  <2> SUFFICES ASSUME NEW p \in Node PROVE peers[p] \in PeerType /\ ~ peers[p].more
    OBVIOUS
  <2>1. PICK a, t : a = nd.recovery.peer[p].anchor /\ t = nd.recovery.peer[p].chosen_through
    OBVIOUS
  <2>2. a \in AnchorType /\ t \in 0 .. MaxSlot
    BY <1>1, <2>1 DEF PeerType
  <2>3. peers[p] = [anchor |-> a, chosen_through |-> t, expected_in_range |-> 0,
                    range_described |-> FALSE, more |-> FALSE, seen |-> {}]
    BY <2>1 DEF NoPeer
  <2>4. 0 \in 0 .. Chunk
    BY Constants
  <2>5. QED
    BY <2>2, <2>3, <2>4 DEF PeerType
<1> HIDE DEF base, peers
<1>4. RecoveryTyped(rec)
  BY <1>2, <1>3, NewRecoveryTyped
<1>5. rec.base = base /\ rec.last = slot_add(base, Chunk - 1)
  BY DEF NewRecovery
<1>6. \A m \in out : MessageTyped(m)
  <2>1. nd.ballot \in BallotSet
    BY DEF NodeTyped
  <2>2. \A p \in Node : MessageTyped(Prepare(n, p, nd.ballot, base, slot_add(base, Chunk - 1)))
    BY <1>2, <2>1, MessageForms
  <2>3. QED
    BY <1>5, <2>2
<1>7. BeginNextChunk(n, nd) = Result(new, NoWrites, out)
  BY DEF BeginNextChunk, base, peers
<1> HIDE DEF rec, out
<1>8. /\ NodeTyped(new) /\ new.ledger = nd.ledger /\ new.role = nd.role
      /\ new.ballot = nd.ballot /\ new.memory_floor = nd.memory_floor
      /\ new.delivered_through = nd.delivered_through
  BY <1>4 DEF NodeTyped
<1> HIDE DEF new
<1>9. QED
  BY <1>6, <1>7, <1>8 DEF Result

LEMMA BecomeLeaderFacts ==
  ASSUME NEW nd, NodeTyped(nd), RecoveryTyped(nd.recovery)
  PROVE  LET new == BecomeLeader(nd) IN
         /\ NodeTyped(new) /\ new.ledger = nd.ledger
         /\ new.role = "Leader" /\ new.ballot = nd.ballot
         /\ new.memory_floor = nd.memory_floor
         /\ new.delivered_through \in nd.delivered_through .. MaxSlot
         /\ \A s \in (nd.delivered_through + 1) .. new.delivered_through :
              ledger_is_chosen(new.ledger, s)
<1> DEFINE highest == MaxOf(ledger_highest_used(nd.ledger), Fence(nd))
           next == MaxOf(nd.next_slot, slot_add(highest, 1))
           led == [nd EXCEPT !.role = "Leader", !.recovery = NoRecovery,
                             !.next_slot = next, !.leader_base = next]
<1>1. highest \in 0 .. MaxSlot
  <2>1. ledger_highest_used(nd.ledger) \in 0 .. MaxSlot /\ Fence(nd) \in 0 .. MaxSlot
    BY HighestUsed, FenceFacts DEF NodeTyped
  <2>2. QED
    BY <2>1 DEF MaxOf
<1> HIDE DEF highest
<1>2. next \in Slot
  <2>1. highest \in 0 .. (MaxSlot + 1) /\ 1 \in Nat
    BY <1>1, Constants
  <2>2. slot_add(highest, 1) \in 0 .. MaxSlot
    BY <2>1, SlotAdd
  <2>3. nd.next_slot \in Slot
    BY DEF NodeTyped
  <2>4. QED
    BY <2>2, <2>3, Constants DEF MaxOf, Slot
<1> HIDE DEF next
<1>3. PICK l : l = led
  OBVIOUS
<1>4. /\ l.role = "Leader" /\ l.recovery = NoRecovery /\ l.next_slot = next
      /\ l.leader_base = next /\ l.ledger = nd.ledger /\ l.ballot = nd.ballot
      /\ l.memory_floor = nd.memory_floor /\ l.delivered_through = nd.delivered_through
      /\ l.campaign_enabled = nd.campaign_enabled /\ l.lead = nd.lead
      /\ l.highest_observed_round = nd.highest_observed_round
  BY <1>3 DEF NodeTyped
<1>5. l = [role |-> l.role, ballot |-> l.ballot,
           highest_observed_round |-> l.highest_observed_round,
           next_slot |-> l.next_slot, leader_base |-> l.leader_base,
           delivered_through |-> l.delivered_through, memory_floor |-> l.memory_floor,
           campaign_enabled |-> l.campaign_enabled, ledger |-> l.ledger,
           recovery |-> l.recovery, lead |-> l.lead]
  BY <1>3 DEF NodeTyped
<1>6. NodeTyped(l)
  BY <1>2, <1>4, <1>5 DEF NodeTyped
<1>7. BecomeLeader(nd) = Emitted(l)
  BY <1>3 DEF BecomeLeader, highest, next
<1>8. QED
  BY <1>4, <1>6, <1>7, EmittedFacts

\* The slots of a drive: above the fences, in the chunk and in the window.
LEMMA DriveIsInTheWindow ==
  ASSUME NEW nd, NodeTyped(nd), RecoveryTyped(nd.recovery),
         NEW reported \in SUBSET (nd.recovery.base .. nd.recovery.last),
         NEW known_high, NEW limit, NEW drive_limit, NEW s,
         known_high = Max({ledger_highest_used(nd.ledger), Fence(nd)} \cup reported),
         limit = IF nd.recovery.more THEN nd.recovery.last
                                     ELSE MinOf(nd.recovery.last, known_high),
         drive_limit = MinOf(limit, slot_add(nd.memory_floor, Window)),
         s \in MaxOf(nd.recovery.base, Fence(nd) + 1) .. drive_limit
  PROVE  /\ s \in Slot /\ s \in (nd.memory_floor + 1) .. (nd.memory_floor + Window)
         /\ s \in nd.recovery.base .. nd.recovery.last
<1>1. nd.recovery.base \in Slot /\ nd.recovery.last = slot_add(nd.recovery.base, Chunk - 1)
  BY DEF RecoveryTyped
<1>2. nd.recovery.last \in nd.recovery.base .. MaxSlot /\ nd.recovery.base \in Nat
      /\ nd.recovery.base >= 1
  <2>1. Chunk - 1 \in Nat /\ nd.recovery.base \in 0 .. (MaxSlot + 1) /\ nd.recovery.base <= MaxSlot
    BY <1>1, Constants DEF Slot
  <2>2. QED
    BY <1>1, <2>1, SlotAdd DEF Slot
<1>3. /\ nd.memory_floor \in Nat /\ nd.memory_floor \in 0 .. (MaxSlot + 1)
      /\ nd.delivered_through \in Nat /\ nd.memory_floor <= nd.delivered_through
  BY Constants DEF NodeTyped
<1>4. /\ Fence(nd) \in 0 .. MaxSlot /\ nd.delivered_through <= Fence(nd)
      /\ ledger_highest_used(nd.ledger) \in 0 .. MaxSlot
  BY FenceFacts, HighestUsed DEF NodeTyped
<1>5. known_high \in 0 .. MaxSlot
  <2>1. PICK A : A = {ledger_highest_used(nd.ledger), Fence(nd)} \cup reported
    OBVIOUS
  <2>2. A \subseteq 0 .. MaxSlot /\ A # {}
    <3>1. \A x \in nd.recovery.base .. nd.recovery.last : x \in 0 .. MaxSlot
      BY <1>2, Constants
    <3>2. QED
      BY <1>4, <2>1, <3>1
  <2>3. A \subseteq Nat /\ MaxSlot \in Nat /\ \A x \in A : x <= MaxSlot
    BY <2>2, Constants
  <2>4. Max(A) \in A
    BY <2>2, <2>3, MaxIsGreatest
  <2>5. QED
    BY <2>1, <2>2, <2>4
<1>6. limit \in 0 .. MaxSlot /\ limit <= nd.recovery.last
  BY <1>2, <1>5, Constants DEF MinOf
<1>7. slot_add(nd.memory_floor, Window) \in 0 .. MaxSlot
      /\ slot_add(nd.memory_floor, Window) <= nd.memory_floor + Window
  BY <1>3, SlotAdd, Constants
<1>8. /\ drive_limit \in 0 .. MaxSlot /\ drive_limit <= nd.recovery.last
      /\ drive_limit <= nd.memory_floor + Window
  BY <1>2, <1>3, <1>6, <1>7, Constants DEF MinOf
<1>9. PICK first \in Nat : /\ first = MaxOf(nd.recovery.base, Fence(nd) + 1)
                           /\ first >= nd.recovery.base /\ first >= Fence(nd) + 1
  BY <1>2, <1>4, Constants DEF MaxOf
<1>10. s \in first .. drive_limit
  BY <1>9
<1>11. s \in Nat /\ s >= first /\ s <= drive_limit
  BY <1>8, <1>9, <1>10, Constants
<1>12. QED
  BY <1>2, <1>3, <1>4, <1>8, <1>9, <1>11, Constants DEF Slot

\* resolve_chunk, whether the node then stays, goes on to the next chunk, or leads.
LEMMA ResolveWorks ==
  ASSUME NEW n \in Node, NEW nd, NodeTyped(nd), nd.role = "Preparing"
  PROVE  LET r == ResolveChunk(n, nd) IN
         Works(nd, r.nd, r.w) /\ \A m \in r.out : MessageTyped(m)
<1> DEFINE rec == nd.recovery
           l == nd.ledger
           reported == {s \in DOMAIN rec.recovered : rec.recovered[s].state # "Empty"}
           known_high == Max({ledger_highest_used(l), Fence(nd)} \cup reported)
           limit == IF rec.more THEN rec.last ELSE MinOf(rec.last, known_high)
           drive_limit == MinOf(limit, slot_add(nd.memory_floor, Window))
           drive == MaxOf(rec.base, Fence(nd) + 1) .. drive_limit
           known == {s \in drive : ledger_is_chosen(l, s)}
           adopted == {s \in drive \ known : Adoptable(rec.recovered[s])}
           open == drive \ (known \cup adopted)
           val == [s \in drive |-> SelectedValue(nd, s)]
           learnt == [NoWrites EXCEPT !.chosen = [s \in adopted |-> val[s]]]
           adopting == [nd EXCEPT !.ledger = RecordWrites(@, learnt)]
           e == IF adopted = {} THEN adopting ELSE Emitted(adopting)
           sent == SendAccepts(n, e, open, val)
           w == [sent.w EXCEPT !.chosen = [s \in DOMAIN @ \cup adopted |-> val[s]]]
           commits == {Commit(n, p, s, Cell(sent.nd.ledger, s).value)
                         : p \in Peers(n), s \in known \cup adopted}
           learn == IF ChosenFence(nd) > sent.nd.delivered_through
                      THEN {Learn(n, ChosenPeer(nd), sent.nd.delivered_through + 1)} ELSE {}
           next == IF drive_limit < limit THEN Nothing(sent.nd)
                   ELSE IF rec.more THEN BeginNextChunk(n, sent.nd)
                   ELSE Nothing(BecomeLeader(sent.nd))
           r == ResolveChunk(n, nd)
<1>1. r = Result(next.nd, w, sent.out \cup commits \cup learn \cup next.out)
  BY DEF ResolveChunk
<1>2. RecoveryTyped(rec) /\ rec.recovered \in [rec.base .. rec.last -> ReportType]
      /\ \A s \in rec.base .. rec.last : rec.recovered[s].state # "Empty"
                                           => rec.recovered[s].value \in Values
  BY DEF NodeTyped, RecoveryTyped
<1>3. reported \in SUBSET (rec.base .. rec.last)
  BY <1>2
<1>4. \A s \in drive : /\ s \in Slot
                       /\ s \in (nd.memory_floor + 1) .. (nd.memory_floor + Window)
                       /\ s \in rec.base .. rec.last
  <2> HIDE DEF reported
  <2>1. PICK kh, lm, dl : kh = known_high /\ lm = limit /\ dl = drive_limit
    OBVIOUS
  <2>2. kh = Max({ledger_highest_used(l), Fence(nd)} \cup reported)
    BY <2>1
  <2>3. lm = IF rec.more THEN rec.last ELSE MinOf(rec.last, kh)
    BY <2>1
  <2>4. dl = MinOf(lm, slot_add(nd.memory_floor, Window))
    BY <2>1
  <2>5. drive = MaxOf(rec.base, Fence(nd) + 1) .. dl
    BY <2>1
  <2> HIDE DEF drive, known_high, limit, drive_limit
  <2>6. QED
    BY <1>2, <1>3, <2>2, <2>3, <2>4, <2>5, DriveIsInTheWindow
<1> HIDE DEF drive, known_high, limit, drive_limit, reported, r
<1>5. \A s \in drive : /\ s \in Slot
                       /\ s \in (nd.memory_floor + 1) .. (nd.memory_floor + Window)
                       /\ val[s] \in Values
  <2> SUFFICES ASSUME NEW s \in drive PROVE SelectedValue(nd, s) \in Values
    BY <1>4
  <2>1. s \in rec.base .. rec.last
    BY <1>4
  <2>2. rec.recovered[s].state # "Empty" => rec.recovered[s].value \in Values
    BY <1>2, <2>1
  <2>3. QED
    BY <2>2 DEF SelectedValue, Values
<1> HIDE DEF val
<1>6. /\ adopted \in SUBSET drive /\ open \in SUBSET drive /\ adopted \cap open = {}
      /\ \A s \in adopted \cup open : ~ ledger_is_chosen(l, s)
  OBVIOUS
<1>7. \A s \in known : ledger_is_chosen(l, s) /\ s \in drive
  OBVIOUS
<1>8. Drives(nd, drive, val, adopted, open)
  BY <1>5, <1>6 DEF Drives
<1> HIDE DEF known, adopted, open
<1>9. PICK le, ad, ee, se, ww : le = learnt /\ ad = adopting /\ ee = e /\ se = sent /\ ww = w
  OBVIOUS
<1>10. Sends(n, nd, val, adopted, open, le, ad, ee, se, ww)
  BY <1>9 DEF Sends
<1> HIDE DEF learnt, adopting, e, sent, w
<1>11. /\ NodeTyped(se.nd) /\ Places(l, se.nd.ledger, nd.memory_floor, ww)
       /\ WritesTyped(ww, nd.memory_floor + Window)
       /\ ww.trim = NoAnchor /\ ww.promise = BALLOT_ZERO
       /\ se.nd.role = nd.role /\ se.nd.ballot = nd.ballot
       /\ se.nd.recovery = rec /\ se.nd.memory_floor = nd.memory_floor
       /\ se.nd.delivered_through >= nd.delivered_through
       /\ \A s \in (nd.delivered_through + 1) .. se.nd.delivered_through :
            ledger_is_chosen(se.nd.ledger, s)
       /\ \A s \in DOMAIN ww.votes : ww.votes[s].ballot = nd.ballot
       /\ adopted \subseteq DOMAIN ww.chosen
       /\ \A m \in se.out : MessageTyped(m)
  BY <1>8, <1>10, DriveFacts
<1>12. /\ nd.memory_floor \in Nat /\ nd.delivered_through \in Nat
       /\ se.nd.delivered_through \in 0 .. MaxSlot /\ se.nd.delivered_through \in Nat
       /\ LedgerTyped(l, nd.memory_floor + Window)
       /\ LedgerTyped(se.nd.ledger, nd.memory_floor + Window)
  BY <1>11, Constants DEF NodeTyped
<1>13. \A m \in commits : MessageTyped(m)
  <2>1. ASSUME NEW s \in known \cup adopted
        PROVE  s \in Slot /\ Cell(se.nd.ledger, s).value \in Values
    <3>1. s \in Slot /\ s > nd.memory_floor
      BY <1>4, <1>6, <1>7, <1>12, Constants
    <3>2. ledger_is_chosen(se.nd.ledger, s)
      BY <1>7, <1>11, <1>12, <3>1, PlacedFacts
    <3>3. QED
      BY <1>12, <3>1, <3>2, ChosenSlotFacts
  <2>2. \A p : \A s \in known \cup adopted :
          MessageTyped(Commit(n, p, s, Cell(se.nd.ledger, s).value))
    BY <2>1, MessageForms
  <2>3. QED
    BY <1>9, <2>2
<1>14. \A m \in learn : MessageTyped(m)
  <2>1. se.nd.delivered_through + 1 \in 1 .. (MaxSlot + 1)
    BY <1>12, Constants
  <2>2. MessageTyped(Learn(n, ChosenPeer(nd), se.nd.delivered_through + 1))
    BY <2>1, MessageForms
  <2>3. QED
    BY <1>9, <2>2
<1> HIDE DEF commits, learn
<1>15. /\ NodeTyped(next.nd) /\ next.nd.ledger = se.nd.ledger
       /\ next.nd.ballot = nd.ballot /\ next.nd.role # "Follower"
       /\ next.nd.memory_floor = nd.memory_floor
       /\ next.nd.delivered_through >= nd.delivered_through
       /\ \A s \in (nd.delivered_through + 1) .. next.nd.delivered_through :
            ledger_is_chosen(next.nd.ledger, s)
       /\ \A m \in next.out : MessageTyped(m)
  <2>1. CASE next = Nothing(se.nd)
    <3>1. next.nd = se.nd /\ next.out = {}
      BY <2>1 DEF Nothing, Result
    <3> HIDE DEF next
    <3>2. QED
      BY <1>11, <3>1
  <2>2. CASE rec.more /\ next = BeginNextChunk(n, se.nd)
    <3>1. PICK b : b = BeginNextChunk(n, se.nd)
      OBVIOUS
    <3>2. rec.last < MaxSlot
      BY <1>2, <2>2 DEF RecoveryTyped
    <3>3. /\ NodeTyped(b.nd) /\ b.nd.ledger = se.nd.ledger /\ b.nd.role = se.nd.role
          /\ b.nd.ballot = se.nd.ballot /\ b.nd.memory_floor = se.nd.memory_floor
          /\ b.nd.delivered_through = se.nd.delivered_through
          /\ \A m \in b.out : MessageTyped(m)
      BY <1>2, <1>11, <3>1, <3>2, NextChunkFacts
    <3>4. next = b
      BY <2>2, <3>1
    <3> HIDE DEF next
    <3>5. QED
      BY <1>11, <3>3, <3>4
  <2>3. CASE next = Nothing(BecomeLeader(se.nd))
    <3>1. PICK b : b = BecomeLeader(se.nd)
      OBVIOUS
    <3>2. next.nd = b /\ next.out = {}
      BY <2>3, <3>1 DEF Nothing, Result
    <3>3. /\ NodeTyped(b) /\ b.ledger = se.nd.ledger /\ b.role = "Leader"
          /\ b.ballot = se.nd.ballot /\ b.memory_floor = se.nd.memory_floor
          /\ b.delivered_through \in se.nd.delivered_through .. MaxSlot
          /\ \A s \in (se.nd.delivered_through + 1) .. b.delivered_through :
               ledger_is_chosen(b.ledger, s)
      BY <1>2, <1>11, <3>1, BecomeLeaderFacts
    <3>4. b.delivered_through \in Nat /\ b.delivered_through >= nd.delivered_through
      BY <1>11, <1>12, <3>3, Constants
    <3>5. \A s \in (nd.delivered_through + 1) .. b.delivered_through :
            \/ s \in (nd.delivered_through + 1) .. se.nd.delivered_through
            \/ s \in (se.nd.delivered_through + 1) .. b.delivered_through
      BY <1>12, <3>4
    <3> HIDE DEF next
    <3>6. QED
      BY <1>11, <3>2, <3>3, <3>4, <3>5
  <2>4. QED
    BY <1>9, <2>1, <2>2, <2>3
<1> HIDE DEF next
<1>16. Bids(nd, next.nd, ww)
  BY <1>11, <1>15 DEF Bids
<1>17. Works(nd, next.nd, ww)
  <2>1. Places(nd.ledger, next.nd.ledger, nd.memory_floor, ww)
    BY <1>11, <1>15
  <2>2. QED
    BY <1>11, <1>15, <1>16, <2>1, PlacesWorks
<1>18. r.nd = next.nd /\ r.w = ww /\ r.out = se.out \cup commits \cup learn \cup next.out
  BY <1>1, <1>9 DEF Result
<1>19. \A m \in r.out : MessageTyped(m)
  BY <1>11, <1>13, <1>14, <1>15, <1>18
<1>20. QED
  BY <1>17, <1>18, <1>19 DEF r

\* A candidate that has collected more.
LEMMA RecoveryNode ==
  ASSUME NEW nd, NodeTyped(nd), NEW rec, RecoveryTyped(rec)
  PROVE  LET new == [nd EXCEPT !.recovery = rec] IN
         /\ NodeTyped(new) /\ new.recovery = rec /\ new.role = nd.role
         /\ new.ballot = nd.ballot /\ new.ledger = nd.ledger
         /\ new.memory_floor = nd.memory_floor /\ new.delivered_through = nd.delivered_through
  BY DEF NodeTyped

LEMMA MaybeResolveWorks ==
  ASSUME NEW n \in Node, NEW nd, NodeTyped(nd), nd.role = "Preparing"
  PROVE  LET r == MaybeResolve(n, nd) IN
         Works(nd, r.nd, r.w) /\ \A m \in r.out : MessageTyped(m)
<1> DEFINE rec == nd.recovery
           complete == {p \in Node : Complete(rec, p)}
           more == \E p \in complete : rec.peer[p].more
           frozen == [nd EXCEPT !.recovery.ready = TRUE,
                                !.recovery.more = \E p \in complete : rec.peer[p].more]
           r == MaybeResolve(n, nd)
<1>1. r = ResolveChunk(n, nd) \/ r = ResolveChunk(n, frozen) \/ r = Nothing(nd)
  <2>1. r = CASE rec.ready -> ResolveChunk(n, nd)
              [] ~ rec.ready /\ Cardinality(complete) >= ReadQuorum -> ResolveChunk(n, frozen)
              [] OTHER -> Nothing(nd)
    BY DEF MaybeResolve
  <2> HIDE DEF r, complete, frozen, rec
  <2>2. QED
    BY <2>1
<1> HIDE DEF r
<1>2. RecoveryTyped(rec)
  BY DEF NodeTyped
<1>3. CASE r = ResolveChunk(n, nd)
  BY <1>3, ResolveWorks DEF r
<1>4. CASE r = Nothing(nd)
  <2>1. r.nd = nd /\ r.w = NoWrites /\ r.out = {}
    BY <1>4 DEF Nothing, Result
  <2>2. QED
    BY <2>1, NothingWorks DEF r
<1>5. CASE r = ResolveChunk(n, frozen)
  <2>1. PICK yes \in BOOLEAN, mo \in BOOLEAN :
          yes = TRUE /\ mo = more /\ (mo => rec.last < MaxSlot)
    BY <1>2 DEF RecoveryTyped
  <2>2. PICK fr : fr = [base |-> rec.base, last |-> rec.last, ready |-> yes, more |-> mo,
                        peer |-> rec.peer, recovered |-> rec.recovered]
    OBVIOUS
  <2>3. frozen = [nd EXCEPT !.recovery = fr]
    <3>1. rec = [base |-> rec.base, last |-> rec.last, ready |-> rec.ready, more |-> rec.more,
                 peer |-> rec.peer, recovered |-> rec.recovered]
      BY <1>2 DEF RecoveryTyped
    <3>2. frozen = [nd EXCEPT !.recovery = [[rec EXCEPT !.ready = yes] EXCEPT !.more = mo]]
      BY <2>1 DEF NodeTyped
    <3> HIDE DEF frozen, more
    <3>3. [[rec EXCEPT !.ready = yes] EXCEPT !.more = mo] = fr
      <4>1. PICK b, last, rdy, m, peer, rep :
              /\ rec = [base |-> b, last |-> last, ready |-> rdy, more |-> m,
                        peer |-> peer, recovered |-> rep]
              /\ b = rec.base /\ last = rec.last /\ peer = rec.peer /\ rep = rec.recovered
        BY <3>1
      <4> HIDE DEF rec
      <4>2. fr = [base |-> b, last |-> last, ready |-> yes, more |-> mo,
                  peer |-> peer, recovered |-> rep]
        BY <2>2, <4>1
      <4>3. [rec EXCEPT !.ready = yes] =
              [base |-> b, last |-> last, ready |-> yes, more |-> m,
               peer |-> peer, recovered |-> rep]
        BY <4>1
      <4>4. PICK q : q = [rec EXCEPT !.ready = yes]
        OBVIOUS
      <4>5. q = [base |-> b, last |-> last, ready |-> yes, more |-> m,
                 peer |-> peer, recovered |-> rep]
        BY <4>3, <4>4
      <4>6. [q EXCEPT !.more = mo] =
              [base |-> b, last |-> last, ready |-> yes, more |-> mo,
               peer |-> peer, recovered |-> rep]
        BY <4>5
      <4>7. QED
        BY <4>2, <4>4, <4>6
    <3>4. QED
      BY <3>2, <3>3
  <2> HIDE DEF more, frozen
  <2>4. RecoveryTyped(fr)
    BY <1>2, <2>1, <2>2 DEF RecoveryTyped
  <2>5. PICK k : k = frozen
    OBVIOUS
  <2>6. /\ NodeTyped(k) /\ k.role = nd.role /\ k.ballot = nd.ballot /\ k.ledger = nd.ledger
        /\ k.memory_floor = nd.memory_floor /\ k.delivered_through = nd.delivered_through
    BY <2>3, <2>4, <2>5, RecoveryNode
  <2>7. r = ResolveChunk(n, k)
    BY <1>5, <2>5
  <2>8. Works(k, r.nd, r.w) /\ \A m \in r.out : MessageTyped(m)
    BY <2>6, <2>7, ResolveWorks
  <2>9. Works(nd, r.nd, r.w)
    BY <2>6, <2>8, SameWindowWorks
  <2>10. QED
    BY <2>8, <2>9 DEF r
<1>6. QED
  BY <1>1, <1>3, <1>4, <1>5

LEMMA RetryWorks ==
  ASSUME TypeInv, NEW n \in Node, Retry(n)
  PROVE  WorkStep(n)
<1> DEFINE r == MaybeResolve(n, node[n])
<1>1. NodeTyped(node[n]) /\ node[n].role = "Preparing" /\ Finish(n, r.nd, r.w, r.out, {})
  BY NodeFacts DEF Retry, FinishResult
<1>2. Works(node[n], r.nd, r.w) /\ \A m \in r.out : MessageTyped(m)
  BY <1>1, MaybeResolveWorks
<1> HIDE DEF r
<1>3. QED
  BY <1>1, <1>2 DEF WorkStep

\* A transition of a node that counts a report first.
LEMMA CountedWorks ==
  ASSUME TypeInv, NEW n \in Node, node[n].role = "Preparing", NEW rec, RecoveryTyped(rec),
         NEW k, k = [node[n] EXCEPT !.recovery = rec], NEW r, r \in {MaybeResolve(n, k), Nothing(k)},
         NEW used, Finish(n, r.nd, r.w, r.out, used)
  PROVE  WorkStep(n)
<1>1. NodeTyped(node[n])
  BY NodeFacts
<1>2. /\ NodeTyped(k) /\ k.role = "Preparing" /\ k.role = node[n].role
      /\ k.ballot = node[n].ballot /\ k.ledger = node[n].ledger
      /\ k.memory_floor = node[n].memory_floor
      /\ k.delivered_through = node[n].delivered_through
  BY <1>1, RecoveryNode
<1>3. Works(k, r.nd, r.w) /\ \A m \in r.out : MessageTyped(m)
  <2>1. CASE r = MaybeResolve(n, k)
    BY <1>2, <2>1, MaybeResolveWorks
  <2>2. CASE r = Nothing(k)
    <3>1. r.nd = k /\ r.w = NoWrites /\ r.out = {}
      BY <2>2 DEF Nothing, Result
    <3>2. QED
      BY <1>2, <3>1, NothingWorks
  <2>3. QED
    BY <2>1, <2>2
<1>4. Works(node[n], r.nd, r.w)
  BY <1>2, <1>3, SameWindowWorks
<1>5. QED
  BY <1>3, <1>4 DEF WorkStep

LEMMA FrozenWorks ==
  ASSUME TypeInv, NEW n \in Node, node[n].role = "Preparing", NEW used,
         FinishResult(n, ResolveChunk(n, node[n]), used)
  PROVE  WorkStep(n)
<1>1. PICK r : r = ResolveChunk(n, node[n])
  OBVIOUS
<1>2. Works(node[n], r.nd, r.w) /\ \A m \in r.out : MessageTyped(m)
  BY <1>1, NodeFacts, ResolveWorks
<1>3. Finish(n, r.nd, r.w, r.out, used)
  BY <1>1 DEF FinishResult
<1>4. QED
  BY <1>2, <1>3 DEF WorkStep

LEMMA CollectedTyped ==
  ASSUME NEW rec, RecoveryTyped(rec), NEW peer \in [Node -> PeerType],
         \A p \in Node : peer[p].more => rec.last < MaxSlot
  PROVE  LET got == [rec EXCEPT !.peer = peer] IN
         /\ RecoveryTyped(got) /\ got.base = rec.base /\ got.last = rec.last
         /\ got.recovered = rec.recovered /\ got.peer = peer /\ got.ready = rec.ready
  BY DEF RecoveryTyped

LEMMA ReportedTyped ==
  ASSUME NEW rec, RecoveryTyped(rec), NEW rep \in [rec.base .. rec.last -> ReportType],
         \A s \in rec.base .. rec.last : rep[s].state # "Empty" => rep[s].value \in Values
  PROVE  RecoveryTyped([rec EXCEPT !.recovered = rep])
  BY DEF RecoveryTyped

LEMMA OnPromiseWorks ==
  ASSUME TypeInv, NEW n \in Node, NEW m \in Received(n, "Promise"), OnPromise(n, m)
  PROVE  WorkStep(n)
<1> DEFINE nd == node[n]
           rec == nd.recovery
           new == [state |-> m.state, ballot |-> m.vote, value |-> m.value]
           old == rec.recovered[m.slot]
           best == IF Better(new, old) THEN new ELSE old
           counted == [nd EXCEPT !.recovery.peer[m.from].seen = @ \cup {m.slot}]
           merged == [counted EXCEPT !.recovery.recovered[m.slot] = best]
           result == IF Contradicts(new, old) THEN Nothing(counted) ELSE MaybeResolve(n, merged)
<1>1. /\ m.from \in Node /\ m.slot \in Slot /\ m.value \in Values /\ m.vote \in BallotSet
      /\ m.state \in {"Voted", "Chosen"}
  BY DEF TypeInv, Received, MessageTyped
<1>2. NodeTyped(nd) /\ nd.role = "Preparing"
  BY NodeFacts DEF OnPromise, Preparing
<1>3. /\ RecoveryTyped(rec) /\ rec.peer \in [Node -> PeerType]
      /\ rec.recovered \in [rec.base .. rec.last -> ReportType]
      /\ \A p \in Node : rec.peer[p].more => rec.last < MaxSlot
      /\ \A s \in rec.base .. rec.last : rec.recovered[s].state # "Empty"
                                           => rec.recovered[s].value \in Values
  BY <1>2 DEF NodeTyped, RecoveryTyped
<1>4. CASE FinishResult(n, ResolveChunk(n, nd), Consumed(m))
  BY <1>2, <1>4, FrozenWorks
<1>5. CASE m.slot \in DOMAIN rec.recovered /\ FinishResult(n, result, Consumed(m))
  <2>1. PICK peer : peer = [rec.peer EXCEPT ![m.from].seen = @ \cup {m.slot}]
    OBVIOUS
  <2>2. peer \in [Node -> PeerType] /\ \A p \in Node : peer[p].more => rec.last < MaxSlot
    <3> SUFFICES ASSUME NEW p \in Node
                 PROVE  /\ peer[p] \in PeerType /\ (peer[p].more => rec.last < MaxSlot)
                        /\ DOMAIN peer = Node
      BY <1>3, <2>1
    <3>1. PICK q : q = rec.peer[p]
      OBVIOUS
    <3>2. q \in PeerType /\ (q.more => rec.last < MaxSlot)
      BY <1>3, <3>1
    <3>3. peer[p] = q \/ peer[p] = [q EXCEPT !.seen = @ \cup {m.slot}]
      BY <1>3, <2>1, <3>1
    <3>4. q.seen \cup {m.slot} \in SUBSET Slot
      BY <1>1, <3>2 DEF PeerType
    <3>5. [q EXCEPT !.seen = @ \cup {m.slot}] \in PeerType
          /\ [q EXCEPT !.seen = @ \cup {m.slot}].more = q.more
      BY <3>2, <3>4 DEF PeerType
    <3>6. QED
      BY <1>3, <2>1, <3>2, <3>3, <3>5
  <2>3. PICK r1 : r1 = [rec EXCEPT !.peer = peer]
    OBVIOUS
  <2>4. RecoveryTyped(r1) /\ r1.base = rec.base /\ r1.last = rec.last
        /\ r1.recovered = rec.recovered
    BY <1>3, <2>2, <2>3, CollectedTyped
  <2>5. PICK k1 : k1 = [nd EXCEPT !.recovery = r1]
    OBVIOUS
  <2>6. counted = k1
    <3>1. counted = [nd EXCEPT !.recovery = [rec EXCEPT !.peer =
                        [rec.peer EXCEPT ![m.from].seen = @ \cup {m.slot}]]]
      BY <1>1, <1>2, <1>3 DEF NodeTyped, RecoveryTyped
    <3>2. QED
      BY <2>1, <2>3, <2>5, <3>1
  <2>7. CASE Contradicts(new, old)
    <3>1. PICK r : r = Nothing(k1)
      OBVIOUS
    <3>2. Finish(n, r.nd, r.w, r.out, Consumed(m))
      BY <1>5, <2>6, <2>7, <3>1 DEF FinishResult
    <3>3. r \in {MaybeResolve(n, k1), Nothing(k1)}
      BY <3>1
    <3>4. QED
      BY <1>2, <2>4, <2>5, <3>2, <3>3, CountedWorks
  <2>8. CASE ~ Contradicts(new, old)
    <3>1. PICK rep : rep = [rec.recovered EXCEPT ![m.slot] = best]
      OBVIOUS
    <3>2. best \in ReportType /\ (best.state # "Empty" => best.value \in Values)
      <4>1. new \in ReportType /\ new.value \in Values
        BY <1>1 DEF ReportType
      <4>2. old \in ReportType /\ (old.state # "Empty" => old.value \in Values)
        BY <1>3, <1>5
      <4> HIDE DEF new, old
      <4>3. QED
        BY <4>1, <4>2
    <3> HIDE DEF best
    <3>3. /\ rep \in [r1.base .. r1.last -> ReportType]
          /\ \A s \in r1.base .. r1.last : rep[s].state # "Empty" => rep[s].value \in Values
      BY <1>3, <2>4, <3>1, <3>2
    <3>4. PICK r2 : r2 = [r1 EXCEPT !.recovered = rep]
      OBVIOUS
    <3>5. RecoveryTyped(r2)
      BY <2>4, <3>3, <3>4, ReportedTyped
    <3>6. PICK k2 : k2 = [nd EXCEPT !.recovery = r2]
      OBVIOUS
    <3>7. merged = k2
      <4>1. k1.recovery = r1 /\ NodeTyped(k1)
        BY <1>2, <2>4, <2>5, RecoveryNode
      <4>2. [k1 EXCEPT !.recovery.recovered[m.slot] = best] =
              [k1 EXCEPT !.recovery = [r1 EXCEPT !.recovered =
                 [r1.recovered EXCEPT ![m.slot] = best]]]
        BY <2>4, <4>1 DEF NodeTyped, RecoveryTyped
      <4>3. [k1 EXCEPT !.recovery = r2] = k2
        BY <1>2, <2>5, <3>6 DEF NodeTyped
      <4>4. merged = [k1 EXCEPT !.recovery.recovered[m.slot] = best]
        BY <2>6
      <4>5. [r1 EXCEPT !.recovered = [r1.recovered EXCEPT ![m.slot] = best]] = r2
        BY <2>4, <3>1, <3>4
      <4>6. QED
        BY <4>2, <4>3, <4>4, <4>5
    <3>8. PICK r : r = MaybeResolve(n, k2)
      OBVIOUS
    <3>9. Finish(n, r.nd, r.w, r.out, Consumed(m))
      BY <1>5, <2>8, <3>7, <3>8 DEF FinishResult
    <3>10. r \in {MaybeResolve(n, k2), Nothing(k2)}
      BY <3>8
    <3>11. QED
      BY <1>2, <3>5, <3>6, <3>9, <3>10, CountedWorks
  <2>9. QED
    BY <2>7, <2>8
<1>6. QED
  BY <1>4, <1>5 DEF OnPromise

\* One member's part of a campaign's reports is replaced.
LEMMA PeerReplaced ==
  ASSUME NEW nd, NodeTyped(nd), nd.role = "Preparing", NEW p \in Node, NEW q \in PeerType,
         q.more => nd.recovery.last < MaxSlot
  PROVE  LET k == [nd EXCEPT !.recovery.peer[p] = q] IN
         \E rec : RecoveryTyped(rec) /\ k = [nd EXCEPT !.recovery = rec]
<1> DEFINE rec == nd.recovery
           k == [nd EXCEPT !.recovery.peer[p] = q]
<1>1. /\ RecoveryTyped(rec) /\ rec.peer \in [Node -> PeerType]
      /\ \A r \in Node : rec.peer[r].more => rec.last < MaxSlot
  BY DEF NodeTyped, RecoveryTyped
<1>2. PICK peer : peer = [rec.peer EXCEPT ![p] = q]
  OBVIOUS
<1>3. peer \in [Node -> PeerType] /\ \A r \in Node : peer[r].more => rec.last < MaxSlot
  BY <1>1, <1>2
<1>4. PICK r1 : r1 = [rec EXCEPT !.peer = peer]
  OBVIOUS
<1>5. RecoveryTyped(r1)
  BY <1>1, <1>3, <1>4, CollectedTyped
<1>6. k = [nd EXCEPT !.recovery = [rec EXCEPT !.peer = [rec.peer EXCEPT ![p] = q]]]
  BY <1>1 DEF NodeTyped, RecoveryTyped
<1>7. k = [nd EXCEPT !.recovery = r1]
  BY <1>2, <1>4, <1>6
<1>8. QED
  BY <1>5, <1>7

\* The two ways a manifest changes what is known of its sender.
Manifest(old, f, d, anchor, through, count, more) ==
  /\ f = [old EXCEPT
            !.anchor = IF anchor.chosen_trim_slot > @.chosen_trim_slot THEN anchor ELSE @,
            !.chosen_through = MaxOf(@, through)]
  /\ d = [f EXCEPT !.expected_in_range = count, !.range_described = TRUE, !.more = more]

LEMMA ManifestTyped ==
  ASSUME NEW old \in PeerType, NEW anchor \in AnchorType, NEW through \in 0 .. MaxSlot,
         NEW count \in 0 .. Chunk, NEW more \in BOOLEAN, NEW f, NEW d,
         Manifest(old, f, d, anchor, through, count, more)
  PROVE  f \in PeerType /\ f.more = old.more /\ d \in PeerType /\ d.more = more
<1>1. PICK a : a = IF anchor.chosen_trim_slot > old.anchor.chosen_trim_slot
                     THEN anchor ELSE old.anchor
  OBVIOUS
<1>2. PICK t : t = MaxOf(old.chosen_through, through)
  OBVIOUS
<1>3. a \in AnchorType /\ t \in 0 .. MaxSlot
  BY <1>1, <1>2 DEF PeerType, MaxOf
<1>4. f = [[old EXCEPT !.anchor = a] EXCEPT !.chosen_through = t]
  BY <1>1, <1>2 DEF PeerType, Manifest
<1>5. f \in PeerType /\ f.more = old.more
  <2>1. PICK g : g = [old EXCEPT !.anchor = a]
    OBVIOUS
  <2>2. g \in PeerType /\ g.more = old.more
    BY <1>3, <2>1 DEF PeerType
  <2>3. f = [g EXCEPT !.chosen_through = t]
    BY <1>4, <2>1
  <2>4. QED
    BY <1>3, <2>2, <2>3 DEF PeerType
<1>7. PICK yes \in BOOLEAN : yes = TRUE
  OBVIOUS
<1>8. PICK g1 : g1 = [f EXCEPT !.expected_in_range = count]
  OBVIOUS
<1>9. g1 \in PeerType
  BY <1>5, <1>8 DEF PeerType
<1>10. PICK g2 : g2 = [g1 EXCEPT !.range_described = yes]
  OBVIOUS
<1>11. g2 \in PeerType
  BY <1>9, <1>10 DEF PeerType
<1>12. PICK g3 : g3 = [g2 EXCEPT !.more = more]
  OBVIOUS
<1>13. g3 \in PeerType /\ g3.more = more
  BY <1>11, <1>12 DEF PeerType
<1>14. d = g3
  BY <1>7, <1>8, <1>10, <1>12 DEF Manifest
<1>15. QED
  BY <1>5, <1>13, <1>14

LEMMA OnPromiseRangeWorks ==
  ASSUME TypeInv, NEW n \in Node, NEW m \in Received(n, "Promise_Range"), OnPromiseRange(n, m)
  PROVE  WorkStep(n)
<1> DEFINE nd == node[n]
           rec == nd.recovery
           old == rec.peer[m.from]
           fenced == [old EXCEPT
             !.anchor = IF m.anchor.chosen_trim_slot > @.chosen_trim_slot THEN m.anchor ELSE @,
             !.chosen_through = MaxOf(@, m.chosen_through)]
           described == [fenced EXCEPT !.expected_in_range = m.reported,
                                       !.range_described = TRUE, !.more = m.more]
           With(peer) == [nd EXCEPT !.recovery.peer[m.from] = peer]
<1>1. /\ m.from \in Node /\ m.first \in Slot /\ m.last = slot_add(m.first, Chunk - 1)
      /\ m.anchor \in AnchorType /\ m.chosen_through \in 0 .. MaxSlot
      /\ m.reported \in 0 .. Chunk /\ m.more \in BOOLEAN /\ (m.more => m.last < MaxSlot)
  BY DEF TypeInv, Received, MessageTyped
<1>2. NodeTyped(nd) /\ nd.role = "Preparing"
  BY NodeFacts DEF OnPromiseRange, Preparing
<1>3. /\ rec.peer \in [Node -> PeerType] /\ rec.last = slot_add(rec.base, Chunk - 1)
      /\ \A p \in Node : rec.peer[p].more => rec.last < MaxSlot
  BY <1>2 DEF NodeTyped, RecoveryTyped
<1>4. old \in PeerType /\ (old.more => rec.last < MaxSlot)
  BY <1>1, <1>3
<1>5. PICK f, d : f = fenced /\ d = described
  OBVIOUS
<1>6. f \in PeerType /\ f.more = old.more /\ d \in PeerType /\ d.more = m.more
  <2>1. PICK o, a, t, c, mo : o = old /\ a = m.anchor /\ t = m.chosen_through
                              /\ c = m.reported /\ mo = m.more
    OBVIOUS
  <2>2. /\ o \in PeerType /\ a \in AnchorType /\ t \in 0 .. MaxSlot /\ c \in 0 .. Chunk
        /\ mo \in BOOLEAN
    BY <1>1, <1>4, <2>1
  <2>3. Manifest(o, f, d, a, t, c, mo)
    BY <1>5, <2>1 DEF Manifest
  <2>5. f \in PeerType /\ f.more = o.more /\ d \in PeerType /\ d.more = mo
    BY <2>2, <2>3, ManifestTyped
  <2>6. QED
    BY <2>1, <2>5
<1>7. \/ FinishResult(n, ResolveChunk(n, nd), Consumed(m))
      \/ m.first = rec.base /\ FinishResult(n, MaybeResolve(n, With(described)), Consumed(m))
      \/ FinishResult(n, Nothing(With(fenced)), Consumed(m))
  BY DEF OnPromiseRange
<1> HIDE DEF fenced, described
<1>8. CASE FinishResult(n, ResolveChunk(n, nd), Consumed(m))
  BY <1>2, <1>8, FrozenWorks
<1>9. CASE m.first = rec.base /\ FinishResult(n, MaybeResolve(n, With(described)), Consumed(m))
  <2>1. d.more => rec.last < MaxSlot
    BY <1>1, <1>3, <1>6, <1>9
  <2>2. PICK k : k = [nd EXCEPT !.recovery.peer[m.from] = d]
    OBVIOUS
  <2>3. PICK got : RecoveryTyped(got) /\ k = [nd EXCEPT !.recovery = got]
    <3>1. d \in PeerType /\ m.from \in Node
      BY <1>1, <1>6
    <3> HIDE DEF nd, rec
    <3>2. QED
      BY <1>2, <2>1, <2>2, <3>1, PeerReplaced DEF rec
  <2>4. PICK r : r = MaybeResolve(n, k)
    OBVIOUS
  <2>5. Finish(n, r.nd, r.w, r.out, Consumed(m))
    BY <1>5, <1>9, <2>2, <2>4 DEF FinishResult
  <2>6. r \in {MaybeResolve(n, k), Nothing(k)}
    BY <2>4
  <2>7. QED
    BY <1>2, <2>3, <2>5, <2>6, CountedWorks
<1>10. CASE FinishResult(n, Nothing(With(fenced)), Consumed(m))
  <2>1. f.more => rec.last < MaxSlot
    BY <1>4, <1>6
  <2>2. PICK k : k = [nd EXCEPT !.recovery.peer[m.from] = f]
    OBVIOUS
  <2>3. PICK got : RecoveryTyped(got) /\ k = [nd EXCEPT !.recovery = got]
    BY <1>1, <1>2, <1>6, <2>1, <2>2, PeerReplaced
  <2>4. PICK r : r = Nothing(k)
    OBVIOUS
  <2>5. Finish(n, r.nd, r.w, r.out, Consumed(m))
    BY <1>5, <1>10, <2>2, <2>4 DEF FinishResult
  <2>6. r \in {MaybeResolve(n, k), Nothing(k)}
    BY <2>4
  <2>7. QED
    BY <1>2, <2>3, <2>5, <2>6, CountedWorks
<1>11. QED
  BY <1>7, <1>8, <1>9, <1>10

-------------------------------------------------------------------------------
(* Every step, and the types.                                              *)

\* A step of the cluster is a transition of one node that touches no cell, or one that
\* writes cells, or a call of its host, or its crash.
OneStep(n) ==
  \/ IdleStep(n)
  \/ WorkStep(n)
  \/ \E s \in Slot : AdvanceMemoryFloor(n, s)
  \/ \E a \in AnchorType : InstallChosenTrim(n, a)
  \/ \E donor \in Node : BeginRecovery(n, donor)
  \/ \E enabled \in BOOLEAN : SetCampaignEnabled(n, enabled)
  \/ Crash(n)

LEMMA StepIsOfAKind ==
  ASSUME TypeInv, NEW n \in Node, Step(n) \/ Tick(n) \/ Host(n)
  PROVE  OneStep(n)
<1>2. CASE Step(n)
  <2>1. ASSUME NEW m \in Received(n, "Prepare"), OnPrepare(n, m) PROVE OneStep(n)
    BY <2>1, OnPrepareIdles DEF OneStep
  <2>2. ASSUME NEW m \in Received(n, "Promise"), OnPromise(n, m) PROVE OneStep(n)
    BY <2>2, OnPromiseWorks DEF OneStep
  <2>3. ASSUME NEW m \in Received(n, "Promise_Range"), OnPromiseRange(n, m) PROVE OneStep(n)
    BY <2>3, OnPromiseRangeWorks DEF OneStep
  <2>4. ASSUME NEW m \in Received(n, "Accept"), OnAccept(n, m) PROVE OneStep(n)
    BY <2>4, OnAcceptWorks DEF OneStep
  <2>5. ASSUME NEW m \in Received(n, "Accepted"), OnAccepted(n, m) PROVE OneStep(n)
    BY <2>5, OnAcceptedWorks DEF OneStep
  <2>6. ASSUME NEW m \in Received(n, "Commit"), OnCommit(n, m) PROVE OneStep(n)
    BY <2>6, OnCommitWorks DEF OneStep
  <2>7. ASSUME NEW m \in Received(n, "Learn"), OnLearn(n, m) PROVE OneStep(n)
    BY <2>7, OnLearnIdles DEF OneStep
  <2>8. ASSUME NEW m \in Received(n, "Nack"), OnNack(n, m) PROVE OneStep(n)
    BY <2>8, OnNackIdles DEF OneStep
  <2>9. ASSUME NEW m \in Received(n, "Heartbeat"), OnHeartbeat(n, m) PROVE OneStep(n)
    BY <2>9, OnHeartbeatIdles DEF OneStep
  <2>10. QED
    BY <1>2, <2>1, <2>2, <2>3, <2>4, <2>5, <2>6, <2>7, <2>8, <2>9 DEF Step
<1>3. CASE Tick(n)
  <2>1. StartCampaign(n) => OneStep(n)
    BY StartCampaignIdles DEF OneStep
  <2>2. Retry(n) => OneStep(n)
    BY RetryWorks DEF OneStep
  <2>3. SendHeartbeat(n) => OneStep(n)
    BY SendHeartbeatIdles DEF OneStep
  <2>4. ASSUME NEW p \in Peers(n), ResendTo(n, p) PROVE OneStep(n)
    BY <2>4, ResendToIdles DEF OneStep
  <2>5. QED
    BY <1>3, <2>1, <2>2, <2>3, <2>4 DEF Tick
<1>4. CASE Host(n)
  <2>1. ASSUME NEW vals \in ProposalBatches, Propose(n, vals) PROVE OneStep(n)
    BY <2>1, ProposeWorks DEF OneStep
  <2>2. ASSUME NEW p \in Peers(n), CatchUp(n, p) PROVE OneStep(n)
    BY <2>2, CatchUpIdles DEF OneStep
  <2>3. ASSUME NEW a \in TrimRecords \cup NewTrims, InstallChosenTrim(n, a) PROVE OneStep(n)
    BY <2>3, AnchorsAreTyped DEF OneStep
  <2>4. ASSUME NEW donor \in Peers(n), BeginRecovery(n, donor) PROVE OneStep(n)
    BY <2>4 DEF OneStep, Peers
  <2>5. QED
    BY <1>4, <2>1, <2>2, <2>3, <2>4 DEF Host, OneStep
<1>5. QED
  BY <1>2, <1>3, <1>4

LEMMA StepsAreOfAKind ==
  ASSUME TypeInv, Next
  PROVE  \E n \in Node : OneStep(n)
  BY StepIsOfAKind DEF Next

LEMMA InitIsTyped ==
  ASSUME Init
  PROVE  TypeInv
<1>1. 0 \in 0 .. MaxSlot /\ 0 + Window = Window
  BY Constants
<1>2. LedgerTyped(EmptyLedger, Window) /\ EmptyLedger.anchor.chosen_trim_slot = 0
  <2>1. ledger_open(0) \in CellType(BallotSet)
    BY OpenCell
  <2>2. NoAnchor \in AnchorType
    BY Constants DEF NoAnchor, AnchorType
  <2>3. EmptyLedger \in LedgerType(BallotSet)
    BY <2>1, <2>2, BallotsAreBounded DEF EmptyLedger, LedgerType
  <2>4. \A c \in Cells : EmptyLedger.cell[c] = ledger_open(0)
    BY DEF EmptyLedger
  <2>5. \A c \in Cells : CellTyped(EmptyLedger.cell[c], c) /\ EmptyLedger.cell[c].slot <= Window
    BY <2>4, OpenCell, Constants
  <2>6. QED
    BY <2>3, <2>5 DEF LedgerTyped, EmptyLedger, NoAnchor
<1>3. ASSUME NEW n \in Node
      PROVE  NodeTyped(node[n]) /\ node[n].delivered_through = 0
  <2>1. node[n] = Resumed(n, EmptyLedger, 0)
    BY DEF Init
  <2>2. QED
    BY <1>1, <1>2, <2>1, ResumedFacts
<1>4. ASSUME NEW n \in Node PROVE HostTyped(n)
  <2>1. history[n] = <<>> /\ disk[n] = EmptyLedger
    BY DEF Init
  <2>2. <<>> \in Seq(Values) /\ Len(<<>>) = 0
    OBVIOUS
  <2>3. QED
    BY <1>1, <1>2, <1>3, <2>1, <2>2 DEF HostTyped
<1>5. QED
  BY <1>3, <1>4, Constants DEF Init, TypeInv

\* The types are kept by every step.
LEMMA StepIsTyped ==
  ASSUME TypeInv, ~LaggingHost, NEW n \in Node, OneStep(n)
  PROVE  TypeInv'
<1>1. CASE IdleStep(n)
  <2>1. PICK new, w, out, used : /\ Finish(n, new, w, out, used)
                                 /\ Idles(node[n], new, w)
                                 /\ \A m \in out : MessageTyped(m)
    BY <1>1 DEF IdleStep
  <2>2. Extends(node[n], new, w)
    BY <2>1 DEF Idles
  <2>3. QED
    BY <2>1, <2>2, FinishIsTyped
<1>2. CASE WorkStep(n)
  <2>1. PICK new, w, out, used : /\ Finish(n, new, w, out, used)
                                 /\ Works(node[n], new, w)
                                 /\ \A m \in out : MessageTyped(m)
    BY <1>2 DEF WorkStep
  <2>2. Extends(node[n], new, w)
    BY <2>1 DEF Works
  <2>3. QED
    BY <2>1, <2>2, FinishIsTyped
<1>3. ASSUME NEW s \in Slot, AdvanceMemoryFloor(n, s) PROVE TypeInv'
  BY <1>3, AdvanceFloorIsTyped
<1>4. ASSUME NEW a \in AnchorType, InstallChosenTrim(n, a) PROVE TypeInv'
  <2>1. PICK new : Finish(n, new, WriteTrim(a), {}, {}) /\ Extends(node[n], new, WriteTrim(a))
    BY <1>4, InstallTrimFacts
  <2>2. QED
    BY <2>1, FinishIsTyped
<1>5. ASSUME NEW donor \in Node, BeginRecovery(n, donor) PROVE TypeInv'
  BY <1>5, BeginRecoveryFacts
<1>6. ASSUME NEW enabled \in BOOLEAN, SetCampaignEnabled(n, enabled) PROVE TypeInv'
  BY <1>6, SetCampaignIsTyped
<1>7. CASE Crash(n)
  BY <1>7, CrashIsTyped
<1>8. QED
  BY <1>1, <1>2, <1>3, <1>4, <1>5, <1>6, <1>7 DEF OneStep

LEMMA StutterIsTyped ==
  ASSUME TypeInv, UNCHANGED vars
  PROVE  TypeInv'
<1>1. node' = node /\ disk' = disk /\ history' = history /\ net' = net /\ votes' = votes
      /\ crashes' = crashes
  BY DEF vars
<1>2. \A n \in Node : HostTyped(n)'
  BY <1>1 DEF TypeInv, HostTyped
<1>3. QED
  BY <1>1, <1>2 DEF TypeInv

\* The inductive invariant: every node, journal, log and message has its form, and the
\* floor, the frontier and the anchor of a node are in their order, in every cluster of
\* hosts that retain what they consume.
THEOREM TypesAreInvariant ==
  ASSUME ~LaggingHost
  PROVE  Spec => []TypeInv
<1>1. Init => TypeInv
  BY InitIsTyped
<1>2. TypeInv /\ [Next]_vars => TypeInv'
  <2>1. ASSUME TypeInv, Next PROVE TypeInv'
    BY <2>1, StepsAreOfAKind, StepIsTyped
  <2>2. ASSUME TypeInv, UNCHANGED vars PROVE TypeInv'
    BY <2>2, StutterIsTyped
  <2>3. QED
    BY <2>1, <2>2
<1>3. QED
  BY <1>1, <1>2, PTL DEF Spec

LEMMA TypedNodesAreOK ==
  ASSUME NEW nd, NodeTyped(nd)
  PROVE  NodeOK(nd)
<1>1. ASSUME RecoveryTyped(nd.recovery) PROVE RecoveryOK(nd.recovery)
  <2>1. nd.recovery.base \in 0 .. (MaxSlot + 1) /\ nd.recovery.base <= MaxSlot
        /\ Chunk - 1 \in Nat
    BY <1>1, Constants DEF RecoveryTyped, Slot
  <2>2. nd.recovery.last \in nd.recovery.base .. MaxSlot
    BY <1>1, <2>1, SlotAdd DEF RecoveryTyped
  <2>3. QED
    BY <1>1, <2>2 DEF RecoveryTyped, RecoveryOK
<1>2. RecoveryOK(nd.recovery)
  BY <1>1 DEF NodeTyped, RecoveryOK
<1>3. QED
  BY <1>2 DEF NodeTyped, NodeOK, LedgerTyped, LeadType

\* The journals and the logs are functions on the nodes.
AreFunctions == /\ disk = [n \in Node |-> disk[n]]
             /\ history = [n \in Node |-> history[n]]

LEMMA FunctionsStay ==
  ASSUME TypeInv, AreFunctions, ~LaggingHost, NEW n \in Node, OneStep(n)
  PROVE  AreFunctions'
<1>1. ASSUME NEW d, NEW h, disk' = [disk EXCEPT ![n] = d], history' = [history EXCEPT ![n] = h]
      PROVE  AreFunctions'
  BY <1>1 DEF AreFunctions
<1>2. ASSUME disk' = disk, history' = history PROVE AreFunctions'
  BY <1>2 DEF AreFunctions
<1>3. ASSUME NEW h, disk' = disk, history' = [history EXCEPT ![n] = h] PROVE AreFunctions'
  BY <1>3 DEF AreFunctions
<1>4. ASSUME NEW new, NEW w, NEW out, NEW used, Finish(n, new, w, out, used) PROVE AreFunctions'
  <2>1. CASE Discharged(n, new, w, out, used)
    BY <2>1, <1>1 DEF Discharged
  <2>2. CASE CutShort(n, new, w, out, used)
    <3>1. PICK kept, log :
            /\ disk' = [disk EXCEPT ![n] = ledger_replay_fold(@, kept)]
            /\ Restarted(n, disk'[n], log)
      BY <2>2 DEF CutShort
    <3>2. history' = [history EXCEPT ![n] = log]
      BY <3>1 DEF Restarted
    <3>3. QED
      BY <3>1, <3>2, <1>1
  <2>3. QED
    BY <1>4, <2>1, <2>2 DEF Finish
<1>5. CASE IdleStep(n)
  BY <1>4, <1>5 DEF IdleStep
<1>6. CASE WorkStep(n)
  BY <1>4, <1>6 DEF WorkStep
<1>7. ASSUME NEW s \in Slot, AdvanceMemoryFloor(n, s) PROVE AreFunctions'
  BY <1>2, <1>7 DEF AdvanceMemoryFloor
<1>8. ASSUME NEW a \in AnchorType, InstallChosenTrim(n, a) PROVE AreFunctions'
  BY <1>4, <1>8 DEF InstallChosenTrim
<1>9. ASSUME NEW donor \in Node, BeginRecovery(n, donor) PROVE AreFunctions'
  BY <1>1, <1>9 DEF BeginRecovery
<1>10. ASSUME NEW enabled \in BOOLEAN, SetCampaignEnabled(n, enabled) PROVE AreFunctions'
  BY <1>2, <1>10 DEF SetCampaignEnabled
<1>11. CASE Crash(n)
  BY <1>3, <1>11 DEF Crash, Restarted
<1>12. QED
  BY <1>5, <1>6, <1>7, <1>8, <1>9, <1>10, <1>11 DEF OneStep

\* TypeOK holds of every cluster, whatever the number of nodes, slots and rounds, the
\* window, the quorums and the losses: no handler, timer, host call or crash point ever
\* leaves a slot, a ballot, a cell or a report outside its range.
THEOREM TypesAreKept ==
  ASSUME ~LaggingHost
  PROVE  Spec => []TypeOK
<1>1. Init => AreFunctions
  BY DEF Init, AreFunctions
<1>2. TypeInv /\ AreFunctions /\ [Next]_vars => AreFunctions'
  <2>1. ASSUME TypeInv, AreFunctions, Next PROVE AreFunctions'
    BY <2>1, StepsAreOfAKind, FunctionsStay
  <2>2. ASSUME AreFunctions, UNCHANGED vars PROVE AreFunctions'
    BY <2>2 DEF AreFunctions, vars
  <2>3. QED
    BY <2>1, <2>2
<1>3. TypeInv /\ AreFunctions => TypeOK
  <2> SUFFICES ASSUME TypeInv, AreFunctions PROVE TypeOK
    OBVIOUS
  <2>1. \A n \in Node : NodeOK(node[n])
    BY TypedNodesAreOK DEF TypeInv
  <2>2. disk \in [Node -> LedgerType(BallotSet)]
    <3>1. DOMAIN disk = Node /\ \A n \in Node : disk[n] \in LedgerType(BallotSet)
      BY DEF TypeInv, HostTyped, LedgerTyped
    <3>2. QED
      BY <3>1 DEF AreFunctions
  <2>3. history \in [Node -> Seq(Values)]
    <3>1. DOMAIN history = Node /\ \A n \in Node : history[n] \in Seq(Values)
      BY DEF TypeInv, HostTyped
    <3>2. QED
      BY <3>1 DEF AreFunctions
  <2>4. QED
    BY <2>1, <2>2, <2>3 DEF TypeInv, TypeOK
<1>4. QED
  BY <1>1, <1>2, <1>3, TypesAreInvariant, PTL DEF Spec

-------------------------------------------------------------------------------
(* A candidate or a leader is never outbid by its own ledger.              *)

Within(nd) == nd.role # "Follower" => ledger_highest_ballot(nd.ledger) <= nd.ballot

LEMMA RestartFollows ==
  ASSUME NEW n, NEW l, NEW log, Restarted(n, l, log)
  PROVE  \E r : node' = [node EXCEPT ![n] = r] /\ r.role = "Follower"
<1>1. PICK len : node' = [node EXCEPT ![n] = node_restore(n, l, len)]
  BY DEF Restarted
<1>2. \A base : Resumed(n, l, base).role = "Follower"
  BY DEF Resumed
<1>3. node_restore(n, l, len).role = "Follower"
  BY <1>2 DEF node_restore
<1>4. QED
  BY <1>1, <1>3

\* The records of a slot raise no ballot of its cell above those of the records.
LEMMA ApplySlotWithin ==
  ASSUME NEW top, NEW w, WritesTyped(w, top), NEW s \in WrittenSlots(w),
         NEW cell \in CellType(BallotSet), NEW b \in BallotSet,
         cell.promised_at <= b, cell.vote_ballot <= b,
         s \in DOMAIN w.votes => w.votes[s].ballot <= b
  PROVE  ApplySlot(cell, s, w).promised_at <= b /\ ApplySlot(cell, s, w).vote_ballot <= b
<1> DEFINE claimed == Claim(cell, s)
           vote == w.votes[s]
           voted == IF s \in DOMAIN w.votes THEN ReplayVote(claimed, vote) ELSE claimed
<1>1. s \in Slot
  BY DEF WritesTyped, WrittenSlots
<1>2. b \in Nat /\ BALLOT_ZERO <= b
  BY BallotsAreBounded DEF BALLOT_ZERO
<1>3. /\ claimed \in CellType(BallotSet) /\ claimed.promised_at <= b /\ claimed.vote_ballot <= b
  BY <1>1, <1>2, BallotsAreBounded, Constants DEF Claim, ledger_open, CellType, Slot
<1>4. voted \in CellType(BallotSet) /\ voted.promised_at <= b /\ voted.vote_ballot <= b
  <2>1. CASE s \in DOMAIN w.votes
    <3>1. PICK k, v : k = vote.ballot /\ v = vote.value
      OBVIOUS
    <3>2. k \in BallotSet /\ v \in Values /\ k <= b
      BY <2>1, <3>1 DEF WritesTyped
    <3>3. PICK p : p = MaxOf(claimed.promised_at, k)
      OBVIOUS
    <3>4. p \in BallotSet /\ p <= b
      BY <1>3, <3>2, <3>3 DEF MaxOf, CellType
    <3>5. voted = IF claimed.state = "Chosen"
                    THEN [claimed EXCEPT !.promised_at = p]
                    ELSE [claimed EXCEPT !.promised_at = p, !.vote_ballot = k,
                                         !.state = "Voted", !.value = v]
      BY <1>3, <2>1, <3>1, <3>3 DEF ReplayVote, RecordVote, CellType
    <3> HIDE DEF claimed, voted
    <3>6. QED
      BY <1>3, <3>2, <3>4, <3>5 DEF CellType
  <2>2. CASE s \notin DOMAIN w.votes
    BY <1>3, <2>2
  <2>3. QED
    BY <2>1, <2>2
<1>5. ApplySlot(cell, s, w) = IF s \in DOMAIN w.chosen THEN RecordChosen(voted, w.chosen[s])
                                                       ELSE voted
  BY DEF ApplySlot
<1> HIDE DEF voted
<1>6. QED
  BY <1>4, <1>5 DEF RecordChosen, CellType

LEMMA IdlesWithin ==
  ASSUME NEW nd, NodeTyped(nd), Within(nd), NEW new, NEW w, Idles(nd, new, w)
  PROVE  Within(new)
<1> SUFFICES ASSUME new.role # "Follower"
             PROVE  ledger_highest_ballot(new.ledger) <= new.ballot
  BY DEF Within
<1>1. /\ NodeTyped(new) /\ new.ledger.cell = nd.ledger.cell /\ InTerm(nd, new)
  BY DEF Idles, Extends
<1>2. /\ LedgerTyped(nd.ledger, nd.memory_floor + Window)
      /\ LedgerTyped(new.ledger, new.memory_floor + Window)
      /\ nd.ballot \in BallotSet /\ new.ballot \in BallotSet
  BY <1>1 DEF NodeTyped
<1>3. PICK h \in BallotSet : h = ledger_highest_ballot(nd.ledger)
  BY <1>2, HighestBallot
<1>4. nd.ledger.promised <= h
      /\ \A c \in Cells : nd.ledger.cell[c].promised_at <= h /\ nd.ledger.cell[c].vote_ballot <= h
  BY <1>2, <1>3, HighestBallot
<1>5. /\ nd.ledger.promised \in BallotSet
      /\ \A c \in Cells : nd.ledger.cell[c].promised_at \in BallotSet
                          /\ nd.ledger.cell[c].vote_ballot \in BallotSet
  BY <1>2 DEF LedgerTyped, LedgerType, CellType
<1>6. h <= new.ballot /\ new.ledger.promised <= new.ballot
  <2>2. CASE /\ nd.role # "Follower" /\ new.ballot = nd.ballot
             /\ new.ledger.promised \in {nd.ledger.promised, nd.ballot}
    <3>1. h <= nd.ballot
      BY <1>3, <2>2 DEF Within
    <3>2. nd.ledger.promised <= nd.ballot /\ nd.ballot <= nd.ballot
      BY <1>2, <1>4, <1>5, <3>1, BallotOrder
    <3>3. QED
      BY <2>2, <3>1, <3>2
  <2>3. CASE new.ledger.promised = new.ballot /\ ledger_highest_ballot(nd.ledger) < new.ballot
    BY <1>2, <1>3, <2>3, BallotOrder
  <2>4. QED
    BY <1>1, <2>2, <2>3 DEF InTerm
<1>7. \A c \in Cells : /\ new.ledger.cell[c].promised_at <= new.ballot
                       /\ new.ledger.cell[c].vote_ballot <= new.ballot
  BY <1>1, <1>2, <1>4, <1>5, <1>6, BallotOrder
<1>8. QED
  BY <1>2, <1>6, <1>7, HighestBallot

LEMMA WorksWithin ==
  ASSUME NEW nd, NodeTyped(nd), Within(nd), NEW new, NEW w, Works(nd, new, w)
  PROVE  Within(new)
<1> SUFFICES ASSUME new.role # "Follower"
             PROVE  ledger_highest_ballot(new.ledger) <= new.ballot
  BY DEF Within
<1>1. /\ NodeTyped(new) /\ WritesTyped(w, nd.delivered_through + Window)
      /\ nd.role # "Follower" /\ new.ballot = nd.ballot
      /\ \A s \in DOMAIN w.votes : w.votes[s].ballot = nd.ballot
  BY DEF Works, Extends, Bids
<1>2. /\ LedgerTyped(nd.ledger, nd.memory_floor + Window)
      /\ LedgerTyped(new.ledger, new.memory_floor + Window)
      /\ nd.ballot \in BallotSet
  BY <1>1 DEF NodeTyped
<1>3. PICK h \in BallotSet : h = ledger_highest_ballot(nd.ledger) /\ h <= nd.ballot
  BY <1>1, <1>2, HighestBallot DEF Within
<1>4. nd.ledger.promised <= h
      /\ \A c \in Cells : nd.ledger.cell[c].promised_at <= h /\ nd.ledger.cell[c].vote_ballot <= h
  BY <1>2, <1>3, HighestBallot
<1>5. /\ nd.ledger.promised \in BallotSet
      /\ \A c \in Cells : /\ nd.ledger.cell[c] \in CellType(BallotSet)
                          /\ nd.ledger.cell[c].promised_at \in BallotSet
                          /\ nd.ledger.cell[c].vote_ballot \in BallotSet
  BY <1>2 DEF LedgerTyped, LedgerType, CellType
<1>6. /\ nd.ledger.promised <= nd.ballot
      /\ \A c \in Cells : /\ nd.ledger.cell[c].promised_at <= nd.ballot
                          /\ nd.ledger.cell[c].vote_ballot <= nd.ballot
  BY <1>2, <1>3, <1>4, <1>5, BallotOrder
<1>7. CASE Passes(nd, new, w)
  BY <1>1, <1>3, <1>7 DEF Passes
<1>8. CASE Places(nd.ledger, new.ledger, nd.memory_floor, w)
  <2>1. ASSUME NEW c \in Cells
        PROVE  /\ new.ledger.cell[c].promised_at <= nd.ballot
               /\ new.ledger.cell[c].vote_ballot <= nd.ballot
    <3>1. CASE \A s \in WrittenSlots(w) : cell_of(s) # c
      BY <1>6, <1>8, <3>1 DEF Places
    <3>2. CASE \E s \in WrittenSlots(w) : cell_of(s) = c
      <4>1. PICK s \in WrittenSlots(w) : cell_of(s) = c
        BY <3>2
      <4>2. new.ledger.cell[c] = ApplySlot(nd.ledger.cell[c], s, w)
        BY <1>8, <4>1 DEF Places, Cell
      <4>3. s \in DOMAIN w.votes => w.votes[s].ballot <= nd.ballot
        BY <1>1, <1>2, BallotOrder
      <4>4. PICK cell \in CellType(BallotSet) :
              /\ cell = nd.ledger.cell[c]
              /\ cell.promised_at <= nd.ballot /\ cell.vote_ballot <= nd.ballot
        BY <1>5, <1>6
      <4>5. ApplySlot(cell, s, w).promised_at <= nd.ballot
            /\ ApplySlot(cell, s, w).vote_ballot <= nd.ballot
        BY <1>1, <1>2, <4>3, <4>4, ApplySlotWithin
      <4>6. QED
        BY <4>2, <4>4, <4>5
    <3>3. QED
      BY <3>1, <3>2
  <2>2. new.ledger.promised <= nd.ballot
    BY <1>6, <1>8 DEF Places
  <2>3. QED
    BY <1>1, <1>2, <2>1, <2>2, HighestBallot
<1>9. QED
  BY <1>7, <1>8 DEF Works

\* A crash leaves a follower, whatever was written.
LEMMA FinishWithin ==
  ASSUME TypeInv, NEW n \in Node, NEW new, NEW w, NEW out, NEW used, Within(new),
         \A k \in Node : Within(node[k]), Finish(n, new, w, out, used)
  PROVE  \A k \in Node : Within(node'[k])
<1>1. DOMAIN node = Node
  BY DEF TypeInv
<1>2. CASE Discharged(n, new, w, out, used)
  BY <1>1, <1>2 DEF Discharged
<1>3. CASE CutShort(n, new, w, out, used)
  <2>1. PICK l, log : Restarted(n, l, log)
    BY <1>3 DEF CutShort
  <2>2. PICK r : node' = [node EXCEPT ![n] = r] /\ r.role = "Follower"
    BY <2>1, RestartFollows
  <2>3. QED
    BY <1>1, <2>2 DEF Within
<1>4. QED
  BY <1>2, <1>3 DEF Finish

LEMMA StepsStayWithin ==
  ASSUME TypeInv, \A k \in Node : Within(node[k]), NEW n \in Node, OneStep(n)
  PROVE  \A k \in Node : Within(node'[k])
<1>1. NodeTyped(node[n]) /\ Within(node[n]) /\ DOMAIN node = Node
  BY NodeFacts DEF TypeInv
<1>2. CASE IdleStep(n)
  <2>1. PICK new, w, out, used : Finish(n, new, w, out, used) /\ Idles(node[n], new, w)
    BY <1>2 DEF IdleStep
  <2>2. QED
    BY <1>1, <2>1, IdlesWithin, FinishWithin
<1>3. CASE WorkStep(n)
  <2>1. PICK new, w, out, used : Finish(n, new, w, out, used) /\ Works(node[n], new, w)
    BY <1>3 DEF WorkStep
  <2>2. QED
    BY <1>1, <2>1, WorksWithin, FinishWithin
<1>4. ASSUME NEW s \in Slot, AdvanceMemoryFloor(n, s) PROVE \A k \in Node : Within(node'[k])
  <2>1. PICK new : new = [node[n] EXCEPT !.memory_floor = s]
    OBVIOUS
  <2>2. new.role = node[n].role /\ new.ledger = node[n].ledger /\ new.ballot = node[n].ballot
    BY <1>1, <2>1 DEF NodeTyped
  <2>3. node' = [node EXCEPT ![n] = new]
    BY <1>4, <2>1 DEF AdvanceMemoryFloor
  <2>4. QED
    BY <1>1, <2>2, <2>3 DEF Within
<1>5. ASSUME NEW a \in AnchorType, InstallChosenTrim(n, a)
      PROVE  \A k \in Node : Within(node'[k])
  <2>1. PICK new : /\ Finish(n, new, WriteTrim(a), {}, {})
                   /\ Extends(node[n], new, WriteTrim(a))
                   /\ new.ledger.cell = node[n].ledger.cell
                   /\ new.ledger.promised = node[n].ledger.promised
                   /\ new.role = node[n].role /\ new.ballot = node[n].ballot
    BY <1>5, InstallTrimFacts
  <2>2. ledger_highest_ballot(new.ledger) = ledger_highest_ballot(node[n].ledger)
    BY <2>1 DEF ledger_highest_ballot
  <2>3. Within(new)
    BY <1>1, <2>1, <2>2 DEF Within
  <2>4. QED
    BY <2>1, <2>3, FinishWithin
<1>6. ASSUME NEW donor \in Node, BeginRecovery(n, donor) PROVE \A k \in Node : Within(node'[k])
  <2>1. node'[n].role = "Follower" /\ \A k \in Node \ {n} : node'[k] = node[k]
    BY <1>6, BeginRecoveryFacts
  <2>2. QED
    BY <2>1 DEF Within
<1>7. ASSUME NEW enabled \in BOOLEAN, SetCampaignEnabled(n, enabled)
      PROVE  \A k \in Node : Within(node'[k])
  <2>1. PICK new : /\ node' = [node EXCEPT ![n] = new] /\ new.ledger = node[n].ledger
                   /\ InTerm(node[n], new) /\ NodeTyped(new)
    BY <1>7, SetCampaignIsTyped
  <2>2. Within(new)
    <3>1. PICK h \in BallotSet : h = ledger_highest_ballot(node[n].ledger)
      BY <1>1, HighestBallot DEF NodeTyped
    <3>2. h \in Nat /\ new.ballot \in Nat
      BY <2>1, BallotsAreBounded DEF NodeTyped
    <3>3. QED
      BY <1>1, <2>1, <3>1, <3>2 DEF InTerm, Within
  <2>3. QED
    BY <1>1, <2>1, <2>2
<1>8. CASE Crash(n)
  <2>1. PICK r : node' = [node EXCEPT ![n] = r] /\ r.role = "Follower"
    BY <1>8, RestartFollows DEF Crash
  <2>2. QED
    BY <1>1, <2>1 DEF Within
<1>9. QED
  BY <1>2, <1>3, <1>4, <1>5, <1>6, <1>7, <1>8 DEF OneStep

\* A node that campaigns or leads never holds a promise or a vote above its own ballot:
\* every handler that raises a promise ends the term in the same transition, and nothing
\* a restart or an image leaves behind does.  So send_accept cannot answer .Not_Leader.
THEOREM ALeaderIsNeverOutbid ==
  ASSUME ~LaggingHost
  PROVE  Spec => []NeverOutbid
<1> DEFINE Inv == \A k \in Node : Within(node[k])
<1>1. Init => Inv
  BY DEF Init, Within, Resumed
<1>2. TypeInv /\ Inv /\ [Next]_vars => Inv'
  <2>1. ASSUME TypeInv, Inv, Next PROVE Inv'
    BY <2>1, StepsAreOfAKind, StepsStayWithin
  <2>2. ASSUME Inv, UNCHANGED vars PROVE Inv'
    BY <2>2 DEF vars
  <2>3. QED
    BY <2>1, <2>2
<1>3. Inv => NeverOutbid
  BY DEF NeverOutbid, Within
<1>4. QED
  BY <1>1, <1>2, <1>3, TypesAreInvariant, PTL DEF Spec

-------------------------------------------------------------------------------
(* The live window.                                                        *)

\* The cell of a slot of the window is its own, free, or done with.
LEMMA WindowClaims ==
  ASSUME NEW nd, NodeTyped(nd), WindowOK(nd),
         NEW s \in (nd.memory_floor + 1) .. (nd.memory_floor + Window)
  PROVE  claim_live(nd, s)
<1> DEFINE f == nd.memory_floor
           cell == Cell(nd.ledger, s)
<1>1. f \in Nat /\ LedgerTyped(nd.ledger, f + Window) /\ s \in Int /\ s > f /\ s - f <= Window
  BY Constants DEF NodeTyped
<1>2. cell_of(s) \in Cells
  BY <1>1, CellOfSlot
<1>3. cell.slot \in Nat
  BY <1>1, <1>2, Constants DEF LedgerTyped, LedgerType, CellType, Cell
<1>4. CASE cell.slot > f
  BY <1>1, <1>4, HeldAbove DEF claim_live
<1>5. CASE cell.slot <= f /\ cell.slot # 0
  <2>1. cell.slot \in 1 .. f
    BY <1>1, <1>3, <1>5
  <2>2. cell.state = "Chosen"
    BY <1>2, <2>1 DEF WindowOK, Cell
  <2>3. QED
    BY <1>1, <1>5, <2>2 DEF claim_live
<1>6. CASE cell.slot = 0
  BY <1>1, <1>6 DEF claim_live
<1>7. QED
  BY <1>1, <1>3, <1>4, <1>5, <1>6

\* A record of a slot just above the frontier finds its cell in the journal.
LEMMA JournalClaims ==
  ASSUME NEW nd, NEW d, NEW t \in Nat, t = nd.delivered_through, LedgerTyped(d, t + Window),
         DiskOK(nd, d), NEW s \in (t + 1) .. (t + Window)
  PROVE  ledger_claim(d, s)
<1> DEFINE held == Cell(d, s).slot
<1>1. s \in Int /\ cell_of(s) \in Cells
  BY Constants, CellOfSlot
<1>2. held \in Nat
  BY <1>1, Constants DEF LedgerTyped, LedgerType, CellType, Cell
<1>3. CASE held > t
  BY <1>3, HeldAbove DEF ledger_claim
<1>4. CASE held <= t /\ held # 0
  <2>1. held \in 1 .. t /\ held < s
    BY <1>1, <1>2, <1>4
  <2>2. Cell(d, s).state = "Chosen" \/ held <= d.anchor.chosen_trim_slot
    BY <1>1, <2>1 DEF DiskOK, Cell
  <2>3. QED
    BY <2>1, <2>2 DEF ledger_claim
<1>5. CASE held = 0
  BY <1>5 DEF ledger_claim
<1>6. QED
  BY <1>2, <1>3, <1>4, <1>5

\* A node that resumes from a journal has a window in order, and holds above its frontier
\* what the journal holds.
LEMMA ResumedWindow ==
  ASSUME NEW n \in Node, NEW base \in 0 .. MaxSlot, NEW d, LedgerTyped(d, base + Window),
         d.anchor.chosen_trim_slot <= base,
         \A c \in Cells : d.cell[c].slot \in 1 .. base
           => d.cell[c].state = "Chosen" \/ d.cell[c].slot <= d.anchor.chosen_trim_slot
  PROVE  WindowOK(Resumed(n, d, base)) /\ DiskOK(Resumed(n, d, base), d)
<1>1. PICK nd : nd = Resumed(n, d, base)
  OBVIOUS
<1>2. /\ nd.delivered_through = base /\ nd.memory_floor = base
      /\ nd.ledger.promised = d.promised /\ nd.ledger.anchor = d.anchor
      /\ \A c \in Cells : nd.ledger.cell[c] =
           IF d.cell[c].slot <= base /\ d.cell[c].state # "Chosen"
             THEN ledger_open(0) ELSE d.cell[c]
  BY <1>1, ResumedFacts
<1>3. base \in Nat
  BY Constants
<1>4. \A c \in Cells : d.cell[c].slot \in Nat
  BY Constants DEF LedgerTyped, LedgerType, CellType
<1>5. ledger_open(0).slot = 0
  BY DEF ledger_open
<1>6. WindowOK(nd)
  <2>1. ASSUME NEW c \in Cells, nd.ledger.cell[c].slot \in 1 .. base
        PROVE  nd.ledger.cell[c].state = "Chosen"
    <3>1. nd.ledger.cell[c] = d.cell[c] /\ ~(d.cell[c].slot <= base /\ d.cell[c].state # "Chosen")
      BY <1>2, <1>3, <1>5, <2>1
    <3>2. d.cell[c].slot <= base
      BY <1>3, <1>4, <2>1, <3>1
    <3>3. QED
      BY <3>1, <3>2
  <2>2. (base + 1) .. base = {}
    BY <1>3
  <2>3. QED
    BY <1>2, <2>1, <2>2 DEF WindowOK
<1>7. DiskOK(nd, d)
  <2>1. ASSUME NEW s \in Slot, s > base, s \in {Cell(d, s).slot, Cell(nd.ledger, s).slot}
        PROVE  Cell(d, s) = Cell(nd.ledger, s)
    <3>1. s \in Nat /\ cell_of(s) \in Cells /\ s # 0 /\ ~(s <= base)
      BY <1>3, <2>1, Constants, CellOfSlot
    <3>2. Cell(nd.ledger, s) = IF Cell(d, s).slot <= base /\ Cell(d, s).state # "Chosen"
                                 THEN ledger_open(0) ELSE Cell(d, s)
      BY <1>2, <3>1 DEF Cell
    <3>3. QED
      BY <1>5, <2>1, <3>1, <3>2
  <2>2. QED
    BY <1>2, <2>1 DEF DiskOK
<1>8. QED
  BY <1>1, <1>6, <1>7

\* A write above the frontier is of a slot that neither memory nor journal has decided.
LEMMA WorksAbove ==
  ASSUME NEW nd, NodeTyped(nd), WindowOK(nd), NEW new, NEW w, Works(nd, new, w)
  PROVE  /\ \A s \in WrittenSlots(w) :
              /\ s \in Slot /\ s > nd.delivered_through /\ s <= nd.delivered_through + Window
              /\ ~ ledger_is_chosen(nd.ledger, s)
         /\ \A s \in Slot : ledger_is_chosen(new.ledger, s) =>
              \/ s \in DOMAIN w.chosen
              \/ s \notin WrittenSlots(w) /\ ledger_is_chosen(nd.ledger, s)
         /\ WindowOK(new)
<1> DEFINE f == nd.memory_floor
           t == nd.delivered_through
<1>1. /\ f \in Nat /\ t \in Nat /\ f <= t /\ LedgerTyped(nd.ledger, f + Window)
      /\ f + Window \in Nat
  BY Constants DEF NodeTyped
<1>2. /\ Extends(nd, new, w) /\ new.memory_floor = f /\ WritesTyped(w, t + Window)
      /\ NodeTyped(new) /\ new.delivered_through \in Nat /\ new.delivered_through >= t
      /\ \A s \in (t + 1) .. new.delivered_through :
           s \in DOMAIN w.chosen \/ ledger_is_chosen(new.ledger, s)
  BY Constants DEF Works, Extends, NodeTyped
<1>3. \A s \in WrittenSlots(w) : s \in Slot /\ s \in Nat
  BY <1>2, Constants DEF WritesTyped, WrittenSlots
<1>4. CASE Places(nd.ledger, new.ledger, f, w)
  <2>1. ASSUME NEW s \in WrittenSlots(w)
        PROVE  /\ s \in (f + 1) .. (f + Window) /\ ~ ledger_is_chosen(nd.ledger, s)
               /\ s > t /\ s <= t + Window
    <3>1. s \in (f + 1) .. (f + Window) /\ ~ ledger_is_chosen(nd.ledger, s) /\ s \in Nat
      BY <1>3, <1>4 DEF Places
    <3>2. s > t
      <4> SUFFICES ASSUME s <= t PROVE FALSE
        BY <1>1, <3>1
      <4>1. s \in (f + 1) .. t /\ s <= f + Window
        BY <1>1, <3>1
      <4>2. QED
        BY <3>1, <4>1 DEF WindowOK
    <3>3. QED
      BY <1>1, <3>1, <3>2, Constants
  <2>2. WritesTyped(w, f + Window)
    <3>1. \A s \in WrittenSlots(w) : s <= f + Window
      BY <1>1, <2>1
    <3>2. QED
      BY <1>2, <3>1 DEF WritesTyped, WrittenSlots
  <2>3. /\ \A c \in Cells :
             \/ new.ledger.cell[c] = nd.ledger.cell[c]
             \/ \E s \in WrittenSlots(w) : new.ledger.cell[c].slot = s
        /\ \A s \in Slot : ledger_is_chosen(new.ledger, s) =>
             \/ s \in DOMAIN w.chosen
             \/ s \notin WrittenSlots(w) /\ ledger_is_chosen(nd.ledger, s)
        /\ \A s \in Slot : s > f /\ ledger_is_chosen(nd.ledger, s)
             => ledger_is_chosen(new.ledger, s)
        /\ \A s \in DOMAIN w.chosen : ledger_is_chosen(new.ledger, s)
    BY <1>1, <1>4, <2>2, PlacedFacts
  <2>4. ASSUME NEW c \in Cells, new.ledger.cell[c].slot \in 1 .. f
        PROVE  new.ledger.cell[c].state = "Chosen"
    <3>1. \A s \in WrittenSlots(w) : s \notin 1 .. f
      BY <1>1, <2>1
    <3>2. new.ledger.cell[c] = nd.ledger.cell[c]
      BY <2>3, <2>4, <3>1
    <3>3. QED
      BY <2>4, <3>2 DEF WindowOK
  <2>5. ASSUME NEW s \in (f + 1) .. new.delivered_through, s <= f + Window
        PROVE  ledger_is_chosen(new.ledger, s)
    <3>1. CASE s <= t
      <4>1. s \in (f + 1) .. t /\ s \in Slot /\ s > f
        BY <1>1, <1>2, <2>5, <3>1, Constants DEF Slot, NodeTyped
      <4>2. ledger_is_chosen(nd.ledger, s)
        BY <2>5, <4>1 DEF WindowOK
      <4>3. QED
        BY <2>3, <4>1, <4>2
    <3>2. CASE s > t
      <4>1. s \in (t + 1) .. new.delivered_through
        BY <1>1, <1>2, <2>5, <3>2
      <4>2. QED
        BY <1>2, <2>3, <4>1
    <3>3. QED
      BY <1>1, <2>5, <3>1, <3>2
  <2>6. WindowOK(new)
    BY <1>2, <2>4, <2>5 DEF WindowOK
  <2>7. QED
    BY <1>3, <2>1, <2>3, <2>6
<1>5. CASE Passes(nd, new, w)
  <2>1. PICK v \in Values : w = WriteChosen(t + 1, v)
    BY <1>5 DEF Passes
  <2>2. new.ledger = nd.ledger /\ ~ claim_live(nd, t + 1) /\ t + 1 \in Int
    BY <1>1, <1>5 DEF Passes
  <2>3. WrittenSlots(w) = {t + 1} /\ DOMAIN w.chosen = {t + 1}
    BY <2>1 DEF WriteChosen, NoWrites, WrittenSlots
  <2>4. t + 1 > f + Window
    <3> SUFFICES ASSUME t + 1 <= f + Window PROVE FALSE
      BY <1>1
    <3>1. t + 1 \in (f + 1) .. (f + Window)
      BY <1>1
    <3>2. QED
      BY <2>2, <3>1, WindowClaims
  <2>5. ~ ledger_is_chosen(nd.ledger, t + 1)
    <3>1. cell_of(t + 1) \in Cells
      BY <2>2, CellOfSlot
    <3>2. Cell(nd.ledger, t + 1).slot <= f + Window /\ Cell(nd.ledger, t + 1).slot \in Nat
      BY <1>1, <3>1, Constants DEF LedgerTyped, LedgerType, CellType, Cell
    <3>3. QED
      BY <1>1, <2>4, <3>2 DEF ledger_is_chosen
  <2>6. t + 1 \in Slot /\ t + 1 > t /\ t + 1 <= t + Window
    BY <1>1, <1>3, <2>3, Constants
  <2>7. WindowOK(new)
    <3>1. ASSUME NEW s \in (f + 1) .. new.delivered_through, s <= f + Window
          PROVE  ledger_is_chosen(new.ledger, s)
      <4>1. s \in (f + 1) .. t
        BY <1>1, <1>2, <2>4, <3>1
      <4>2. QED
        BY <2>2, <3>1, <4>1 DEF WindowOK
    <3>2. QED
      BY <1>2, <2>2, <3>1 DEF WindowOK
  <2>8. QED
    BY <2>2, <2>3, <2>5, <2>6, <2>7
<1>6. QED
  BY <1>4, <1>5 DEF Works

\* A batch, or what a crash leaves of it, is placed in the journal as in memory.
LEMMA JournalPlaces ==
  ASSUME NEW nd, NodeTyped(nd), WindowOK(nd), NEW t \in Nat, t = nd.delivered_through,
         NEW d, LedgerTyped(d, t + Window), DiskOK(nd, d),
         NEW new, NEW w, Works(nd, new, w), NEW kept \in Prefixes(w)
  PROVE  /\ Places(d, ledger_replay_fold(d, kept), t, kept)
         /\ LedgerTyped(ledger_replay_fold(d, kept), t + Window)
         /\ WritesTyped(kept, t + Window)
<1>1. WritesTyped(w, t + Window) /\ w.promise = BALLOT_ZERO /\ w.trim = NoAnchor
  BY DEF Works, Extends
<1>2. /\ WritesTyped(kept, t + Window) /\ WrittenSlots(kept) \subseteq WrittenSlots(w)
      /\ kept.promise = BALLOT_ZERO /\ kept.trim = NoAnchor
  BY <1>1, PrefixIsPart
<1>3. ASSUME NEW s \in WrittenSlots(kept)
      PROVE  /\ s > t /\ s \in (t + 1) .. (t + Window) /\ ~ ledger_is_chosen(d, s)
             /\ ledger_claim(d, s)
  <2>1. /\ s \in Slot /\ s \in Nat /\ s > t /\ s <= t + Window
        /\ ~ ledger_is_chosen(nd.ledger, s)
    BY <1>2, WorksAbove, Constants
  <2>2. s \in (t + 1) .. (t + Window)
    BY <2>1, Constants
  <2>3. Cell(d, s).slot = s => Cell(d, s) = Cell(nd.ledger, s)
    BY <2>1 DEF DiskOK
  <2>4. ~ ledger_is_chosen(d, s)
    BY <2>1, <2>3 DEF ledger_is_chosen
  <2>5. QED
    BY <2>1, <2>2, <2>4, JournalClaims
<1>4. {s \in WrittenSlots(kept) : ledger_claim(d, s)} = WrittenSlots(kept)
  BY <1>3
<1>5. ledger_replay_fold(d, kept) = RecordWrites(d, kept)
  BY <1>4 DEF ledger_replay_fold, RecordWrites
<1>6. QED
  BY <1>2, <1>3, <1>5, RecordPlaces

\* Whatever the host has released after the batch, the journal has decided.
LEMMA JournalSettles ==
  ASSUME NEW nd, NodeTyped(nd), WindowOK(nd), NEW t \in Nat, t = nd.delivered_through,
         NEW d, LedgerTyped(d, t + Window), DiskOK(nd, d),
         NEW new, NEW w, Works(nd, new, w), NEW kept \in Prefixes(w),
         NEW through \in Nat, through >= t, kept # w => through = t,
         through <= new.delivered_through,
         NEW c \in Cells, ledger_replay_fold(d, kept).cell[c].slot \in 1 .. through
  PROVE  LET after == ledger_replay_fold(d, kept) IN
         \/ after.cell[c].state = "Chosen"
         \/ after.cell[c].slot <= after.anchor.chosen_trim_slot
<1>1. PICK after : after = ledger_replay_fold(d, kept)
  OBVIOUS
<1>2. /\ Places(d, after, t, kept) /\ LedgerTyped(after, t + Window)
      /\ WritesTyped(kept, t + Window) /\ after.anchor = d.anchor
  BY <1>1, JournalPlaces DEF Places
<1>3. PICK s : s = after.cell[c].slot /\ s \in 1 .. through /\ s \in Nat
  BY <1>1
<1>4. s \in Slot
  <2>1. s \in 0 .. MaxSlot
    BY <1>2, <1>3 DEF LedgerTyped, LedgerType, CellType
  <2>2. QED
    BY <1>3, <2>1, Constants DEF Slot
<1>5. cell_of(s) = c
  BY <1>2, <1>3 DEF LedgerTyped, CellTyped
<1>6. /\ \/ after.cell[c] = d.cell[c] /\ \A u \in WrittenSlots(kept) : cell_of(u) # c
         \/ \E u \in WrittenSlots(kept) :
              /\ cell_of(u) = c /\ after.cell[c] = ApplySlot(d.cell[c], u, kept)
              /\ after.cell[c].slot = u
      /\ \A u \in DOMAIN kept.chosen : ledger_is_chosen(after, u)
  BY <1>2, PlacedFacts
<1>7. /\ \A u \in Slot : ledger_is_chosen(new.ledger, u) =>
           \/ u \in DOMAIN w.chosen
           \/ u \notin WrittenSlots(w) /\ ledger_is_chosen(nd.ledger, u)
      /\ \A u \in WrittenSlots(w) : u > t
      /\ WrittenSlots(kept) \subseteq WrittenSlots(w)
  BY WorksAbove, PrefixIsPart DEF Works, Extends
<1>8. CASE s <= t
  <2>1. after.cell[c] = d.cell[c]
    BY <1>3, <1>6, <1>7, <1>8
  <2>2. s \in 1 .. t
    BY <1>3, <1>8
  <2>3. QED
    BY <1>1, <1>2, <1>3, <2>1, <2>2 DEF DiskOK
<1>9. CASE s > t
  <2>1. kept = w
    BY <1>3, <1>9
  <2>2. s \in (t + 1) .. new.delivered_through
    <3>1. new.delivered_through \in Nat
      BY Constants DEF Works, Extends, NodeTyped
    <3>2. QED
      BY <1>3, <1>9, <3>1
  <2>3. s \in DOMAIN w.chosen \/ (s \notin WrittenSlots(w) /\ ledger_is_chosen(nd.ledger, s))
    BY <1>4, <1>7, <2>2 DEF Works, Extends
  <2>4. CASE s \in DOMAIN w.chosen
    BY <1>1, <1>5, <1>6, <2>1, <2>4 DEF ledger_is_chosen, Cell
  <2>5. CASE s \notin WrittenSlots(w) /\ ledger_is_chosen(nd.ledger, s)
    <3>1. after.cell[c] = d.cell[c]
      BY <1>3, <1>6, <2>1, <2>5
    <3>2. Cell(d, s) = Cell(nd.ledger, s)
      BY <1>4, <1>9, <2>5 DEF DiskOK, ledger_is_chosen
    <3>3. QED
      BY <1>1, <1>5, <2>5, <3>1, <3>2 DEF ledger_is_chosen, Cell
  <2>6. QED
    BY <2>3, <2>4, <2>5
<1>10. QED
  BY <1>3, <1>8, <1>9

\* Above the new frontier memory and journal have changed alike.
LEMMA AlikeAbove ==
  ASSUME NEW nd, NodeTyped(nd), WindowOK(nd), NEW t \in Nat, t = nd.delivered_through,
         NEW d, LedgerTyped(d, t + Window), DiskOK(nd, d),
         NEW new, NEW w, Works(nd, new, w),
         NEW after, after = ledger_replay_fold(d, w),
         NEW s \in Slot, s > new.delivered_through,
         s \in {Cell(after, s).slot, Cell(new.ledger, s).slot}
  PROVE  Cell(after, s) = Cell(new.ledger, s)
<1> DEFINE f == nd.memory_floor
           c == cell_of(s)
<1>1. w \in Prefixes(w)
  BY DEF Prefixes
<1>2. Places(d, after, t, w) /\ WritesTyped(w, t + Window)
  BY <1>1, JournalPlaces
<1>3. /\ s \in Nat /\ c \in Cells /\ f \in Nat /\ f <= t /\ new.delivered_through \in Nat
      /\ new.delivered_through >= t /\ LedgerTyped(nd.ledger, f + Window)
  BY Constants, CellOfSlot DEF NodeTyped, Works, Extends
<1>4. s > t
  BY <1>3
<1>5. s \in {Cell(d, s).slot, Cell(nd.ledger, s).slot} => Cell(d, s) = Cell(nd.ledger, s)
  BY <1>4 DEF DiskOK
<1>6. \/ Cell(after, s) = Cell(d, s) /\ \A u \in WrittenSlots(w) : cell_of(u) # c
      \/ \E u \in WrittenSlots(w) :
           /\ cell_of(u) = c /\ Cell(after, s) = ApplySlot(Cell(d, s), u, w)
           /\ Cell(after, s).slot = u
  BY <1>2, <1>3, PlacedFacts DEF Cell
<1>7. CASE Places(nd.ledger, new.ledger, f, w)
  <2>1. WritesTyped(w, f + Window)
    <3>1. \A u \in WrittenSlots(w) : u <= f + Window
      BY <1>3, <1>7, Constants DEF Places
    <3>2. QED
      BY <1>2, <3>1 DEF WritesTyped, WrittenSlots
  <2>2. \/ Cell(new.ledger, s) = Cell(nd.ledger, s) /\ \A u \in WrittenSlots(w) : cell_of(u) # c
        \/ \E u \in WrittenSlots(w) :
             /\ cell_of(u) = c /\ Cell(new.ledger, s) = ApplySlot(Cell(nd.ledger, s), u, w)
             /\ Cell(new.ledger, s).slot = u
    BY <1>3, <1>7, <2>1, PlacedFacts DEF Cell
  <2>3. CASE \A u \in WrittenSlots(w) : cell_of(u) # c
    <3>1. Cell(after, s) = Cell(d, s) /\ Cell(new.ledger, s) = Cell(nd.ledger, s)
      BY <1>6, <2>2, <2>3
    <3>2. QED
      BY <1>5, <3>1
  <2>4. CASE s \in WrittenSlots(w)
    <3>1. /\ Cell(after, s) = ApplySlot(Cell(d, s), s, w)
          /\ Cell(new.ledger, s) = ApplySlot(Cell(nd.ledger, s), s, w)
      BY <1>2, <1>7, <2>4 DEF Places
    <3>2. Claim(Cell(d, s), s) = Claim(Cell(nd.ledger, s), s)
      BY <1>5 DEF Claim
    <3>3. QED
      BY <3>1, <3>2 DEF ApplySlot
  <2>5. CASE s \notin WrittenSlots(w) /\ \E u \in WrittenSlots(w) : cell_of(u) = c
    BY <1>6, <2>2, <2>5
  <2>6. QED
    BY <2>3, <2>4, <2>5
<1>8. CASE Passes(nd, new, w)
  <2>1. PICK v \in Values : w = WriteChosen(t + 1, v)
    BY <1>8 DEF Passes
  <2>2. new.ledger = nd.ledger /\ new.delivered_through > t
    BY <1>8 DEF Passes
  <2>3. WrittenSlots(w) = {t + 1} /\ t + 1 # s
    BY <1>3, <2>1, <2>2 DEF WriteChosen, NoWrites, WrittenSlots
  <2>4. t + 1 > f + Window
    <3> SUFFICES ASSUME t + 1 <= f + Window PROVE FALSE
      BY <1>3, Constants
    <3>1. t + 1 \in (f + 1) .. (f + Window)
      BY <1>3, Constants
    <3>2. QED
      BY <1>8, <3>1, WindowClaims DEF Passes
  <2>5. Cell(new.ledger, s).slot # s
    <3>1. Cell(nd.ledger, s).slot <= f + Window /\ Cell(nd.ledger, s).slot \in Nat
      BY <1>3, Constants DEF LedgerTyped, LedgerType, CellType, Cell
    <3>2. QED
      BY <1>3, <2>2, <2>4, <3>1, Constants
  <2>6. Cell(after, s).slot = s
    BY <2>5
  <2>7. Cell(after, s) = Cell(d, s)
    BY <1>6, <2>3, <2>6
  <2>8. QED
    BY <1>5, <2>2, <2>6, <2>7
<1>9. QED
  BY <1>7, <1>8 DEF Works

LEMMA DischargedWindow ==
  ASSUME NEW nd, NodeTyped(nd), WindowOK(nd), NEW t \in Nat, t = nd.delivered_through,
         NEW d, LedgerTyped(d, t + Window), DiskOK(nd, d),
         NEW new, NEW w, Works(nd, new, w)
  PROVE  WindowOK(new) /\ DiskOK(new, ledger_replay_fold(d, w))
<1>1. PICK after : after = ledger_replay_fold(d, w)
  OBVIOUS
<1>2. w \in Prefixes(w)
  BY DEF Prefixes
<1>3. WindowOK(new)
  BY WorksAbove
<1>4. after.anchor = d.anchor /\ after.promised = d.promised
  BY <1>1, <1>2, JournalPlaces DEF Places
<1>5. new.ledger.anchor = nd.ledger.anchor /\ new.ledger.promised = nd.ledger.promised
  BY DEF Works, Places, Passes
<1>6. new.delivered_through \in Nat /\ new.delivered_through >= t
      /\ new.delivered_through <= new.delivered_through
  BY Constants DEF Works, Extends, NodeTyped
<1>7. \A c \in Cells : after.cell[c].slot \in 1 .. new.delivered_through
        => after.cell[c].state = "Chosen" \/ after.cell[c].slot <= after.anchor.chosen_trim_slot
  BY <1>1, <1>2, <1>6, JournalSettles
<1>8. \A s \in Slot : s > new.delivered_through
                        /\ s \in {Cell(after, s).slot, Cell(new.ledger, s).slot}
         => Cell(after, s) = Cell(new.ledger, s)
  BY <1>1, AlikeAbove
<1>9. QED
  BY <1>1, <1>3, <1>4, <1>5, <1>7, <1>8 DEF DiskOK

\* One node's window; the others are not touched.
LEMMA OneWindow ==
  ASSUME WindowInv, NEW n \in Node, \A k \in Node \ {n} : node'[k] = node[k] /\ disk'[k] = disk[k],
         WindowOK(node'[n]), DiskOK(node'[n], disk'[n])
  PROVE  WindowInv'
<1>1. ASSUME NEW k \in Node PROVE WindowOK(node'[k]) /\ DiskOK(node'[k], disk'[k])
  <2>1. CASE k = n
    BY <2>1
  <2>2. CASE k # n
    <3>1. WindowOK(node[k]) /\ DiskOK(node[k], disk[k])
      BY DEF WindowInv
    <3>2. QED
      BY <2>2, <3>1
  <2>3. QED
    BY <2>1, <2>2
<1>2. QED
  BY <1>1 DEF WindowInv

LEMMA RestartedWindow ==
  ASSUME TypeInv, WindowInv, ~LaggingHost, NEW n \in Node, NEW log \in Seq(Values),
         Len(log) <= MaxSlot, \A k \in Node \ {n} : disk'[k] = disk[k],
         LedgerTyped(disk'[n], Len(log) + Window),
         disk'[n].anchor.chosen_trim_slot <= Len(log), Restarted(n, disk'[n], log),
         \A c \in Cells : disk'[n].cell[c].slot \in 1 .. Len(log)
           => \/ disk'[n].cell[c].state = "Chosen"
              \/ disk'[n].cell[c].slot <= disk'[n].anchor.chosen_trim_slot
  PROVE  WindowInv'
<1>1. node' = [node EXCEPT ![n] = Resumed(n, disk'[n], Len(log))] /\ DOMAIN node = Node
  BY RestartFacts DEF TypeInv
<1>2. Len(log) \in 0 .. MaxSlot
  BY Constants
<1>3. WindowOK(Resumed(n, disk'[n], Len(log))) /\ DiskOK(Resumed(n, disk'[n], Len(log)), disk'[n])
  BY <1>2, ResumedWindow
<1>4. node'[n] = Resumed(n, disk'[n], Len(log)) /\ \A k \in Node \ {n} : node'[k] = node[k]
  BY <1>1
<1>5. QED
  BY <1>3, <1>4, OneWindow

LEMMA WorkFinishWindow ==
  ASSUME TypeInv, WindowInv, ~LaggingHost, NEW n \in Node, NEW new, NEW w,
         Works(node[n], new, w), NEW out, NEW used, Finish(n, new, w, out, used)
  PROVE  WindowInv'
<1>1. PICK t \in Nat : t = node[n].delivered_through
  BY NodeFacts
<1>2. /\ NodeTyped(node[n]) /\ WindowOK(node[n]) /\ DiskOK(node[n], disk[n])
      /\ LedgerTyped(disk[n], t + Window) /\ DOMAIN node = Node /\ DOMAIN disk = Node
      /\ Extends(node[n], new, w)
  BY <1>1, NodeFacts DEF WindowInv, HostTyped, TypeInv, Works
<1>3. CASE Discharged(n, new, w, out, used)
  <2>1. /\ node'[n] = new /\ disk'[n] = ledger_replay_fold(disk[n], w)
        /\ \A k \in Node \ {n} : node'[k] = node[k] /\ disk'[k] = disk[k]
    BY <1>2, <1>3 DEF Discharged
  <2>2. WindowOK(new) /\ DiskOK(new, ledger_replay_fold(disk[n], w))
    BY <1>1, <1>2, DischargedWindow
  <2>3. QED
    BY <2>1, <2>2, OneWindow
<1>4. CASE CutShort(n, new, w, out, used)
  <2>1. PICK kept \in Prefixes(w), log \in Seq(Values) :
           /\ Len(log) >= node[n].delivered_through
           /\ Len(log) <= new.delivered_through /\ Len(log) <= MaxSlot
           /\ kept # w => Len(log) = node[n].delivered_through
           /\ disk'[n] = ledger_replay_fold(disk[n], kept)
           /\ \A k \in Node \ {n} : disk'[k] = disk[k]
           /\ Restarted(n, disk'[n], log)
           /\ LedgerTyped(disk'[n], Len(log) + Window)
           /\ disk'[n].anchor.chosen_trim_slot <= Len(log)
    BY <1>2, <1>4, CutShortFacts
  <2>2. PICK through \in Nat : /\ through = Len(log) /\ through >= t
                               /\ (kept # w => through = t)
                               /\ through <= new.delivered_through
    BY <1>1, <2>1
  <2>3. ASSUME NEW c \in Cells, ledger_replay_fold(disk[n], kept).cell[c].slot \in 1 .. through
        PROVE  \/ ledger_replay_fold(disk[n], kept).cell[c].state = "Chosen"
               \/ ledger_replay_fold(disk[n], kept).cell[c].slot
                    <= ledger_replay_fold(disk[n], kept).anchor.chosen_trim_slot
    BY <1>1, <1>2, <2>2, <2>3, JournalSettles
  <2>4. QED
    BY <2>1, <2>2, <2>3, RestartedWindow
<1>5. QED
  BY <1>3, <1>4 DEF Finish

\* A transition that writes no cell: what it changes of the ledger it also writes.
Keeps(nd, new, w) ==
  /\ Extends(nd, new, w) /\ WrittenSlots(w) = {}
  /\ new.delivered_through = nd.delivered_through
  /\ new.ledger.cell = nd.ledger.cell
  /\ new.ledger.promised = MaxOf(nd.ledger.promised, w.promise)
  /\ new.ledger.anchor = IF w.trim.trim_id > nd.ledger.anchor.trim_id
                           THEN w.trim ELSE nd.ledger.anchor
  /\ new.ledger.anchor.chosen_trim_slot >= nd.ledger.anchor.chosen_trim_slot

\* The journal after such a batch, or after nothing of it.
LEMMA KeptJournal ==
  ASSUME NEW nd, NodeTyped(nd), NEW t \in Nat, t = nd.delivered_through,
         NEW d, LedgerTyped(d, t + Window), DiskOK(nd, d), NEW new, NEW w, Keeps(nd, new, w),
         NEW kept \in Prefixes(w)
  PROVE  LET after == ledger_replay_fold(d, kept) IN
         /\ after.cell = d.cell
         /\ kept = w => after.promised = new.ledger.promised /\ after.anchor = new.ledger.anchor
         /\ \A c \in Cells : after.cell[c].slot \in 1 .. t
              => after.cell[c].state = "Chosen" \/ after.cell[c].slot <= after.anchor.chosen_trim_slot
<1>1. PICK after : after = ledger_replay_fold(d, kept)
  OBVIOUS
<1>2. kept \in {w, NoWrites}
  BY DEF Prefixes, Keeps
<1>3. /\ WritesTyped(w, t + Window) /\ WritesTyped(NoWrites, t + Window)
      /\ WrittenSlots(kept) = {} /\ t + Window \in Nat
  BY <1>2, EmptyBatch, Constants DEF Keeps, Extends
<1>4. /\ after.promised = MaxOf(d.promised, kept.promise)
      /\ after.anchor = IF kept.trim.trim_id > d.anchor.trim_id THEN kept.trim ELSE d.anchor
      /\ LedgerTyped(after, t + Window)
  BY <1>1, <1>2, <1>3, ReplayTyped
<1>5. after.cell = d.cell
  <2>1. after.cell = [c \in Cells |-> d.cell[c]]
    BY <1>1, <1>3 DEF ledger_replay_fold, ApplyWrites
  <2>2. d.cell \in [Cells -> CellType(BallotSet)]
    BY DEF LedgerTyped, LedgerType
  <2>3. QED
    BY <2>1, <2>2
<1>6. /\ d.anchor = nd.ledger.anchor /\ d.promised = nd.ledger.promised
      /\ d.anchor \in AnchorType
  BY DEF DiskOK, LedgerTyped, LedgerType
<1>7. kept = w => after.promised = new.ledger.promised /\ after.anchor = new.ledger.anchor
  BY <1>4, <1>6 DEF Keeps
<1>8. after.anchor.chosen_trim_slot >= d.anchor.chosen_trim_slot
  <2>1. CASE kept = w
    BY <1>6, <1>7, <2>1 DEF Keeps
  <2>2. CASE kept = NoWrites
    <3>1. kept.trim.trim_id = 0 /\ d.anchor.trim_id \in Nat /\ d.anchor.chosen_trim_slot \in Nat
      BY <1>6, <2>2, EmptyBatch, Constants DEF NoAnchor, AnchorType
    <3>2. after.anchor = d.anchor
      BY <1>4, <3>1
    <3>3. QED
      BY <3>1, <3>2
  <2>3. QED
    BY <1>2, <2>1, <2>2
<1>9. ASSUME NEW c \in Cells, after.cell[c].slot \in 1 .. t
      PROVE  after.cell[c].state = "Chosen" \/ after.cell[c].slot <= after.anchor.chosen_trim_slot
  <2>1. d.cell[c].state = "Chosen" \/ d.cell[c].slot <= d.anchor.chosen_trim_slot
    BY <1>5, <1>9 DEF DiskOK
  <2>2. /\ d.cell[c].slot \in Nat /\ d.anchor.chosen_trim_slot \in Nat
        /\ after.anchor.chosen_trim_slot \in Nat
    BY <1>4, <1>5, <1>6, <1>9, Constants DEF LedgerTyped, LedgerType, AnchorType
  <2>3. QED
    BY <1>5, <1>8, <2>1, <2>2
<1>10. QED
  BY <1>1, <1>5, <1>7, <1>9

LEMMA KeepFinishWindow ==
  ASSUME TypeInv, WindowInv, ~LaggingHost, NEW n \in Node, NEW new, NEW w,
         Keeps(node[n], new, w), WindowOK(new), NEW out, NEW used, Finish(n, new, w, out, used)
  PROVE  WindowInv'
<1>1. PICK t \in Nat : t = node[n].delivered_through
  BY NodeFacts
<1>2. /\ NodeTyped(node[n]) /\ DiskOK(node[n], disk[n])
      /\ LedgerTyped(disk[n], t + Window) /\ DOMAIN node = Node /\ DOMAIN disk = Node
      /\ Extends(node[n], new, w) /\ new.delivered_through = t
      /\ new.ledger.cell = node[n].ledger.cell
  BY <1>1, NodeFacts DEF WindowInv, HostTyped, TypeInv, Keeps
<1>3. CASE Discharged(n, new, w, out, used)
  <2>1. PICK after : after = ledger_replay_fold(disk[n], w)
    OBVIOUS
  <2>2. /\ node'[n] = new /\ disk'[n] = after
        /\ \A k \in Node \ {n} : node'[k] = node[k] /\ disk'[k] = disk[k]
    BY <1>2, <1>3, <2>1 DEF Discharged
  <2>3. w \in Prefixes(w)
    BY DEF Prefixes
  <2>4. /\ after.cell = disk[n].cell
        /\ after.promised = new.ledger.promised /\ after.anchor = new.ledger.anchor
        /\ \A c \in Cells : after.cell[c].slot \in 1 .. t
             => after.cell[c].state = "Chosen" \/ after.cell[c].slot <= after.anchor.chosen_trim_slot
    BY <1>1, <1>2, <2>1, <2>3, KeptJournal
  <2>5. \A s \in Slot : s > t /\ s \in {Cell(after, s).slot, Cell(new.ledger, s).slot}
          => Cell(after, s) = Cell(new.ledger, s)
    BY <1>1, <1>2, <2>4 DEF DiskOK, Cell
  <2>6. DiskOK(new, after)
    BY <1>2, <2>4, <2>5 DEF DiskOK
  <2>7. QED
    BY <2>2, <2>6, OneWindow
<1>4. CASE CutShort(n, new, w, out, used)
  <2>1. PICK kept \in Prefixes(w), log \in Seq(Values) :
           /\ Len(log) >= node[n].delivered_through
           /\ Len(log) <= new.delivered_through /\ Len(log) <= MaxSlot
           /\ disk'[n] = ledger_replay_fold(disk[n], kept)
           /\ \A k \in Node \ {n} : disk'[k] = disk[k]
           /\ Restarted(n, disk'[n], log)
           /\ LedgerTyped(disk'[n], Len(log) + Window)
           /\ disk'[n].anchor.chosen_trim_slot <= Len(log)
    BY <1>2, <1>4, CutShortFacts
  <2>2. Len(log) = t
    BY <1>1, <1>2, <2>1
  <2>3. \A c \in Cells : disk'[n].cell[c].slot \in 1 .. t
          => \/ disk'[n].cell[c].state = "Chosen"
             \/ disk'[n].cell[c].slot <= disk'[n].anchor.chosen_trim_slot
    BY <1>1, <1>2, <2>1, KeptJournal
  <2>4. QED
    BY <2>1, <2>2, <2>3, RestartedWindow
<1>5. QED
  BY <1>3, <1>4 DEF Finish

\* A host that has consumed everything it was handed releases cells that are decided.
LEMMA FloorAtFrontier ==
  ASSUME NEW nd, NodeTyped(nd), WindowOK(nd), NEW new,
         new.ledger.cell = nd.ledger.cell, new.delivered_through = nd.delivered_through,
         new.memory_floor \in {nd.memory_floor, nd.delivered_through}
  PROVE  WindowOK(new)
<1> DEFINE f == nd.memory_floor
           t == nd.delivered_through
<1>1. f \in Nat /\ t \in Nat /\ f <= t /\ LedgerTyped(nd.ledger, f + Window)
  BY Constants DEF NodeTyped
<1>2. CASE new.memory_floor = f
  BY <1>2 DEF WindowOK, ledger_is_chosen, Cell
<1>3. CASE new.memory_floor = t
  <2>1. ASSUME NEW c \in Cells, nd.ledger.cell[c].slot \in 1 .. t
        PROVE  nd.ledger.cell[c].state = "Chosen"
    <3>1. PICK s : s = nd.ledger.cell[c].slot
      OBVIOUS
    <3>2. s \in Nat /\ s >= 1 /\ s <= t /\ s <= f + Window /\ cell_of(s) = c
      BY <1>1, <2>1, <3>1 DEF LedgerTyped, CellTyped
    <3>3. CASE s <= f
      BY <1>1, <2>1, <3>1, <3>2, <3>3 DEF WindowOK
    <3>4. CASE s > f
      <4>1. s \in (f + 1) .. t
        BY <1>1, <3>2, <3>4
      <4>2. ledger_is_chosen(nd.ledger, s)
        BY <3>2, <4>1 DEF WindowOK
      <4>3. QED
        BY <3>2, <4>2 DEF ledger_is_chosen, Cell
    <3>5. QED
      BY <1>1, <3>2, <3>3, <3>4
  <2>2. (t + 1) .. t = {}
    BY <1>1
  <2>3. QED
    BY <1>3, <2>1, <2>2 DEF WindowOK
<1>4. QED
  BY <1>2, <1>3

LEMMA IdlesKeeps ==
  ASSUME NEW nd, NodeTyped(nd), WindowOK(nd), NEW new, NEW w, Idles(nd, new, w)
  PROVE  Keeps(nd, new, w) /\ WindowOK(new)
<1>1. nd.ledger.anchor \in AnchorType
  BY DEF NodeTyped, LedgerTyped, LedgerType
<1>2. w.trim.trim_id = 0 /\ nd.ledger.anchor.trim_id \in Nat
      /\ nd.ledger.anchor.chosen_trim_slot \in Nat
  BY <1>1, Constants DEF Idles, NoAnchor, AnchorType
<1>3. Keeps(nd, new, w)
  BY <1>2 DEF Idles, Keeps
<1>4. WindowOK(new)
  BY FloorAtFrontier DEF Idles
<1>5. QED
  BY <1>3, <1>4

\* The journal a node begins its recovery with, and its frontier.
LEMMA RecoveredJournal ==
  ASSUME TypeInv, WindowInv, NEW n \in Node, NEW donor \in Node, BeginRecovery(n, donor)
  PROVE  /\ disk'[n].cell = disk[n].cell /\ disk'[n].promised = disk[n].promised
         /\ disk'[n].promised = node[n].ledger.promised
         /\ disk'[n].anchor = node[donor].ledger.anchor
         /\ node'[n].delivered_through > node[n].delivered_through
         /\ node'[n].delivered_through \in Nat
         /\ \A k \in Node \ {n} : node'[k] = node[k] /\ disk'[k] = disk[k]
<1> DEFINE d == disk[n]
           anchor == node[donor].ledger.anchor
<1>1. /\ anchor \in AnchorType
      /\ anchor.chosen_trim_slot > node[n].delivered_through
      /\ node'[n].delivered_through = anchor.chosen_trim_slot
      /\ anchor.trim_id > node[n].ledger.anchor.trim_id
      /\ disk'[n] = ledger_replay_fold(d, WriteTrim(anchor))
      /\ \A k \in Node \ {n} : node'[k] = node[k] /\ disk'[k] = disk[k]
  BY BeginRecoveryFacts
<1>2. /\ DiskOK(node[n], d) /\ node[n].ledger.promised \in BallotSet
      /\ LedgerTyped(d, node[n].delivered_through + Window)
  BY NodeFacts DEF WindowInv, HostTyped
<1>3. /\ WrittenSlots(WriteTrim(anchor)) = {} /\ WriteTrim(anchor).trim = anchor
      /\ WriteTrim(anchor).promise = BALLOT_ZERO
  BY <1>1, TrimBatch
<1>4. d.anchor = node[n].ledger.anchor /\ d.promised = node[n].ledger.promised
  BY <1>2 DEF DiskOK
<1>5. MaxOf(d.promised, BALLOT_ZERO) = d.promised
  BY <1>2, <1>4, BallotOrder
<1>6. d.cell \in [Cells -> CellType(BallotSet)]
  BY <1>2 DEF LedgerTyped, LedgerType
<1>7. disk'[n] = [promised |-> d.promised, anchor |-> anchor, cell |-> [c \in Cells |-> d.cell[c]]]
  BY <1>1, <1>3, <1>4, <1>5 DEF ledger_replay_fold, ApplyWrites
<1>8. anchor.chosen_trim_slot \in Nat
  BY <1>1, Constants DEF AnchorType
<1>9. QED
  BY <1>1, <1>4, <1>6, <1>7, <1>8

\* node_begin_recovery: an image takes the place of every cell up to its anchor.
LEMMA RecoveredWindow ==
  ASSUME TypeInv, WindowInv, NEW n \in Node, NEW donor \in Node, BeginRecovery(n, donor)
  PROVE  WindowInv'
<1> DEFINE nd == node[n]
           d == disk[n]
           anchor == node[donor].ledger.anchor
           base == anchor.chosen_trim_slot
<1>1. PICK new, after : new = node'[n] /\ after = disk'[n]
  OBVIOUS
<1>2. PICK r : r = Resumed(n, [nd.ledger EXCEPT !.anchor = anchor], base).ledger
  OBVIOUS
<1>3. /\ anchor \in AnchorType /\ base > nd.delivered_through
      /\ new.ledger = r /\ new.memory_floor = base /\ new.delivered_through = base
      /\ \A c \in Cells : r.cell[c] =
           IF [nd.ledger EXCEPT !.anchor = anchor].cell[c].slot <= base
              /\ [nd.ledger EXCEPT !.anchor = anchor].cell[c].state # "Chosen"
             THEN ledger_open(0) ELSE [nd.ledger EXCEPT !.anchor = anchor].cell[c]
      /\ r.anchor = anchor /\ r.promised = nd.ledger.promised
      /\ anchor.trim_id > nd.ledger.anchor.trim_id
      /\ after = ledger_replay_fold(d, WriteTrim(anchor))
      /\ \A k \in Node \ {n} : node'[k] = node[k] /\ disk'[k] = disk[k]
  <2> DEFINE applied == [nd.ledger EXCEPT !.anchor = anchor]
             kept == Resumed(n, applied, base)
  <2>1. r = kept.ledger
    BY <1>2
  <2>2. /\ anchor \in AnchorType /\ base > nd.delivered_through
        /\ node'[n].ledger = kept.ledger
        /\ node'[n].memory_floor = base /\ node'[n].delivered_through = base
        /\ \A c \in Cells : kept.ledger.cell[c] =
             IF applied.cell[c].slot <= base /\ applied.cell[c].state # "Chosen"
               THEN ledger_open(0) ELSE applied.cell[c]
        /\ kept.ledger.anchor = anchor /\ kept.ledger.promised = nd.ledger.promised
        /\ anchor.trim_id > nd.ledger.anchor.trim_id
        /\ disk'[n] = ledger_replay_fold(d, WriteTrim(anchor))
        /\ \A k \in Node \ {n} : node'[k] = node[k] /\ disk'[k] = disk[k]
    BY BeginRecoveryFacts
  <2> HIDE DEF kept
  <2>3. QED
    BY <1>1, <2>1, <2>2
<1>4. /\ NodeTyped(nd) /\ nd.delivered_through \in Nat /\ DiskOK(nd, d)
      /\ LedgerTyped(d, nd.delivered_through + Window) /\ nd.ledger.promised \in BallotSet
      /\ LedgerTyped(nd.ledger, nd.memory_floor + Window)
  BY NodeFacts DEF WindowInv, HostTyped
<1>5. base \in Nat
  BY <1>3, Constants DEF AnchorType
<1>6. \A c \in Cells : r.cell[c] =
        IF nd.ledger.cell[c].slot <= base /\ nd.ledger.cell[c].state # "Chosen"
          THEN ledger_open(0) ELSE nd.ledger.cell[c]
  <2>1. [nd.ledger EXCEPT !.anchor = anchor].cell = nd.ledger.cell
    BY <1>4 DEF LedgerTyped, LedgerType
  <2>2. QED
    BY <1>3, <2>1
<1>7. \A c \in Cells : nd.ledger.cell[c].slot \in Nat
  BY <1>4, Constants DEF LedgerTyped, LedgerType, CellType
<1>8. ledger_open(0).slot = 0
  BY DEF ledger_open
<1>9. /\ after.cell = d.cell /\ after.anchor = anchor /\ after.promised = nd.ledger.promised
  BY <1>1, RecoveredJournal
<1>10. WindowOK(new)
  <2>1. ASSUME NEW c \in Cells, r.cell[c].slot \in 1 .. base
        PROVE  r.cell[c].state = "Chosen"
    <3>1. r.cell[c] = nd.ledger.cell[c]
          /\ ~(nd.ledger.cell[c].slot <= base /\ nd.ledger.cell[c].state # "Chosen")
      BY <1>5, <1>6, <1>8, <2>1
    <3>2. nd.ledger.cell[c].slot <= base
      BY <1>5, <1>7, <2>1, <3>1
    <3>3. QED
      BY <3>1, <3>2
  <2>2. (base + 1) .. base = {}
    BY <1>5
  <2>3. QED
    BY <1>3, <2>1, <2>2 DEF WindowOK
<1>11. DiskOK(new, after)
  <2>1. ASSUME NEW s \in Slot, s > base, s \in {Cell(after, s).slot, Cell(r, s).slot}
        PROVE  Cell(after, s) = Cell(r, s)
    <3>1. s \in Nat /\ cell_of(s) \in Cells /\ s # 0 /\ ~(s <= base) /\ s > nd.delivered_through
      BY <1>3, <1>4, <1>5, <2>1, Constants, CellOfSlot
    <3>2. Cell(r, s) = IF Cell(nd.ledger, s).slot <= base /\ Cell(nd.ledger, s).state # "Chosen"
                         THEN ledger_open(0) ELSE Cell(nd.ledger, s)
      BY <1>6, <3>1 DEF Cell
    <3>3. s \in {Cell(d, s).slot, Cell(nd.ledger, s).slot} => Cell(d, s) = Cell(nd.ledger, s)
      BY <1>4, <3>1 DEF DiskOK
    <3>4. Cell(after, s) = Cell(d, s)
      BY <1>9 DEF Cell
    <3>5. QED
      BY <1>8, <2>1, <3>1, <3>2, <3>3, <3>4
  <2>2. \A c \in Cells : after.cell[c].slot \in 1 .. base
          => after.cell[c].slot <= after.anchor.chosen_trim_slot
    BY <1>5, <1>9
  <2>3. QED
    BY <1>3, <1>9, <2>1, <2>2 DEF DiskOK
<1>12. QED
  BY <1>1, <1>3, <1>10, <1>11, OneWindow

LEMMA CrashedWindow ==
  ASSUME TypeInv, WindowInv, ~LaggingHost, NEW n \in Node, Crash(n)
  PROVE  WindowInv'
<1>1. /\ HostTyped(n) /\ node[n].delivered_through \in 0 .. MaxSlot
      /\ node[n].delivered_through \in Nat /\ DiskOK(node[n], disk[n])
  BY NodeFacts DEF WindowInv
<1>2. PICK log \in Seq(Values) : log = history[n] /\ Len(log) = node[n].delivered_through
  BY <1>1 DEF HostTyped
<1>3. disk' = disk /\ Restarted(n, disk'[n], log) /\ Len(log) <= MaxSlot
  BY <1>1, <1>2, Constants DEF Crash
<1>4. LedgerTyped(disk'[n], Len(log) + Window) /\ disk'[n].anchor.chosen_trim_slot <= Len(log)
  BY <1>1, <1>2, <1>3 DEF HostTyped
<1>5. \A c \in Cells : disk'[n].cell[c].slot \in 1 .. Len(log)
        => \/ disk'[n].cell[c].state = "Chosen"
           \/ disk'[n].cell[c].slot <= disk'[n].anchor.chosen_trim_slot
  BY <1>1, <1>2, <1>3 DEF DiskOK
<1>6. QED
  BY <1>3, <1>4, <1>5, RestartedWindow

\* node_install_chosen_trim writes the anchor it adopts.
LEMMA TrimKeeps ==
  ASSUME TypeInv, NEW n \in Node, NEW a \in AnchorType, InstallChosenTrim(n, a)
  PROVE  \E new : /\ Finish(n, new, WriteTrim(a), {}, {})
                  /\ Keeps(node[n], new, WriteTrim(a))
                  /\ new.memory_floor = MaxOf(node[n].memory_floor, a.chosen_trim_slot)
<1>1. PICK new : /\ Finish(n, new, WriteTrim(a), {}, {})
                 /\ Extends(node[n], new, WriteTrim(a))
                 /\ new.ledger.cell = node[n].ledger.cell
                 /\ new.ledger.promised = node[n].ledger.promised
                 /\ new.ledger.anchor = a
                 /\ new.memory_floor = MaxOf(node[n].memory_floor, a.chosen_trim_slot)
                 /\ new.delivered_through = node[n].delivered_through
  BY InstallTrimFacts
<1>2. /\ a.trim_id > node[n].ledger.anchor.trim_id
      /\ a.chosen_trim_slot >= node[n].ledger.anchor.chosen_trim_slot
  BY DEF InstallChosenTrim
<1>3. /\ WrittenSlots(WriteTrim(a)) = {} /\ WriteTrim(a).trim = a
      /\ WriteTrim(a).promise = BALLOT_ZERO
  BY TrimBatch
<1>4. MaxOf(node[n].ledger.promised, BALLOT_ZERO) = node[n].ledger.promised
  BY NodeFacts, BallotOrder
<1>5. QED
  BY <1>1, <1>2, <1>3, <1>4 DEF Keeps

LEMMA StepsKeepTheWindow ==
  ASSUME TypeInv, WindowInv, ~LaggingHost, "partial" \notin Calls, NEW n \in Node, OneStep(n)
  PROVE  WindowInv'
<1>1. /\ NodeTyped(node[n]) /\ WindowOK(node[n]) /\ DiskOK(node[n], disk[n])
      /\ DOMAIN node = Node /\ ConsumedBy(n) = {node[n].delivered_through}
  BY NodeFacts DEF TypeInv, WindowInv, ConsumedBy
<1>2. CASE IdleStep(n)
  <2>1. PICK new, w, out, used : Finish(n, new, w, out, used) /\ Idles(node[n], new, w)
    BY <1>2 DEF IdleStep
  <2>2. QED
    BY <1>1, <2>1, IdlesKeeps, KeepFinishWindow
<1>3. CASE WorkStep(n)
  <2>1. PICK new, w, out, used : Finish(n, new, w, out, used) /\ Works(node[n], new, w)
    BY <1>3 DEF WorkStep
  <2>2. QED
    BY <2>1, WorkFinishWindow
<1>4. ASSUME NEW s \in Slot, AdvanceMemoryFloor(n, s) PROVE WindowInv'
  <2>1. PICK new : new = [node[n] EXCEPT !.memory_floor = s]
    OBVIOUS
  <2>2. /\ new.ledger = node[n].ledger /\ new.delivered_through = node[n].delivered_through
        /\ new.memory_floor = s
    BY <1>1, <2>1 DEF NodeTyped
  <2>3. node' = [node EXCEPT ![n] = new] /\ disk' = disk /\ s = node[n].delivered_through
    BY <1>1, <1>4, <2>1 DEF AdvanceMemoryFloor
  <2>4. WindowOK(new)
    BY <1>1, <2>2, <2>3, FloorAtFrontier
  <2>5. DiskOK(new, disk[n])
    BY <1>1, <2>2 DEF DiskOK
  <2>6. /\ node'[n] = new /\ disk'[n] = disk[n]
        /\ \A k \in Node \ {n} : node'[k] = node[k] /\ disk'[k] = disk[k]
    BY <1>1, <2>3
  <2>7. QED
    BY <2>4, <2>5, <2>6, OneWindow
<1>5. ASSUME NEW a \in AnchorType, InstallChosenTrim(n, a) PROVE WindowInv'
  <2>1. PICK new : /\ Finish(n, new, WriteTrim(a), {}, {})
                   /\ Keeps(node[n], new, WriteTrim(a))
                   /\ new.memory_floor = MaxOf(node[n].memory_floor, a.chosen_trim_slot)
    BY <1>5, TrimKeeps
  <2>2. \/ a.chosen_trim_slot <= node[n].memory_floor
        \/ a.chosen_trim_slot = node[n].delivered_through
    BY <1>1, <1>5 DEF InstallChosenTrim
  <2>3. new.memory_floor \in {node[n].memory_floor, node[n].delivered_through}
    <3>1. /\ node[n].memory_floor \in Nat /\ node[n].delivered_through \in Nat
          /\ node[n].memory_floor <= node[n].delivered_through /\ a.chosen_trim_slot \in Nat
      BY NodeFacts, Constants DEF AnchorType
    <3>2. QED
      BY <2>1, <2>2, <3>1 DEF MaxOf
  <2>4. WindowOK(new)
    BY <1>1, <2>1, <2>3, FloorAtFrontier DEF Keeps
  <2>5. QED
    BY <2>1, <2>4, KeepFinishWindow
<1>6. ASSUME NEW donor \in Node, BeginRecovery(n, donor) PROVE WindowInv'
  BY <1>6, RecoveredWindow
<1>7. ASSUME NEW enabled \in BOOLEAN, SetCampaignEnabled(n, enabled) PROVE WindowInv'
  <2>1. PICK new : /\ node' = [node EXCEPT ![n] = new] /\ new.ledger = node[n].ledger
                   /\ new.delivered_through = node[n].delivered_through
                   /\ new.memory_floor = node[n].memory_floor
    BY <1>7, SetCampaignIsTyped
  <2>2. WindowOK(new) /\ DiskOK(new, disk[n])
    BY <1>1, <2>1 DEF WindowOK, DiskOK
  <2>3. /\ node'[n] = new /\ disk'[n] = disk[n]
        /\ \A k \in Node \ {n} : node'[k] = node[k] /\ disk'[k] = disk[k]
    BY <1>1, <1>7, <2>1 DEF SetCampaignEnabled
  <2>4. QED
    BY <2>2, <2>3, OneWindow
<1>8. CASE Crash(n)
  BY <1>8, CrashedWindow
<1>9. QED
  BY <1>2, <1>3, <1>4, <1>5, <1>6, <1>7, <1>8 DEF OneStep

LEMMA InitWindow ==
  ASSUME Init
  PROVE  WindowInv
<1>1. ASSUME NEW n \in Node PROVE WindowOK(node[n]) /\ DiskOK(node[n], disk[n])
  <2>1. node[n] = Resumed(n, EmptyLedger, 0) /\ disk[n] = EmptyLedger
    BY DEF Init
  <2>2. TypeInv
    BY InitIsTyped
  <2>3. node[n].delivered_through = 0 /\ 0 \in 0 .. MaxSlot
    BY <2>1, Constants DEF Resumed
  <2>4. LedgerTyped(EmptyLedger, 0 + Window) /\ EmptyLedger.anchor.chosen_trim_slot <= 0
    BY <2>1, <2>2, <2>3, NodeFacts DEF HostTyped
  <2>5. \A c \in Cells : EmptyLedger.cell[c].slot \notin 1 .. 0
    OBVIOUS
  <2>6. QED
    BY <2>1, <2>3, <2>4, <2>5, ResumedWindow
<1>2. QED
  BY <1>1 DEF WindowInv

LEMMA WindowIsLive ==
  ASSUME TypeInv, WindowInv
  PROVE  LiveWindow
<1>1. SUFFICES ASSUME NEW n \in Node,
                      NEW s \in (node[n].memory_floor + 1) ..
                                  MinOf(node[n].memory_floor + Window, MaxSlot)
               PROVE  claim_live(node[n], s)
                      /\ (ledger_claim(disk[n], s) \/ Cell(disk[n], s).slot > s)
  BY DEF LiveWindow
<1> DEFINE nd == node[n]
           d == disk[n]
           f == nd.memory_floor
           t == nd.delivered_through
           held == Cell(d, s).slot
<1>2. /\ NodeTyped(nd) /\ f \in Nat /\ t \in Nat /\ f <= t /\ WindowOK(nd) /\ DiskOK(nd, d)
      /\ LedgerTyped(d, t + Window)
  BY NodeFacts DEF WindowInv, HostTyped
<1>3. s \in (f + 1) .. (f + Window) /\ s \in Slot /\ s \in Nat
  BY <1>2, Constants DEF MinOf, Slot
<1>4. claim_live(nd, s)
  BY <1>2, <1>3, WindowClaims
<1>5. cell_of(s) \in Cells /\ held \in Nat
  BY <1>2, <1>3, CellOfSlot, Constants DEF LedgerTyped, LedgerType, CellType, Cell
<1>6. CASE held > s
  BY <1>4, <1>6
<1>7. CASE held \in {0, s}
  BY <1>4, <1>7 DEF ledger_claim
<1>8. CASE held < s /\ held # 0
  <2>1. held <= t
    <3> SUFFICES ASSUME held > t PROVE FALSE
      BY <1>2, <1>5
    <3>1. s \in (t + 1) .. (t + Window)
      BY <1>2, <1>3, <1>5, <1>8, Constants
    <3>2. held = s
      BY <1>2, <3>1, HeldAbove
    <3>3. QED
      BY <1>3, <1>8, <3>2
  <2>2. held \in 1 .. t
    BY <1>2, <1>5, <1>8, <2>1
  <2>3. Cell(d, s).state = "Chosen" \/ held <= d.anchor.chosen_trim_slot
    BY <1>2, <1>5, <2>2 DEF DiskOK, Cell
  <2>4. QED
    BY <1>4, <1>8, <2>3 DEF ledger_claim
<1>9. QED
  BY <1>3, <1>5, <1>6, <1>7, <1>8

\* Memory and journal stay in step: above its frontier a node holds exactly what a replay
\* of its journal would give it, up to the frontier everything in the journal is decided
\* or trimmed, and promise and anchor are the same.  The host consumes whatever it is
\* handed (no "partial" release), as every host of the repository does.
THEOREM MemoryFollowsTheJournal ==
  ASSUME ~LaggingHost, "partial" \notin Calls
  PROVE  Spec => []WindowInv
<1>1. Init => WindowInv
  BY InitWindow
<1>2. TypeInv /\ WindowInv /\ [Next]_vars => WindowInv'
  <2>1. ASSUME TypeInv, WindowInv, Next PROVE WindowInv'
    BY <2>1, StepsAreOfAKind, StepsKeepTheWindow
  <2>2. ASSUME WindowInv, UNCHANGED vars PROVE WindowInv'
    BY <2>2 DEF vars, WindowInv
  <2>3. QED
    BY <2>1, <2>2
<1>3. QED
  BY <1>1, <1>2, TypesAreInvariant, PTL DEF Spec

\* Cells and live slots stay in bijection: whatever the network, the crashes, trims and
\* image installs, claim_live gives every slot of the window above the floor its cell,
\* and ledger_claim finds a place for every record of such a slot on replay.
THEOREM TheWindowIsAlwaysLive ==
  ASSUME ~LaggingHost, "partial" \notin Calls
  PROVE  Spec => []LiveWindow
<1>1. TypeInv /\ WindowInv => LiveWindow
  BY WindowIsLive
<1>2. QED
  BY <1>1, TypesAreInvariant, MemoryFollowsTheJournal, PTL

-------------------------------------------------------------------------------
(* What a message has revealed stays in the journal.                       *)

\* Of the slots above through, the journal keeps a decision, and keeps a vote or replaces
\* it by a later one or by the decision.
Grows(d, after, through) ==
  /\ after.promised >= d.promised
  /\ \A s \in Slot : s > through /\ Cell(d, s).slot = s =>
       /\ Cell(after, s).slot = s
       /\ \/ Cell(after, s).state = "Chosen"
          \/ /\ Cell(d, s).state # "Chosen"
             /\ Cell(after, s).vote_ballot >= Cell(d, s).vote_ballot

\* A journal whose cells are left as they are.
LEMMA SameCellsGrow ==
  ASSUME NEW top, NEW d, LedgerTyped(d, top), NEW after, after.cell = d.cell,
         after.promised >= d.promised, NEW through
  PROVE  Grows(d, after, through)
<1>1. ASSUME NEW s \in Slot
      PROVE  Cell(after, s) = Cell(d, s) /\ Cell(d, s).vote_ballot \in Nat
  <2>1. cell_of(s) \in Cells
    BY Constants, CellOfSlot
  <2>2. Cell(d, s).vote_ballot \in BallotSet
    BY <2>1 DEF LedgerTyped, LedgerType, CellType, Cell
  <2>3. QED
    BY <2>2, BallotsAreBounded DEF Cell
<1>2. QED
  BY <1>1 DEF Grows

\* A vote for the slot its cell already holds undecided.
LEMMA VoteInItsCell ==
  ASSUME NEW top, NEW w, WritesTyped(w, top), NEW s \in WrittenSlots(w),
         NEW cell \in CellType(BallotSet), cell.slot = s, cell.state # "Chosen"
  PROVE  LET after == ApplySlot(cell, s, w) IN
         /\ after.slot = s
         /\ \/ after.state = "Chosen"
            \/ s \in DOMAIN w.votes /\ after.vote_ballot = w.votes[s].ballot
<1>1. /\ ApplySlot(cell, s, w).slot = s
      /\ s \in DOMAIN w.chosen => ApplySlot(cell, s, w).state = "Chosen"
      /\ s \notin DOMAIN w.chosen =>
           /\ s \in DOMAIN w.votes
           /\ ApplySlot(cell, s, w) = ReplayVote(Claim(cell, s), w.votes[s])
  BY ApplySlotFacts
<1>2. ReplayVote(Claim(cell, s), w.votes[s]).vote_ballot = w.votes[s].ballot
  BY DEF ReplayVote, RecordVote, Claim, CellType
<1>3. QED
  BY <1>1, <1>2

\* A batch holds no vote below one its node has cast: a follower compares the ballot with
\* the slot's promise, and a leader's ballot is above all its ledger holds.
LEMMA WorksRise ==
  ASSUME NEW nd, NodeTyped(nd), Within(nd), NEW new, NEW w, Works(nd, new, w)
  PROVE  Rises(nd.ledger, w)
<1>1. CASE Rises(nd.ledger, w)
  BY <1>1
<1>2. CASE nd.role # "Follower" /\ \A s \in DOMAIN w.votes : w.votes[s].ballot = nd.ballot
  <2>1. LedgerTyped(nd.ledger, nd.memory_floor + Window) /\ nd.ballot \in BallotSet
    BY DEF NodeTyped
  <2>2. PICK h \in BallotSet : h = ledger_highest_ballot(nd.ledger) /\ h <= nd.ballot
    BY <1>2, <2>1, HighestBallot DEF Within
  <2>3. ASSUME NEW s \in DOMAIN w.votes
        PROVE  /\ Cell(nd.ledger, s).vote_ballot <= w.votes[s].ballot
               /\ nd.ledger.promised <= w.votes[s].ballot
    <3>1. s \in Slot /\ cell_of(s) \in Cells
      BY Constants, CellOfSlot DEF Works, Extends, WritesTyped
    <3>2. Cell(nd.ledger, s).vote_ballot <= h /\ Cell(nd.ledger, s).vote_ballot \in BallotSet
      BY <2>1, <2>2, <3>1, HighestBallot DEF Cell, LedgerTyped, LedgerType, CellType
    <3>3. nd.ledger.promised <= h /\ nd.ledger.promised \in BallotSet
      BY <2>1, <2>2, HighestBallot DEF LedgerTyped, LedgerType
    <3>4. QED
      BY <1>2, <2>1, <2>2, <3>2, <3>3, BallotOrder
  <2>4. QED
    BY <2>3 DEF Rises
<1>3. QED
  BY <1>1, <1>2 DEF Works, Bids

\* A batch, or what a crash leaves of it, on a journal in step with the memory.
LEMMA WrittenJournalGrows ==
  ASSUME NEW nd, NodeTyped(nd), WindowOK(nd), Within(nd),
         NEW t \in Nat, t = nd.delivered_through,
         NEW d, LedgerTyped(d, t + Window), DiskOK(nd, d),
         NEW new, NEW w, Works(nd, new, w), NEW kept \in Prefixes(w),
         NEW through \in Nat, through >= t
  PROVE  Grows(d, ledger_replay_fold(d, kept), through)
<1>1. PICK after : after = ledger_replay_fold(d, kept)
  OBVIOUS
<1>2. /\ Places(d, after, t, kept) /\ WritesTyped(kept, t + Window)
      /\ after.promised = d.promised
  BY <1>1, JournalPlaces DEF Places
<1>3. \A s \in DOMAIN kept.votes : s \in DOMAIN w.votes /\ kept.votes[s] = w.votes[s]
  BY PrefixIsPart DEF Works, Extends
<1>4. d.promised \in Nat
  BY BallotsAreBounded DEF LedgerTyped, LedgerType
<1>5. ASSUME NEW s \in Slot, s > through, Cell(d, s).slot = s
      PROVE  /\ Cell(after, s).slot = s
             /\ \/ Cell(after, s).state = "Chosen"
                \/ /\ Cell(d, s).state # "Chosen"
                   /\ Cell(after, s).vote_ballot >= Cell(d, s).vote_ballot
  <2>1. s \in Nat /\ cell_of(s) \in Cells /\ s > t
    BY <1>5, Constants, CellOfSlot
  <2>2. Cell(d, s) \in CellType(BallotSet) /\ s <= t + Window
    BY <1>5, <2>1 DEF LedgerTyped, LedgerType, Cell
  <2>3. Cell(d, s).vote_ballot \in BallotSet /\ Cell(d, s).vote_ballot \in Nat
    BY <2>2, BallotsAreBounded DEF CellType
  <2>4. CASE Cell(after, s) = Cell(d, s)
    BY <1>5, <2>3, <2>4
  <2>5. CASE \E u \in WrittenSlots(kept) : cell_of(u) = cell_of(s)
    <3>1. PICK u \in WrittenSlots(kept) : cell_of(u) = cell_of(s)
      BY <2>5
    <3>2. u \in (t + 1) .. (t + Window) /\ s \in (t + 1) .. (t + Window)
      BY <1>2, <2>1, <2>2, <3>1, Constants DEF Places
    <3>3. u = s
      BY <3>1, <3>2, LiveSlotsHaveTheirOwnCell
    <3>4. /\ s \in WrittenSlots(kept) /\ ~ ledger_is_chosen(d, s)
          /\ Cell(after, s) = ApplySlot(Cell(d, s), s, kept)
      BY <1>2, <3>1, <3>3 DEF Places
    <3>5. Cell(d, s).state # "Chosen"
      BY <1>5, <3>4 DEF ledger_is_chosen
    <3>6. /\ Cell(after, s).slot = s
          /\ \/ Cell(after, s).state = "Chosen"
             \/ s \in DOMAIN kept.votes /\ Cell(after, s).vote_ballot = kept.votes[s].ballot
      BY <1>2, <1>5, <2>2, <3>4, <3>5, VoteInItsCell
    <3>7. ASSUME s \in DOMAIN kept.votes
          PROVE  kept.votes[s].ballot >= Cell(d, s).vote_ballot
      <4>1. Cell(d, s) = Cell(nd.ledger, s)
        BY <1>5, <2>1 DEF DiskOK
      <4>2. Rises(nd.ledger, w) /\ s \in DOMAIN w.votes /\ kept.votes[s] = w.votes[s]
        BY <1>3, <3>7, WorksRise
      <4>3. Cell(d, s).vote_ballot <= kept.votes[s].ballot
        BY <1>5, <4>1, <4>2 DEF Rises
      <4>4. kept.votes[s].ballot \in BallotSet
        BY <1>2, <3>7 DEF WritesTyped
      <4>5. QED
        BY <2>3, <4>3, <4>4, BallotsAreBounded
    <3>8. QED
      BY <3>5, <3>6, <3>7
  <2>6. QED
    BY <1>2, <2>1, <2>4, <2>5 DEF Places, Cell
<1>6. QED
  BY <1>1, <1>2, <1>4, <1>5 DEF Grows

\* What a discharge, whole or cut short, does to one node's journal and frontier.
LEMMA FinishMoves ==
  ASSUME TypeInv, ~LaggingHost, NEW n \in Node, NEW new, NEW w, Extends(node[n], new, w),
         NEW out, NEW used, Finish(n, new, w, out, used)
  PROVE  /\ \A k \in Node \ {n} : node'[k] = node[k] /\ disk'[k] = disk[k]
         /\ node'[n].delivered_through >= node[n].delivered_through
         /\ \E kept \in Prefixes(w) : disk'[n] = ledger_replay_fold(disk[n], kept)
<1>1. DOMAIN node = Node /\ DOMAIN disk = Node
  BY DEF TypeInv
<1>2. CASE Discharged(n, new, w, out, used)
  <2>1. node' = [node EXCEPT ![n] = new]
        /\ disk' = [disk EXCEPT ![n] = ledger_replay_fold(@, w)]
    BY <1>2 DEF Discharged
  <2>2. w \in Prefixes(w)
    BY DEF Prefixes
  <2>3. QED
    BY <1>1, <2>1, <2>2 DEF Extends
<1>3. CASE CutShort(n, new, w, out, used)
  <2>1. PICK kept \in Prefixes(w), log \in Seq(Values) :
           /\ Len(log) >= node[n].delivered_through /\ Len(log) <= MaxSlot
           /\ disk'[n] = ledger_replay_fold(disk[n], kept)
           /\ \A k \in Node \ {n} : disk'[k] = disk[k]
           /\ Restarted(n, disk'[n], log)
           /\ LedgerTyped(disk'[n], Len(log) + Window)
           /\ disk'[n].anchor.chosen_trim_slot <= Len(log)
    BY <1>3, CutShortFacts
  <2>2. /\ node' = [node EXCEPT ![n] = Resumed(n, disk'[n], Len(log))]
        /\ Resumed(n, disk'[n], Len(log)).delivered_through = Len(log)
    BY <2>1, RestartFacts
  <2>3. QED
    BY <1>1, <2>1, <2>2
<1>4. QED
  BY <1>2, <1>3 DEF Finish

\* One node's journal has grown; the others are not touched.
Moves(n) ==
  /\ \A k \in Node \ {n} : node'[k] = node[k] /\ disk'[k] = disk[k]
  /\ node'[n].delivered_through >= node[n].delivered_through
  /\ Grows(disk[n], disk'[n], node'[n].delivered_through)

LEMMA KeptMoves ==
  ASSUME TypeInv, WindowInv, ~LaggingHost, NEW n \in Node, NEW new, NEW w,
         Keeps(node[n], new, w), NEW out, NEW used, Finish(n, new, w, out, used)
  PROVE  Moves(n)
<1>1. PICK t \in Nat : t = node[n].delivered_through
  BY NodeFacts
<1>2. /\ NodeTyped(node[n]) /\ DiskOK(node[n], disk[n]) /\ Extends(node[n], new, w)
      /\ LedgerTyped(disk[n], t + Window) /\ WrittenSlots(w) = {}
  BY <1>1, NodeFacts DEF WindowInv, HostTyped, Keeps
<1>3. PICK kept \in Prefixes(w) : disk'[n] = ledger_replay_fold(disk[n], kept)
  BY <1>2, FinishMoves
<1>4. disk'[n].cell = disk[n].cell
  BY <1>1, <1>2, <1>3, KeptJournal
<1>5. disk'[n].promised >= disk[n].promised
  <2>1. kept \in {w, NoWrites}
    BY <1>2 DEF Prefixes
  <2>2. /\ WritesTyped(w, t + Window) /\ WritesTyped(NoWrites, t + Window) /\ t + Window \in Nat
    BY <1>1, <1>2, EmptyBatch, Constants DEF Extends
  <2>3. disk'[n].promised = MaxOf(disk[n].promised, kept.promise)
    BY <1>2, <1>3, <2>1, <2>2, ReplayTyped
  <2>4. disk[n].promised \in BallotSet /\ kept.promise \in BallotSet
    BY <1>2, <2>1, <2>2 DEF LedgerTyped, LedgerType, WritesTyped
  <2>5. PICK old \in Nat, more \in Nat : old = disk[n].promised /\ more = kept.promise
    BY <2>4, BallotsAreBounded
  <2>6. MaxOf(old, more) >= old
    BY DEF MaxOf
  <2>7. QED
    BY <2>3, <2>5, <2>6
<1>6. Grows(disk[n], disk'[n], node'[n].delivered_through)
  BY <1>2, <1>4, <1>5, SameCellsGrow
<1>7. QED
  BY <1>2, <1>6, FinishMoves DEF Moves

LEMMA WorksMoves ==
  ASSUME TypeInv, TypeInv', WindowInv, ~LaggingHost, NEW n \in Node, Within(node[n]), NEW new, NEW w,
         Works(node[n], new, w), NEW out, NEW used, Finish(n, new, w, out, used)
  PROVE  Moves(n)
<1>1. PICK t \in Nat : t = node[n].delivered_through
  BY NodeFacts
<1>2. /\ NodeTyped(node[n]) /\ WindowOK(node[n]) /\ DiskOK(node[n], disk[n])
      /\ Extends(node[n], new, w) /\ LedgerTyped(disk[n], t + Window)
  BY <1>1, NodeFacts DEF WindowInv, HostTyped, Works
<1>3. PICK kept \in Prefixes(w) : disk'[n] = ledger_replay_fold(disk[n], kept)
  BY <1>2, FinishMoves
<1>4. PICK through : through = node'[n].delivered_through
  OBVIOUS
<1>5. through \in Nat /\ through >= t
  <2>1. through \in 0 .. MaxSlot
    BY <1>4 DEF TypeInv, NodeTyped
  <2>2. through >= node[n].delivered_through
    BY <1>2, <1>4, FinishMoves
  <2>3. QED
    BY <1>1, <2>1, <2>2, Constants
<1>6. Grows(disk[n], disk'[n], through)
  BY <1>1, <1>2, <1>3, <1>5, WrittenJournalGrows
<1>7. QED
  BY <1>2, <1>4, <1>6, FinishMoves DEF Moves

LEMMA StepsMove ==
  ASSUME TypeInv, TypeInv', WindowInv, ~LaggingHost, NEW n \in Node, Within(node[n]),
         OneStep(n)
  PROVE  Moves(n)
<1>1. /\ NodeTyped(node[n]) /\ WindowOK(node[n]) /\ DiskOK(node[n], disk[n])
      /\ DOMAIN node = Node /\ DOMAIN disk = Node
      /\ node[n].delivered_through \in Nat /\ disk[n].promised \in Nat
      /\ LedgerTyped(disk[n], node[n].delivered_through + Window)
  <2>1. disk[n].promised \in Nat
    BY NodeFacts, BallotsAreBounded DEF HostTyped, LedgerTyped, LedgerType
  <2>2. QED
    BY <2>1, NodeFacts DEF TypeInv, WindowInv, HostTyped
<1>2. ASSUME disk'[n].cell = disk[n].cell, disk'[n].promised = disk[n].promised,
             node'[n].delivered_through >= node[n].delivered_through,
             \A k \in Node \ {n} : node'[k] = node[k] /\ disk'[k] = disk[k]
      PROVE  Moves(n)
  <2>1. disk'[n].promised >= disk[n].promised
    BY <1>1, <1>2
  <2>2. QED
    BY <1>1, <1>2, <2>1, SameCellsGrow DEF Moves
<1>3. CASE IdleStep(n)
  <2>1. PICK new, w, out, used : Finish(n, new, w, out, used) /\ Idles(node[n], new, w)
    BY <1>3 DEF IdleStep
  <2>2. QED
    BY <1>1, <2>1, IdlesKeeps, KeptMoves
<1>4. CASE WorkStep(n)
  <2>1. PICK new, w, out, used : Finish(n, new, w, out, used) /\ Works(node[n], new, w)
    BY <1>4 DEF WorkStep
  <2>2. QED
    BY <2>1, WorksMoves
<1>5. ASSUME NEW s \in Slot, AdvanceMemoryFloor(n, s) PROVE Moves(n)
  <2>1. PICK new : new = [node[n] EXCEPT !.memory_floor = s]
    OBVIOUS
  <2>2. new.delivered_through = node[n].delivered_through
    BY <1>1, <2>1 DEF NodeTyped
  <2>3. node' = [node EXCEPT ![n] = new] /\ disk' = disk
    BY <1>5, <2>1 DEF AdvanceMemoryFloor
  <2>4. QED
    BY <1>1, <1>2, <2>2, <2>3
<1>6. ASSUME NEW a \in AnchorType, InstallChosenTrim(n, a) PROVE Moves(n)
  <2>1. PICK new : /\ Finish(n, new, WriteTrim(a), {}, {}) /\ Keeps(node[n], new, WriteTrim(a))
    BY <1>6, TrimKeeps
  <2>2. QED
    BY <2>1, KeptMoves
<1>7. ASSUME NEW donor \in Node, BeginRecovery(n, donor) PROVE Moves(n)
  <2>1. /\ disk'[n].cell = disk[n].cell /\ disk'[n].promised = disk[n].promised
        /\ node'[n].delivered_through > node[n].delivered_through
        /\ node'[n].delivered_through \in Nat
        /\ \A k \in Node \ {n} : node'[k] = node[k] /\ disk'[k] = disk[k]
    BY <1>7, RecoveredJournal
  <2>2. QED
    BY <1>1, <1>2, <2>1
<1>8. ASSUME NEW enabled \in BOOLEAN, SetCampaignEnabled(n, enabled) PROVE Moves(n)
  <2>1. PICK new : /\ node' = [node EXCEPT ![n] = new]
                   /\ new.delivered_through = node[n].delivered_through
    BY <1>8, SetCampaignIsTyped
  <2>2. disk' = disk
    BY <1>8 DEF SetCampaignEnabled
  <2>3. QED
    BY <1>1, <1>2, <2>1, <2>2
<1>9. CASE Crash(n)
  <2>1. PICK log \in Seq(Values) : log = history[n] /\ Len(log) = node[n].delivered_through
    BY NodeFacts DEF HostTyped
  <2>2. disk' = disk /\ Restarted(n, disk'[n], log)
    BY <1>9, <2>1 DEF Crash
  <2>3. /\ Len(log) <= MaxSlot /\ LedgerTyped(disk'[n], Len(log) + Window)
        /\ disk'[n].anchor.chosen_trim_slot <= Len(log)
    BY <2>1, <2>2, NodeFacts, Constants DEF HostTyped
  <2>4. /\ node' = [node EXCEPT ![n] = Resumed(n, disk'[n], Len(log))]
        /\ Resumed(n, disk'[n], Len(log)).delivered_through = Len(log)
    BY <2>1, <2>2, <2>3, RestartFacts
  <2>5. QED
    BY <1>1, <1>2, <2>1, <2>2, <2>4
<1>10. QED
  BY <1>3, <1>4, <1>5, <1>6, <1>7, <1>8, <1>9 DEF OneStep

\* What a message tells of its sender's journal is there, or its slot is behind the
\* frontier of the sender's host.
Kept(m) ==
  /\ m.type = "Promise_Range" => disk[m.from].promised >= m.ballot
  /\ m.type = "Accepted" =>
       \/ m.slot <= node[m.from].delivered_through
       \/ /\ Cell(disk[m.from], m.slot).slot = m.slot
          /\ \/ Cell(disk[m.from], m.slot).state = "Chosen"
             \/ Cell(disk[m.from], m.slot).vote_ballot >= m.ballot

LEMMA KeptStays ==
  ASSUME TypeInv, TypeInv', NEW n \in Node, Moves(n), NEW m, MessageTyped(m), Kept(m)
  PROVE  Kept(m)'
<1>1. PICK k \in Node : k = m.from
  BY DEF MessageTyped
<1>2. CASE k # n
  BY <1>1, <1>2 DEF Moves, Kept
<1>3. CASE k = n
  <2> DEFINE d == disk[n]
             after == disk'[n]
             t == node[n].delivered_through
             through == node'[n].delivered_through
  <2>1. Grows(d, after, through) /\ through >= t
    BY DEF Moves
  <2>2. /\ t \in Nat /\ through \in Nat
        /\ LedgerTyped(d, t + Window) /\ LedgerTyped(after, through + Window)
    BY Constants DEF TypeInv, NodeTyped, HostTyped
  <2>3. d.promised \in Nat /\ after.promised \in Nat
    BY <2>2, BallotsAreBounded DEF LedgerTyped, LedgerType
  <2>4. CASE m.type = "Promise_Range"
    <3>1. m.ballot \in Nat
      BY <2>4, BallotsAreBounded DEF MessageTyped
    <3>2. d.promised >= m.ballot
      BY <1>1, <1>3, <2>4 DEF Kept
    <3>3. after.promised >= m.ballot
      BY <2>1, <2>3, <3>1, <3>2 DEF Grows
    <3>4. QED
      BY <1>1, <1>3, <2>4, <3>3 DEF Kept
  <2>5. CASE m.type = "Accepted"
    <3>1. m.ballot \in Nat /\ m.slot \in Slot /\ m.slot \in Nat
      BY <2>5, BallotsAreBounded, Constants DEF MessageTyped
    <3>2. cell_of(m.slot) \in Cells
      BY <3>1, CellOfSlot
    <3>3. PICK cell, next : cell = Cell(d, m.slot) /\ next = Cell(after, m.slot)
      OBVIOUS
    <3>4. cell.vote_ballot \in Nat /\ next.vote_ballot \in Nat
      BY <2>2, <3>2, <3>3, BallotsAreBounded DEF LedgerTyped, LedgerType, CellType, Cell
    <3>5. \/ m.slot <= t
          \/ cell.slot = m.slot /\ (cell.state = "Chosen" \/ cell.vote_ballot >= m.ballot)
      BY <1>1, <1>3, <2>5, <3>3 DEF Kept
    <3>6. \/ m.slot <= through
          \/ next.slot = m.slot /\ (next.state = "Chosen" \/ next.vote_ballot >= m.ballot)
      <4> SUFFICES ASSUME m.slot > through
                   PROVE  next.slot = m.slot
                          /\ (next.state = "Chosen" \/ next.vote_ballot >= m.ballot)
        BY <2>2, <3>1
      <4>1. cell.slot = m.slot /\ (cell.state = "Chosen" \/ cell.vote_ballot >= m.ballot)
        BY <2>1, <2>2, <3>1, <3>5
      <4>2. /\ next.slot = m.slot
            /\ \/ next.state = "Chosen"
               \/ cell.state # "Chosen" /\ next.vote_ballot >= cell.vote_ballot
        BY <2>1, <3>1, <3>3, <4>1 DEF Grows
      <4>3. QED
        BY <3>1, <3>4, <4>1, <4>2
    <3>7. QED
      BY <1>1, <1>3, <2>5, <3>3, <3>6 DEF Kept
  <2>6. QED
    BY <2>4, <2>5 DEF Kept
<1>4. QED
  BY <1>2, <1>3

\* What the node holds in memory after its discharge, its journal holds.
LEMMA MemoryIsKept ==
  ASSUME TypeInv', WindowInv', NEW n \in Node, NEW m, MessageTyped(m), m.from = n,
         m.type = "Promise_Range" => node'[n].ledger.promised = m.ballot,
         m.type = "Accepted" =>
           /\ Cell(node'[n].ledger, m.slot).slot = m.slot
           /\ \/ Cell(node'[n].ledger, m.slot).state = "Chosen"
              \/ Cell(node'[n].ledger, m.slot).vote_ballot = m.ballot
  PROVE  Kept(m)'
<1>1. DiskOK(node'[n], disk'[n]) /\ node'[n].delivered_through \in Nat
  BY Constants DEF WindowInv, TypeInv, NodeTyped
<1>2. CASE m.type = "Promise_Range"
  <2>1. m.ballot \in Nat
    BY <1>2, BallotsAreBounded DEF MessageTyped
  <2>2. disk'[n].promised = m.ballot
    BY <1>1, <1>2 DEF DiskOK
  <2>3. QED
    BY <1>2, <2>1, <2>2 DEF Kept
<1>3. CASE m.type = "Accepted"
  <2>1. m.ballot \in Nat /\ m.slot \in Slot /\ m.slot \in Nat
    BY <1>3, BallotsAreBounded, Constants DEF MessageTyped
  <2>2. CASE m.slot <= node'[n].delivered_through
    BY <1>3, <2>2 DEF Kept
  <2>3. CASE m.slot > node'[n].delivered_through
    <3>1. Cell(disk'[n], m.slot) = Cell(node'[n].ledger, m.slot)
      BY <1>1, <1>3, <2>1, <2>3 DEF DiskOK
    <3>2. QED
      BY <1>3, <2>1, <3>1 DEF Kept
  <2>4. QED
    BY <1>1, <2>1, <2>2, <2>3
<1>4. QED
  BY <1>2, <1>3 DEF Kept

\* Messages that tell nothing of their sender's journal.
Silent(out) == \A m \in out : m.type \notin {"Promise_Range", "Accepted"}

\* Of a batch cut short only Accepts have left.
LEMMA FinishSends ==
  ASSUME NEW n, NEW new, NEW w, NEW out, NEW used, Finish(n, new, w, out, used),
         NEW m \in net' \ net
  PROVE  \/ m.type \notin {"Promise_Range", "Accepted"}
         \/ m \in out /\ Discharged(n, new, w, out, used)
<1>1. CASE Discharged(n, new, w, out, used)
  BY <1>1 DEF Discharged
<1>2. CASE CutShort(n, new, w, out, used)
  <2>1. net' = (net \ used) \cup {k \in out : PreDurable(k) /\ k.type \notin Lost}
    BY <1>2 DEF CutShort
  <2>2. m.type = "Accept"
    BY <2>1 DEF PreDurable
  <2>3. QED
    BY <2>2
<1>3. QED
  BY <1>1, <1>2 DEF Finish

LEMMA SilentFinish ==
  ASSUME NEW n, NEW new, NEW w, NEW out, Silent(out), NEW used, Finish(n, new, w, out, used)
  PROVE  Silent(net' \ net)
  BY FinishSends DEF Silent

LEMMA SilentResult ==
  ASSUME NEW n, NEW r, Silent(r.out), NEW used, FinishResult(n, r, used)
  PROVE  Silent(net' \ net)
  BY SilentFinish DEF FinishResult

-------------------------------------------------------------------------------
(* Who tells of its journal: on_prepare and on_accept, and nobody else.    *)

LEMMA SilentEnvelopes ==
  ASSUME NEW n, NEW p, NEW b, NEW c, NEW s, NEW v
  PROVE  /\ Silent({Prepare(n, p, b, s, v)}) /\ Silent({Accept(n, p, b, s, v)})
         /\ Silent({Commit(n, p, s, v)}) /\ Silent({Nack(n, p, b, c)})
         /\ Silent({Learn(n, p, s)}) /\ Silent({Heartbeat(n, p, b, s)})
  BY DEF Silent, Prepare, Accept, Commit, Nack, Learn, Heartbeat

LEMMA RecordCommitSilent ==
  ASSUME NEW nd, NEW slot, NEW v
  PROVE  record_commit(nd, slot, v).out = {}
<1>1. \A k, w : Result(k, w, {}).out = {}
  BY DEF Result
<1>2. \E k, w : record_commit(nd, slot, v) = Result(k, w, {})
  BY DEF record_commit, Nothing
<1>3. QED
  BY <1>1, <1>2

LEMMA SendAcceptsSilent ==
  ASSUME NEW n, NEW nd, NEW S, NEW val
  PROVE  Silent(SendAccepts(n, nd, S, val).out)
<1>1. SendAccepts(n, nd, S, val).out =
        {Accept(n, p, nd.ballot, s, val[s]) : p \in Peers(n), s \in S}
  BY DEF SendAccepts, Result
<1>2. QED
  BY <1>1 DEF Silent, Accept

LEMMA NextChunkSilent ==
  ASSUME NEW n, NEW nd
  PROVE  Silent(BeginNextChunk(n, nd).out)
<1> DEFINE rec == NewRecovery(nd.recovery.last + 1,
                    [p \in Node |-> [NoPeer EXCEPT
                       !.anchor = nd.recovery.peer[p].anchor,
                       !.chosen_through = nd.recovery.peer[p].chosen_through]])
           next == [nd EXCEPT !.recovery = rec]
<1>1. BeginNextChunk(n, nd) =
        Result(next, NoWrites, {Prepare(n, p, nd.ballot, rec.base, rec.last) : p \in Node})
  BY DEF BeginNextChunk
<1> HIDE DEF rec, next
<1>2. BeginNextChunk(n, nd).out = {Prepare(n, p, nd.ballot, rec.base, rec.last) : p \in Node}
  BY <1>1 DEF Result
<1>3. QED
  BY <1>2 DEF Silent, Prepare

LEMMA ResolveSilent ==
  ASSUME NEW n, NEW nd
  PROVE  Silent(ResolveChunk(n, nd).out)
<1> DEFINE rec == nd.recovery
           l == nd.ledger
           reported == {s \in DOMAIN rec.recovered : rec.recovered[s].state # "Empty"}
           known_high == Max({ledger_highest_used(l), Fence(nd)} \cup reported)
           limit == IF rec.more THEN rec.last ELSE MinOf(rec.last, known_high)
           drive_limit == MinOf(limit, slot_add(nd.memory_floor, Window))
           drive == MaxOf(rec.base, Fence(nd) + 1) .. drive_limit
           known == {s \in drive : ledger_is_chosen(l, s)}
           adopted == {s \in drive \ known : Adoptable(rec.recovered[s])}
           open == drive \ (known \cup adopted)
           val == [s \in drive |-> SelectedValue(nd, s)]
           learnt == [NoWrites EXCEPT !.chosen = [s \in adopted |-> val[s]]]
           adopting == [nd EXCEPT !.ledger = RecordWrites(@, learnt)]
           e == IF adopted = {} THEN adopting ELSE Emitted(adopting)
           sent == SendAccepts(n, e, open, val)
           w == [sent.w EXCEPT !.chosen = [s \in DOMAIN @ \cup adopted |-> val[s]]]
           commits == {Commit(n, p, s, Cell(sent.nd.ledger, s).value)
                         : p \in Peers(n), s \in known \cup adopted}
           learn == IF ChosenFence(nd) > sent.nd.delivered_through
                      THEN {Learn(n, ChosenPeer(nd), sent.nd.delivered_through + 1)} ELSE {}
           next == IF drive_limit < limit THEN Nothing(sent.nd)
                   ELSE IF rec.more THEN BeginNextChunk(n, sent.nd)
                   ELSE Nothing(BecomeLeader(sent.nd))
<1>1. ResolveChunk(n, nd) = Result(next.nd, w, sent.out \cup commits \cup learn \cup next.out)
  BY DEF ResolveChunk
<1> HIDE DEF known, adopted, open, val, e, drive_limit, limit, w
<1>2. Silent(sent.out)
  BY SendAcceptsSilent
<1> HIDE DEF sent
<1>3. Silent(commits)
  BY DEF Silent, Commit
<1>4. Silent(learn)
  BY DEF Silent, Learn
<1> HIDE DEF commits, learn
<1>5. Silent(next.out)
  <2>1. Silent(BeginNextChunk(n, sent.nd).out)
    BY NextChunkSilent
  <2>2. \A k : Nothing(k).out = {}
    BY DEF Nothing, Result
  <2>3. next = BeginNextChunk(n, sent.nd) \/ \E k : next = Nothing(k)
    OBVIOUS
  <2> HIDE DEF next
  <2>4. QED
    BY <2>1, <2>2, <2>3 DEF Silent
<1> HIDE DEF next
<1>6. ResolveChunk(n, nd).out = sent.out \cup commits \cup learn \cup next.out
  BY <1>1 DEF Result
<1>7. QED
  BY <1>2, <1>3, <1>4, <1>5, <1>6 DEF Silent

LEMMA MaybeResolveSilent ==
  ASSUME NEW n, NEW nd
  PROVE  Silent(MaybeResolve(n, nd).out)
<1> DEFINE rec == nd.recovery
           complete == {p \in Node : Complete(rec, p)}
           frozen == [nd EXCEPT !.recovery.ready = TRUE,
                                !.recovery.more = \E p \in complete : rec.peer[p].more]
           r == MaybeResolve(n, nd)
<1>1. r = ResolveChunk(n, nd) \/ r = ResolveChunk(n, frozen) \/ r = Nothing(nd)
  <2>1. r = CASE rec.ready -> ResolveChunk(n, nd)
              [] ~ rec.ready /\ Cardinality(complete) >= ReadQuorum -> ResolveChunk(n, frozen)
              [] OTHER -> Nothing(nd)
    BY DEF MaybeResolve
  <2> HIDE DEF r, complete, frozen, rec
  <2>2. QED
    BY <2>1
<1>2. Silent(Nothing(nd).out)
  BY DEF Nothing, Result, Silent
<1> HIDE DEF frozen
<1>3. QED
  BY <1>1, <1>2, ResolveSilent

LEMMA OnPrepareTells ==
  ASSUME TypeInv, TypeInv', WindowInv', NEW n \in Node,
         NEW x \in Received(n, "Prepare"), OnPrepare(n, x), NEW m \in net' \ net
  PROVE  Kept(m)'
<1> DEFINE nd == node[n]
           l == nd.ledger
           cells == Reported(l, x.first)
           inside == {c \in cells : l.cell[c].slot <= x.last}
           range == [type |-> "Promise_Range", from |-> n, to |-> x.from, ballot |-> x.ballot,
                     anchor |-> l.anchor, chosen_through |-> nd.delivered_through,
                     first |-> x.first, last |-> x.last,
                     reported |-> Cardinality(inside), more |-> inside # cells]
           promises == {Promise(n, x.from, x.ballot, l.cell[c]) : c \in inside}
           followed == observe_leader([nd EXCEPT !.ledger.promised = x.ballot], x.ballot)
           w == IF x.ballot = l.promised THEN NoWrites ELSE WritePromise(x.ballot)
<1>1. x.ballot \in BallotSet /\ NodeTyped(nd) /\ DOMAIN node = Node
  BY NodeFacts DEF TypeInv, Received, MessageTyped
<1>2. MessageTyped(m)
  BY DEF TypeInv
<1>3. PICK new : new = followed
  OBVIOUS
<1>4. new.ledger.promised = x.ballot
  BY <1>1, <1>3, PromiseAndObserve
<1>5. PICK out : out = promises \cup {range}
  OBVIOUS
<1>6. \/ Finish(n, nd, NoWrites, {Nack(n, x.from, x.ballot, l.promised)}, Consumed(x))
      \/ Finish(n, new, w, out, Consumed(x))
  BY <1>3, <1>5 DEF OnPrepare
<1>7. \A k \in out : \/ k.type = "Promise"
                     \/ k.type = "Promise_Range" /\ k.from = n /\ k.ballot = x.ballot
  <2>1. range.type = "Promise_Range" /\ range.from = n /\ range.ballot = x.ballot
    OBVIOUS
  <2>2. \A k \in promises : k.type = "Promise"
    BY DEF Promise
  <2>3. QED
    BY <1>5, <2>1, <2>2
<1> HIDE DEF followed, w, promises, range, inside, cells
<1>8. CASE Finish(n, nd, NoWrites, {Nack(n, x.from, x.ballot, l.promised)}, Consumed(x))
  <2>1. m.type \notin {"Promise_Range", "Accepted"}
    BY <1>8, SilentEnvelopes, SilentFinish DEF Silent
  <2>2. QED
    BY <2>1 DEF Kept
<1>9. CASE Finish(n, new, w, out, Consumed(x))
  <2>1. \/ m.type \notin {"Promise_Range", "Accepted"}
        \/ m \in out /\ Discharged(n, new, w, out, Consumed(x))
    BY <1>9, FinishSends
  <2>2. CASE m.type \notin {"Promise_Range", "Accepted"}
    BY <2>2 DEF Kept
  <2>3. CASE m.type = "Promise_Range" /\ m \in out /\ Discharged(n, new, w, out, Consumed(x))
    <3>1. m.from = n /\ m.ballot = x.ballot
      BY <1>7, <2>3
    <3>2. node'[n] = new
      BY <1>1, <2>3 DEF Discharged
    <3>3. QED
      BY <1>2, <1>4, <2>3, <3>1, <3>2, MemoryIsKept
  <2>4. QED
    BY <1>7, <2>1, <2>2, <2>3
<1>10. QED
  BY <1>6, <1>8, <1>9

LEMMA OnAcceptTells ==
  ASSUME TypeInv, TypeInv', WindowInv', NEW n \in Node,
         NEW x \in Received(n, "Accept"), OnAccept(n, x), NEW m \in net' \ net
  PROVE  Kept(m)'
<1> DEFINE nd == node[n]
           cell == LiveCell(nd, x.slot)
           w == WriteVote(x.slot, x.ballot, x.value)
           ack == Accepted(n, x.from, x.ballot, x.slot)
           again == cell.state = "Voted" /\ cell.vote_ballot = x.ballot
           recorded == [nd EXCEPT !.ledger = RecordWrites(@, w)]
           voted == observe_leader(recorded, x.ballot)
           Told(r) == /\ Cell(r.ledger, x.slot).slot = x.slot
                      /\ \/ Cell(r.ledger, x.slot).state = "Chosen"
                         \/ Cell(r.ledger, x.slot).vote_ballot = x.ballot
<1>1. /\ x.ballot \in BallotSet /\ x.slot \in Slot /\ x.value \in Values
      /\ NodeTyped(nd) /\ DOMAIN node = Node
  BY NodeFacts DEF TypeInv, Received, MessageTyped
<1>2. MessageTyped(m)
  BY DEF TypeInv
<1>3. ack.type = "Accepted" /\ ack.from = n /\ ack.ballot = x.ballot /\ ack.slot = x.slot
  BY DEF Accepted
<1>4. ASSUME NEW r, NEW v, NEW used, Finish(n, r, v, {ack}, used), Told(r)
      PROVE  Kept(m)'
  <2> HIDE DEF ack
  <2>1. \/ m.type \notin {"Promise_Range", "Accepted"}
        \/ m \in {ack} /\ Discharged(n, r, v, {ack}, used)
    BY <1>4, FinishSends
  <2>2. CASE m.type \notin {"Promise_Range", "Accepted"}
    BY <2>2 DEF Kept
  <2>3. CASE m = ack /\ Discharged(n, r, v, {ack}, used)
    <3>1. node'[n] = r
      BY <1>1, <2>3 DEF Discharged
    <3>2. QED
      BY <1>2, <1>3, <1>4, <2>3, <3>1, MemoryIsKept
  <2>4. QED
    BY <2>1, <2>2, <2>3
<1>5. ASSUME NEW e, Silent({e}), NEW used, Finish(n, nd, NoWrites, {e}, used)
      PROVE  Kept(m)'
  <2>1. m.type \notin {"Promise_Range", "Accepted"}
    BY <1>5, SilentFinish DEF Silent
  <2>2. QED
    BY <2>1 DEF Kept
<1>6. /\ cell.state = "Chosen" => Told(nd)
      /\ again => Told(nd)
  <2>1. cell = Cell(nd.ledger, x.slot) \/ cell = ledger_open(x.slot)
    BY DEF LiveCell, Claim
  <2>2. cell.slot = x.slot
    BY <1>1, LiveCellFacts
  <2>3. ledger_open(x.slot).state = "Empty"
    BY DEF ledger_open
  <2> HIDE DEF cell
  <2>4. QED
    BY <2>1, <2>2, <2>3
<1>7. CASE /\ claim_live(nd, x.slot) /\ cell.state # "Chosen"
           /\ Finish(n, voted, w, {ack}, Consumed(x))
  <2>1. /\ x.slot \in (nd.memory_floor + 1) .. (nd.memory_floor + Window)
        /\ x.slot <= nd.memory_floor + Window /\ x.slot > nd.memory_floor
        /\ ~ ledger_is_chosen(nd.ledger, x.slot)
        /\ nd.memory_floor + Window \in Nat
    BY <1>1, <1>7, LiveCellFacts, NodeFacts, Constants
  <2>2. /\ WritesTyped(w, nd.memory_floor + Window) /\ WrittenSlots(w) = {x.slot}
        /\ w.trim = NoAnchor /\ w.promise = BALLOT_ZERO
        /\ DOMAIN w.votes = {x.slot}
        /\ w.votes[x.slot] = [ballot |-> x.ballot, value |-> x.value]
    BY <1>1, <2>1, VoteBatch
  <2>3. PICK r : r = recorded
    OBVIOUS
  <2> HIDE DEF w
  <2>4. NodeTyped(r) /\ Places(nd.ledger, r.ledger, nd.memory_floor, w)
    BY <1>1, <2>1, <2>2, <2>3, RecordedNode
  <2>5. voted.ledger = r.ledger
    BY <1>1, <2>3, <2>4, ObserveFacts
  <2>6. Cell(r.ledger, x.slot) = ApplySlot(Cell(nd.ledger, x.slot), x.slot, w)
    BY <2>2, <2>4 DEF Places
  <2>7. PICK held : held = Cell(nd.ledger, x.slot)
    OBVIOUS
  <2>8. PICK after : after = ApplySlot(held, x.slot, w)
    OBVIOUS
  <2>9. after.slot = x.slot /\ (after.state = "Chosen" \/ after.vote_ballot = x.ballot)
    <3>1. cell_of(x.slot) \in Cells
      BY <1>1, SlotsHaveCells
    <3>2. held \in CellType(BallotSet)
      BY <1>1, <2>7, <3>1 DEF NodeTyped, LedgerTyped, LedgerType, Cell
    <3>3. /\ after.slot = x.slot
          /\ x.slot \in DOMAIN w.chosen => after.state = "Chosen"
          /\ x.slot \notin DOMAIN w.chosen => after = ReplayVote(Claim(held, x.slot), w.votes[x.slot])
      BY <2>2, <2>8, <3>2, ApplySlotFacts
    <3>4. Claim(held, x.slot).state # "Chosen"
      BY <2>1, <2>7 DEF Claim, ledger_open, ledger_is_chosen
    <3>5. PICK claimed \in CellType(BallotSet) : claimed = Claim(held, x.slot)
      BY <1>1, <2>7, LiveCellFacts DEF LiveCell
    <3>6. ReplayVote(claimed, w.votes[x.slot]).vote_ballot = x.ballot
      BY <2>2, <3>4, <3>5 DEF ReplayVote, RecordVote, CellType
    <3>7. QED
      BY <3>3, <3>5, <3>6
  <2>10. PICK new : new = voted
    OBVIOUS
  <2>11. Told(new)
    BY <2>5, <2>6, <2>7, <2>8, <2>9, <2>10
  <2>12. QED
    BY <1>4, <1>7, <2>10, <2>11
<1>8. QED
  <2>1. \/ Finish(n, nd, NoWrites, {Nack(n, x.from, x.ballot, nd.ledger.promised)}, Consumed(x))
        \/ Finish(n, nd, NoWrites, {Nack(n, x.from, x.ballot, cell.promised_at)}, Consumed(x))
        \/ /\ cell.state = "Chosen"
           /\ \/ Finish(n, nd, NoWrites, {ack}, Consumed(x))
              \/ Finish(n, nd, NoWrites, {Commit(n, x.from, x.slot, cell.value)}, Consumed(x))
        \/ again /\ Finish(n, nd, NoWrites, {ack}, Consumed(x))
        \/ /\ claim_live(nd, x.slot) /\ cell.state # "Chosen"
           /\ Finish(n, voted, w, {ack}, Consumed(x))
    BY DEF OnAccept
  <2> HIDE DEF cell, ack, voted, w, Told, again
  <2>2. QED
    BY <1>4, <1>5, <1>6, <1>7, <2>1, SilentEnvelopes

LEMMA SilentSteps ==
  ASSUME NEW n \in Node
  PROVE  /\ \A m \in net : OnPromise(n, m) => Silent(net' \ net)
         /\ \A m \in net : OnPromiseRange(n, m) => Silent(net' \ net)
         /\ \A m \in net : OnAccepted(n, m) => Silent(net' \ net)
         /\ \A m \in net : OnCommit(n, m) => Silent(net' \ net)
         /\ \A m \in net : OnLearn(n, m) => Silent(net' \ net)
         /\ \A m \in net : OnNack(n, m) => Silent(net' \ net)
         /\ \A m \in net : OnHeartbeat(n, m) => Silent(net' \ net)
<1> DEFINE nd == node[n]
<1>1. Silent({}) /\ \A k : Silent(Nothing(k).out)
  BY DEF Silent, Nothing, Result
<1>2. ASSUME NEW m \in net, OnPromise(n, m) PROVE Silent(net' \ net)
  <2>1. ASSUME NEW k, NEW merged, NEW c,
               FinishResult(n, IF c THEN Nothing(k) ELSE MaybeResolve(n, merged), Consumed(m))
        PROVE  Silent(net' \ net)
    <3>1. PICK r : r = IF c THEN Nothing(k) ELSE MaybeResolve(n, merged)
      OBVIOUS
    <3>2. Silent(r.out)
      BY <1>1, <3>1, MaybeResolveSilent
    <3>3. QED
      BY <2>1, <3>1, <3>2, SilentResult
  <2>2. FinishResult(n, ResolveChunk(n, nd), Consumed(m)) => Silent(net' \ net)
    BY ResolveSilent, SilentResult
  <2>3. \/ FinishResult(n, ResolveChunk(n, nd), Consumed(m))
        \/ \E k, merged, c :
             FinishResult(n, IF c THEN Nothing(k) ELSE MaybeResolve(n, merged), Consumed(m))
    BY <1>2 DEF OnPromise
  <2>4. QED
    BY <2>1, <2>2, <2>3
<1>3. ASSUME NEW m \in net, OnPromiseRange(n, m) PROVE Silent(net' \ net)
  <2>1. PICK r : /\ FinishResult(n, r, Consumed(m))
                 /\ \/ r = ResolveChunk(n, nd)
                    \/ \E k : r = MaybeResolve(n, k) \/ r = Nothing(k)
    BY <1>3 DEF OnPromiseRange
  <2>2. Silent(r.out)
    BY <1>1, <2>1, ResolveSilent, MaybeResolveSilent
  <2>3. QED
    BY <2>1, <2>2, SilentResult
<1>4. ASSUME NEW m \in net, OnAccepted(n, m) PROVE Silent(net' \ net)
  <2>1. PICK k, w, v, out : /\ Finish(n, k, w, out, Consumed(m))
                            /\ out = {} \/ out = {Commit(n, p, m.slot, v) : p \in Peers(n)}
    BY <1>4 DEF OnAccepted
  <2>2. Silent(out)
    BY <2>1 DEF Silent, Commit
  <2>3. QED
    BY <2>1, <2>2, SilentFinish
<1>5. ASSUME NEW m \in net, OnCommit(n, m) PROVE Silent(net' \ net)
  BY <1>1, <1>5, RecordCommitSilent, SilentResult DEF OnCommit
<1>6. ASSUME NEW m \in net, OnLearn(n, m) PROVE Silent(net' \ net)
  <2>1. PICK A, B, out : /\ Finish(n, nd, NoWrites, out, Consumed(m))
                         /\ out = {Commit(n, m.from, s, Cell(nd.ledger, s).value) : s \in A} \cup
                                  {Commit(n, m.from, s, history[n][s]) : s \in B}
    BY <1>6 DEF OnLearn
  <2>2. Silent(out)
    BY <2>1 DEF Silent, Commit
  <2>3. QED
    BY <2>1, <2>2, SilentFinish
<1>7. ASSUME NEW m \in net, OnNack(n, m) PROVE Silent(net' \ net)
  <2>1. PICK k : Finish(n, k, NoWrites, {}, Consumed(m))
    BY <1>7 DEF OnNack
  <2>2. QED
    BY <1>1, <2>1, SilentFinish
<1>8. ASSUME NEW m \in net, OnHeartbeat(n, m) PROVE Silent(net' \ net)
  <2>1. PICK k, w, out : /\ Finish(n, k, w, out, Consumed(m))
                         /\ \/ out = {} \/ out = {LearnFrom(n, nd, m.from)}
                            \/ out = {Nack(n, m.from, m.ballot, nd.ledger.promised)}
    BY <1>8 DEF OnHeartbeat
  <2>2. Silent(out)
    BY <2>1 DEF Silent, LearnFrom, Learn, Nack
  <2>3. QED
    BY <2>1, <2>2, SilentFinish
<1>9. QED
  BY <1>2, <1>3, <1>4, <1>5, <1>6, <1>7, <1>8

LEMMA SilentTicks ==
  ASSUME NEW n \in Node, Tick(n)
  PROVE  Silent(net' \ net)
<1>1. CASE StartCampaign(n)
  <2>1. PICK k, w, b, s, t, out : /\ Finish(n, k, w, out, {})
                                  /\ out = {Prepare(n, p, b, s, t) : p \in Node}
    BY <1>1 DEF StartCampaign
  <2>2. Silent(out)
    BY <2>1 DEF Silent, Prepare
  <2>3. QED
    BY <2>1, <2>2, SilentFinish
<1>2. CASE Retry(n)
  BY <1>2, MaybeResolveSilent, SilentResult DEF Retry
<1>3. CASE SendHeartbeat(n)
  <2>1. PICK k, w, b, s, out : /\ Finish(n, k, w, out, {})
                               /\ out = {Heartbeat(n, p, b, s) : p \in Peers(n)}
    BY <1>3 DEF SendHeartbeat
  <2>2. Silent(out)
    BY <2>1 DEF Silent, Heartbeat
  <2>3. QED
    BY <2>1, <2>2, SilentFinish
<1>4. ASSUME NEW p \in Peers(n), ResendTo(n, p) PROVE Silent(net' \ net)
  <2> DEFINE nd == node[n]
             l == nd.ledger
  <2>1. PICK A, B, out :
          /\ Finish(n, nd, NoWrites, out, {})
          /\ out = {Commit(n, p, l.cell[c].slot, l.cell[c].value) : c \in A} \cup
                   {Accept(n, p, nd.lead[c].ballot, l.cell[c].slot, l.cell[c].value) : c \in B}
    BY <1>4 DEF ResendTo
  <2>2. PICK commits, accepts :
          /\ out = commits \cup accepts
          /\ commits = {Commit(n, p, l.cell[c].slot, l.cell[c].value) : c \in A}
          /\ accepts = {Accept(n, p, nd.lead[c].ballot, l.cell[c].slot, l.cell[c].value) : c \in B}
    BY <2>1
  <2>a. \A m \in commits : m.type = "Commit"
    BY <2>2 DEF Commit
  <2>b. \A m \in accepts : m.type = "Accept"
    BY <2>2 DEF Accept
  <2>3. \A m \in out : m.type \in {"Commit", "Accept"}
    BY <2>2, <2>a, <2>b
  <2>4. Silent(out)
    BY <2>3 DEF Silent
  <2>5. QED
    BY <2>1, <2>4, SilentFinish
<1>5. QED
  BY <1>1, <1>2, <1>3, <1>4 DEF Tick

LEMMA SilentHosts ==
  ASSUME NEW n \in Node, Host(n)
  PROVE  Silent(net' \ net)
<1>1. ASSUME net' = net PROVE Silent(net' \ net)
  BY <1>1 DEF Silent
<1>2. ASSUME NEW vals, Propose(n, vals) PROVE Silent(net' \ net)
  <2>1. PICK k, S, val : FinishResult(n, SendAccepts(n, k, S, val), {})
    BY <1>2 DEF Propose
  <2>2. QED
    BY <2>1, SendAcceptsSilent, SilentResult
<1>3. ASSUME NEW p, CatchUp(n, p) PROVE Silent(net' \ net)
  BY <1>3, SilentEnvelopes, SilentFinish DEF CatchUp, LearnFrom
<1>4. ASSUME NEW s, AdvanceMemoryFloor(n, s) PROVE Silent(net' \ net)
  BY <1>1, <1>4 DEF AdvanceMemoryFloor
<1>5. ASSUME NEW a, InstallChosenTrim(n, a) PROVE Silent(net' \ net)
  <2>1. PICK k, w : Finish(n, k, w, {}, {})
    BY <1>5 DEF InstallChosenTrim
  <2>2. Silent({})
    BY DEF Silent
  <2>3. QED
    BY <2>1, <2>2, SilentFinish
<1>6. ASSUME NEW donor, BeginRecovery(n, donor) PROVE Silent(net' \ net)
  BY <1>1, <1>6 DEF BeginRecovery
<1>7. ASSUME NEW enabled, SetCampaignEnabled(n, enabled) PROVE Silent(net' \ net)
  BY <1>1, <1>7 DEF SetCampaignEnabled
<1>8. ASSUME Crash(n) PROVE Silent(net' \ net)
  BY <1>1, <1>8 DEF Crash
<1>9. QED
  BY <1>2, <1>3, <1>4, <1>5, <1>6, <1>7, <1>8 DEF Host

\* Every message that leaves tells what its sender's journal holds by then.
LEMMA WhatIsToldIsKept ==
  ASSUME TypeInv, TypeInv', WindowInv', Next, NEW m \in net' \ net
  PROVE  Kept(m)'
<1>1. PICK n \in Node : Step(n) \/ Tick(n) \/ Host(n)
  BY DEF Next
<1>2. ASSUME Silent(net' \ net) PROVE Kept(m)'
  BY <1>2 DEF Silent, Kept
<1>3. CASE Step(n)
  <2>1. \A x, type : x \in Received(n, type) => x \in net
    BY DEF Received
  <2>2. ASSUME NEW x \in Received(n, "Prepare"), OnPrepare(n, x) PROVE Kept(m)'
    BY <2>2, OnPrepareTells
  <2>3. ASSUME NEW x \in Received(n, "Accept"), OnAccept(n, x) PROVE Kept(m)'
    BY <2>3, OnAcceptTells
  <2>4. \/ \E x \in Received(n, "Prepare") : OnPrepare(n, x)
        \/ \E x \in Received(n, "Accept") : OnAccept(n, x)
        \/ \E x \in net : \/ OnPromise(n, x) \/ OnPromiseRange(n, x) \/ OnAccepted(n, x)
                          \/ OnCommit(n, x) \/ OnLearn(n, x) \/ OnNack(n, x)
                          \/ OnHeartbeat(n, x)
    BY <1>3, <2>1 DEF Step
  <2>5. QED
    BY <1>2, <2>2, <2>3, <2>4, SilentSteps
<1>4. CASE Tick(n)
  BY <1>2, <1>4, SilentTicks
<1>5. CASE Host(n)
  BY <1>2, <1>5, SilentHosts
<1>6. QED
  BY <1>1, <1>3, <1>4, <1>5

\* Lemma 9 of POD 0008: a restart finds every promise a node has answered with and every
\* vote it has acknowledged, unless the host has consumed the slot or a later vote or the
\* decision has taken its place.
THEOREM WhatIsRevealedIsDurable ==
  ASSUME ~LaggingHost, "partial" \notin Calls
  PROVE  Spec => []RevealedIsDurable
<1> DEFINE Bound == \A k \in Node : Within(node[k])
           Inv == \A m \in net : Kept(m)
<1>1. Init => Inv
  BY DEF Init
<1>2. /\ TypeInv /\ TypeInv' /\ WindowInv /\ WindowInv' /\ Bound /\ Inv /\ [Next]_vars
      => Inv'
  <2>1. ASSUME TypeInv, TypeInv', WindowInv, WindowInv', Bound, Inv, Next PROVE Inv'
    <3>1. PICK n \in Node : OneStep(n)
      BY <2>1, StepsAreOfAKind
    <3>2. Moves(n)
      BY <2>1, <3>1, StepsMove
    <3>3. ASSUME NEW m \in net' PROVE Kept(m)'
      <4>1. CASE m \in net
        <5>1. MessageTyped(m) /\ Kept(m)
          BY <2>1, <4>1 DEF TypeInv
        <5>2. QED
          BY <2>1, <3>2, <5>1, KeptStays
      <4>2. CASE m \notin net
        BY <2>1, <4>2, WhatIsToldIsKept
      <4>3. QED
        BY <4>1, <4>2
    <3>4. QED
      BY <3>3
  <2>2. ASSUME Inv, UNCHANGED vars PROVE Inv'
    BY <2>2 DEF vars, Kept
  <2>3. QED
    BY <2>1, <2>2
<1>3. TypeInv /\ Inv => RevealedIsDurable
  <2> SUFFICES ASSUME TypeInv, Inv PROVE RevealedIsDurable
    OBVIOUS
  <2>1. ASSUME NEW m \in net, m.type \in {"Promise_Range", "Accepted"}
        PROVE  DurableThrough(m.from) = node[m.from].delivered_through
    BY <2>1 DEF TypeInv, MessageTyped, HostTyped, DurableThrough
  <2>2. QED
    BY <2>1 DEF RevealedIsDurable, Kept
<1>4. NeverOutbid => Bound
  BY DEF NeverOutbid, Within
<1>5. QED
  BY <1>1, <1>2, <1>3, <1>4, TypesAreInvariant, MemoryFollowsTheJournal,
     ALeaderIsNeverOutbid, PTL DEF Spec
===============================================================================
