-------------------------------- MODULE Ballot --------------------------------
(***************************************************************************)
(* Ballots and slots (src/src/ballot.odin).                                *)
(*                                                                         *)
(* A ballot is one integer: the round in the high bits, the priority in    *)
(* the next 8 and the proposer in the low 16, so that ballots are compared *)
(* as integers.  Slots are one-based; slot 0 means "no slot".              *)
(***************************************************************************)
EXTENDS Integers

CONSTANTS
  MaxSlot,   \* max(Slot): 2^64 - 1 in the code, small in a model
  MaxRound,  \* MAX_ROUND: 2^40 - 1 in the code, small in a model
  Window     \* WINDOW_SLOTS, a power of two

ASSUME BallotAssumption ==
  /\ MaxSlot \in Nat \ {0}
  /\ MaxRound \in Nat \ {0}
  /\ Window \in Nat \ {0}

PrioritySpan == 256                  \* 2^8: one more than the greatest priority
NodeSpan == 256 * 256                \* 2^16: one more than the greatest Node_Id
RoundUnit == NodeSpan * PrioritySpan \* 2^24: the weight of one round

NodeId == 1 .. (NodeSpan - 1)
Priorities == 0 .. (PrioritySpan - 1)
Slot == 1 .. MaxSlot

BALLOT_ZERO == 0

ballot_make(round, priority, node) ==
  round * RoundUnit + priority * NodeSpan + node

ballot_round(b) == b \div RoundUnit

ballot_priority(b) == (b \div NodeSpan) % PrioritySpan

ballot_node(b) == b % NodeSpan

\* (slot - 1) & (WINDOW - 1), with WINDOW a power of two.
cell_of(slot) == (slot - 1) % Window

\* Addition that stops at the last slot instead of wrapping.
slot_add(slot, offset) ==
  IF offset < MaxSlot - slot THEN slot + offset ELSE MaxSlot

MaxOf(x, y) == IF x >= y THEN x ELSE y

MinOf(x, y) == IF x <= y THEN x ELSE y
===============================================================================
