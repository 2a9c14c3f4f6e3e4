-------------------------------- MODULE Ledger --------------------------------
(***************************************************************************)
(* A voter's durable state (src/src/ledger.odin): the promise, the trim    *)
(* anchor, and a window of cells, one slot each.  The column arrays of the *)
(* code become one record per cell; the used and chosen bitmaps are        *)
(* functions of the cell states and are left out.                          *)
(*                                                                         *)
(* A batch is the set of Write records of one transition.  Every batch of  *)
(* the protocol holds records of at most one slot per cell, a vote before  *)
(* the decision of its slot, and a promise or a trim only on its own; so a *)
(* batch is a record of two functions on slots, and its prefixes are cut   *)
(* at a slot.                                                              *)
(***************************************************************************)
EXTENDS Ballot, FiniteSets, FiniteSetsExt

CONSTANTS
  Value,    \* what hosts propose
  Noop,     \* what fills a hole
  NoValue   \* the value of a cell that holds none

Values == Value \cup {Noop}

Cells == 0 .. (Window - 1)

NoAnchor == [trim_id |-> 0, chosen_trim_slot |-> 0]

\* ledger_open: a cell tagged for slot, with everything else cleared.
ledger_open(slot) ==
  [slot |-> slot, promised_at |-> BALLOT_ZERO, vote_ballot |-> BALLOT_ZERO,
   state |-> "Empty", value |-> NoValue]

EmptyLedger ==
  [promised |-> BALLOT_ZERO, anchor |-> NoAnchor,
   cell |-> [c \in Cells |-> ledger_open(0)]]

Cell(l, slot) == l.cell[cell_of(slot)]

ledger_is_chosen(l, slot) ==
  Cell(l, slot).slot = slot /\ Cell(l, slot).state = "Chosen"

UsedCells(l) == {c \in Cells : l.cell[c].state # "Empty"}

UsedSlots(l) == {l.cell[c].slot : c \in UsedCells(l)}

ledger_highest_ballot(l) ==
  Max({l.promised} \cup {l.cell[c].promised_at : c \in Cells}
        \cup {l.cell[c].vote_ballot : c \in Cells})

ledger_highest_used(l) == Max({0} \cup UsedSlots(l))

-------------------------------------------------------------------------------
(* Write records.                                                          *)

NoWrites ==
  [promise |-> BALLOT_ZERO, trim |-> NoAnchor, votes |-> <<>>, chosen |-> <<>>]

WritePromise(b) == [NoWrites EXCEPT !.promise = b]

WriteTrim(anchor) == [NoWrites EXCEPT !.trim = anchor]

WriteVote(slot, b, v) ==
  [NoWrites EXCEPT !.votes = [s \in {slot} |-> [ballot |-> b, value |-> v]]]

WriteChosen(slot, v) == [NoWrites EXCEPT !.chosen = [s \in {slot} |-> v]]

WrittenSlots(w) == DOMAIN w.votes \cup DOMAIN w.chosen

\* What a crash inside the host's write loop may have left on disk: the
\* records of the slots below cut, and of cut itself at most its vote.
Prefixes(w) ==
  {NoWrites, w} \cup
  { [w EXCEPT !.votes = [s \in {t \in DOMAIN w.votes : t <= cut} |-> w.votes[s]],
              !.chosen = [s \in {t \in DOMAIN w.chosen : t < cut} |-> w.chosen[s]]]
      : cut \in WrittenSlots(w) }

-------------------------------------------------------------------------------
(* Recording: the same change in memory and, on replay, on disk.           *)

RecordVote(cell, vote) ==
  [cell EXCEPT !.promised_at = MaxOf(@, vote.ballot),
               !.vote_ballot = vote.ballot,
               !.state = "Voted", !.value = vote.value]

\* A decided cell keeps its decision (ledger_replay_fold, Write_Vote).
ReplayVote(cell, vote) ==
  IF cell.state = "Chosen"
    THEN [cell EXCEPT !.promised_at = MaxOf(@, vote.ballot)]
    ELSE RecordVote(cell, vote)

RecordChosen(cell, v) == [cell EXCEPT !.state = "Chosen", !.value = v]

Claim(cell, slot) == IF cell.slot = slot THEN cell ELSE ledger_open(slot)

\* Applies the records of slot in batch w to its cell, which is claimed.
ApplySlot(cell, slot, w) ==
  LET claimed == Claim(cell, slot)
      voted == IF slot \in DOMAIN w.votes
                 THEN ReplayVote(claimed, w.votes[slot]) ELSE claimed
  IN  IF slot \in DOMAIN w.chosen THEN RecordChosen(voted, w.chosen[slot]) ELSE voted

\* A cell may be claimed on replay when it holds the slot, holds nothing, or
\* holds an earlier slot that is decided or trimmed.
ledger_claim(l, slot) ==
  LET held == Cell(l, slot).slot IN
  \/ held = slot \/ held = 0
  \/ held < slot /\ (Cell(l, slot).state = "Chosen" \/ held <= l.anchor.chosen_trim_slot)

\* Applies batch w to the slots of S; the other cells keep what they hold.
ApplyWrites(l, w, S) ==
  [promised |-> MaxOf(l.promised, w.promise),
   anchor |-> IF w.trim.trim_id > l.anchor.trim_id THEN w.trim ELSE l.anchor,
   cell |-> [c \in Cells |->
               IF \E s \in S : cell_of(s) = c
                 THEN ApplySlot(l.cell[c], CHOOSE s \in S : cell_of(s) = c, w)
                 ELSE l.cell[c]]]

\* A live transition claims every cell it writes before it writes it.
RecordWrites(l, w) == ApplyWrites(l, w, WrittenSlots(w))

\* Mutant of ledger_replay_fold: promises are not replayed.
ReplaySkipsPromises(l, w) ==
  ApplyWrites(l, [w EXCEPT !.promise = BALLOT_ZERO],
              {s \in WrittenSlots(w) : ledger_claim(l, s)})

\* Replay claims a cell by ledger_claim; a record it cannot place is skipped.
ledger_replay_fold(l, w) ==
  ApplyWrites(l, w, {s \in WrittenSlots(w) : ledger_claim(l, s)})

-------------------------------------------------------------------------------
CellType(Bs) ==
  [slot : 0 .. MaxSlot, promised_at : Bs, vote_ballot : Bs,
   state : {"Empty", "Voted", "Chosen"}, value : Values \cup {NoValue}]

AnchorType == [trim_id : Nat, chosen_trim_slot : 0 .. MaxSlot]

LedgerType(Bs) ==
  [promised : Bs, anchor : AnchorType, cell : [Cells -> CellType(Bs)]]
===============================================================================
