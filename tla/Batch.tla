-------------------------------- MODULE Batch --------------------------------
(***************************************************************************)
(* The one batch a native handle retains (native/batch.odin).              *)
(*                                                                         *)
(* A transition leaves a batch behind: records to persist, and outputs     *)
(* that may be read only after the host confirmed the records.  The rules  *)
(* are operators on a batch record, so that Handle (threads), Session (one *)
(* caller) and Aio (tasks and worker threads) share them.  A status is     *)
(* named after the exception errors.raise_for makes of it; "Ok" is zero.   *)
(*                                                                         *)
(*   phase       models.BatchPhase                                         *)
(*   generation  the number of transitions run; a token is a generation    *)
(*   writes      how many records the transition produced                  *)
(*   copied      high-water mark of the records handed to the host         *)
(***************************************************************************)
EXTENDS Integers

Phase == {"Idle", "Pending", "Confirmed", "Finished"}

Batches(MaxWrites) ==
  [phase : Phase, generation : Nat, writes : 0 .. MaxWrites, copied : 0 .. MaxWrites]

NoBatch == [phase |-> "Idle", generation |-> 0, writes |-> 0, copied |-> 0]

\* A batch the host still has to discharge.
Live(b) == b.phase \in {"Pending", "Confirmed"}

-----------------------------------------------------------------------------
(* Statuses: why a call on the batch is refused.                           *)

\* raise_for: a status other than zero becomes an exception.
Raises(status) == status # "Ok"

\* Mutant of OpenStatus: only a confirmed batch blocks the next transition.
OpenStatusConfirmed(b) == IF b.phase = "Confirmed" THEN "BatchPending" ELSE "Ok"

OpenStatus(b) == IF Live(b) THEN "BatchPending" ELSE "Ok"

\* The token a PendingBatch carries against the batch the handle holds.
TokenStatus(b, token) ==
  IF b.phase = "Idle" THEN "NoBatch" ELSE
  IF token # b.generation THEN "StaleToken" ELSE "Ok"

\* Records and assigned slots can be read until the batch is finished.
ReadStatus(b, token) ==
  IF Raises(TokenStatus(b, token)) THEN TokenStatus(b, token) ELSE
  IF b.phase = "Finished" THEN "BatchFinished" ELSE "Ok"

\* Messages, released entries and served ranges, only after the confirmation.
OutputStatus(b, token) ==
  IF Raises(ReadStatus(b, token)) THEN ReadStatus(b, token) ELSE
  IF b.phase = "Pending" THEN "WritesUnconfirmed" ELSE "Ok"

\* Mutant of ConfirmStatus: records that were never copied can be confirmed.
ConfirmStatusUncopied(b, token) == ReadStatus(b, token)

ConfirmStatus(b, token) ==
  IF Raises(ReadStatus(b, token)) THEN ReadStatus(b, token) ELSE
  IF b.phase = "Pending" /\ b.copied < b.writes THEN "WritesNotCopied" ELSE "Ok"

FinishStatus(b, token) ==
  IF Raises(TokenStatus(b, token)) THEN TokenStatus(b, token) ELSE
  IF b.phase = "Pending" THEN "WritesUnconfirmed" ELSE "Ok"

-----------------------------------------------------------------------------
(* What an accepted call makes of the batch.                               *)

\* batch_open and batch_seal around a transition that produced w records.
Begun(b, w) ==
  [phase |-> IF w = 0 THEN "Confirmed" ELSE "Pending",
   generation |-> b.generation + 1, writes |-> w, copied |-> 0]

\* How many records a copy of at most want from offset hands over.
Span(b, offset, want) ==
  IF want < b.writes - offset THEN want ELSE b.writes - offset

Copied(b, through) == [b EXCEPT !.copied = IF through > @ THEN through ELSE @]

Confirmed(b) == [b EXCEPT !.phase = "Confirmed"]

Finished(b) == [b EXCEPT !.phase = "Finished"]
===============================================================================
