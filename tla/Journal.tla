------------------------------- MODULE Journal -------------------------------
(***************************************************************************)
(* What a host promises a participant about its journal, and what every    *)
(* adapter in storage.py provides: records are kept in the order they were *)
(* appended, and once sync returned they survive whatever happens.         *)
(*                                                                         *)
(* The operations are MemoryJournal's; FileJournal (module Storage) is     *)
(* shown to implement them, and Session is built on them.                  *)
(***************************************************************************)
EXTENDS Sequences, Integers

VARIABLES
  records,  \* the records held, in append order
  synced    \* how many of them sync made durable

JournalInit == records = <<>> /\ synced = 0

AppendRecords(batch) ==
  /\ records' = records \o batch
  /\ UNCHANGED synced

SyncRecords ==
  /\ synced' = Len(records)
  /\ UNCHANGED records

\* A failed append or sync, a killed process, a power loss: records that were not
\* synced may be there afterwards, in order, or not; what is there after a power
\* loss stays.
LoseUnsynced ==
  \E k \in synced .. Len(records) :
    /\ records' = SubSeq(records, 1, k)
    /\ synced' \in {synced, k}

JournalNext == (\E batch \in Seq(Nat) : AppendRecords(batch)) \/ SyncRecords \/ LoseUnsynced
===============================================================================
