---------------------------- MODULE SessionProofs ----------------------------
(***************************************************************************)
(* A participant never tells anybody what it could still forget: for any   *)
(* commands, slots, windows, timeouts, and any number of storage failures, *)
(* kills and power losses, the records a sent message rests on are durable.*)
(* What it released can be read again, and its receipts stay true.         *)
(***************************************************************************)
EXTENDS Session, SequenceTheorems, WellFoundedInduction, TLAPS

IsCall(c) ==
  /\ c = [then |-> c.then, back |-> c.back, wait |-> c.wait, drain |-> c.drain,
          left |-> c.left, value |-> c.value, slot |-> c.slot]
  /\ c.then \in {"idle", "propose", "check"} /\ c.back \in {"idle", "receive", "stepped", "status"}

\* The part of TypeOK the invariant needs: where a call goes on is not a statement of
\* discharge.
Typed ==
  /\ records \in Seq(Nat) /\ synced \in 0 .. Len(records)
  /\ revealed \in Nat /\ own \in BOOLEAN
  /\ node = [batch |-> node.batch, decided |-> node.decided, floor |-> node.floor,
             last |-> node.last, sends |-> node.sends]
  /\ node.batch \in Batches(1)
  /\ IsCall(call)

\* The statements of discharge that run with the journal synced.
AfterSync == {"write", "confirm", "release", "send", "finish", "floor"}

\* A process that wrote to a journal it has not synced is stuck behind the batch the
\* records belong to.
UnsyncedIsPending ==
  at # "down" /\ own /\ synced # Len(records) =>
    node.batch.phase = "Pending" /\ at \notin AfterSync

\* A batch with records is pending until its sync returned.
WritesArePending ==
  at \in {"write", "sync"} /\ node.batch.writes > 0 => node.batch.phase = "Pending"

SyncHasWrites == at = "sync" => node.batch.writes > 0

IInv == Typed /\ UnsyncedIsPending /\ WritesArePending /\ SyncHasWrites /\ RevealedIsDurable
-----------------------------------------------------------------------------
(* The journal.                                                            *)

LEMMA Appended ==
  ASSUME Typed, NEW r \in Nat, AppendRecords(<<r>>)
  PROVE  records' \in Seq(Nat) /\ Len(records') = Len(records) + 1 /\ synced' = synced
<1>1. <<r>> \in Seq(Nat) /\ Len(<<r>>) = 1
  OBVIOUS
<1>2. QED
  BY <1>1, ConcatProperties DEF Typed, AppendRecords

\* A failure keeps what was synced.
LEMMA Lost ==
  ASSUME Typed, LoseUnsynced
  PROVE  /\ records' \in Seq(Nat) /\ synced' \in synced .. Len(records')
         /\ synced = Len(records) => synced' = Len(records')
<1>1. PICK k \in synced .. Len(records) :
        records' = SubSeq(records, 1, k) /\ synced' \in {synced, k}
  BY DEF LoseUnsynced
<1>2. Len(records) \in Nat /\ k \in Nat
  BY LenProperties DEF Typed
<1>3. records' \in Seq(Nat) /\ Len(records') = k
  <2>1. \A i \in 1 .. k : records[i] \in Nat
    BY <1>2, LenProperties DEF Typed
  <2>2. QED
    BY <1>1, <1>2, <2>1, SubSeqProperties
<1>4. QED
  BY <1>1, <1>2, <1>3 DEF Typed

-----------------------------------------------------------------------------
LEMMA NoCallIsACall == IsCall(NoCall)
  BY DEF NoCall, IsCall

LEMMA NoBatchIsABatch == NoBatch \in Batches(1)
  BY DEF NoBatch, Batches, Phase

LEMMA InitIInv == Init => IInv
<1> SUFFICES ASSUME Init PROVE IInv
  OBVIOUS
<1>1. records \in Seq(Nat) /\ Len(records) = 0
  BY DEF Init, JournalInit
<1>2. Typed
  <2>1. node = [batch |-> NoBatch, decided |-> 0, floor |-> 0, last |-> 0, sends |-> FALSE]
    BY DEF Init, Fresh
  <2>2. node = [batch |-> node.batch, decided |-> node.decided, floor |-> node.floor,
                last |-> node.last, sends |-> node.sends] /\ node.batch = NoBatch
    BY <2>1
  <2>3. synced \in 0 .. Len(records) /\ revealed \in Nat
    BY <1>1 DEF Init, JournalInit
  <2>4. own = FALSE /\ call = NoCall
    BY Zenon DEF Init
  <2>5. QED
    BY <1>1, <2>2, <2>3, <2>4, NoCallIsACall, NoBatchIsABatch DEF Typed
<1>3. QED
  BY <1>1, <1>2
  DEF Init, JournalInit, IInv, UnsyncedIsPending, WritesArePending, SyncHasWrites, RevealedIsDurable

\* A transition runs only behind a batch that is done with, so with the journal synced.
LEMMA TransitionKeeps ==
  ASSUME IInv, NEW back \in {"idle", "receive", "stepped", "status"}, NEW s,
         at # "down", Transition(back, s)
  PROVE  IInv'
<1>1. node.batch.phase # "Pending"
  BY DEF Transition, Blocked, Raises, OpenStatus, Live
<1>2. PICK w \in 0 .. 1, k \in 0 .. MaxRelease, sends \in BOOLEAN :
        node' = [node EXCEPT !.batch = [Begun(node.batch, w) EXCEPT !.generation = 1],
                             !.decided = node.decided + k, !.last = node.last, !.sends = sends]
  BY DEF Transition, IInv, Typed
<1>3. /\ node' = [batch |-> node'.batch, decided |-> node'.decided, floor |-> node'.floor,
                  last |-> node'.last, sends |-> node'.sends]
      /\ node'.batch = [Begun(node.batch, w) EXCEPT !.generation = 1]
  BY <1>2 DEF IInv, Typed
<1>4. node'.batch \in Batches(1) /\ (node'.batch.writes > 0 => node'.batch.phase = "Pending")
  BY <1>3 DEF Begun, Batches, Phase
<1>5. IsCall(call')
  BY DEF Transition, IInv, Typed, IsCall
<1>6. Typed'
  BY <1>3, <1>4, <1>5 DEF Transition, Durable, Host, Outcome, IInv, Typed
<1>7. UnsyncedIsPending'
  BY <1>1 DEF Transition, Durable, Host, IInv, UnsyncedIsPending
<1>8. QED
  BY <1>4, <1>6, <1>7 DEF Transition, Durable, Outcome, IInv, WritesArePending, SyncHasWrites,
     RevealedIsDurable

\* A step that leaves the journal, the batch and what was told alone, and goes on
\* outside of the statements that have to find the journal synced.
LEMMA AsideKeeps ==
  ASSUME IInv, at # "down", UNCHANGED <<Durable, own, revealed>>,
         node'.batch = node.batch, IsCall(call'),
         node' = [batch |-> node'.batch, decided |-> node'.decided, floor |-> node'.floor,
                  last |-> node'.last, sends |-> node'.sends],
         at' \notin {"write", "sync"}, at' \in AfterSync => at \in AfterSync
  PROVE  IInv'
<1>1. Typed'
  BY DEF IInv, Typed, Durable
<1>2. UnsyncedIsPending'
  BY DEF IInv, UnsyncedIsPending, Durable, AfterSync
<1>3. QED
  BY <1>1, <1>2 DEF IInv, Durable, WritesArePending, SyncHasWrites, RevealedIsDurable

\* A call that ends, by returning or by an exception.
LEMMA RaiseKeeps ==
  ASSUME IInv, at # "down", UNCHANGED <<Durable, node, own, revealed>>, Raise
  PROVE  IInv'
  BY AsideKeeps, NoCallIsACall DEF Raise, IInv, Typed, AfterSync

-----------------------------------------------------------------------------
(* The calls.                                                              *)

LEMMA ProcessKeeps ==
  ASSUME IInv, Start \/ Close \/ Crash \/ Elapse
  PROVE  IInv'
<1>1. CASE Start
  <2>1. PICK floor : node' = [batch |-> NoBatch, decided |-> floor, floor |-> floor, last |-> floor,
                              sends |-> FALSE]
    BY <1>1 DEF Start, Fresh
  <2>2. node' = [batch |-> node'.batch, decided |-> node'.decided, floor |-> node'.floor,
                 last |-> node'.last, sends |-> node'.sends] /\ node'.batch = NoBatch
    BY <2>1
  <2>3. Typed'
    <3>1. UNCHANGED <<records, synced, revealed>> /\ own' \in BOOLEAN /\ call' = NoCall
      BY <1>1 DEF Start, Durable, Outcome
    <3>2. QED
      BY <2>2, <3>1, NoCallIsACall, NoBatchIsABatch DEF IInv, Typed
  <2>4. UnsyncedIsPending'
    BY <1>1 DEF Start, UnsyncedIsPending
  <2>5. QED
    BY <1>1, <2>3, <2>4 DEF Start, Durable, Outcome, IInv, WritesArePending, SyncHasWrites,
       RevealedIsDurable
<1>2. CASE Close
  <2>1. synced' = Len(records) /\ records' = records /\ Len(records) \in Nat
    BY <1>2, LenProperties DEF Close, SyncRecords, IInv, Typed
  <2>2. Typed'
    BY <1>2, <2>1 DEF Close, Host, Outcome, IInv, Typed
  <2>3. QED
    BY <1>2, <2>1, <2>2 DEF Close, Host, Outcome, IInv, Typed, UnsyncedIsPending, WritesArePending,
       SyncHasWrites, RevealedIsDurable
<1>3. CASE Crash
  <2>1. /\ records' \in Seq(Nat) /\ synced' \in synced .. Len(records')
    BY <1>3, Lost DEF Crash, IInv
  <2>2. Typed'
    BY <1>3, <2>1, NoCallIsACall, LenProperties DEF Crash, Outcome, IInv, Typed
  <2>3. QED
    BY <1>3, <2>1, <2>2 DEF Crash, Outcome, IInv, Typed, UnsyncedIsPending, WritesArePending,
       SyncHasWrites, RevealedIsDurable
<1>4. CASE Elapse
  <2>1. IsCall(call')
    BY <1>4, SessionAssumption DEF Elapse, Later, IInv, Typed, IsCall
  <2>2. QED
    BY <1>4, <2>1, AsideKeeps DEF Elapse, Host, Outcome, IInv, Typed, AfterSync
<1>5. QED
  BY <1>1, <1>2, <1>3, <1>4

\* poll and append between their transitions.
LEMMA CallKeeps ==
  ASSUME IInv, CallPoll \/ CallAppend \/ Stepped \/ NothingReceived \/ Status \/ Check \/ Receipt
  PROVE  IInv'
<1>1. /\ at # "down" /\ UNCHANGED <<Durable, node, own, revealed>>
      /\ at' \notin {"write", "sync"} \cup AfterSync
  BY SessionAssumption DEF CallPoll, CallAppend, Stepped, NothingReceived, Status, Check, Receipt, Quiet, Raise,
     Host, Outcome, AfterSync, IInv, Typed, IsCall
<1>2. CASE Raise
  BY <1>1, <1>2, RaiseKeeps
<1>3. CASE CallPoll \/ CallAppend
  <2>1. IsCall(call')
    BY <1>3, SessionAssumption DEF CallPoll, CallAppend, NoCall, IsCall
  <2>2. QED
    BY <1>1, <2>1, AsideKeeps DEF IInv, Typed
<1>4. CASE ~Raise /\ (Stepped \/ NothingReceived \/ Status \/ Check \/ Receipt)
  <2>1. IsCall(call')
    BY <1>4, SessionAssumption DEF Stepped, NothingReceived, Status, Check, Receipt, Raise, Later,
       IInv, Typed, IsCall
  <2>2. QED
    BY <1>1, <2>1, AsideKeeps DEF IInv, Typed
<1>5. QED
  BY <1>2, <1>3, <1>4

LEMMA RefusedKeeps ==
  ASSUME IInv, at # "down", Refused
  PROVE  IInv'
  BY RaiseKeeps DEF Refused, Host, Outcome

\* The calls that run a transition.
LEMMA EngineKeeps ==
  ASSUME IInv, Campaign \/ MaybeTick \/ Receive \/ Propose
  PROVE  IInv'
<1>1. IsCall(call)
  BY DEF IInv, Typed
<1>2. CASE Refused
  BY <1>2, RefusedKeeps DEF Campaign, MaybeTick, Receive, Propose
<1>3. CASE \E back \in {"idle", "receive", "stepped", "status"} : \E s : Transition(back, s)
  BY <1>3, TransitionKeeps DEF Campaign, MaybeTick, Receive, Propose
<1>4. CASE ~Refused /\ ~(\E back \in {"idle", "receive", "stepped", "status"} : \E s : Transition(back, s))
  <2>1. CASE MaybeTick
    BY <1>1, <1>4, <2>1, AsideKeeps DEF MaybeTick, Quiet, Host, Outcome, AfterSync, IInv, Typed
  <2>2. CASE Receive
    BY <1>1, <1>4, <2>2, RaiseKeeps DEF Receive, Host, Outcome
  <2>3. QED
    BY <1>1, <1>4, <2>1, <2>2 DEF Campaign, Propose
<1>5. QED
  BY <1>2, <1>3, <1>4

-----------------------------------------------------------------------------
(* discharge.                                                              *)

\* Until the records are synced.
LEMMA PersistKeeps ==
  ASSUME IInv, Write \/ Sync \/ JournalFails
  PROVE  IInv'
<1>1. /\ Len(records) \in Nat
      /\ node' = [batch |-> node'.batch, decided |-> node'.decided, floor |-> node'.floor,
                  last |-> node'.last, sends |-> node'.sends]
      /\ node'.batch.writes = node.batch.writes /\ node'.batch.phase = node.batch.phase
      /\ node'.batch \in Batches(1) /\ UNCHANGED <<call, revealed>>
  BY LenProperties DEF Write, Sync, JournalFails, Copied, Batches, Phase, Host, Outcome, IInv, Typed
<1>2. CASE Write /\ node.batch.writes > 0
  <2>1. records' \in Seq(Nat) /\ Len(records') = Len(records) + 1 /\ synced' = synced
    BY <1>2, Appended DEF Write, IInv
  <2>2. Typed'
    <3>1. synced' \in 0 .. Len(records')
      BY <1>1, <2>1 DEF IInv, Typed
    <3>2. own' = TRUE
      BY <1>2 DEF Write
    <3>3. QED
      BY <1>1, <2>1, <3>1, <3>2 DEF IInv, Typed
  <2>3. at = "write" /\ at' = "sync" /\ node.batch.phase = "Pending"
    BY <1>2 DEF Write, IInv, WritesArePending
  <2>4. QED
    BY <1>1, <1>2, <2>1, <2>2, <2>3 DEF IInv, UnsyncedIsPending, AfterSync, WritesArePending,
       SyncHasWrites, RevealedIsDurable
<1>3. CASE Write /\ ~(node.batch.writes > 0)
  <2>1. at = "write" /\ at' = "confirm" /\ UNCHANGED <<records, synced, own>>
    BY <1>3 DEF Write
  <2>2. Typed'
    BY <1>1, <2>1 DEF IInv, Typed
  <2>3. QED
    BY <1>1, <2>1, <2>2 DEF IInv, UnsyncedIsPending, AfterSync, WritesArePending, SyncHasWrites,
       RevealedIsDurable
<1>4. CASE Sync
  <2>1. synced' = Len(records) /\ records' = records /\ own' = own /\ at' = "confirm"
    BY <1>4 DEF Sync, SyncRecords, Host
  <2>2. Typed'
    BY <1>1, <2>1 DEF IInv, Typed
  <2>3. QED
    BY <1>1, <2>1, <2>2 DEF IInv, Typed, UnsyncedIsPending, WritesArePending, SyncHasWrites,
       RevealedIsDurable
<1>5. CASE JournalFails
  <2>1. at' = "abort" /\ own' = TRUE /\ node.batch.phase = "Pending"
    BY <1>5 DEF JournalFails, IInv, WritesArePending
  <2>2. records' \in Seq(Nat) /\ synced' \in synced .. Len(records')
    <3>1. CASE at = "sync"
      BY <1>5, <3>1, Lost DEF JournalFails, IInv
    <3>2. CASE at # "sync" /\ AppendRecords(<<1>>)
      BY <1>1, <3>2, Appended DEF IInv, Typed
    <3>3. CASE at # "sync" /\ UNCHANGED <<records, synced>>
      BY <1>1, <3>3 DEF IInv, Typed
    <3>4. QED
      BY <1>5, <3>1, <3>2, <3>3 DEF JournalFails
  <2>3. Typed' /\ RevealedIsDurable'
    BY <1>1, <2>1, <2>2, LenProperties DEF IInv, Typed, RevealedIsDurable
  <2>4. QED
    BY <1>1, <2>1, <2>3 DEF IInv, UnsyncedIsPending, AfterSync, WritesArePending, SyncHasWrites
<1>6. QED
  BY <1>2, <1>3, <1>4, <1>5 DEF Write

\* From the confirmation to the floor.
LEMMA DischargeKeeps ==
  ASSUME IInv, Confirm \/ Release \/ ReleaseFails \/ Send \/ Finish \/ AdvanceFloor
  PROVE  IInv'
<1>1. Len(records) \in Nat /\ IsCall(call)
  BY LenProperties DEF IInv, Typed
<1>2. CASE Confirm
  <2>1. /\ node' = [batch |-> node'.batch, decided |-> node'.decided, floor |-> node'.floor,
                    last |-> node'.last, sends |-> node'.sends]
        /\ node'.batch \in Batches(1)
    BY <1>2 DEF Confirm, Confirmed, Batches, Phase, IInv, Typed
  <2>2. own => synced = Len(records)
    BY <1>2 DEF Confirm, IInv, Typed, UnsyncedIsPending, AfterSync
  <2>3. at' \in {"abort", "release"} /\ UNCHANGED <<records, synced, own, revealed, call>>
    BY <1>2 DEF Confirm, Durable, Host, Outcome
  <2>4. QED
    BY <2>1, <2>2, <2>3 DEF IInv, Typed, UnsyncedIsPending, WritesArePending, SyncHasWrites,
       RevealedIsDurable
<1>3. CASE Release \/ ReleaseFails
  <2>1. /\ at \in AfterSync /\ at' \notin {"write", "sync"} /\ node'.batch = node.batch
        /\ node' = [batch |-> node'.batch, decided |-> node'.decided, floor |-> node'.floor,
                    last |-> node'.last, sends |-> node'.sends]
    BY <1>3 DEF Release, ReleaseFails, Releasing, AfterSync, IInv, Typed
  <2>2. UNCHANGED <<Durable, own, revealed>> /\ call' = call /\ at # "down"
    BY <1>3 DEF Release, ReleaseFails, Releasing, Outcome
  <2>3. QED
    BY <1>1, <2>1, <2>2, AsideKeeps
<1>4. CASE Send
  <2>1. own => synced = Len(records)
    BY <1>4 DEF Send, IInv, Typed, UnsyncedIsPending, AfterSync
  <2>2. revealed' \in Nat /\ revealed' <= synced
    BY <1>1, <1>4, <2>1 DEF Send, IInv, Typed, RevealedIsDurable
  <2>3. /\ node'.batch = node.batch /\ UNCHANGED <<records, synced, own, call>> /\ at' = "finish"
        /\ node' = [batch |-> node'.batch, decided |-> node'.decided, floor |-> node'.floor,
                    last |-> node'.last, sends |-> node'.sends]
    BY <1>4 DEF Send, Durable, Host, IInv, Typed
  <2>4. QED
    BY <2>1, <2>2, <2>3 DEF IInv, Typed, UnsyncedIsPending, WritesArePending, SyncHasWrites,
       RevealedIsDurable
<1>5. CASE Finish
  <2>1. CASE Raises(FinishStatus(node.batch, 1))
    BY <1>5, <2>1, RaiseKeeps DEF Finish, Host, Outcome
  <2>2. CASE ~Raises(FinishStatus(node.batch, 1))
    <3>1. node.batch.phase # "Pending"
      BY <2>2 DEF FinishStatus, TokenStatus, Raises
    <3>2. own => synced = Len(records)
      BY <1>5, <3>1 DEF Finish, IInv, Typed, UnsyncedIsPending
    <3>3. /\ node' = [batch |-> node'.batch, decided |-> node'.decided, floor |-> node'.floor,
                      last |-> node'.last, sends |-> node'.sends]
          /\ node'.batch = Finished(node.batch)
      BY <1>5, <2>2 DEF Finish, IInv, Typed
    <3>4. node'.batch \in Batches(1)
      BY <3>3 DEF Finished, Batches, Phase, IInv, Typed
    <3>5. at' \in {"idle", "floor"} /\ IsCall(call') /\ UNCHANGED <<records, synced, own, revealed>>
      BY <1>1, <1>5, <2>2, NoCallIsACall DEF Finish, Raise, Durable, Host, Outcome
    <3>6. QED
      BY <3>2, <3>3, <3>4, <3>5 DEF IInv, Typed, UnsyncedIsPending, WritesArePending, SyncHasWrites,
         RevealedIsDurable
  <2>3. QED
    BY <2>1, <2>2
<1>6. CASE AdvanceFloor
  <2>1. /\ at = "floor" /\ at' = call.back /\ node'.batch = node.batch
        /\ node' = [batch |-> node'.batch, decided |-> node'.decided, floor |-> node'.floor,
                    last |-> node'.last, sends |-> node'.sends]
        /\ UNCHANGED <<Durable, own, revealed>>
    BY <1>6 DEF AdvanceFloor, Host, Outcome, IInv, Typed
  <2>2. IsCall(call')
    BY <1>1, <1>6 DEF AdvanceFloor, IsCall
  <2>3. at' \notin {"write", "sync"} \cup AfterSync
    BY <1>1, <2>1 DEF IsCall, AfterSync
  <2>4. QED
    BY <2>1, <2>2, <2>3, AsideKeeps
<1>7. QED
  BY <1>2, <1>3, <1>4, <1>5, <1>6

-----------------------------------------------------------------------------
LEMMA StepIInv ==
  ASSUME IInv, [Next]_vars
  PROVE  IInv'
<1>1. CASE Next
  BY <1>1, ProcessKeeps, CallKeeps, EngineKeeps, PersistKeeps, DischargeKeeps DEF Next, Run, Discharge
<1>2. CASE UNCHANGED vars
  BY <1>2 DEF vars, IInv, Typed, UnsyncedIsPending, WritesArePending, SyncHasWrites, RevealedIsDurable
<1>3. QED
  BY <1>1, <1>2

\* discharge and close: a process that has records it did not sync is stopped behind
\* the batch they belong to, whatever failed, and every record a message of this
\* participant rests on is durable.
THEOREM SessionInvariant == Spec => []IInv
<1>1. QED
  BY InitIInv, StepIInv, PTL DEF Spec

\* discharge, "a message that left before its record was durable can be reverted by a
\* crash": every record a sent message rests on is durable, for any number of failures,
\* kills and restarts.
THEOREM NothingToldIsLost == Spec => []RevealedIsDurable
<1>1. IInv => RevealedIsDurable
  BY DEF IInv
<1>2. QED
  BY <1>1, SessionInvariant, PTL

-----------------------------------------------------------------------------
(* What was released, and what append reported.                            *)

\* The statements between a transition and the end of its batch.
Discharging == {"write", "sync", "confirm", "release", "send", "finish", "abort"}

Bounded ==
  /\ chosen \in [Slot -> Entry \cup {NoEntry}]
  /\ history \subseteq Slot
  /\ {node.decided, node.last, node.floor, applied, call.slot} \subseteq Nat
  /\ node.decided <= MaxSlot /\ node.last <= node.decided
  /\ applied <= node.last /\ node.floor <= node.last
  /\ refused \subseteq 1 .. node.decided

\* The cluster's choice is known of every slot released or retained.
ChoiceIsKnown == \A s \in Slot : s \in history \/ s <= node.decided => chosen[s] # NoEntry

\* Every slot handed to the host is in the history, unless its record raised.
ReleasedIsRetained == at # "down" => 1 .. node.last \subseteq history \cup refused

\* While a batch is under way it is the handle's; once it is done with, its entries were
\* all handed to the host, or the rest of them refused.
BatchIsDischarged ==
  /\ at \in Discharging => Live(node.batch) /\ node.batch.generation = 1
  /\ at \in {"send", "finish"} => node.last = node.decided
  /\ at = "abort" => node.batch.phase = "Pending" \/ node.last + 1 .. node.decided \subseteq refused
  /\ at \notin Discharging \cup {"down"} /\ ~Live(node.batch) => node.last = node.decided

\* The slot append waits for was admitted by a transition that was discharged, and is
\* not one whose record raised.
ProposalIsAdmitted ==
  /\ call.slot > 0 /\ at \notin Discharging => ~Live(node.batch)
  /\ call.slot > 0 /\ at # "abort" => call.slot \notin refused
  /\ at = "receipt" => call.slot <= node.decided
  /\ at \in {"check", "receipt"} \/ call.then = "check" => call.slot > 0

\* Where the calls on the stack return to.
ReturnsHome ==
  /\ at = "idle" => call.then = "idle"
  /\ at \in Discharging \cup {"floor"} /\ call.back = "idle" => call.then = "idle"
  /\ at = "propose" => call.then = "propose"

HeldInv ==
  /\ Bounded /\ ChoiceIsKnown /\ ReleasedIsRetained /\ BatchIsDischarged
  /\ ProposalIsAdmitted /\ ReturnsHome /\ ReceiptIsTruth

\* The least-number principle, for sets.
LEMMA LeastNat ==
  ASSUME NEW T, T \subseteq Nat, T # {}
  PROVE  \E x \in T : \A y \in T : x <= y
<1> DEFINE R == OpToRel(<, Nat)
<1>1. IsWellFoundedOn(R, Nat)
  BY NatLessThanWellFounded
<1>2. \A x, y \in Nat : x < y => <<x, y>> \in R
  BY DEF OpToRel
<1> HIDE DEF R
<1>3. PICK x \in T : \A y \in T : ~(<<y, x>> \in R)
  BY <1>1, WFMin
<1>4. \A y \in T : ~(y < x)
  BY <1>2, <1>3
<1>5. \A a, b \in Nat : ~(a < b) => b <= a
  OBVIOUS
<1>6. QED
  BY <1>4, <1>5

\* The cursor is there, and has no gap below it.
LEMMA CursorIsRetained ==
  ASSUME history \subseteq Slot
  PROVE  Cursor \in 0 .. MaxSlot /\ 1 .. Cursor \subseteq history
<1> DEFINE T == {c \in Nat : c + 1 \notin history}
<1>1. MaxSlot \in T
  BY SessionAssumption DEF Slot
<1>2. PICK c \in T : \A y \in T : c <= y
  BY <1>1, LeastNat
<1>3. c \in 0 .. MaxSlot /\ c + 1 \notin history
  BY <1>1, <1>2, SessionAssumption
<1>4. ASSUME NEW s \in 1 .. c PROVE s \in history
  <2>1. s - 1 \in Nat /\ ~(c <= s - 1) /\ (s - 1) + 1 = s
    BY <1>3, SessionAssumption
  <2>2. s - 1 \notin T
    BY <1>2, <2>1
  <2>3. QED
    BY <2>1, <2>2
<1>5. \E d \in 0 .. MaxSlot : d + 1 \notin history /\ 1 .. d \subseteq history
  BY <1>3, <1>4
<1>6. QED
  BY <1>5 DEF Cursor

-----------------------------------------------------------------------------
LEMMA InitHeld == Init => HeldInv
<1> SUFFICES ASSUME Init PROVE HeldInv
  OBVIOUS
<1>1. node.decided = 0 /\ node.last = 0 /\ node.floor = 0 /\ applied = 0 /\ call.slot = 0
      /\ call.then = "idle" /\ at = "down"
  BY DEF Init, Fresh, NoCall
<1>2. history = {} /\ refused = {} /\ receipts = {} /\ chosen \in [Slot -> Entry \cup {NoEntry}]
  BY DEF Init
<1>3. MaxSlot \in Nat
  BY SessionAssumption
<1>4. Bounded
  BY <1>1, <1>2, <1>3 DEF Bounded
<1>5. ChoiceIsKnown
  BY <1>1, <1>2, <1>3 DEF ChoiceIsKnown, Slot
<1>6. QED
  BY <1>1, <1>2, <1>4, <1>5 DEF HeldInv, ReleasedIsRetained, BatchIsDischarged, Discharging,
     ProposalIsAdmitted, ReturnsHome, ReceiptIsTruth

\* A step that neither runs the engine nor discharges a batch only changes where the
\* thread is and what is on its stack.
LEMMA AsideHolds ==
  ASSUME HeldInv, UNCHANGED <<chosen, node, applied, history, refused, receipts>>,
         at \notin Discharging \cup {"down"}, at' \notin Discharging,
         call'.slot \in {0, call.slot}, at' = "receipt" => call.slot <= node.decided,
         at' \in {"check", "receipt"} \/ call'.then = "check" => call'.slot > 0,
         ReturnsHome'
  PROVE  HeldInv'
<1>1. Bounded' /\ ChoiceIsKnown' /\ ReceiptIsTruth'
  BY DEF HeldInv, Bounded, ChoiceIsKnown, ReceiptIsTruth
<1>2. ReleasedIsRetained' /\ BatchIsDischarged'
  BY DEF HeldInv, ReleasedIsRetained, BatchIsDischarged, Discharging
<1>3. ProposalIsAdmitted'
  BY DEF HeldInv, Bounded, ProposalIsAdmitted, Discharging
<1>4. QED
  BY <1>1, <1>2, <1>3 DEF HeldInv

LEMMA RaiseHolds ==
  ASSUME HeldInv, UNCHANGED <<chosen, node, applied, history, refused, receipts>>,
         at \notin Discharging \cup {"down"}, Raise
  PROVE  HeldInv'
<1>1. at' = "idle" /\ call'.slot = 0 /\ call'.then = "idle"
  BY DEF Raise, NoCall
<1>2. QED
  BY <1>1, AsideHolds DEF ReturnsHome, Discharging

\* A transition starts behind a batch that was discharged.
LEMMA TransitionHolds ==
  ASSUME IInv, HeldInv, NEW back \in {"idle", "receive", "stepped", "status"}, NEW s \in Nat,
         at \notin Discharging \cup {"down"}, Transition(back, s),
         s > 0 => s \notin refused, call.then = "check" => s > 0,
         back = "idle" => call.then = "idle"
  PROVE  HeldInv'
<1>1. ~Live(node.batch) /\ node.last = node.decided
  BY DEF Transition, Blocked, Raises, OpenStatus, HeldInv, BatchIsDischarged
<1>2. PICK w \in 0 .. 1, k \in 0 .. MaxRelease, sends \in BOOLEAN :
        /\ node' = [node EXCEPT !.batch = [Begun(node.batch, w) EXCEPT !.generation = 1],
                                !.decided = node.decided + k, !.last = node.last, !.sends = sends]
        /\ node.decided + k <= MaxSlot
        /\ chosen' \in {f \in [Slot -> Entry \cup {NoEntry}] :
             \A n \in Slot :
               IF chosen[n] = NoEntry /\ n \in node.decided + 1 .. node.decided + k
               THEN f[n] # NoEntry ELSE f[n] = chosen[n]}
  BY DEF Transition
<1>3. /\ node'.batch = [Begun(node.batch, w) EXCEPT !.generation = 1]
      /\ node'.decided = node.decided + k /\ node'.last = node.decided /\ node'.floor = node.floor
  BY <1>1, <1>2 DEF IInv, Typed
<1>4. Live(node'.batch) /\ node'.batch.generation = 1
  BY <1>3 DEF Begun, Live
<1>5. /\ at' = "write" /\ call'.slot = s /\ call'.back = back /\ call'.then = call.then
      /\ UNCHANGED <<applied, history, refused, receipts>>
  BY DEF Transition, Host, Outcome, IInv, Typed, IsCall
<1>6. /\ node.decided \in Nat /\ k \in Nat /\ MaxSlot \in Nat /\ refused \subseteq 1 .. node.decided
      /\ node.last \in Nat /\ node.floor \in Nat /\ applied \in Nat
      /\ applied <= node.last /\ node.floor <= node.last /\ history \subseteq Slot
  BY SessionAssumption DEF HeldInv, Bounded
<1>7. /\ chosen' \in [Slot -> Entry \cup {NoEntry}]
      /\ \A n \in Slot : chosen[n] # NoEntry => chosen'[n] = chosen[n]
      /\ \A n \in node.decided + 1 .. node.decided + k : n \in Slot => chosen'[n] # NoEntry
  BY <1>2
<1>8. Bounded'
  BY <1>1, <1>2, <1>3, <1>5, <1>6, <1>7 DEF Bounded
<1>9. ChoiceIsKnown'
  <2>1. ASSUME NEW n \in Slot, n \in history \/ n <= node.decided + k PROVE chosen'[n] # NoEntry
    <3>1. CASE n \in history \/ n <= node.decided
      BY <1>7, <3>1 DEF HeldInv, ChoiceIsKnown
    <3>2. CASE n \in node.decided + 1 .. node.decided + k
      BY <1>7, <3>2
    <3>3. QED
      BY <1>6, <2>1, <3>1, <3>2 DEF Slot
  <2>2. QED
    BY <1>3, <1>5, <2>1 DEF ChoiceIsKnown
<1>10. ReleasedIsRetained'
  BY <1>1, <1>3, <1>5 DEF HeldInv, ReleasedIsRetained
<1>11. BatchIsDischarged'
  BY <1>4, <1>5 DEF BatchIsDischarged, Discharging
<1>12. ProposalIsAdmitted'
  BY <1>5 DEF ProposalIsAdmitted, Discharging
<1>13. ReturnsHome'
  BY <1>5 DEF ReturnsHome, Discharging
<1>14. ReceiptIsTruth'
  BY <1>5, <1>6, <1>7 DEF HeldInv, ReceiptIsTruth, ChoiceIsKnown
<1>15. QED
  BY <1>8, <1>9, <1>10, <1>11, <1>12, <1>13, <1>14 DEF HeldInv

\* The calls that run a transition.
LEMMA EngineHolds ==
  ASSUME IInv, HeldInv, Campaign \/ MaybeTick \/ Receive \/ Propose
  PROVE  HeldInv'
<1>1. /\ at \notin Discharging \cup {"down"} /\ call.slot \in Nat
      /\ call.slot > 0 => call.slot \notin refused
      /\ call.then = "check" => call.slot > 0
  BY DEF Campaign, MaybeTick, Receive, Propose, Discharging, HeldInv, Bounded, ProposalIsAdmitted
<1>2. CASE Raise /\ UNCHANGED <<chosen, node, Host, Outcome>>
  BY <1>1, <1>2, RaiseHolds DEF Host, Outcome
<1>3. Refused => Raise /\ UNCHANGED <<chosen, node, Host, Outcome>>
  BY DEF Refused
<1>4. CASE Campaign
  <2>1. call.then = "idle"
    BY <1>4 DEF Campaign, HeldInv, ReturnsHome
  <2>2. QED
    BY <1>1, <1>2, <1>3, <1>4, <2>1, TransitionHolds DEF Campaign
<1>5. CASE MaybeTick
  <2>1. CASE at' = "receive" /\ Quiet /\ UNCHANGED call
    BY <1>1, <2>1, AsideHolds DEF Quiet, Host, Outcome, HeldInv, ReturnsHome, Discharging, ProposalIsAdmitted
  <2>2. CASE Transition("receive", call.slot)
    BY <1>1, <2>2, TransitionHolds
  <2>3. QED
    BY <1>2, <1>3, <1>5, <2>1, <2>2 DEF MaybeTick
<1>6. CASE Receive
  <2>1. CASE Transition("stepped", call.slot)
    BY <1>1, <2>1, TransitionHolds
  <2>2. QED
    BY <1>2, <1>3, <1>6, <2>1 DEF Receive
<1>7. CASE Propose
  <2>1. ASSUME NEW slot \in {0} \cup (node.decided + 1 .. MaxSlot), Transition("status", slot)
        PROVE  HeldInv'
    <3>1. call.then = "propose"
      BY <1>7 DEF Propose, HeldInv, ReturnsHome
    <3>2. slot \in Nat /\ (slot > 0 => slot \notin refused)
      BY SessionAssumption DEF HeldInv, Bounded
    <3>3. QED
      BY <1>1, <2>1, <3>1, <3>2, TransitionHolds
  <2>2. QED
    BY <1>2, <1>3, <1>7, <2>1 DEF Propose
<1>8. QED
  BY <1>4, <1>5, <1>6, <1>7

\* poll and append between their transitions.
LEMMA CallHolds ==
  ASSUME IInv, HeldInv, CallPoll \/ CallAppend \/ Stepped \/ NothingReceived \/ Status \/ Check \/ Elapse
  PROVE  HeldInv'
<1>1. /\ at \notin Discharging \cup {"down"} /\ call.slot \in Nat
      /\ UNCHANGED <<chosen, node, applied, history, refused, receipts>>
  BY DEF CallPoll, CallAppend, Stepped, NothingReceived, Status, Check, Elapse, Discharging, Quiet, Host,
     Outcome, HeldInv, Bounded
<1>2. /\ IsCall(call) /\ (at \in {"check", "receipt"} \/ call.then = "check" => call.slot > 0)
      /\ at = "idle" => call.then = "idle"
      /\ at = "propose" => call.then = "propose"
  BY DEF IInv, Typed, HeldInv, ProposalIsAdmitted, ReturnsHome
<1>3. CASE CallPoll \/ CallAppend
  <2>1. call'.slot = 0 /\ call'.then \in {"idle", "propose"} /\ at' = "loop"
    BY <1>3 DEF CallPoll, CallAppend, NoCall
  <2>2. QED
    BY <1>1, <2>1, AsideHolds DEF ReturnsHome, Discharging
<1>4. CASE Stepped \/ NothingReceived
  <2>1. /\ call'.slot = call.slot /\ call'.then = call.then /\ at' \in {call.then, "loop"}
    BY <1>2, <1>4 DEF Stepped, NothingReceived, Later, IsCall
  <2>2. ReturnsHome' /\ at' \notin Discharging \cup {"receipt"}
    BY <1>2, <2>1 DEF ReturnsHome, IsCall, Discharging
  <2>3. QED
    BY <1>1, <1>2, <2>1, <2>2, AsideHolds
<1>5. CASE Elapse
  <2>1. /\ call'.slot = call.slot /\ call'.then = call.then /\ at' = at
        /\ at \in {"loop", "receive", "stepped", "check"}
    BY <1>2, <1>5 DEF Elapse, Later, IsCall
  <2>2. QED
    BY <1>1, <1>2, <2>1, AsideHolds DEF ReturnsHome, Discharging
<1>6. CASE Status
  <2>1. CASE Raise
    BY <1>1, <2>1, RaiseHolds
  <2>2. CASE call.slot # 0 /\ at' = "check" /\ UNCHANGED call
    BY <1>1, <1>2, <2>2, AsideHolds DEF ReturnsHome, Discharging
  <2>3. QED
    BY <1>6, <2>1, <2>2 DEF Status
<1>7. CASE Check
  <2>1. CASE Raise
    BY <1>1, <2>1, RaiseHolds
  <2>2. CASE node.decided >= call.slot /\ at' = "receipt" /\ UNCHANGED call
    <3>1. call.slot <= node.decided
      BY <1>1, <2>2 DEF HeldInv, Bounded
    <3>2. QED
      BY <1>1, <1>2, <1>7, <2>2, <3>1, AsideHolds DEF Check, ReturnsHome, Discharging
  <2>3. CASE at' = "loop" /\ call'.then = "check" /\ call'.slot = call.slot
    BY <1>1, <1>2, <1>7, <2>3, AsideHolds DEF Check, ReturnsHome, Discharging
  <2>4. QED
    BY <1>2, <1>7, <2>1, <2>2, <2>3 DEF Check, IsCall
<1>8. QED
  BY <1>3, <1>4, <1>5, <1>6, <1>7

\* The receipt: the slot was handed to the host, and its record did not raise.
LEMMA ReceiptHolds ==
  ASSUME IInv, HeldInv, Receipt
  PROVE  HeldInv'
<1>1. /\ at = "receipt" /\ call.slot > 0 /\ call.slot <= node.decided /\ call.slot \in Nat
      /\ call.slot \notin refused /\ ~Live(node.batch) /\ node.last = node.decided
      /\ node.decided <= MaxSlot /\ node.decided \in Nat
      /\ UNCHANGED <<chosen, node, applied, history, refused>>
  BY DEF Receipt, Host, HeldInv, Bounded, ProposalIsAdmitted, BatchIsDischarged, Discharging
<1>2. call.slot \in history
  <2>1. call.slot \in 1 .. node.last
    BY <1>1
  <2>2. QED
    BY <1>1, <2>1 DEF HeldInv, ReleasedIsRetained
<1>3. at' = "idle" /\ call'.slot = 0 /\ call'.then = "idle"
  BY DEF Receipt, Raise, NoCall
<1>4. ReceiptIsTruth'
  <2>1. receipts' = receipts \/ (receipts' = receipts \cup {<<call.slot, call.value>>} /\ chosen[call.slot] = call.value)
    BY <1>2 DEF Receipt, ReturnsReceipt, EntryAt
  <2>2. QED
    BY <1>1, <1>2, <2>1 DEF HeldInv, ReceiptIsTruth
<1>5. Bounded' /\ ChoiceIsKnown' /\ ReleasedIsRetained' /\ BatchIsDischarged'
  BY <1>1, <1>3 DEF HeldInv, Bounded, ChoiceIsKnown, ReleasedIsRetained, BatchIsDischarged, Discharging
<1>6. ProposalIsAdmitted' /\ ReturnsHome'
  BY <1>3 DEF ProposalIsAdmitted, ReturnsHome, Discharging
<1>7. QED
  BY <1>4, <1>5, <1>6 DEF HeldInv

\* The process starts, closes or dies.
LEMMA ProcessHolds ==
  ASSUME IInv, HeldInv, Start \/ Close \/ Crash
  PROVE  HeldInv'
<1>0. /\ chosen' = chosen /\ receipts' = receipts /\ history \subseteq Slot
      /\ chosen \in [Slot -> Entry \cup {NoEntry}]
  BY DEF Start, Close, Crash, Outcome, HeldInv, Bounded
<1>1. CASE Start
  <2> DEFINE floor == IF records = <<>> THEN 0 ELSE Cursor
  <2>1. floor \in Nat /\ floor <= MaxSlot /\ 1 .. floor \subseteq history
    BY <1>0, CursorIsRetained, SessionAssumption
  <2>2. /\ node' = [batch |-> NoBatch, decided |-> floor, floor |-> floor, last |-> floor, sends |-> FALSE]
        /\ applied' = floor /\ at' = "idle" /\ call' = NoCall /\ refused' = {} /\ history' = history
    BY <1>1 DEF Start, Fresh
  <2> HIDE DEF floor
  <2>3. /\ node'.batch = NoBatch /\ node'.decided = floor /\ node'.last = floor /\ node'.floor = floor
        /\ call'.slot = 0 /\ call'.then = "idle"
    BY <2>2 DEF NoCall
  <2>4. Bounded'
    BY <1>0, <2>1, <2>2, <2>3 DEF Bounded
  <2>5. ChoiceIsKnown'
    BY <1>0, <2>1, <2>2, <2>3, SessionAssumption DEF HeldInv, ChoiceIsKnown, Slot
  <2>6. ReleasedIsRetained' /\ BatchIsDischarged'
    BY <2>1, <2>2, <2>3 DEF ReleasedIsRetained, BatchIsDischarged, Discharging
  <2>7. ProposalIsAdmitted' /\ ReturnsHome' /\ ReceiptIsTruth'
    BY <1>0, <2>2, <2>3 DEF HeldInv, ProposalIsAdmitted, ReturnsHome, ReceiptIsTruth, Discharging
  <2>8. QED
    BY <2>4, <2>5, <2>6, <2>7 DEF HeldInv
<1>2. CASE Close
  <2>1. at = "idle" /\ at' = "down" /\ UNCHANGED <<node, call, applied, history, refused>>
    BY <1>2 DEF Close, Host
  <2>2. QED
    BY <1>0, <2>1 DEF HeldInv, Bounded, ChoiceIsKnown, ReleasedIsRetained, BatchIsDischarged,
       ProposalIsAdmitted, ReturnsHome, ReceiptIsTruth, Discharging
<1>3. CASE Crash
  <2>1. /\ at' = "down" /\ call'.slot = 0 /\ call'.then = "idle" /\ UNCHANGED <<node, applied, refused>>
        /\ history' = history \/ (history' = history \cup {node.last + 1} /\ node.last < node.decided)
    BY <1>3 DEF Crash, Releasing, NoCall
  <2>2. /\ node.last \in Nat /\ node.decided \in Nat /\ MaxSlot \in Nat /\ node.decided <= MaxSlot
    BY SessionAssumption DEF HeldInv, Bounded
  <2>3. /\ history \subseteq history' /\ history' \subseteq Slot
        /\ \A n \in history' : n \in history \/ n <= node.decided
    <3>1. CASE history' = history
      BY <1>0, <3>1
    <3>2. CASE history' = history \cup {node.last + 1} /\ node.last < node.decided
      <4>1. node.last + 1 \in Slot /\ node.last + 1 <= node.decided
        BY <2>2, <3>2 DEF Slot
      <4>2. QED
        BY <1>0, <3>2, <4>1
    <3>3. QED
      BY <2>1, <3>1, <3>2
  <2>4. Bounded'
    BY <1>0, <2>1, <2>3 DEF HeldInv, Bounded
  <2>5. ChoiceIsKnown' /\ ReceiptIsTruth'
    BY <1>0, <2>1, <2>3 DEF HeldInv, ChoiceIsKnown, ReceiptIsTruth
  <2>6. QED
    BY <2>1, <2>4, <2>5 DEF HeldInv, ReleasedIsRetained, BatchIsDischarged, ProposalIsAdmitted, ReturnsHome,
       Discharging
<1>4. QED
  BY <1>1, <1>2, <1>3

\* Persisting and confirming a batch.
LEMMA PersistHolds ==
  ASSUME IInv, HeldInv, Write \/ Sync \/ JournalFails \/ Confirm \/ Send
  PROVE  HeldInv'
<1>1. /\ node'.decided = node.decided /\ node'.last = node.last /\ node'.floor = node.floor
      /\ UNCHANGED <<chosen, call, applied, history, refused, receipts>>
      /\ at \in Discharging /\ at' \in Discharging
  BY DEF Write, Sync, JournalFails, Confirm, Send, Host, Outcome, IInv, Typed, Discharging
<1>2. Live(node.batch) /\ node.batch.generation = 1 /\ node.batch \in Batches(1)
  BY <1>1 DEF IInv, Typed, HeldInv, BatchIsDischarged
<1>3. Live(node'.batch) /\ node'.batch.generation = 1
  <2>1. CASE Write \/ JournalFails
    BY <1>2, <2>1 DEF Write, JournalFails, Copied, Batches, Live, IInv, Typed
  <2>2. CASE Sync \/ Send
    BY <1>2, <2>2 DEF Sync, Send, IInv, Typed
  <2>3. CASE Confirm
    BY <1>2, <2>3 DEF Confirm, Confirmed, Batches, Live, IInv, Typed
  <2>4. QED
    BY <2>1, <2>2, <2>3
<1>4. at' = "abort" => node'.batch.phase = "Pending"
  <2>1. CASE JournalFails
    BY <1>2, <2>1 DEF JournalFails, Copied, Batches, IInv, Typed, WritesArePending
  <2>2. CASE Confirm
    BY <1>2, <2>2 DEF Confirm, ConfirmStatus, ReadStatus, TokenStatus, Raises, Live
  <2>3. QED
    BY <2>1, <2>2 DEF Write, Sync, Send
<1>5. at' \in {"send", "finish"} => node.last = node.decided
  BY DEF Write, Sync, JournalFails, Confirm, Send, HeldInv, BatchIsDischarged
<1>6. BatchIsDischarged'
  BY <1>1, <1>3, <1>4, <1>5 DEF BatchIsDischarged
<1>7. Bounded' /\ ChoiceIsKnown' /\ ReceiptIsTruth'
  BY <1>1 DEF HeldInv, Bounded, ChoiceIsKnown, ReceiptIsTruth
<1>8. ReleasedIsRetained'
  BY <1>1 DEF HeldInv, ReleasedIsRetained, Discharging
<1>9. ProposalIsAdmitted' /\ ReturnsHome'
  <2>1. at # "abort"
    BY DEF Write, Sync, JournalFails, Confirm, Send
  <2>2. QED
    BY <1>1, <2>1 DEF HeldInv, ProposalIsAdmitted, ReturnsHome, Discharging
<1>10. QED
  BY <1>6, <1>7, <1>8, <1>9 DEF HeldInv

\* Releasing entry by entry, and failing to.
LEMMA ReleaseHolds ==
  ASSUME IInv, HeldInv, Release \/ ReleaseFails
  PROVE  HeldInv'
<1>1. /\ at = "release" /\ UNCHANGED <<chosen, call, receipts>>
      /\ node'.decided = node.decided /\ node'.floor = node.floor /\ node'.batch = node.batch
  BY DEF Release, ReleaseFails, Releasing, Outcome, IInv, Typed
<1>2. /\ node.last \in Nat /\ node.decided \in Nat /\ node.floor \in Nat /\ applied \in Nat /\ MaxSlot \in Nat
      /\ node.last <= node.decided /\ node.decided <= MaxSlot /\ history \subseteq Slot
      /\ applied <= node.last /\ node.floor <= node.last /\ refused \subseteq 1 .. node.decided
      /\ chosen \in [Slot -> Entry \cup {NoEntry}] /\ call.slot \in Nat
  BY SessionAssumption DEF HeldInv, Bounded
<1>3. Live(node.batch) /\ node.batch.generation = 1 /\ 1 .. node.last \subseteq history \cup refused
  BY <1>1 DEF HeldInv, BatchIsDischarged, ReleasedIsRetained, Discharging
<1>4. CASE Release /\ Releasing
  <2>1. /\ history' = history \cup {node.last + 1} /\ applied' = node.last + 1 /\ node'.last = node.last + 1
        /\ at' = "release" /\ refused' = refused /\ node.last < node.decided
    BY <1>1, <1>4 DEF Release, Releasing, IInv, Typed
  <2>2. Bounded'
    <3>1. node.last + 1 \in Slot /\ node.last + 1 <= node.decided /\ node.last + 1 \in Nat
          /\ node.floor <= node.last + 1
      BY <1>2, <2>1 DEF Slot
    <3>2. history' \subseteq Slot
      BY <1>2, <2>1, <3>1
    <3>3. QED
      BY <1>1, <1>2, <2>1, <3>1, <3>2 DEF Bounded
  <2>3. ChoiceIsKnown'
    BY <1>1, <1>2, <2>1 DEF HeldInv, ChoiceIsKnown
  <2>4. ReleasedIsRetained'
    <3>1. ASSUME NEW n \in 1 .. node.last + 1 PROVE n \in history' \cup refused'
      <4>1. n \in 1 .. node.last \/ n = node.last + 1
        BY <1>2
      <4>2. QED
        BY <1>3, <2>1, <4>1
    <3>2. QED
      BY <2>1, <3>1 DEF ReleasedIsRetained
  <2>5. BatchIsDischarged' /\ ProposalIsAdmitted' /\ ReturnsHome' /\ ReceiptIsTruth'
    BY <1>1, <1>3, <2>1 DEF HeldInv, BatchIsDischarged, ProposalIsAdmitted, ReturnsHome, ReceiptIsTruth, Discharging
  <2>6. QED
    BY <2>2, <2>3, <2>4, <2>5 DEF HeldInv
<1>5. CASE Release /\ ~Releasing
  <2>1. at' = "send" /\ UNCHANGED <<node, history, applied, refused>> /\ node.last = node.decided
    BY <1>1, <1>2, <1>5 DEF Release, Releasing
  <2>2. QED
    BY <1>1, <1>3, <2>1 DEF HeldInv, Bounded, ChoiceIsKnown, ReleasedIsRetained, BatchIsDischarged,
       ProposalIsAdmitted, ReturnsHome, ReceiptIsTruth, Discharging
<1>6. CASE ReleaseFails
  <2>1. /\ at' = "abort" /\ UNCHANGED <<node, history, applied>>
        /\ refused' = refused \cup (node.last + 1 .. node.decided)
    BY <1>6 DEF ReleaseFails
  <2>2. Bounded'
    <3>1. refused' \subseteq 1 .. node.decided
      <4>1. \A n \in node.last + 1 .. node.decided : n \in 1 .. node.decided
        BY <1>2
      <4>2. QED
        BY <1>2, <2>1, <4>1
    <3>2. QED
      BY <1>1, <1>2, <2>1, <3>1 DEF Bounded
  <2>3. ReleasedIsRetained' /\ BatchIsDischarged'
    BY <1>3, <2>1 DEF ReleasedIsRetained, BatchIsDischarged, Discharging
  <2>4. ChoiceIsKnown' /\ ReceiptIsTruth'
    BY <1>1, <2>1 DEF HeldInv, ChoiceIsKnown, ReceiptIsTruth
  <2>5. ProposalIsAdmitted' /\ ReturnsHome'
    BY <1>1, <2>1 DEF HeldInv, ProposalIsAdmitted, ReturnsHome, Discharging
  <2>6. QED
    BY <2>2, <2>3, <2>4, <2>5 DEF HeldInv
<1>7. QED
  BY <1>4, <1>5, <1>6

\* The finally clause, and the floor.
LEMMA FinishHolds ==
  ASSUME IInv, HeldInv, Finish \/ AdvanceFloor
  PROVE  HeldInv'
<1>1. UNCHANGED <<chosen, applied, history, refused, receipts>>
  BY DEF Finish, AdvanceFloor, Host, Outcome
<1>2. /\ node.last \in Nat /\ node.decided \in Nat /\ node.floor \in Nat /\ applied \in Nat
      /\ node.last <= node.decided /\ node.decided <= MaxSlot
      /\ applied <= node.last /\ node.floor <= node.last /\ call.slot \in Nat
      /\ IsCall(call) /\ node.batch \in Batches(1)
  BY DEF HeldInv, Bounded, IInv, Typed
<1>3. CASE Finish /\ Raises(FinishStatus(node.batch, 1))
  <2>1. /\ node' = node /\ at' = "idle" /\ call'.slot = 0 /\ call'.then = "idle" /\ at \in Discharging
    BY <1>3 DEF Finish, Raise, NoCall, Discharging
  <2>2. Live(node.batch) /\ 1 .. node.last \subseteq history \cup refused
    BY <2>1 DEF HeldInv, BatchIsDischarged, ReleasedIsRetained, Discharging
  <2>3. Bounded' /\ ChoiceIsKnown' /\ ReceiptIsTruth'
    BY <1>1, <2>1 DEF HeldInv, Bounded, ChoiceIsKnown, ReceiptIsTruth
  <2>4. QED
    BY <1>1, <2>1, <2>2, <2>3 DEF HeldInv, ReleasedIsRetained, BatchIsDischarged, ProposalIsAdmitted, ReturnsHome,
       Discharging
<1>4. CASE Finish /\ ~Raises(FinishStatus(node.batch, 1))
  <2>1. /\ node'.batch = Finished(node.batch) /\ node'.last = node.decided /\ node'.decided = node.decided
        /\ node'.floor = node.floor
        /\ \/ at = "abort" /\ Raise
           \/ at = "finish" /\ at' = "floor" /\ call' = call
    BY <1>4 DEF Finish, IInv, Typed
  <2>2. ~Live(node'.batch)
    BY <1>2, <2>1 DEF Finished, Live, Batches
  <2>3. node.batch.phase # "Pending"
    BY <1>4 DEF FinishStatus, TokenStatus, Raises
  <2>4. 1 .. node.decided \subseteq history \cup refused
    <3>1. 1 .. node.last \subseteq history \cup refused
      BY <2>1 DEF HeldInv, ReleasedIsRetained
    <3>2. node.last = node.decided \/ node.last + 1 .. node.decided \subseteq refused
      BY <2>1, <2>3 DEF HeldInv, BatchIsDischarged
    <3>3. ASSUME NEW n \in 1 .. node.decided PROVE n \in 1 .. node.last \/ n \in node.last + 1 .. node.decided
      BY <1>2
    <3>4. QED
      BY <3>1, <3>2, <3>3
  <2>5. Bounded' /\ ChoiceIsKnown' /\ ReceiptIsTruth'
    <3>1. call'.slot \in Nat
      BY <1>2, <2>1 DEF Raise, NoCall
    <3>2. Bounded'
      BY <1>1, <1>2, <2>1, <3>1 DEF HeldInv, Bounded
    <3>3. QED
      BY <1>1, <2>1, <3>2 DEF HeldInv, ChoiceIsKnown, ReceiptIsTruth
  <2>6. ReleasedIsRetained'
    BY <1>1, <2>1, <2>4 DEF ReleasedIsRetained
  <2>7. at' \in {"idle", "floor"} /\ BatchIsDischarged'
    BY <2>1, <2>2 DEF BatchIsDischarged, Raise, Discharging
  <2>8. CASE at = "abort" /\ Raise
    BY <2>5, <2>6, <2>7, <2>8 DEF HeldInv, ProposalIsAdmitted, ReturnsHome, Raise, NoCall, Discharging
  <2>9. CASE at = "finish" /\ at' = "floor" /\ call' = call
    <3>1. ProposalIsAdmitted' /\ ReturnsHome'
      BY <1>1, <2>2, <2>9 DEF HeldInv, ProposalIsAdmitted, ReturnsHome, Discharging
    <3>2. QED
      BY <2>5, <2>6, <2>7, <3>1 DEF HeldInv
  <2>10. QED
    BY <2>1, <2>8, <2>9
<1>5. CASE AdvanceFloor
  <2>1. /\ at = "floor" /\ at' = call.back /\ call'.slot = call.slot /\ call'.then = call.then
        /\ node'.batch = node.batch /\ node'.decided = node.decided /\ node'.last = node.last
        /\ node'.floor \in {node.floor, applied}
    BY <1>2, <1>5 DEF AdvanceFloor, IInv, Typed, IsCall
  <2>2. at' \in {"idle", "receive", "stepped", "status"}
    BY <1>2, <2>1 DEF IsCall
  <2>3. Bounded'
    BY <1>1, <1>2, <2>1 DEF HeldInv, Bounded
  <2>4. ChoiceIsKnown' /\ ReceiptIsTruth'
    BY <1>1, <2>1 DEF HeldInv, ChoiceIsKnown, ReceiptIsTruth
  <2>5. ReleasedIsRetained' /\ BatchIsDischarged'
    BY <1>1, <2>1, <2>2 DEF HeldInv, ReleasedIsRetained, BatchIsDischarged, Discharging
  <2>6. ProposalIsAdmitted' /\ ReturnsHome'
    BY <1>1, <2>1, <2>2 DEF HeldInv, ProposalIsAdmitted, ReturnsHome, Discharging
  <2>7. QED
    BY <2>3, <2>4, <2>5, <2>6 DEF HeldInv
<1>6. QED
  BY <1>3, <1>4, <1>5

LEMMA StepHeld ==
  ASSUME IInv, HeldInv, [Next]_vars
  PROVE  HeldInv'
<1>1. CASE Next
  BY <1>1, ProcessHolds, CallHolds, ReceiptHolds, EngineHolds, PersistHolds, ReleaseHolds, FinishHolds
  DEF Next, Run, Discharge
<1>2. CASE UNCHANGED vars
  BY <1>2 DEF vars, HeldInv, Bounded, ChoiceIsKnown, ReleasedIsRetained, BatchIsDischarged,
     ProposalIsAdmitted, ReturnsHome, ReceiptIsTruth
<1>3. QED
  BY <1>1, <1>2

\* _release, discharge and append: every released entry is retained unless its record
\* raised, and a batch whose entries were not all handed over blocks the node.
THEOREM ReleaseInvariant == Spec => []HeldInv
<1>1. QED
  BY InitHeld, StepHeld, SessionInvariant, PTL DEF Spec

\* _release and __init__: whatever failed, was killed or restarted, every entry this
\* member released can be read, from the history or from the window, except an entry
\* whose record raised in this process.
THEOREM ThePrefixIsAlwaysHeld == Spec => []PrefixIsHeld
<1>1. HeldInv => PrefixIsHeld
  <2>1. SUFFICES ASSUME HeldInv, at # "down", NEW s \in (1 .. node.decided) \ refused
                 PROVE  EntryAt(s) # NoEntry
    BY DEF PrefixIsHeld
  <2>2. node.decided \in Nat /\ node.decided <= MaxSlot /\ node.last \in Nat /\ node.floor \in Nat
        /\ node.floor <= node.last
    BY <2>1 DEF HeldInv, Bounded
  <2>3. s \in Slot /\ s <= node.decided
    BY <2>2, SessionAssumption DEF Slot
  <2>4. chosen[s] # NoEntry
    BY <2>1, <2>3 DEF HeldInv, ChoiceIsKnown
  <2>5. s \in history \/ s > node.floor
    BY <2>1, <2>2, <2>3 DEF HeldInv, ReleasedIsRetained
  <2>6. QED
    BY <2>4, <2>5 DEF EntryAt
<1>2. QED
  BY <1>1, ReleaseInvariant, PTL

\* append, "Reporting success here would be a lie": a receipt names the entry the cluster
\* chose for its slot, for good, and the entry is retained, whatever fails afterwards.
THEOREM AReceiptIsAlwaysTrue == Spec => []ReceiptIsTruth
<1>1. HeldInv => ReceiptIsTruth
  BY DEF HeldInv
<1>2. QED
  BY <1>1, ReleaseInvariant, PTL
===============================================================================
