------------------------------- MODULE Session -------------------------------
(***************************************************************************)
(* One participant as its application sees it (session.py): append, poll,  *)
(* campaign and close over the retained batch (Batch), a journal (Journal) *)
(* and a history, with failing storage, killed processes and power losses. *)
(*                                                                         *)
(* One thread runs; "at" is the statement it is about to execute.  What a  *)
(* transition of the engine produces -- records, released entries, a       *)
(* message -- is any batch the protocol allows here: the next slots in     *)
(* order, within the window above the memory floor, each slot with the one *)
(* entry the cluster chose for it.  The journal's records are only         *)
(* counted.  A token is always the current one, so generations stay at 1.  *)
(***************************************************************************)
EXTENDS Batch, Journal

CONSTANTS
  Mine,         \* commands this application submits
  Foreign,      \* other entries a slot may hold
  NoEntry,      \* no entry
  MaxSlot,      \* bound: slots
  Window,       \* released entries the node can hold above its memory floor
  MaxRelease,   \* bound: entries one transition releases
  Patience,     \* an append's timeout, in ticks
  MaxRecords,   \* bound: records in the journal
  MaxFrames,    \* bound: frames that arrive
  MaxFailures   \* bound: storage failures, kills and power losses

ASSUME SessionAssumption ==
  /\ Mine \cap Foreign = {} /\ NoEntry \notin Mine \cup Foreign
  /\ {MaxSlot, Patience, MaxRecords, MaxFrames, MaxFailures} \subseteq Nat
  /\ {Window, MaxRelease} \subseteq Nat \ {0}

VARIABLES
  chosen,    \* per slot, the entry the cluster chose, once this member learned it
  node,      \* the native handle: batch, decided through, memory floor; the batch's
             \* last released entry (last) and whether it holds messages (sends)
  at,        \* the next statement, or "idle", or "down"
  call,      \* the calls on the stack, see Calls
  due,       \* a tick interval elapsed since the last tick
  arrived,   \* frames received
  applied,   \* Session._applied_through
  history,   \* slots retained, with their own entries
  refused,   \* slots whose record raised in this process
  own,       \* this process appended to the journal
  revealed,  \* how many journal records the messages sent so far rest on
  receipts,  \* slots and entries of the receipts returned
  failures

vars == <<records, synced, chosen, node, at, call, due, arrived, applied,
          history, refused, own, revealed, receipts, failures>>

Slot == 1 .. MaxSlot
Entry == Mine \cup Foreign

\* then: where poll returns to; back: where discharge returns to; wait and drain: what
\* is left of poll's timeout, and whether it was zero; left: of append's.
Calls ==
  [then : {"idle", "propose", "check"}, back : {"idle", "receive", "stepped", "status"},
   wait : {0, 1}, drain : BOOLEAN, left : 0 .. Patience,
   value : Mine \cup {NoEntry}, slot : 0 .. MaxSlot]

NoCall == [then |-> "idle", back |-> "idle", wait |-> 0, drain |-> TRUE, left |-> 0,
           value |-> NoEntry, slot |-> 0]

Fresh(floor) == [batch |-> NoBatch, decided |-> floor, floor |-> floor, last |-> floor, sends |-> FALSE]

Durable == <<records, synced>>
World == <<arrived, failures>>
Host == <<applied, history, refused, own>>
Outcome == <<revealed, receipts>>

Init ==
  /\ JournalInit
  /\ chosen = [s \in Slot |-> NoEntry]
  /\ node = Fresh(0)
  /\ at = "down" /\ call = NoCall
  /\ due = FALSE /\ arrived = 0
  /\ applied = 0 /\ history = {} /\ refused = {} /\ own = FALSE
  /\ revealed = 0 /\ receipts = {} /\ failures = 0

TypeOK ==
  /\ synced \in 0 .. Len(records) /\ Len(records) <= MaxRecords
  /\ chosen \in [Slot -> Entry \cup {NoEntry}]
  /\ node \in [batch : Batches(1), decided : 0 .. MaxSlot, floor : 0 .. MaxSlot,
               last : 0 .. MaxSlot, sends : BOOLEAN]
  /\ node.floor <= node.decided /\ node.decided <= node.floor + Window
  /\ at \in {"down", "idle", "loop", "receive", "stepped", "propose", "status", "check", "receipt",
             "write", "sync", "confirm", "release", "send", "finish", "abort", "floor"}
  /\ call \in Calls
  /\ applied <= node.decided
  /\ history \subseteq Slot /\ refused \subseteq Slot
  /\ receipts \subseteq Slot \X Mine

-----------------------------------------------------------------------------
(* History and reads.                                                      *)

\* History.cursor: the last slot retained with no gap before it.
Cursor == CHOOSE c \in 0 .. MaxSlot : c + 1 \notin history /\ 1 .. c \subseteq history

\* _entry_at: retained history first, then the window; below the floor the node
\* answers Trimmed.
EntryAt(slot) ==
  IF slot \in history \/ slot > node.floor THEN chosen[slot] ELSE NoEntry

-----------------------------------------------------------------------------
(* The process.                                                            *)

\* Mutant of Start: the node is told the floor the ledger remembers.
StartAtDecided ==
  /\ at = "down"
  /\ node' = Fresh(node.decided) /\ applied' = node.decided
  /\ at' = "idle" /\ call' = NoCall /\ due' = FALSE
  /\ refused' = {} /\ own' = FALSE
  /\ UNCHANGED <<Durable, World, chosen, history, Outcome>>

\* __init__: rebuilt from the journal when it holds anything, with the floor the
\* history can serve.
Start ==
  /\ at = "down"
  /\ LET floor == IF records = <<>> THEN 0 ELSE Cursor
     IN  node' = Fresh(floor) /\ applied' = floor
  /\ at' = "idle" /\ call' = NoCall /\ due' = FALSE
  /\ refused' = {} /\ own' = FALSE
  /\ UNCHANGED <<Durable, World, chosen, history, Outcome>>

\* An exception leaves the call, whatever it was in.
Raise == at' = "idle" /\ call' = NoCall

\* close(): the journal syncs what it still holds.
Close ==
  /\ at = "idle"
  /\ at' = "down"
  /\ SyncRecords
  /\ UNCHANGED <<World, chosen, node, call, due, Host, Outcome>>

Releasing == at = "release" /\ node.last < node.decided

\* The process is killed, or the machine stops: at any statement.
Crash ==
  /\ at # "down" /\ failures < MaxFailures
  /\ LoseUnsynced
  /\ at' = "down" /\ call' = NoCall
  /\ failures' = failures + 1
  /\ history' \in {history} \cup IF Releasing THEN {history \cup {node.last + 1}} ELSE {}
  /\ UNCHANGED <<arrived, chosen, node, due, applied, refused, own, Outcome>>

\* A tick interval passes on the monotonic clock.  Only the statements listed read the
\* clock or are followed by one that does, so time that passes earlier passes there.
Later(c) ==
  [c EXCEPT !.wait = 0, !.left = IF @ = 0 THEN 0 ELSE @ - 1]

Elapse ==
  /\ at \in {"loop", "receive", "stepped", "check"}
  /\ due' = TRUE /\ call' = Later(call)
  /\ UNCHANGED <<Durable, World, chosen, node, at, Host, Outcome>>

-----------------------------------------------------------------------------
(* Transitions of the engine.                                              *)

Blocked == Raises(OpenStatus(node.batch))

\* One transition, left to be discharged before going on at back; slot is the one a
\* proposal was admitted to.
Transition(back, slot) ==
  /\ ~Blocked
  /\ \E w \in 0 .. 1, k \in 0 .. MaxRelease, sends \in BOOLEAN :
       LET through == node.decided + k
       IN  /\ Len(records) + w <= MaxRecords
           /\ through <= MaxSlot /\ through <= node.floor + Window
           /\ node' = [node EXCEPT !.batch = [Begun(@, w) EXCEPT !.generation = 1],
                                   !.decided = through, !.last = @, !.sends = sends]
           /\ chosen' \in {f \in [Slot -> Entry \cup {NoEntry}] :
                \A s \in Slot :
                  IF chosen[s] = NoEntry /\ s \in node.decided + 1 .. through
                  THEN f[s] # NoEntry ELSE f[s] = chosen[s]}
  /\ at' = "write"
  /\ call' = [call EXCEPT !.back = back, !.slot = slot]
  /\ UNCHANGED <<Durable, Host, Outcome, failures>>

\* BatchPending: an earlier batch could not be persisted.
Refused ==
  /\ Blocked
  /\ Raise
  /\ UNCHANGED <<Durable, chosen, node, Host, Outcome, failures>>

Campaign ==
  /\ at = "idle"
  /\ Transition("idle", 0) \/ Refused
  /\ UNCHANGED <<due, arrived>>

-----------------------------------------------------------------------------
(* poll.                                                                   *)

Quiet == UNCHANGED <<Durable, World, chosen, node, Host, Outcome>>

CallPoll ==
  /\ at = "idle"
  /\ \E drain \in BOOLEAN :
       call' = [NoCall EXCEPT !.drain = drain, !.wait = IF drain THEN 0 ELSE 1]
  /\ at' = "loop"
  /\ Quiet /\ UNCHANGED due

\* _maybe_tick: at most one tick per elapsed interval.
MaybeTick ==
  /\ at = "loop"
  /\ \/ ~due /\ at' = "receive" /\ Quiet /\ UNCHANGED <<call, due>>
     \/ due /\ due' = FALSE /\ (Transition("receive", call.slot) \/ Refused) /\ UNCHANGED arrived

\* A frame the codec refuses ends the call that read it.
Receive ==
  /\ at = "receive" /\ arrived < MaxFrames
  /\ arrived' = arrived + 1
  /\ \/ Transition("stepped", call.slot) \/ Refused
     \/ Raise /\ UNCHANGED <<Durable, chosen, node, Host, Outcome, failures>>
  /\ UNCHANGED due

\* Only a real deadline cuts a drain short.
Stepped ==
  /\ at = "stepped"
  /\ at' = IF ~call.drain /\ call.wait = 0 THEN call.then ELSE "loop"
  /\ Quiet /\ UNCHANGED <<call, due>>

\* Mutant of NothingReceived: an empty mailbox is asked again without sleeping.
SpinsWhenEmpty ==
  /\ at = "receive"
  /\ at' = IF call.wait = 0 /\ call.drain THEN call.then ELSE "loop"
  /\ Quiet /\ UNCHANGED <<call, due>>

\* Nothing to receive: return at the deadline, sleep before it.
NothingReceived ==
  /\ at = "receive"
  /\ IF call.wait = 0
     THEN at' = call.then /\ UNCHANGED <<call, due>>
     ELSE at' = "loop" /\ call' = Later(call) /\ due' = TRUE
  /\ Quiet

-----------------------------------------------------------------------------
(* append.                                                                 *)

CallAppend ==
  /\ at = "idle"
  /\ \E v \in Mine : call' = [NoCall EXCEPT !.then = "propose", !.left = Patience, !.value = v]
  /\ at' = "loop"
  /\ Quiet /\ UNCHANGED due

\* The node admits the command to a slot it has not released, or refuses it (slot 0:
\* NotLeader and the like); the batch is discharged before the status is looked at.
Propose ==
  /\ at = "propose"
  /\ \/ \E slot \in {0} \cup (node.decided + 1 .. MaxSlot) :
          slot <= node.floor + Window /\ Transition("status", slot)
     \/ Refused
  /\ UNCHANGED <<due, arrived>>

Status ==
  /\ at = "status"
  /\ IF call.slot = 0 THEN Raise ELSE at' = "check" /\ UNCHANGED call
  /\ Quiet /\ UNCHANGED due

\* The deadline may pass between the check and the poll, whose timeout is then zero.
Check ==
  /\ at = "check"
  /\ \/ node.decided >= call.slot /\ at' = "receipt" /\ UNCHANGED <<call, due>>
     \/ node.decided < call.slot /\ call.left = 0 /\ Raise /\ UNCHANGED due
     \/ /\ node.decided < call.slot /\ call.left > 0
        /\ at' = "loop"
        /\ \/ call' = [call EXCEPT !.then = "check", !.drain = FALSE, !.wait = 1] /\ UNCHANGED due
           \/ /\ call' = [call EXCEPT !.then = "check", !.drain = TRUE, !.wait = 0, !.left = 0]
              /\ call.left = 1 /\ due' = TRUE
  /\ Quiet

\* Mutant of ReturnsReceipt: whatever was decided in the slot is taken for the command.
AnyEntryIsTaken == EntryAt(call.slot) # NoEntry

\* ProposalLost, and CommitTimeout when nobody holds the entry, are raised here.
ReturnsReceipt == EntryAt(call.slot) = call.value

Receipt ==
  /\ at = "receipt"
  /\ receipts' = IF ReturnsReceipt THEN receipts \cup {<<call.slot, call.value>>} ELSE receipts
  /\ Raise
  /\ UNCHANGED <<Durable, World, chosen, node, due, Host, revealed>>

-----------------------------------------------------------------------------
(* discharge.                                                              *)

\* Mutant of Write: the batch is confirmed without a sync.
WriteWithoutSync ==
  /\ at = "write" /\ at' = "confirm"
  /\ node' = [node EXCEPT !.batch = Copied(@, @.writes)]
  /\ IF node.batch.writes > 0
     THEN AppendRecords(<<1>>) /\ own' = TRUE
     ELSE UNCHANGED <<records, synced, own>>
  /\ UNCHANGED <<World, chosen, call, due, applied, history, refused, Outcome>>

Write ==
  /\ at = "write"
  /\ node' = [node EXCEPT !.batch = Copied(@, @.writes)]
  /\ IF node.batch.writes > 0
     THEN AppendRecords(<<1>>) /\ own' = TRUE /\ at' = "sync"
     ELSE UNCHANGED <<records, synced, own>> /\ at' = "confirm"
  /\ UNCHANGED <<World, chosen, call, due, applied, history, refused, Outcome>>

Sync ==
  /\ at = "sync"
  /\ SyncRecords
  /\ at' = "confirm"
  /\ UNCHANGED <<World, chosen, node, call, due, Host, Outcome>>

\* append or sync raises StorageError: what was appended may or may not be there.
JournalFails ==
  /\ at \in {"write", "sync"} /\ node.batch.writes > 0 /\ failures < MaxFailures
  /\ IF at = "sync" THEN LoseUnsynced
     ELSE AppendRecords(<<1>>) \/ UNCHANGED <<records, synced>>
  /\ own' = TRUE
  /\ node' = [node EXCEPT !.batch = Copied(@, @.writes)]
  /\ at' = "abort" /\ failures' = failures + 1
  /\ UNCHANGED <<arrived, chosen, call, due, applied, history, refused, Outcome>>

Confirm ==
  /\ at = "confirm"
  /\ IF Raises(ConfirmStatus(node.batch, 1))
     THEN at' = "abort" /\ UNCHANGED node
     ELSE at' = "release" /\ node' = [node EXCEPT !.batch = Confirmed(@)]
  /\ UNCHANGED <<Durable, World, chosen, call, due, Host, Outcome>>

\* _release, entry by entry: retained first, then consumed.
Release ==
  /\ at = "release"
  /\ IF Releasing
     THEN /\ history' = history \cup {node.last + 1}
          /\ applied' = node.last + 1
          /\ node' = [node EXCEPT !.last = @ + 1]
          /\ UNCHANGED at
     ELSE at' = "send" /\ UNCHANGED <<node, history, applied>>
  /\ UNCHANGED <<Durable, World, chosen, call, due, refused, own, Outcome>>

\* record raises: nothing of the rest of the batch is released or sent.
ReleaseFails ==
  /\ Releasing /\ failures < MaxFailures
  /\ node.last + 1 \notin history
  /\ refused' = refused \cup (node.last + 1 .. node.decided)
  /\ at' = "abort" /\ failures' = failures + 1
  /\ UNCHANGED <<Durable, arrived, chosen, node, call, due, applied, history, own, Outcome>>

\* A message, or an entry served from the history, tells of everything this process
\* knows: of the journal up to its end, once it has itself written to it.  A
\* TransportError is suppressed.
Send ==
  /\ at = "send"
  /\ revealed' = IF node.sends /\ own /\ Len(records) > revealed THEN Len(records) ELSE revealed
  /\ node' = [node EXCEPT !.sends = FALSE]
  /\ at' = "finish"
  /\ UNCHANGED <<Durable, World, chosen, call, due, Host, receipts>>

\* The finally clause, after the last statement or after an exception; a batch that is
\* not confirmed stays, and blocks the node until the process is restarted.
Finish ==
  /\ at \in {"finish", "abort"}
  /\ IF Raises(FinishStatus(node.batch, 1))
     THEN Raise /\ UNCHANGED node
     ELSE /\ node' = [node EXCEPT !.batch = Finished(@), !.last = node.decided, !.sends = FALSE]
          /\ IF at = "abort" THEN Raise ELSE at' = "floor" /\ UNCHANGED call
  /\ UNCHANGED <<Durable, World, chosen, due, Host, Outcome>>

AdvanceFloor ==
  /\ at = "floor"
  /\ node' = [node EXCEPT !.floor = IF applied > @ THEN applied ELSE @]
  /\ at' = call.back
  /\ call' = [call EXCEPT !.back = "idle"]
  /\ UNCHANGED <<Durable, World, chosen, due, Host, Outcome>>

-----------------------------------------------------------------------------
Discharge ==
  \/ Write \/ Sync \/ JournalFails \/ Confirm \/ Release \/ ReleaseFails \/ Send
  \/ Finish \/ AdvanceFloor

\* The statements of a call under way.
Run ==
  \/ Discharge \/ MaybeTick \/ Receive \/ Stepped \/ NothingReceived
  \/ Propose \/ Status \/ Check \/ Receipt

Next ==
  \/ Run \/ Start \/ Close \/ Crash \/ Elapse
  \/ Campaign \/ CallPoll \/ CallAppend

Spec == Init /\ [][Next]_vars

\* A thread that is inside a call runs on.
FairSpec == Spec /\ WF_vars(Run)

-----------------------------------------------------------------------------
(* Properties.                                                             *)

\* discharge, session.py:253-255, "a message that left before its record was durable
\* can be reverted by a crash": whatever failed, was killed or replayed, every record
\* a sent message rests on is durable.  Records a restart read back without having
\* written anything yet are not counted: replay does not sync them.
RevealedIsDurable == revealed <= synced

\* _release and __init__: every entry this member released can be read -- from the
\* history or from the window, never from neither -- in this process and after any
\* restart, except an entry whose record raised in this process.
PrefixIsHeld ==
  at # "down" => \A s \in (1 .. node.decided) \ refused : EntryAt(s) # NoEntry

\* append, session.py:435-439, "Reporting success here would be a lie": a receipt names
\* the entry the cluster chose for that slot, and the entry is retained for good.
ReceiptIsTruth ==
  \A r \in receipts : chosen[r[1]] = r[2] /\ r[1] \in history

\* append and poll return or raise: no call waits forever, whatever storage, clock and
\* peers do, as long as the traffic that arrives is finite.
CallsReturn == at \notin {"idle", "down"} ~> at \in {"idle", "down"}
===============================================================================
