------------------------------- MODULE Handle -------------------------------
(***************************************************************************)
(* One Node of node.py, shared by several threads: the lock around the     *)
(* native handle (_Guard), the pending-batch protocol behind it (Batch),   *)
(* opening, restoring, closing and forking.                                *)
(*                                                                         *)
(* A call of a thread goes "taken" (lock held, owner not yet set),         *)
(* "inside" (the native call), "leaving" (owner cleared, lock still held); *)
(* "again" is a thread between two guarded calls of one operation.  While  *)
(* it waits for the lock a thread affects nobody, so waiting is no state   *)
(* of its own and the operation is chosen when the lock is held.  "stuck"  *)
(* is a thread whose signal handler waits for a lock that thread holds;    *)
(* "gone" is one that a fork left behind in the parent.                    *)
(***************************************************************************)
EXTENDS Batch

CONSTANTS
  Thread,         \* threads of the process
  Main,           \* the thread that runs signal handlers
  Nobody,         \* no thread
  MaxGeneration,  \* bound: transitions
  MaxWrites,      \* bound: records of one transition
  WriteChunk,     \* _WRITE_CHUNK: records one native copy moves at most
  MaxReplay       \* bound: journal records of a restored node

ASSUME HandleAssumption ==
  /\ Main \in Thread /\ Nobody \notin Thread
  /\ MaxGeneration \in Nat \ {0} /\ MaxWrites \in Nat
  /\ WriteChunk \in Nat \ {0} /\ MaxReplay \in Nat

VARIABLES
  lock,     \* Node._lock: the thread that holds it
  owner,    \* Node._owner: the thread inside a call
  box,      \* Node._box: "none" before the node exists, then "open", "closed"
  forked,   \* this process is a child forked after the node was made
  native,   \* the native handle: its batch, how many released entries are above the
            \* memory floor (kept), how many of them are the batch's (fresh), and the
            \* records of the journal still to be folded (left)
  pc,       \* where each thread is in its call
  call,     \* the call each thread makes: operation, token, offset
  wrote,    \* per generation, the records its transition produced
  handed,   \* per generation, the records the native side handed over, from the first
  acked,    \* generations whose records the host declared durable
  shown     \* generations of which an output was read

vars == <<lock, owner, box, forked, native, pc, call, wrote, handed, acked, shown>>

Generation == 1 .. MaxGeneration

Operations ==
  {"begin", "writes", "persisted", "outputs", "exit", "finish", "floor", "query", "close"}

\* The operations that name a batch: methods of PendingBatch.
OnBatch == {"writes", "persisted", "outputs", "exit", "finish"}

\* Nothing of a call is left to do.
NoCall == [op |-> "none", token |-> 0, offset |-> 0]

Record == <<wrote, handed, acked, shown>>

\* What a call is: its operation, the batch it names, the record it reads next.
CallType ==
  [op : Operations \cup {"none"}, token : 0 .. MaxGeneration, offset : 0 .. MaxWrites]

\* What the native handle holds.
NativeType ==
  [batch : Batches(MaxWrites), kept : Nat, fresh : {0, 1}, left : 0 .. MaxReplay]

TypeOK ==
  /\ lock \in Thread \cup {Nobody}
  /\ owner \in Thread \cup {Nobody}
  /\ box \in {"none", "replaying", "open", "closed"}
  /\ forked \in BOOLEAN
  /\ native \in NativeType
  /\ native.batch.generation \in 0 .. MaxGeneration
  /\ pc \in [Thread -> {"idle", "taken", "inside", "leaving", "again", "stuck", "gone"}]
  /\ call \in [Thread -> CallType]
  /\ wrote \in [Generation -> 0 .. MaxWrites]
  /\ handed \in [Generation -> 0 .. MaxWrites]
  /\ acked \subseteq Generation
  /\ shown \subseteq Generation

-----------------------------------------------------------------------------
(* Opening.  Nobody else can reach the node before its constructor returns *)

Init ==
  /\ lock = Nobody /\ owner = Nobody
  /\ box = "none" /\ forked = FALSE
  /\ native = [batch |-> NoBatch, kept |-> 0, fresh |-> 0, left |-> 0]
  /\ pc = [t \in Thread |-> "idle"]
  /\ call = [t \in Thread |-> NoCall]
  /\ wrote = [g \in Generation |-> 0]
  /\ handed = [g \in Generation |-> 0]
  /\ acked = {} /\ shown = {}

Open ==
  /\ box = "none"
  /\ box' = "open"
  /\ UNCHANGED <<lock, owner, forked, native, pc, call, Record>>

\* Node.restore: fold the records one call at a time, then restore with the floor
\* the host consumed; a record that contradicts the ledger closes the node again.
Restore ==
  /\ box = "none"
  /\ \E k \in 0 .. MaxReplay : native' = [native EXCEPT !.left = k]
  /\ box' = "replaying"
  /\ UNCHANGED <<lock, owner, forked, pc, call, Record>>

ReplayRecord ==
  /\ box = "replaying" /\ native.left > 0
  /\ \/ native' = [native EXCEPT !.left = @ - 1, !.kept = @ + 1] /\ box' = box
     \/ box' = "closed" /\ UNCHANGED native
  /\ UNCHANGED <<lock, owner, forked, pc, call, Record>>

ReplayRestore ==
  /\ box = "replaying" /\ native.left = 0
  /\ \/ /\ \E k \in 0 .. native.kept : native' = [native EXCEPT !.kept = k]
        /\ box' = "open"
     \/ box' = "closed" /\ UNCHANGED native
  /\ UNCHANGED <<lock, owner, forked, pc, call, Record>>

-----------------------------------------------------------------------------
(* _Guard, and Node.close, which takes the lock the same way.              *)

\* What the first check of _Guard.__enter__ and Node.close does in thread t.
Reentrant(t) == owner = t

Acquire(t) ==
  /\ box \in {"open", "closed"}
  /\ pc[t] \in {"idle", "again"} /\ ~Reentrant(t)
  /\ lock = Nobody
  /\ lock' = t
  /\ pc' = [pc EXCEPT ![t] = "taken"]
  /\ UNCHANGED <<owner, box, forked, native, call, Record>>

\* Mutant of Unusable: a closed handle is not refused.
UnusableWhenForked == forked

\* ForkedHandle or HandleClosed: the lock is given back before raising.
Unusable == forked \/ box = "closed"

\* Mutant of Refuse: the refusal does not give the lock back.
RefuseKeepsLock(t) ==
  /\ pc[t] = "taken" /\ Unusable
  /\ call' = [call EXCEPT ![t] = NoCall]
  /\ pc' = [pc EXCEPT ![t] = "idle"]
  /\ UNCHANGED <<lock, owner, box, forked, native, Record>>

Refuse(t) ==
  /\ pc[t] = "taken" /\ Unusable
  /\ owner' = Nobody /\ lock' = Nobody
  /\ call' = [call EXCEPT ![t] = NoCall]
  /\ pc' = [pc EXCEPT ![t] = "idle"]
  /\ UNCHANGED <<box, forked, native, Record>>

\* A new call names an operation, and a batch where it is one of PendingBatch's.
Chosen(c) ==
  /\ c.op \in Operations /\ c.offset = 0
  /\ c.token \in IF c.op \in OnBatch THEN 1 .. native.batch.generation ELSE {0}

Take(t) ==
  /\ pc[t] = "taken"
  /\ \E c \in CallType :
       /\ IF call[t] = NoCall THEN Chosen(c) ELSE c = call[t]
       /\ Unusable => c.op = "close"
       /\ call' = [call EXCEPT ![t] = c]
  /\ owner' = t
  /\ pc' = [pc EXCEPT ![t] = "inside"]
  /\ UNCHANGED <<lock, box, forked, native, Record>>

\* __exit__ after the last instruction of the guarded body.
ClearOwner(t, rest) ==
  /\ owner' = Nobody
  /\ call' = [call EXCEPT ![t] = rest]
  /\ pc' = [pc EXCEPT ![t] = "leaving"]
  /\ UNCHANGED <<lock, forked>>

Leave(t) ==
  /\ pc[t] = "leaving"
  /\ lock' = Nobody
  /\ pc' = [pc EXCEPT ![t] = IF call[t] = NoCall THEN "idle" ELSE "again"]
  /\ UNCHANGED <<owner, box, forked, native, call, Record>>

\* A signal handler runs in the main thread between two instructions and calls the
\* node: ReentrantCall inside a call, but at the edges of one the owner is not set
\* while the lock is held, and the handler waits for its own thread.
Interrupt ==
  /\ pc[Main] \in {"taken", "inside", "leaving"} /\ lock = Main
  /\ pc' = [pc EXCEPT ![Main] = IF Reentrant(Main) THEN @ ELSE "stuck"]
  /\ UNCHANGED <<lock, owner, box, forked, native, call, Record>>

\* os.fork() in thread t: the child has t alone, and the lock as it was.
Fork(t) ==
  /\ box = "open" /\ pc[t] = "idle" /\ ~forked
  /\ forked' = TRUE
  /\ pc' = [u \in Thread |-> IF u = t THEN "idle" ELSE "gone"]
  /\ UNCHANGED <<lock, owner, box, native, call, Record>>

-----------------------------------------------------------------------------
(* The native calls.                                                       *)

Inside(t, op) == pc[t] = "inside" /\ call[t].op = op

\* A call that changes nothing, or is refused with the status it returns.
Answer(t, op, refused) ==
  /\ Inside(t, op) /\ refused
  /\ ClearOwner(t, NoCall)
  /\ UNCHANGED <<box, native, Record>>

\* Node._begin: one transition, leaving w records and releasing some entries.
Begin(t) ==
  \/ Answer(t, "begin", \/ Raises(OpenStatus(native.batch))
                        \/ native.batch.generation = MaxGeneration)
  \/ /\ Inside(t, "begin") /\ ~Raises(OpenStatus(native.batch))
     /\ native.batch.generation < MaxGeneration
     /\ \E w \in 0 .. MaxWrites, fresh \in {0, 1} :
          /\ native' = [native EXCEPT !.batch = Begun(@, w), !.kept = @ + fresh, !.fresh = fresh]
          /\ wrote' = [wrote EXCEPT ![native.batch.generation + 1] = w]
     /\ ClearOwner(t, NoCall)
     /\ UNCHANGED <<box, handed, acked, shown>>

\* One chunk of PendingBatch.writes; decoding it may fail after the copy.
CopyWrites(t) ==
  LET c == call[t]
      through == c.offset + Span(native.batch, c.offset, WriteChunk)
      More == [c EXCEPT !.offset = through]
  IN  \/ Answer(t, "writes", Raises(ReadStatus(native.batch, c.token)))
      \/ /\ Inside(t, "writes") /\ ~Raises(ReadStatus(native.batch, c.token))
         /\ native' = [native EXCEPT !.batch = Copied(@, through)]
         /\ handed' = [handed EXCEPT ![c.token] =
              IF c.offset <= @ /\ through > @ THEN through ELSE @]
         /\ \E rest \in {More, NoCall} :
              /\ rest = More => through < native.batch.writes
              /\ ClearOwner(t, rest)
         /\ UNCHANGED <<box, wrote, acked, shown>>

Persisted(t) ==
  LET status == ConfirmStatus(native.batch, call[t].token)
  IN  \/ Answer(t, "persisted", Raises(status))
      \/ /\ Inside(t, "persisted") /\ ~Raises(status)
         /\ native' = [native EXCEPT !.batch = Confirmed(@)]
         /\ acked' = acked \cup {call[t].token}
         /\ ClearOwner(t, NoCall)
         /\ UNCHANGED <<box, wrote, handed, shown>>

\* messages(), committed() and requests(): the same gate, probed even when empty.
Outputs(t) ==
  LET status == OutputStatus(native.batch, call[t].token)
  IN  \/ Answer(t, "outputs", Raises(status))
      \/ /\ Inside(t, "outputs") /\ ~Raises(status)
         /\ shown' = shown \cup {call[t].token}
         /\ ClearOwner(t, NoCall)
         /\ UNCHANGED <<box, native, wrote, handed, acked>>

\* A `with` block's end: refresh, then finish a confirmed batch; a pending one stays
\* (AbandonedBatch, or the exception under way), a finished one needs nothing.
Exit(t) ==
  LET status == TokenStatus(native.batch, call[t].token)
      next == ~Raises(status) /\ native.batch.phase = "Confirmed"
  IN  /\ Inside(t, "exit")
      /\ ClearOwner(t, IF next THEN [call[t] EXCEPT !.op = "finish"] ELSE NoCall)
      /\ UNCHANGED <<box, native, Record>>

Finish(t) ==
  LET status == FinishStatus(native.batch, call[t].token)
  IN  \/ Answer(t, "finish", Raises(status))
      \/ /\ Inside(t, "finish") /\ ~Raises(status)
         /\ native' = [native EXCEPT !.batch = Finished(@)]
         /\ ClearOwner(t, NoCall)
         /\ UNCHANGED <<box, Record>>

\* Mutant of FloorStatus: the floor may move once the batch is confirmed.
FloorStatusPending == IF native.batch.phase = "Pending" THEN "BatchPending" ELSE "Ok"

\* advance_memory_floor: not while a batch's entries point into the window.
FloorStatus == OpenStatus(native.batch)

AdvanceFloor(t) ==
  \/ Answer(t, "floor", Raises(FloorStatus))
  \/ /\ Inside(t, "floor") /\ ~Raises(FloorStatus)
     /\ \E k \in 0 .. native.kept : native' = [native EXCEPT !.kept = k]
     /\ ClearOwner(t, NoCall)
     /\ UNCHANGED <<box, Record>>

\* state(), decided_span(), read_decided(), set_campaign_enabled().
Query(t) == Answer(t, "query", TRUE)

\* The finalizer releases the handle once; closing again does nothing.
Close(t) ==
  /\ Inside(t, "close")
  /\ box' = "closed"
  /\ ClearOwner(t, NoCall)
  /\ UNCHANGED <<native, Record>>

-----------------------------------------------------------------------------
Call(t) ==
  \/ Begin(t) \/ CopyWrites(t) \/ Persisted(t) \/ Outputs(t) \/ Exit(t) \/ Finish(t) \/ AdvanceFloor(t) \/ Query(t) \/ Close(t)

\* The steps of a thread that holds the lock: it runs on.
Proceed(t) == Refuse(t) \/ Take(t) \/ Call(t) \/ Leave(t)

Next ==
  \/ Open \/ Restore \/ ReplayRecord \/ ReplayRestore \/ Interrupt
  \/ \E t \in Thread : Acquire(t) \/ Proceed(t) \/ Fork(t)

Spec == Init /\ [][Next]_vars

FairSpec == Spec /\ \A t \in Thread : WF_vars(Proceed(t))

-----------------------------------------------------------------------------
(* Properties.                                                             *)

\* _Guard, node.py:354-356: "Exactly one call may be inside that handle at a time".
\* Whoever is inside holds the lock and is the owner, so two threads never are, and
\* nobody is inside a handle that another thread has released (close waits).
OneCallInside ==
  \A t \in Thread : pc[t] = "inside" =>
    /\ lock = t /\ owner = t
    /\ box = "closed" => call[t].op = "close"

\* persisted(), node.py:237-239: the host acknowledges a batch only after every
\* record of it, from the first on, was handed over, whatever chunks, retries and
\* threads it took; and no output of a batch with records is read before that.
NothingShownEarly ==
  /\ \A g \in acked : handed[g] = wrote[g]
  /\ \A g \in shown : wrote[g] = 0 \/ g \in acked

\* batch.odin:3-6: a batch is an obligation.  Whatever the threads do, a transition
\* runs only after every record of the ones before it was acknowledged.
ObligationsAreMet ==
  \A g \in Generation : g < native.batch.generation => wrote[g] = 0 \/ g \in acked

\* queries.odin:39-42: the entries a live batch released stay above the memory floor,
\* so their cells are not reused under the copy that hands them to the host.
LiveEntriesStay ==
  Live(native.batch) => native.fresh <= native.kept

\* A call that took the lock gives it back, on every path, unless its thread is one
\* a fork left behind or one whose signal handler waits for its own lock.
LockIsReleased ==
  \A t \in Thread : lock = t ~> (lock # t \/ pc[t] \in {"gone", "stuck"})
===============================================================================
