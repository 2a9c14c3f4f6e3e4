------------------------------ MODULE AioProofs ------------------------------
(***************************************************************************)
(* AsyncSession with any number of appends and slots: one discharge at a   *)
(* time, closing after the discharges it found, no forgotten waiter, and   *)
(* drivers that go on until something outside of them fails.               *)
(***************************************************************************)
EXTENDS Aio, FiniteSetTheorems, TLAPS

Stage == {"none", "journal", "finish", "floor", "ended", "failed"}

Await == {"input", "start", "queue", "shield", "flush", "wait", "cancelled", "raised", "done"}

Future == {"none", "pending", "set", "cancelled"}

\* The part of TypeOK the invariant needs.
Typed ==
  /\ pc \in [Task -> Await] /\ work \in [Task -> Stage]
  /\ batch \in Batches(1) /\ decided \in Nat
  /\ slot \in [Appender -> Nat] /\ waiter \in [Appender -> Future]

\* The discharge that has not finished its batch is alone, and the batch says how far
\* it has got.
Alone ==
  /\ \A t, u \in Task :
       work[t] \in {"journal", "finish"} /\ work[u] \in {"journal", "finish"} => t = u
  /\ \A t \in Task :
       /\ work[t] = "journal" => batch.phase = "Pending"
       /\ work[t] = "finish" => batch.phase = "Confirmed"

\* An append waits for a slot it was admitted to.
WaitsForSlot == \A a \in Appender : pc[a] = "wait" => slot[a] # 0

\* close waits for tasks' discharges, and only when it has found some.
WaitsForDischarge == gathered \subseteq Task /\ (close = "gathering" => gathered # {})

IInv ==
  /\ Typed /\ Alone /\ WaitsForSlot /\ WokenByTheRun
  /\ WaitsForDischarge /\ NodeOutlivesDischarges

-----------------------------------------------------------------------------
LEMMA InitIInv == Init => IInv
<1> SUFFICES ASSUME Init PROVE IInv
  OBVIOUS
<1>1. Typed
  BY DEF Init, Typed, Await, Stage, Future, NoBatch, Batches, Phase, Task, Driver
<1>2. Alone /\ WaitsForSlot /\ WokenByTheRun /\ WaitsForDischarge /\ NodeOutlivesDischarges
  BY AioAssumption DEF Init, Alone, WaitsForSlot, WokenByTheRun, WaitsForDischarge,
     NodeOutlivesDischarges, Task, Driver
<1>3. QED
  BY <1>1, <1>2 DEF IInv

\* The lock's next holder begins a transition, or is refused one.
LEMMA TransitionKeeps ==
  ASSUME IInv, NEW t \in Task, Transition(t),
         UNCHANGED <<waiter, close, gathered, unsettled>>
  PROVE  IInv'
<1>1. Typed
  BY DEF IInv
<1>2. CASE TransitionRaises
  <2>1. /\ pc' = [pc EXCEPT ![t] = Ended(t, "raised")]
        /\ UNCHANGED <<serial, work, batch, decided, slot>>
    BY <1>2 DEF Transition
  <2>2. Ended(t, "raised") \in Await \ {"wait"}
    BY DEF Ended, Await
  <2>3. Typed'
    BY <1>1, <2>1, <2>2 DEF Typed
  <2>4. \A a \in Appender : pc'[a] = "wait" => pc[a] = "wait"
    BY <1>1, <2>1, <2>2 DEF Typed, Task
  <2>5. QED
    BY <2>1, <2>3, <2>4 DEF IInv, Alone, WaitsForSlot, WokenByTheRun, WaitsForDischarge,
       NodeOutlivesDischarges, InFlight
<1>3. CASE ~TransitionRaises
  <2>1. /\ serial' = t /\ pc' = [pc EXCEPT ![t] = "shield"]
        /\ work' = [work EXCEPT ![t] = "journal"]
        /\ batch' = [Begun(batch, 1) EXCEPT !.generation = 1]
    BY <1>3 DEF Transition
  <2>2. batch' \in Batches(1) /\ batch'.phase = "Pending"
    BY <2>1 DEF Begun, Batches, Phase
  <2>3. ~Live(batch) /\ close # "closed"
    BY <1>3 DEF TransitionRaises, OpenStatus, Raises
  <2>4. \A u \in Task : work[u] \notin {"journal", "finish"}
    BY <2>3 DEF IInv, Alone, Live
  <2>5. decided' \in Nat /\ decided' >= decided
    BY <1>1, <1>3, AioAssumption DEF Transition, Typed
  <2>6. /\ slot' \in [Appender -> Nat]
        /\ \A a \in Appender : a # t => slot'[a] = slot[a]
    <3>1. CASE UNCHANGED slot
      BY <1>1, <3>1 DEF Typed
    <3>2. ASSUME NEW s \in {0} \cup (decided + 1 .. MaxSlot), slot' = [slot EXCEPT ![t] = s]
          PROVE  slot' \in [Appender -> Nat] /\ \A a \in Appender : a # t => slot'[a] = slot[a]
      <4>1. s \in Nat
        BY <1>1, AioAssumption DEF Typed
      <4>2. QED
        BY <1>1, <3>2, <4>1 DEF Typed
    <3>3. QED
      BY <1>3, <3>1, <3>2 DEF Transition
  <2>7. Typed'
    BY <1>1, <2>1, <2>2, <2>5, <2>6 DEF Typed, Await, Stage
  <2>8. Alone'
    BY <1>1, <2>1, <2>2, <2>4 DEF Typed, Alone
  <2>9. WaitsForSlot' /\ WokenByTheRun'
    BY <1>1, <2>1, <2>6, AioAssumption DEF IInv, Typed, WaitsForSlot, WokenByTheRun, Task
  <2>10. WaitsForDischarge' /\ NodeOutlivesDischarges'
    BY <2>3 DEF IInv, WaitsForDischarge, NodeOutlivesDischarges
  <2>11. QED
    BY <2>7, <2>8, <2>9, <2>10 DEF IInv
<1>4. QED
  BY <1>2, <1>3

\* A task that only moves its program counter, or its waiter, keeps the discharges.
LEMMA Undisturbed ==
  ASSUME IInv, UNCHANGED <<work, batch, close, gathered>>
  PROVE  Alone' /\ WaitsForDischarge' /\ NodeOutlivesDischarges'
BY DEF IInv, Alone, WaitsForDischarge, NodeOutlivesDischarges, InFlight

\* A task enters _run or gets the lock.
LEMMA LockKeeps ==
  ASSUME IInv, NEW t \in Task, Enter(t) \/ Acquire(t)
  PROVE  IInv'
<1>1. Typed /\ UNCHANGED <<waiter, close, gathered, unsettled>>
  BY DEF IInv, Enter, Acquire, Others
<1>2. CASE Transition(t)
  BY <1>1, <1>2, TransitionKeeps
<1>3. CASE pc' = [pc EXCEPT ![t] = "queue"] /\ UNCHANGED <<serial, work, batch, decided, slot>>
  <2>1. Typed'
    BY <1>1, <1>3 DEF Typed, Await
  <2>2. WaitsForSlot' /\ WokenByTheRun'
    BY <1>1, <1>3 DEF IInv, Typed, WaitsForSlot, WokenByTheRun, Task
  <2>3. QED
    BY <1>1, <1>3, <2>1, <2>2, Undisturbed DEF IInv
<1>4. QED
  BY <1>2, <1>3 DEF Enter, Acquire, EnterRun

\* The task goes on after its discharge, or sends what is queued.
LEMMA ResumeKeeps ==
  ASSUME IInv, NEW t \in Task, Resume(t) \/ Flush(t)
  PROVE  IInv'
<1>1. Typed
  BY DEF IInv
<1>2. CASE Resume(t)
  <2>1. /\ work[t] \in {"ended", "failed"} /\ work' = [work EXCEPT ![t] = "none"]
        /\ UNCHANGED <<batch, decided, slot, waiter, close, gathered>>
    BY <1>2 DEF Resume
  <2>2. \E next \in {"flush", "raised", "done"} : pc' = [pc EXCEPT ![t] = next]
    BY <1>2 DEF Resume, Ended
  <2>3. \/ UNCHANGED <<serial, unsettled>>
        \/ unsettled' = TRUE
    BY <1>2 DEF Resume
  <2>4. Typed'
    BY <1>1, <2>1, <2>2 DEF Typed, Await, Stage
  <2>5. WaitsForSlot' /\ WokenByTheRun'
    BY <1>1, <2>1, <2>2, <2>3 DEF IInv, Typed, WaitsForSlot, WokenByTheRun, Task
  <2>6. Alone' /\ WaitsForDischarge' /\ NodeOutlivesDischarges'
    BY <1>1, <2>1 DEF IInv, Typed, Alone, WaitsForDischarge, NodeOutlivesDischarges, InFlight
  <2>7. QED
    BY <2>4, <2>5, <2>6 DEF IInv
<1>3. CASE Flush(t)
  BY <1>3, Undisturbed DEF Flush, IInv, Typed, WaitsForSlot, WokenByTheRun
<1>4. QED
  BY <1>2, <1>3

\* _settle_waiters: everybody whose slot is released is woken.
LEMMA ReturnKeeps ==
  ASSUME IInv, NEW t \in Task, Return(t)
  PROVE  IInv'
<1>1. Typed /\ WaitsForSlot
  BY DEF IInv
<1>2. UNCHANGED <<work, batch, decided, slot, close, gathered>>
  BY DEF Return
<1>3. PICK next \in {"input", "done", "wait"} :
        /\ pc' = [pc EXCEPT ![t] = next]
        /\ next = "wait" => t \notin Driver /\ slot[t] # 0 /\ ~(slot[t] <= decided)
  BY DEF Return
<1>4. waiter' = [a \in Appender |->
        IF a = t THEN IF pc'[t] = "wait" THEN "pending" ELSE "none"
        ELSE IF waiter[a] = "pending" /\ slot[a] \in Settled THEN "set" ELSE waiter[a]]
  BY DEF Return
<1>5. Typed'
  BY <1>1, <1>2, <1>3, <1>4 DEF Typed, Await, Future
<1>6. WaitsForSlot'
  BY <1>1, <1>2, <1>3 DEF Typed, WaitsForSlot, Task
<1>7. ASSUME NEW a \in Appender, waiter'[a] = "pending", pc'[a] = "wait", slot'[a] <= decided'
      PROVE  FALSE
  <2>1. a # t
    BY <1>1, <1>2, <1>3, <1>7 DEF Typed, Task
  <2>2. slot[a] \in 1 .. decided
    BY <1>1, <1>2, <1>3, <1>7, <2>1 DEF Typed, WaitsForSlot, Task
  <2>3. QED
    BY <1>4, <1>7, <2>1, <2>2 DEF Settled
<1>8. QED
  BY <1>2, <1>5, <1>6, <1>7, Undisturbed DEF IInv, WokenByTheRun

-----------------------------------------------------------------------------
(* Threads.                                                                *)

LEMMA ThreadKeeps ==
  ASSUME IInv, NEW t \in Task, RunThread(t)
  PROVE  IInv'
<1>1. Typed
  BY DEF IInv
<1>2. UNCHANGED <<serial, pc, decided, slot, waiter, close, gathered, unsettled>>
  BY DEF RunThread, Journal, JournalFails, FinishBatch, AdvanceFloor, Overtaken, Thread
<1>3. InFlight(t)
  BY DEF RunThread, Journal, JournalFails, FinishBatch, AdvanceFloor, Overtaken, Thread, InFlight
<1>4. \E to \in Stage : work' = [work EXCEPT ![t] = to]
  BY DEF RunThread, Journal, JournalFails, FinishBatch, AdvanceFloor, Overtaken, Thread, Stage
<1>5. batch' \in Batches(1)
  <2>1. Confirmed(batch) \in Batches(1) /\ Finished(batch) \in Batches(1)
    BY <1>1 DEF Typed, Confirmed, Finished, Batches, Phase
  <2>2. QED
    BY <1>1, <2>1 DEF RunThread, Journal, JournalFails, FinishBatch, AdvanceFloor, Overtaken, Typed
<1>6. Typed' /\ WaitsForSlot' /\ WokenByTheRun' /\ WaitsForDischarge'
  BY <1>1, <1>2, <1>4, <1>5 DEF IInv, Typed, WaitsForSlot, WokenByTheRun, WaitsForDischarge
<1>7. Alone'
  <2>1. CASE Journal(t)
    <3>1. work[t] = "journal" /\ work' = [work EXCEPT ![t] = "finish"] /\ batch'.phase = "Confirmed"
      BY <1>1, <2>1 DEF Journal, Thread, Confirmed, Typed, Batches
    <3>2. QED
      BY <1>1, <3>1 DEF IInv, Typed, Alone
  <2>2. CASE FinishBatch(t)
    <3>1. work[t] = "finish" /\ work' = [work EXCEPT ![t] = "floor"]
      BY <2>2 DEF FinishBatch, Thread
    <3>2. QED
      BY <1>1, <3>1 DEF IInv, Typed, Alone
  <2>3. CASE JournalFails(t) \/ AdvanceFloor(t) \/ Overtaken(t)
    <3>1. /\ UNCHANGED batch
          /\ \E to \in {"none", "ended", "failed"} : work' = [work EXCEPT ![t] = to]
      BY <2>3 DEF JournalFails, AdvanceFloor, Overtaken, Thread
    <3>2. QED
      BY <1>1, <3>1 DEF IInv, Typed, Alone
  <2>4. QED
    BY <2>1, <2>2, <2>3 DEF RunThread
<1>8. NodeOutlivesDischarges'
  BY <1>1, <1>2, <1>3, <1>4 DEF IInv, Typed, NodeOutlivesDischarges, InFlight
<1>9. QED
  BY <1>6, <1>7, <1>8 DEF IInv

-----------------------------------------------------------------------------
(* Waiting, cancellation and close.                                        *)

LEMMA CancelKeeps ==
  ASSUME IInv, NEW t \in Task, CancelTask(t), UNCHANGED close
  PROVE  IInv'
<1>1. Typed
  BY DEF IInv
<1>2. /\ \E next \in {"cancelled", "done"} : pc' = [pc EXCEPT ![t] = next]
      /\ unsettled' = (unsettled \/ serial = t)
      /\ serial' = IF serial = t THEN None ELSE serial
      /\ waiter' \in {waiter, [waiter EXCEPT ![t] = "cancelled"]}
      /\ UNCHANGED <<batch, decided, slot, gathered>>
  BY DEF CancelTask, Ended
<1>3. work' = work \/ (~InFlight(t) /\ work' = [work EXCEPT ![t] = "none"])
  BY DEF CancelTask
<1>4. Typed'
  BY <1>1, <1>2, <1>3 DEF Typed, Await, Stage, Future
<1>5. WaitsForSlot' /\ WokenByTheRun'
  BY <1>1, <1>2 DEF IInv, Typed, WaitsForSlot, WokenByTheRun, Task
<1>6. Alone' /\ NodeOutlivesDischarges' /\ WaitsForDischarge'
  <2>1. CASE work' = work
    BY <1>2, <2>1, Undisturbed
  <2>2. CASE ~InFlight(t) /\ work' = [work EXCEPT ![t] = "none"]
    <3>1. \A u \in Task : work'[u] = work[u] \/ (u = t /\ work'[u] = "none")
      BY <1>1, <2>2 DEF Typed
    <3>2. QED
      BY <1>2, <3>1 DEF IInv, Alone, NodeOutlivesDischarges, WaitsForDischarge, InFlight
  <2>3. QED
    BY <1>3, <2>1, <2>2
<1>7. QED
  BY <1>4, <1>5, <1>6 DEF IInv

LEMMA WaitKeeps ==
  ASSUME IInv, NEW a \in Appender, Wake(a) \/ TimesOut(a)
  PROVE  IInv'
<1>1. Typed
  BY DEF IInv
<1>2. /\ pc' = [pc EXCEPT ![a] = "done"]
      /\ waiter' \in {waiter, [waiter EXCEPT ![a] = "none"]}
      /\ UNCHANGED <<serial, work, batch, decided, slot, close, gathered, unsettled>>
  BY DEF Wake, TimesOut, Others
<1>3. Typed'
  BY <1>1, <1>2 DEF Typed, Await, Future
<1>4. WaitsForSlot' /\ WokenByTheRun'
  BY <1>1, <1>2 DEF IInv, Typed, WaitsForSlot, WokenByTheRun, Task
<1>5. QED
  BY <1>2, <1>3, <1>4, Undisturbed DEF IInv

\* A step of close: nothing but waiting futures changes, and gathered.
LEMMA CloseKeeps ==
  ASSUME IInv, CallClose \/ RunClose
  PROVE  IInv'
<1>1. Typed
  BY DEF IInv
<1>2. /\ UNCHANGED <<serial, pc, work, batch, decided, slot, unsettled>>
      /\ waiter' = waiter \/ waiter' = [a \in Appender |->
           IF waiter[a] = "pending" THEN "cancelled" ELSE waiter[a]]
  BY DEF CallClose, RunClose, Gather, CloseRaises, Gathered, CloseNode
<1>3. Typed'
  BY <1>1, <1>2 DEF Typed, Future
<1>4. Alone' /\ WaitsForSlot' /\ WokenByTheRun'
  BY <1>1, <1>2 DEF IInv, Typed, Alone, WaitsForSlot, WokenByTheRun
<1>5. WaitsForDischarge' /\ NodeOutlivesDischarges'
  <2>1. CASE CallClose \/ CloseRaises
    BY <1>2, <2>1 DEF CallClose, CloseRaises, IInv, WaitsForDischarge, NodeOutlivesDischarges, InFlight
  <2>2. CASE Gather
    BY <1>2, <2>2 DEF Gather, CloseNode, WaitsForDischarge, NodeOutlivesDischarges, InFlight
  <2>3. CASE Gathered
    BY <1>2, <2>3 DEF Gathered, CloseNode, IInv, WaitsForDischarge, NodeOutlivesDischarges, InFlight
  <2>4. QED
    BY <2>1, <2>2, <2>3 DEF RunClose
<1>6. QED
  BY <1>3, <1>4, <1>5 DEF IInv

LEMMA Step == IInv /\ [Next]_vars => IInv'
<1> SUFFICES ASSUME IInv, [Next]_vars PROVE IInv'
  OBVIOUS
<1>1. ASSUME NEW t \in Task, Enter(t) \/ RunTask(t) \/ RunThread(t) PROVE IInv'
  BY <1>1, LockKeeps, ResumeKeeps, ReturnKeeps, ThreadKeeps DEF RunTask
<1>2. ASSUME NEW a \in Appender, Wake(a) \/ TimesOut(a) \/ Cancel(a) PROVE IInv'
  BY <1>2, WaitKeeps, CancelKeeps DEF Cancel, Task
<1>3. ASSUME NEW d \in Driver, CancelDriver(d) PROVE IInv'
  BY <1>3, CancelKeeps DEF CancelDriver, Task
<1>4. CASE Malformed
  <2>1. Typed'
    BY <1>4 DEF Malformed, IInv, Typed, Await
  <2>2. WaitsForSlot' /\ WokenByTheRun'
    BY <1>4 DEF Malformed, IInv, Typed, WaitsForSlot, WokenByTheRun, Task
  <2>3. QED
    BY <1>4, <2>1, <2>2, Undisturbed DEF Malformed, IInv
<1>5. CASE CallClose \/ RunClose
  BY <1>5, CloseKeeps
<1>6. CASE UNCHANGED vars
  BY <1>6, Undisturbed DEF vars, IInv, Typed, WaitsForSlot, WokenByTheRun
<1>7. QED
  BY <1>1, <1>2, <1>3, <1>4, <1>5, <1>6 DEF Next

\* AsyncSession._run, append and close together: the inductive invariant.
THEOREM AioInvariant == Spec => []IInv
BY InitIInv, Step, PTL DEF Spec

\* aio.py:204-205: for every number of appends, whatever is cancelled, at most one
\* discharge holds an unfinished batch, and the node refuses transitions under it.
THEOREM OneDischargeAtATime == Spec => []OneDischarge
<1>1. IInv => OneDischarge
  <2> SUFFICES ASSUME IInv PROVE OneDischarge
    OBVIOUS
  <2> DEFINE holding == {t \in Task : work[t] \in {"journal", "finish"}}
  <2>1. CASE holding = {}
    BY <2>1, FS_EmptySet DEF OneDischarge
  <2>2. CASE holding # {}
    <3>1. PICK t \in holding : TRUE
      BY <2>2
    <3>2. holding = {t}
      BY <3>1 DEF IInv, Alone
    <3>3. Cardinality(holding) = 1
      BY <3>2, FS_Singleton
    <3>4. Raises(OpenStatus(batch))
      BY <3>1 DEF IInv, Alone, Raises, OpenStatus, Live
    <3>5. QED
      BY <3>3, <3>4 DEF OneDischarge
  <2>3. QED
    BY <2>1, <2>2
<1>2. QED
  BY <1>1, AioInvariant, PTL

\* _settle_waiters: an append whose slot was released waits only for a run that will
\* wake it, or because the last one was cancelled or failed.
THEOREM NobodyIsForgotten == Spec => []WokenByTheRun
<1>1. IInv => WokenByTheRun
  BY DEF IInv
<1>2. QED
  BY <1>1, AioInvariant, PTL

\* aio.py:177-178: the node closes after the discharges that were in flight.
THEOREM ClosesAfterDischarges == Spec => []NodeOutlivesDischarges
<1>1. IInv => NodeOutlivesDischarges
  BY DEF IInv
<1>2. QED
  BY <1>1, AioInvariant, PTL

-----------------------------------------------------------------------------
(* What the holder of the lock knows of the batch.                         *)

\* Who holds the lock runs; once its discharge finished the batch none is retained live.
HolderInv ==
  /\ \A t \in Task : serial = t <=> pc[t] \in {"shield", "flush"}
  /\ \A t \in Task :
       pc[t] = "flush" \/ (pc[t] = "shield" /\ work[t] \in {"floor", "ended"}) => ~Live(batch)

\* A step of tasks that do not hold the lock, before or after.
LEMMA OtherTasks ==
  ASSUME IInv, HolderInv, UNCHANGED <<serial, batch>>,
         \A t \in Task : work'[t] = work[t] /\
           (pc'[t] = pc[t] \/ {pc[t], pc'[t]} \cap {"shield", "flush"} = {})
  PROVE  HolderInv'
BY DEF HolderInv

LEMMA HolderTransition ==
  ASSUME IInv, HolderInv, NEW t \in Task, Transition(t), serial = None
  PROVE  HolderInv'
<1>1. Typed /\ \A u \in Task : pc[u] \notin {"shield", "flush"}
  BY AioAssumption DEF IInv, HolderInv
<1>2. CASE TransitionRaises
  <2>1. \E next \in {"raised", "done"} : pc' = [pc EXCEPT ![t] = next]
    BY <1>2 DEF Transition, Ended
  <2>2. UNCHANGED <<serial, work, batch>>
    BY <1>2 DEF Transition
  <2>3. QED
    BY <1>1, <2>1, <2>2, OtherTasks DEF Typed
<1>3. CASE ~TransitionRaises
  <2>1. /\ serial' = t /\ pc' = [pc EXCEPT ![t] = "shield"]
        /\ work' = [work EXCEPT ![t] = "journal"]
    BY <1>3 DEF Transition
  <2>2. QED
    BY <1>1, <2>1 DEF Typed, HolderInv
<1>4. QED
  BY <1>2, <1>3

LEMMA HolderTask ==
  ASSUME IInv, HolderInv, NEW t \in Task, Enter(t) \/ RunTask(t)
  PROVE  HolderInv'
<1>1. Typed
  BY DEF IInv
<1>2. CASE (Enter(t) \/ Acquire(t)) /\ serial = None /\ Transition(t)
  BY <1>2, HolderTransition
<1>3. CASE Enter(t) /\ ~(serial = None /\ Transition(t))
  <2>1. /\ pc[t] \in {"input", "start"} /\ pc' = [pc EXCEPT ![t] = "queue"]
        /\ UNCHANGED <<serial, work, batch>>
    BY <1>3 DEF Enter, EnterRun, LockFree
  <2>2. QED
    BY <1>1, <2>1, OtherTasks DEF Typed
<1>4. CASE Resume(t)
  <2>1. /\ pc[t] = "shield" /\ UNCHANGED batch
        /\ work' = [work EXCEPT ![t] = "none"]
    BY <1>4 DEF Resume
  <2>2. CASE work[t] = "ended"
    BY <1>1, <1>4, <2>1, <2>2 DEF Resume, HolderInv, Typed
  <2>3. CASE work[t] # "ended"
    <3>1. serial' = None /\ \E next \in {"raised", "done"} : pc' = [pc EXCEPT ![t] = next]
      BY <1>4, <2>3 DEF Resume, Ended
    <3>2. \A u \in Task : u # t => pc[u] \notin {"shield", "flush"}
      BY <2>1 DEF HolderInv
    <3>3. \A u \in Task : pc'[u] \notin {"shield", "flush"}
      BY <1>1, <3>1, <3>2 DEF Typed
    <3>4. QED
      BY <3>1, <3>3, AioAssumption DEF HolderInv
  <2>4. QED
    BY <2>2, <2>3
<1>5. CASE Flush(t)
  BY <1>5, OtherTasks DEF Flush
<1>6. CASE Return(t)
  <2>1. /\ pc[t] = "flush" /\ serial' = None
        /\ \E next \in {"input", "done", "wait"} : pc' = [pc EXCEPT ![t] = next]
    BY <1>6 DEF Return
  <2>2. \A u \in Task : pc'[u] \notin {"shield", "flush"}
    BY <1>1, <2>1 DEF HolderInv, Typed
  <2>3. QED
    BY <2>1, <2>2, AioAssumption DEF HolderInv
<1>7. QED
  BY <1>2, <1>3, <1>4, <1>5, <1>6 DEF RunTask, Acquire

LEMMA HolderThread ==
  ASSUME IInv, HolderInv, NEW t \in Task, RunThread(t)
  PROVE  HolderInv'
<1>1. Typed /\ UNCHANGED <<serial, pc>>
  BY DEF IInv, RunThread, Journal, JournalFails, FinishBatch, AdvanceFloor, Overtaken, Thread
<1>2. CASE Journal(t) \/ FinishBatch(t)
  <2>1. Live(batch)
    BY <1>2 DEF Journal, FinishBatch, Thread, IInv, Alone, Live
  <2>2. \A u \in Task : pc[u] # "flush" /\ (pc[u] = "shield" => work[u] \notin {"floor", "ended"})
    BY <2>1 DEF HolderInv
  <2>3. CASE Journal(t)
    BY <1>1, <2>2, <2>3 DEF Journal, Thread, Typed, HolderInv
  <2>4. CASE FinishBatch(t)
    <3>1. ~Live(batch')
      BY <1>1, <2>4 DEF FinishBatch, Finished, Live, Typed, Batches
    <3>2. QED
      BY <1>1, <3>1 DEF HolderInv
  <2>5. QED
    BY <1>2, <2>3, <2>4
<1>3. CASE JournalFails(t) \/ AdvanceFloor(t) \/ Overtaken(t)
  <2>1. /\ UNCHANGED batch
        /\ \E to \in {"none", "ended", "failed"} : work' = [work EXCEPT ![t] = to]
        /\ work[t] # "floor" => work'[t] # "ended"
    BY <1>1, <1>3 DEF JournalFails, AdvanceFloor, Overtaken, Thread, Typed
  <2>2. QED
    BY <1>1, <2>1 DEF HolderInv, Typed
<1>4. QED
  BY <1>2, <1>3 DEF RunThread

LEMMA HolderCancel ==
  ASSUME IInv, HolderInv, NEW t \in Task, CancelTask(t)
  PROVE  HolderInv'
<1>1. Typed
  BY DEF IInv
<1>2. /\ \E next \in {"cancelled", "done"} : pc' = [pc EXCEPT ![t] = next]
      /\ serial' = IF serial = t THEN None ELSE serial
      /\ UNCHANGED batch
      /\ work' = work \/ work' = [work EXCEPT ![t] = "none"]
  BY DEF CancelTask, Ended
<1>3. \A u \in Task : u # t => pc'[u] = pc[u] /\ work'[u] = work[u]
  BY <1>1, <1>2 DEF Typed
<1>4. pc'[t] \notin {"shield", "flush"}
  BY <1>1, <1>2 DEF Typed
<1>5. \A u \in Task : serial' = u <=> pc'[u] \in {"shield", "flush"}
  BY <1>2, <1>3, <1>4, AioAssumption DEF HolderInv
<1>6. QED
  BY <1>2, <1>3, <1>4, <1>5 DEF HolderInv

LEMMA HolderStep == IInv /\ HolderInv /\ [Next]_vars => HolderInv'
<1> SUFFICES ASSUME IInv, HolderInv, [Next]_vars PROVE HolderInv'
  OBVIOUS
<1>1. Typed
  BY DEF IInv
<1>2. ASSUME NEW a \in Appender, Wake(a) \/ TimesOut(a) PROVE HolderInv'
  <2>1. pc[a] = "wait" /\ pc' = [pc EXCEPT ![a] = "done"] /\ UNCHANGED <<serial, work, batch>>
    BY <1>2 DEF Wake, TimesOut, Others
  <2>2. QED
    BY <1>1, <2>1, OtherTasks DEF Typed
<1>3. ASSUME NEW t \in Task, CancelTask(t) PROVE HolderInv'
  BY <1>3, HolderCancel
<1>4. CASE Malformed
  BY <1>1, <1>4, OtherTasks DEF Malformed, Typed
<1>5. CASE CallClose \/ RunClose
  BY <1>5, OtherTasks DEF CallClose, RunClose, Gather, CloseRaises, Gathered
<1>6. CASE UNCHANGED vars
  BY <1>6, OtherTasks DEF vars
<1>7. QED
  BY <1>2, <1>3, <1>4, <1>5, <1>6, HolderTask, HolderThread DEF Next, Cancel, CancelDriver, Task

\* append, aio.py:257, "durably released here": for every number of appends, nobody is
\* woken and nobody returns while the batch may still be lost.
THEOREM NothingReturnsBeforeTheBatch == Spec => NothingReturnsEarly
<1>1. Init => HolderInv
  BY AioAssumption DEF Init, HolderInv, Task, Driver
<1>2. ASSUME IInv, HolderInv, [Next]_vars,
             NEW a \in Appender, waiter'[a] = "set" /\ waiter[a] # "set"
      PROVE  ~Live(batch)
  <2>1. waiter' # waiter
    BY <1>2
  <2>2. ASSUME NEW t \in Task, Return(t) PROVE ~Live(batch)
    BY <1>2, <2>2 DEF Return, HolderInv
  <2>3. ASSUME NEW t \in Task, Enter(t) \/ Acquire(t) \/ Resume(t) \/ Flush(t) \/ RunThread(t)
        PROVE  FALSE
    BY <2>1, <2>3 DEF Enter, Acquire, Resume, Flush, RunThread, Journal, JournalFails,
       FinishBatch, AdvanceFloor, Overtaken, Thread, Others
  <2>4. ASSUME NEW t \in Task, CancelTask(t) PROVE FALSE
    BY <1>2, <2>4 DEF CancelTask, IInv, Typed
  <2>5. ASSUME NEW b \in Appender, Wake(b) \/ TimesOut(b) PROVE FALSE
    BY <1>2, <2>1, <2>5 DEF Wake, TimesOut, Others, IInv, Typed
  <2>6. CASE CallClose \/ RunClose
    BY <1>2, <2>6 DEF CallClose, RunClose, Gather, CloseRaises, Gathered, CloseNode
  <2>7. CASE Malformed \/ UNCHANGED vars
    BY <2>1, <2>7 DEF Malformed, vars
  <2>8. QED
    BY <1>2, <2>2, <2>3, <2>4, <2>5, <2>6, <2>7 DEF Next, RunTask, Cancel, CancelDriver, Task
<1>3. ASSUME IInv, HolderInv, NEW a \in Appender, pc[a] = "flush" PROVE ~Live(batch)
  BY <1>3 DEF HolderInv, Task
<1>4. IInv /\ HolderInv /\ [Next]_vars =>
        [\A a \in Appender :
          \/ waiter'[a] = "set" /\ waiter[a] # "set"
          \/ pc[a] = "flush" /\ pc'[a] = "done" /\ slot[a] \in 1 .. decided /\ UNCHANGED cancels
          => ~Live(batch)]_vars
  BY <1>2, <1>3
<1>5. QED
  BY <1>1, <1>4, HolderStep, AioInvariant, PTL DEF Spec, NothingReturnsEarly
-----------------------------------------------------------------------------
(* The drivers.                                                            *)

\* Nothing was cancelled, nothing failed, and nobody called close.
Undisrupted == close = "no" /\ cancels = 0 /\ failures = 0

\* Then a discharge belongs to the task that holds the lock, a live batch is being
\* discharged, and so the next transition finds the node ready.
DriverInv ==
  /\ cancels \in Nat /\ failures \in Nat
  /\ Undisrupted =>
       /\ \A d \in Driver : pc[d] \notin {"cancelled", "raised"}
       /\ \A t \in Task : work[t] # "none" => pc[t] = "shield" /\ work[t] # "failed"
       /\ Live(batch) => \E t \in Task : work[t] \in {"journal", "finish"}

\* Whoever gets the lock is not refused the transition.
LEMMA ReadyForTheNext ==
  ASSUME HolderInv, DriverInv, Undisrupted, serial = None
  PROVE  ~TransitionRaises
<1>1. \A t \in Task : pc[t] # "shield"
  BY AioAssumption DEF HolderInv
<1>2. ~Live(batch)
  BY <1>1 DEF DriverInv
<1>3. QED
  BY <1>2 DEF TransitionRaises, OpenStatus, Raises, Undisrupted

\* A step that leaves the discharges alone, and no driver dead.
LEMMA DriversAside ==
  ASSUME DriverInv, cancels' \in Nat, failures' \in Nat,
         Undisrupted' => Undisrupted /\ UNCHANGED <<work, batch>>,
         Undisrupted' => \A d \in Driver : pc'[d] = pc[d] \/ pc'[d] \notin {"cancelled", "raised"},
         Undisrupted' => \A t \in Task : pc[t] = "shield" => pc'[t] = "shield"
  PROVE  DriverInv'
BY DEF DriverInv, Task

LEMMA DriversTask ==
  ASSUME IInv, HolderInv, DriverInv, NEW t \in Task, Enter(t) \/ RunTask(t)
  PROVE  DriverInv'
<1>1. Typed /\ UNCHANGED <<close, cancels, failures>>
  BY DEF IInv, Enter, RunTask, Acquire, Resume, Flush, Return, Others
<1>2. cancels \in Nat /\ failures \in Nat /\ (Undisrupted' <=> Undisrupted)
  BY <1>1 DEF DriverInv, Undisrupted
<1>3. CASE serial = None /\ Transition(t)
  <2>1. CASE Undisrupted
    <3>1. ~TransitionRaises
      BY <1>3, <2>1, ReadyForTheNext
    <3>2. pc' = [pc EXCEPT ![t] = "shield"] /\ work' = [work EXCEPT ![t] = "journal"]
      BY <1>3, <3>1 DEF Transition
    <3>3. \A d \in Driver : pc'[d] \notin {"cancelled", "raised"}
      BY <1>1, <2>1, <3>2 DEF DriverInv, Typed, Task
    <3>4. \A u \in Task : work'[u] # "none" => pc'[u] = "shield" /\ work'[u] # "failed"
      BY <1>1, <2>1, <3>2 DEF DriverInv, Typed
    <3>5. work'[t] = "journal"
      BY <1>1, <3>2 DEF Typed
    <3>6. QED
      BY <1>1, <1>2, <3>3, <3>4, <3>5 DEF DriverInv
  <2>2. QED
    BY <1>1, <1>2, <2>1 DEF DriverInv
<1>4. CASE Enter(t) /\ ~LockFree
  <2>1. pc[t] # "shield" /\ pc' = [pc EXCEPT ![t] = "queue"] /\ UNCHANGED <<work, batch>>
    BY <1>4 DEF Enter, EnterRun
  <2>2. QED
    BY <1>1, <1>2, <2>1, DriversAside DEF Typed, Task
<1>5. CASE Resume(t)
  <2>1. CASE Undisrupted
    <3>1. work[t] = "ended"
      BY <1>5, <2>1 DEF Resume, DriverInv
    <3>2. pc' = [pc EXCEPT ![t] = "flush"] /\ work' = [work EXCEPT ![t] = "none"] /\ UNCHANGED batch
      BY <1>5, <3>1 DEF Resume
    <3>3. \A d \in Driver : pc'[d] \notin {"cancelled", "raised"}
      BY <1>1, <2>1, <3>2 DEF DriverInv, Typed, Task
    <3>4. \A u \in Task : work'[u] # "none" => pc'[u] = "shield" /\ work'[u] # "failed"
      BY <1>1, <2>1, <3>2 DEF DriverInv, Typed
    <3>5. Live(batch') => \E u \in Task : work'[u] \in {"journal", "finish"}
      BY <1>1, <2>1, <3>1, <3>2 DEF DriverInv, Typed
    <3>6. QED
      BY <1>1, <1>2, <3>3, <3>4, <3>5 DEF DriverInv
  <2>2. QED
    BY <1>1, <1>2, <2>1 DEF DriverInv
<1>6. CASE Flush(t)
  BY <1>1, <1>2, <1>6, DriversAside DEF Flush
<1>7. CASE Return(t)
  <2>1. /\ pc[t] = "flush" /\ UNCHANGED <<work, batch>>
        /\ \E next \in {"input", "done", "wait"} : pc' = [pc EXCEPT ![t] = next]
    BY <1>7 DEF Return
  <2>2. QED
    BY <1>1, <1>2, <2>1, DriversAside DEF Typed, Task
<1>8. QED
  BY <1>3, <1>4, <1>5, <1>6, <1>7 DEF Enter, EnterRun, LockFree, RunTask, Acquire

LEMMA DriversThread ==
  ASSUME IInv, HolderInv, DriverInv, NEW t \in Task, RunThread(t)
  PROVE  DriverInv'
<1>1. /\ Typed /\ UNCHANGED <<pc, close, cancels>>
      /\ failures' \in {failures, failures + 1}
      /\ cancels \in Nat /\ failures \in Nat
  BY DEF IInv, RunThread, Journal, JournalFails, FinishBatch, AdvanceFloor, Overtaken, Thread, DriverInv
<1>2. Undisrupted' => Undisrupted /\ failures' = failures
  BY <1>1 DEF Undisrupted
<1>3. CASE Undisrupted /\ failures' = failures
  <2>1. close # "closed" /\ work[t] # "none" /\ pc[t] = "shield"
    BY <1>3 DEF Undisrupted, DriverInv, RunThread, Journal, JournalFails, FinishBatch,
       AdvanceFloor, Overtaken, Thread
  <2>2. CASE Journal(t)
    <3>1. work' = [work EXCEPT ![t] = "finish"]
      BY <2>2 DEF Journal, Thread
    <3>2. \A u \in Task : work'[u] # "none" => pc'[u] = "shield" /\ work'[u] # "failed"
      BY <1>1, <1>3, <2>1, <3>1 DEF DriverInv, Typed
    <3>3. work'[t] = "finish"
      BY <1>1, <3>1 DEF Typed
    <3>4. QED
      BY <1>1, <1>3, <3>2, <3>3 DEF DriverInv
  <2>3. CASE FinishBatch(t)
    <3>1. work' = [work EXCEPT ![t] = "floor"] /\ ~Live(batch')
      BY <1>1, <2>3 DEF FinishBatch, Thread, Finished, Live, Typed, Batches
    <3>2. \A u \in Task : work'[u] # "none" => pc'[u] = "shield" /\ work'[u] # "failed"
      BY <1>1, <1>3, <2>1, <3>1 DEF DriverInv, Typed
    <3>3. QED
      BY <1>1, <1>3, <3>1, <3>2 DEF DriverInv
  <2>4. CASE AdvanceFloor(t)
    <3>1. work[t] = "floor" /\ UNCHANGED batch
      BY <2>4 DEF AdvanceFloor, Thread
    <3>2. ~Live(batch)
      BY <2>1, <3>1 DEF HolderInv
    <3>3. ~TransitionRaises
      BY <2>1, <3>2 DEF TransitionRaises, OpenStatus, Raises
    <3>4. work' = [work EXCEPT ![t] = "ended"]
      BY <2>1, <2>4, <3>3 DEF AdvanceFloor, Thread
    <3>5. \A u \in Task : work'[u] # "none" => pc'[u] = "shield" /\ work'[u] # "failed"
      BY <1>1, <1>3, <2>1, <3>4 DEF DriverInv, Typed
    <3>6. QED
      BY <1>1, <1>3, <3>1, <3>2, <3>5 DEF DriverInv
  <2>5. ~JournalFails(t) /\ ~Overtaken(t)
    BY <1>1, <1>3, <2>1 DEF JournalFails, Overtaken
  <2>6. QED
    BY <2>2, <2>3, <2>4, <2>5 DEF RunThread
<1>4. QED
  BY <1>1, <1>2, <1>3 DEF DriverInv

LEMMA DriversStep == IInv /\ HolderInv /\ DriverInv /\ [Next]_vars => DriverInv'
<1> SUFFICES ASSUME IInv, HolderInv, DriverInv, [Next]_vars PROVE DriverInv'
  OBVIOUS
<1>1. Typed /\ cancels \in Nat /\ failures \in Nat
  BY DEF IInv, DriverInv
<1>2. ASSUME NEW a \in Appender, Wake(a) \/ TimesOut(a) PROVE DriverInv'
  <2>1. /\ pc[a] = "wait" /\ pc' = [pc EXCEPT ![a] = "done"]
        /\ UNCHANGED <<work, batch, close, cancels, failures>>
    BY <1>2 DEF Wake, TimesOut, Others
  <2>2. QED
    BY <1>1, <2>1, DriversAside DEF Undisrupted, Typed, Task
<1>3. ASSUME NEW a \in Appender, Cancel(a) PROVE DriverInv'
  BY <1>1, <1>3 DEF Cancel, CancelTask, DriverInv, Undisrupted
<1>4. ASSUME NEW d \in Driver, CancelDriver(d) PROVE DriverInv'
  BY <1>1, <1>4 DEF CancelDriver, CancelTask, DriverInv, Undisrupted
<1>5. CASE Malformed
  BY <1>1, <1>5 DEF Malformed, DriverInv, Undisrupted
<1>6. CASE CallClose \/ RunClose
  <2>1. close' # "no" /\ UNCHANGED <<cancels, failures>>
    BY <1>6 DEF CallClose, RunClose, Gather, CloseRaises, Gathered, CloseNode
  <2>2. QED
    BY <1>1, <2>1 DEF DriverInv, Undisrupted
<1>7. CASE UNCHANGED vars
  BY <1>1, <1>7, DriversAside DEF vars, Undisrupted
<1>8. QED
  BY <1>2, <1>3, <1>4, <1>5, <1>6, <1>7, DriversTask, DriversThread DEF Next

\* _receive_forever and _tick_forever: for every number of appends, the drivers go on
\* until close stops them, an append is cancelled, the journal fails or a frame cannot
\* be decoded; the batch of one run never gets in the way of another.
THEOREM TheDriversGoOn == Spec => []DriversLive
<1>1. Init => HolderInv /\ DriverInv
  BY AioAssumption DEF Init, HolderInv, DriverInv, Task, Driver, NoBatch, Live
<1>2. DriverInv => DriversLive
  <2> SUFFICES ASSUME DriverInv, close = "no", ~(cancels > 0), ~(failures > 0), NEW d \in Driver
               PROVE  pc[d] \notin {"cancelled", "raised"}
    BY DEF DriversLive
  <2>1. Undisrupted
    BY DEF DriverInv, Undisrupted
  <2>2. QED
    BY <2>1 DEF DriverInv
<1>3. QED
  BY <1>1, <1>2, HolderStep, DriversStep, AioInvariant, PTL DEF Spec
===============================================================================
