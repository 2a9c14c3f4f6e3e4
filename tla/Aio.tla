--------------------------------- MODULE Aio ---------------------------------
(***************************************************************************)
(* AsyncSession (aio.py): the receiver, the ticker, the application's      *)
(* appends and close, as tasks of one event loop over one node, with the   *)
(* discharges in worker threads.                                           *)
(*                                                                         *)
(* A task runs from one await to the next without interruption, so an      *)
(* action is what it does between two.  A discharge runs in a thread of    *)
(* its own: a cancelled task leaves it running (asyncio.shield).  The      *)
(* batch is the node's retained one (module Batch).  A campaign is an      *)
(* append whose transition is admitted to no slot.                         *)
(***************************************************************************)
EXTENDS Batch, Sequences, FiniteSets

CONSTANTS
  Appender,     \* tasks of the application; each calls append or campaign once
  None,         \* no task
  MaxSlot,      \* bound: slots
  MaxCancels,   \* bound: appends the application cancels
  MaxFailures   \* bound: journal failures and malformed frames

Driver == {"receiver", "ticker"}
Task == Driver \cup Appender

ASSUME AioAssumption ==
  /\ None \notin Task /\ Appender \cap Driver = {}
  /\ {MaxSlot, MaxCancels, MaxFailures} \subseteq Nat

VARIABLES
  serial,     \* _serial: the task that holds the lock
  line,       \* the tasks that wait for it, first come first served
  pc,         \* the await each task stands at
  work,       \* how far the discharge each task started last has got
  batch,      \* the batch the node retains
  decided,    \* the node's released prefix
  outbox,     \* _outbox.frames is not empty
  slot,       \* the slot each append was admitted to
  waiter,     \* the future each append waits on
  close,      \* where close() is
  gathered,   \* the discharges it found in flight
  cancels,    \* appends cancelled
  failures,   \* journal failures and malformed frames
  unsettled   \* a run was cancelled or failed after the last _settle_waiters

vars == <<serial, line, pc, work, batch, decided, outbox, slot, waiter, close,
          gathered, cancels, failures, unsettled>>

Init ==
  /\ serial = None /\ line = <<>>
  /\ pc = [t \in Task |-> IF t \in Driver THEN "input" ELSE "start"]
  /\ work = [t \in Task |-> "none"]
  /\ batch = NoBatch /\ decided = 0 /\ outbox = FALSE
  /\ slot = [a \in Appender |-> 0]
  /\ waiter = [a \in Appender |-> "none"]
  /\ close = "no" /\ gathered = {}
  /\ cancels = 0 /\ failures = 0 /\ unsettled = FALSE

InFlight(t) == work[t] \in {"journal", "finish", "floor"}

TypeOK ==
  /\ serial \in Task \cup {None}
  /\ line \in Seq(Task)
  /\ \A i, j \in DOMAIN line : line[i] = line[j] => i = j
  /\ \A t \in Task : (\E i \in DOMAIN line : line[i] = t) <=> pc[t] = "queue"
  /\ \A t \in Task : serial = t <=> pc[t] \in {"shield", "flush"}
  /\ pc \in [Task -> {"input", "start", "queue", "shield", "flush", "wait", "cancelled", "raised", "done"}]
  /\ work \in [Task -> {"none", "journal", "finish", "floor", "ended", "failed"}]
  /\ batch \in Batches(1)
  /\ decided \in 0 .. MaxSlot
  /\ slot \in [Appender -> 0 .. MaxSlot]
  /\ waiter \in [Appender -> {"none", "pending", "set", "cancelled"}]
  /\ close \in {"no", "cancelling", "gathering", "closed", "raised"}

-----------------------------------------------------------------------------
(* _run: one transition and its discharge, under the lock.                 *)

\* The end of a task by an exception: a driver's stays in its Task object.
Ended(t, how) == IF t \in Driver THEN how ELSE "done"

\* BatchPending or HandleClosed.
TransitionRaises == Raises(OpenStatus(batch)) \/ close = "closed"

\* The lock is t's, and t runs on to the next await: the transition releases some
\* entries, an append's may be admitted to a slot, and the discharge starts.
Transition(t) ==
  IF TransitionRaises THEN
    /\ pc' = [pc EXCEPT ![t] = Ended(t, "raised")]
    /\ UNCHANGED <<serial, work, batch, decided, slot>>
  ELSE
    /\ serial' = t
    /\ pc' = [pc EXCEPT ![t] = "shield"]
    /\ work' = [work EXCEPT ![t] = "journal"]
    /\ batch' = [Begun(batch, 1) EXCEPT !.generation = 1]
    /\ \E d \in decided .. MaxSlot :
         /\ decided' = d
         /\ IF t \in Appender
            THEN \E s \in {0} \cup {n \in decided + 1 .. MaxSlot : \A a \in Appender : slot[a] # n} :
                   slot' = [slot EXCEPT ![t] = s]
            ELSE UNCHANGED slot

Others == <<outbox, waiter, close, gathered, cancels, failures, unsettled>>

\* Mutant of LockFree: transitions are not serialised.
LockIgnored == TRUE

\* asyncio.Lock: free and nobody waiting, or to the end of the line.
LockFree == serial = None /\ line = <<>>

EnterRun(t) ==
  IF LockFree THEN Transition(t) /\ UNCHANGED line
  ELSE /\ line' = Append(line, t)
       /\ pc' = [pc EXCEPT ![t] = "queue"]
       /\ UNCHANGED <<serial, work, batch, decided, slot>>

\* A frame was received and decoded, the tick interval is over, append was called.
Enter(t) ==
  /\ pc[t] \in {"input", "start"}
  /\ EnterRun(t)
  /\ UNCHANGED Others

\* codec.decode refuses the frame: nothing catches it.
Malformed ==
  /\ pc["receiver"] = "input" /\ failures < MaxFailures
  /\ failures' = failures + 1
  /\ pc' = [pc EXCEPT !["receiver"] = "raised"]
  /\ UNCHANGED <<serial, line, work, batch, decided, outbox, slot, waiter, close, gathered, cancels, unsettled>>

Acquire(t) ==
  /\ serial = None /\ line # <<>> /\ Head(line) = t
  /\ line' = Tail(line)
  /\ Transition(t)
  /\ UNCHANGED Others

\* Mutant of Resume: the failure of a discharge is swallowed.
ResumeSwallows(t) ==
  /\ pc[t] = "shield" /\ work[t] \in {"ended", "failed"}
  /\ pc' = [pc EXCEPT ![t] = "flush"]
  /\ work' = [work EXCEPT ![t] = "none"]
  /\ UNCHANGED <<serial, line, batch, decided, slot, Others>>

\* Mutant of Resume: a failed run does not release the lock.
ResumeKeepsLock(t) ==
  /\ pc[t] = "shield" /\ work[t] \in {"ended", "failed"}
  /\ pc' = [pc EXCEPT ![t] = IF work[t] = "ended" THEN "flush" ELSE Ended(t, "raised")]
  /\ work' = [work EXCEPT ![t] = "none"]
  /\ UNCHANGED <<serial, line, batch, decided, slot, Others>>

\* The shielded discharge is over: an exception goes on into the task.
Resume(t) ==
  /\ pc[t] = "shield" /\ work[t] \in {"ended", "failed"}
  /\ IF work[t] = "ended"
     THEN pc' = [pc EXCEPT ![t] = "flush"] /\ UNCHANGED <<serial, unsettled>>
     ELSE pc' = [pc EXCEPT ![t] = Ended(t, "raised")] /\ serial' = None /\ unsettled' = TRUE
  /\ work' = [work EXCEPT ![t] = "none"]
  /\ UNCHANGED <<line, batch, decided, slot, outbox, waiter, close, gathered, cancels, failures>>

\* _flush: a send that fails is forgotten.
Flush(t) ==
  /\ pc[t] = "flush" /\ outbox
  /\ outbox' = FALSE
  /\ UNCHANGED <<serial, line, pc, work, batch, decided, slot, waiter, close, gathered, cancels, failures, unsettled>>

\* Mutant of Settled: the slot released last is left out.
SettledBelow == 1 .. decided - 1

\* _settle_waiters: the slots whose appends it wakes.
Settled == 1 .. decided

\* The end of _run, and what the caller does up to its next await.
Return(t) ==
  /\ pc[t] = "flush" /\ ~outbox
  /\ serial' = None /\ unsettled' = FALSE
  /\ pc' = [pc EXCEPT ![t] =
       IF t \in Driver THEN "input" ELSE
       IF slot[t] = 0 \/ slot[t] <= decided \/ close = "closed" THEN "done" ELSE "wait"]
  /\ waiter' = [a \in Appender |->
       IF a = t THEN IF pc'[t] = "wait" THEN "pending" ELSE "none"
       ELSE IF waiter[a] = "pending" /\ slot[a] \in Settled THEN "set" ELSE waiter[a]]
  /\ UNCHANGED <<line, work, batch, decided, outbox, slot, close, gathered, cancels, failures>>

-----------------------------------------------------------------------------
(* The discharge, in its thread.  Once the node is closed it raises.       *)

\* Nobody looks at the outcome of a discharge whose task was cancelled.
Thread(t, from, to) ==
  /\ work[t] = from
  /\ work' = [work EXCEPT ![t] = IF to \in {"ended", "failed"} /\ pc[t] # "shield" THEN "none" ELSE to]
  /\ UNCHANGED <<serial, line, pc, decided, slot, waiter, close, gathered, cancels, unsettled>>

Journal(t) ==
  /\ close # "closed"
  /\ Thread(t, "journal", "finish")
  /\ batch' = Confirmed(batch)
  /\ UNCHANGED <<outbox, failures>>

\* The batch stays unconfirmed, and the node blocked.
JournalFails(t) ==
  /\ close = "closed" \/ failures < MaxFailures
  /\ Thread(t, "journal", "failed")
  /\ failures' = IF close = "closed" THEN failures ELSE failures + 1
  /\ UNCHANGED <<batch, outbox>>

FinishBatch(t) ==
  /\ close # "closed"
  /\ Thread(t, "finish", "floor")
  /\ batch' = Finished(batch)
  /\ outbox' = TRUE
  /\ UNCHANGED failures

\* advance_memory_floor raises BatchPending when the next transition has begun.
AdvanceFloor(t) ==
  /\ Thread(t, "floor", IF TransitionRaises THEN "failed" ELSE "ended")
  /\ UNCHANGED <<batch, outbox, failures>>

\* HandleClosed, wherever the discharge was.
Overtaken(t) ==
  /\ close = "closed"
  /\ Thread(t, "finish", "failed")
  /\ UNCHANGED <<batch, outbox, failures>>

-----------------------------------------------------------------------------
(* append's wait, and cancellation.                                        *)

Wake(a) ==
  /\ pc[a] = "wait" /\ waiter[a] \in {"set", "cancelled"}
  /\ pc' = [pc EXCEPT ![a] = "done"]
  /\ UNCHANGED <<serial, line, work, batch, decided, slot, Others>>

\* asyncio.timeout: CommitTimeout; the future is cancelled and forgotten.
TimesOut(a) ==
  /\ pc[a] = "wait"
  /\ pc' = [pc EXCEPT ![a] = "done"]
  /\ waiter' = [waiter EXCEPT ![a] = "none"]
  /\ UNCHANGED <<serial, line, work, batch, decided, outbox, slot, close, gathered, cancels, failures, unsettled>>

\* CancelledError at whatever await the task stands at.  In a discharge or a flush the
\* lock is released at once; the discharge goes on, and nobody settles after it.
CancelTask(t) ==
  /\ pc[t] \in {"input", "queue", "shield", "flush", "wait"}
  /\ pc' = [pc EXCEPT ![t] = Ended(t, "cancelled")]
  /\ line' = SelectSeq(line, LAMBDA u : u # t)
  /\ serial' = IF serial = t THEN None ELSE serial
  /\ unsettled' = (unsettled \/ serial = t)
  /\ waiter' = IF pc[t] = "wait" THEN [waiter EXCEPT ![t] = "cancelled"] ELSE waiter
  /\ work' = IF InFlight(t) THEN work ELSE [work EXCEPT ![t] = "none"]
  /\ UNCHANGED <<batch, decided, outbox, slot, gathered, failures>>

Cancel(a) ==
  /\ cancels < MaxCancels
  /\ cancels' = cancels + 1
  /\ CancelTask(a)
  /\ UNCHANGED close

-----------------------------------------------------------------------------
(* close.                                                                  *)

CallClose ==
  /\ close = "no"
  /\ close' = "cancelling"
  /\ UNCHANGED <<serial, line, pc, work, batch, decided, outbox, slot, waiter, gathered, cancels, failures, unsettled>>

\* A driver that is running takes the cancellation at its await.
CancelDriver(d) ==
  /\ close = "cancelling"
  /\ CancelTask(d)
  /\ UNCHANGED <<close, cancels>>

\* The rest of close in one go, from its last await on.
CloseNode ==
  /\ close' = "closed"
  /\ waiter' = [a \in Appender |-> IF waiter[a] = "pending" THEN "cancelled" ELSE waiter[a]]

\* Mutant of Gather: discharges in flight are not waited for.
GatherNothing ==
  /\ close = "cancelling"
  /\ \A d \in Driver : pc[d] = "cancelled"
  /\ gathered' = {t \in Task : InFlight(t)}
  /\ CloseNode
  /\ UNCHANGED <<serial, line, pc, work, batch, decided, outbox, slot, cancels, failures, unsettled>>

\* Both drivers were cancelled; the node is closed at once if no discharge is in flight.
Gather ==
  /\ close = "cancelling"
  /\ \A d \in Driver : pc[d] = "cancelled"
  /\ gathered' = {t \in Task : InFlight(t)}
  /\ IF gathered' = {} THEN CloseNode ELSE close' = "gathering" /\ UNCHANGED waiter
  /\ UNCHANGED <<serial, line, pc, work, batch, decided, outbox, slot, cancels, failures, unsettled>>

\* The drivers are awaited in order; one that had died of an exception raises it again,
\* and nothing is closed.
CloseRaises ==
  /\ close = "cancelling"
  /\ \/ pc["receiver"] = "raised"
     \/ pc["receiver"] = "cancelled" /\ pc["ticker"] = "raised"
  /\ close' = "raised"
  /\ UNCHANGED <<serial, line, pc, work, batch, decided, outbox, slot, waiter, gathered, cancels, failures, unsettled>>

Gathered ==
  /\ close = "gathering"
  /\ \A t \in gathered : ~InFlight(t)
  /\ CloseNode
  /\ UNCHANGED <<serial, line, pc, work, batch, decided, outbox, slot, gathered, cancels, failures, unsettled>>

-----------------------------------------------------------------------------
\* What the loop and the threads go on with by themselves.
RunTask(t) == Acquire(t) \/ Resume(t) \/ Flush(t) \/ Return(t)
RunThread(t) == Journal(t) \/ JournalFails(t) \/ FinishBatch(t) \/ AdvanceFloor(t) \/ Overtaken(t)
RunClose == Gather \/ CloseRaises \/ Gathered

Next ==
  \/ \E t \in Task : Enter(t) \/ RunTask(t) \/ RunThread(t)
  \/ \E a \in Appender : Wake(a) \/ TimesOut(a) \/ Cancel(a)
  \/ \E d \in Driver : CancelDriver(d)
  \/ Malformed \/ CallClose \/ RunClose

Spec == Init /\ [][Next]_vars

\* The event loop runs every task that can go on, threads and sends end, timers fire.
FairSpec ==
  /\ Spec
  /\ \A t \in Task : WF_vars(RunTask(t)) /\ WF_vars(RunThread(t))
  /\ \A a \in Appender : WF_vars(Wake(a)) /\ WF_vars(TimesOut(a))
  /\ \A d \in Driver : WF_vars(CancelDriver(d))
  /\ WF_vars(RunClose)

-----------------------------------------------------------------------------
(* Properties.                                                             *)

\* _run, aio.py:204-205, "the engine permits one transition at a time, and this is the
\* only path to one": whatever is cancelled, no two discharges hold an unfinished batch,
\* and while one does the node refuses the next transition.
OneDischarge ==
  LET holding == {t \in Task : work[t] \in {"journal", "finish"}}
  IN  /\ Cardinality(holding) <= 1
      /\ holding # {} => Raises(OpenStatus(batch))

\* _receive_forever and _tick_forever: the drivers go on until close stops them, unless
\* a discharge was abandoned by a cancelled append, the journal failed or a peer's
\* frame could not be decoded.
DriversLive ==
  (\E d \in Driver : pc[d] \in {"cancelled", "raised"}) =>
    close # "no" \/ cancels > 0 \/ failures > 0

\* _settle_waiters: an append whose slot was released is waiting only while a run is
\* under way that will wake it, or because a run ended by a cancellation or a failure
\* (the next one wakes it then).
WokenByTheRun ==
  \A a \in Appender :
    waiter[a] = "pending" /\ pc[a] = "wait" /\ slot[a] <= decided =>
      serial # None \/ unsettled

\* append, aio.py:257, "durably released here": no append is woken or returns a slot
\* while the batch that released it may still be lost.
NothingReturnsEarly ==
  [][\A a \in Appender :
       \/ waiter'[a] = "set" /\ waiter[a] # "set"
       \/ pc[a] = "flush" /\ pc'[a] = "done" /\ slot[a] \in 1 .. decided /\ UNCHANGED cancels
       => ~Live(batch)]_vars

\* close, aio.py:177-178, "the node must not close underneath it": every discharge that
\* was in flight when close looked is over when the node closes, and when there was
\* none there is none.
NodeOutlivesDischarges ==
  close = "closed" =>
    /\ \A t \in gathered : ~InFlight(t)
    /\ gathered = {} => \A t \in Task : ~InFlight(t)

\* append and close come to an end: also an append that stood in line for the lock or
\* waited for its slot when others were cancelled, failed or closed the session; and
\* close, with the node closed or with a dead driver's exception.
CallsEnd ==
  /\ \A a \in Appender : pc[a] \in {"queue", "shield", "flush", "wait"} ~> pc[a] = "done"
  /\ close = "cancelling" ~> close \in {"closed", "raised"}
===============================================================================
