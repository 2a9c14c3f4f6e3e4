----------------------------- MODULE HandleProofs -----------------------------
(***************************************************************************)
(* The pending-batch protocol behind the lock of Node: for every set of    *)
(* threads, every number and size of transitions and every chunk size.     *)
(***************************************************************************)
EXTENDS Handle, TLAPS

\* The lock: whoever is between its acquisition and its release holds it, whoever is
\* inside is the owner, and nobody calls a node that is not yet made.
LockInv ==
  /\ \A t \in Thread :
       /\ pc[t] \in {"taken", "inside", "leaving", "stuck"} => lock = t
       /\ pc[t] = "inside" => owner = t
       /\ pc[t] = "inside" /\ box = "closed" => call[t].op = "close"
  /\ box \in {"none", "replaying"} => \A t \in Thread : pc[t] = "idle"

\* The batch against the record of what happened to each generation.
BatchInv ==
  LET b == native.batch
      g == native.batch.generation
  IN  /\ b.copied <= b.writes
      /\ b.phase = "Idle" <=> g = 0
      /\ g = 0 => b.writes = 0
      /\ g # 0 => wrote[g] = b.writes /\ handed[g] = b.copied
      /\ b.phase \in {"Confirmed", "Finished"} =>
           b.copied = b.writes /\ (b.writes = 0 \/ g \in acked)
      /\ \A h \in Generation : h > g => h \notin acked \cup shown /\ handed[h] = 0

\* A caller of writes() has been handed everything before its offset.
OffsetInv ==
  \A t \in Thread :
    LET c == call[t]
    IN  c.op = "writes" =>
          /\ c.token \in 1 .. native.batch.generation
          /\ c.offset <= handed[c.token]

IInv == TypeOK /\ LockInv /\ BatchInv /\ OffsetInv /\ NothingShownEarly /\ ObligationsAreMet

-----------------------------------------------------------------------------
(* What the statuses say.                                                  *)

LEMMA NoCallTyped == NoCall \in CallType
BY HandleAssumption DEF NoCall, CallType

\* A call that names a batch is not refused only if it names the one retained.
LEMMA TokenIsCurrent ==
  ASSUME NEW b, NEW token, ~Raises(TokenStatus(b, token))
  PROVE  b.phase # "Idle" /\ token = b.generation
BY DEF Raises, TokenStatus

LEMMA ReadIsCurrent ==
  ASSUME NEW b, NEW token, ~Raises(ReadStatus(b, token))
  PROVE  b.phase \notin {"Idle", "Finished"} /\ token = b.generation
BY TokenIsCurrent DEF Raises, ReadStatus

\* Outputs are read of a confirmed batch only.
LEMMA OutputIsConfirmed ==
  ASSUME NEW b \in Batches(MaxWrites), NEW token, ~Raises(OutputStatus(b, token))
  PROVE  b.phase = "Confirmed" /\ token = b.generation
BY ReadIsCurrent DEF Raises, OutputStatus, Batches, Phase

\* A confirmation is accepted when every record was copied, or for a second time.
LEMMA ConfirmIsComplete ==
  ASSUME NEW b \in Batches(MaxWrites), NEW token, b.copied <= b.writes,
         ~Raises(ConfirmStatus(b, token))
  PROVE  /\ token = b.generation
         /\ b.phase = "Confirmed" \/ (b.phase = "Pending" /\ b.copied = b.writes)
<1>1. ~Raises(ReadStatus(b, token))
  BY DEF Raises, ConfirmStatus
<1>2. token = b.generation /\ b.phase \in {"Pending", "Confirmed"}
  BY <1>1, ReadIsCurrent DEF Batches, Phase
<1>3. b.phase = "Pending" => ~(b.copied < b.writes)
  BY <1>1 DEF Raises, ConfirmStatus
<1>4. QED
  BY <1>2, <1>3 DEF Batches

LEMMA FinishIsConfirmed ==
  ASSUME NEW b \in Batches(MaxWrites), NEW token, ~Raises(FinishStatus(b, token))
  PROVE  token = b.generation /\ b.phase \in {"Confirmed", "Finished"}
BY TokenIsCurrent DEF Raises, FinishStatus, Batches, Phase

-----------------------------------------------------------------------------
(* The lock.                                                               *)

\* Whatever a native call does, its thread was inside and leaves.
LEMMA CallLeaves ==
  ASSUME NEW t \in Thread, Call(t)
  PROVE  /\ pc[t] = "inside"
         /\ pc' = [pc EXCEPT ![t] = "leaving"]
         /\ owner' = Nobody /\ lock' = lock /\ forked' = forked
         /\ box' \in {box, "closed"}
         /\ \E rest : call' = [call EXCEPT ![t] = rest]
BY DEF Call, Begin, CopyWrites, Persisted, Outputs, Exit, Finish, AdvanceFloor, Query, Close,
       Answer, Inside, ClearOwner

LEMMA LockStep ==
  ASSUME TypeOK, LockInv, [Next]_vars
  PROVE  LockInv'
<1> USE DEF LockInv
<1>0. pc \in [Thread -> {"idle", "taken", "inside", "leaving", "again", "stuck", "gone"}]
      /\ call \in [Thread -> CallType]
  BY DEF TypeOK, CallType
<1>1. CASE Open \/ Restore \/ ReplayRecord \/ ReplayRestore
  BY <1>1 DEF Open, Restore, ReplayRecord, ReplayRestore
<1>2. CASE Interrupt
  BY <1>0, <1>2, HandleAssumption DEF Interrupt, Reentrant
<1>3. ASSUME NEW t \in Thread, Acquire(t) PROVE LockInv'
  <2>1. \A u \in Thread : pc[u] \notin {"taken", "inside", "leaving", "stuck"}
    BY <1>3, HandleAssumption DEF Acquire
  <2>2. QED
    BY <1>0, <1>3, <2>1 DEF Acquire
<1>4. ASSUME NEW t \in Thread, Refuse(t) PROVE LockInv'
  <2>1. \A u \in Thread \ {t} : pc[u] \notin {"taken", "inside", "leaving", "stuck"}
    BY <1>4 DEF Refuse
  <2>2. QED
    BY <1>0, <1>4, <2>1 DEF Refuse
<1>5. ASSUME NEW t \in Thread, Take(t) PROVE LockInv'
  <2>1. \A u \in Thread \ {t} : pc[u] \notin {"taken", "inside", "leaving", "stuck"}
    BY <1>5 DEF Take
  <2>2. box' = "closed" => call'[t].op = "close"
    BY <1>0, <1>5 DEF Take, Unusable
  <2>3. QED
    BY <1>0, <1>5, <2>1, <2>2 DEF Take
<1>6. ASSUME NEW t \in Thread, Call(t) PROVE LockInv'
  <2>1. \A u \in Thread \ {t} : pc[u] \notin {"taken", "inside", "leaving", "stuck"}
    BY <1>6, CallLeaves
  <2>2. box \notin {"none", "replaying"}
    BY <1>6, CallLeaves
  <2>3. QED
    BY <1>0, <1>6, <2>1, <2>2, CallLeaves
<1>7. ASSUME NEW t \in Thread, Leave(t) PROVE LockInv'
  <2>1. \A u \in Thread \ {t} : pc[u] \notin {"taken", "inside", "leaving", "stuck"}
    BY <1>7 DEF Leave
  <2>2. QED
    BY <1>0, <1>7, <2>1 DEF Leave
<1>8. ASSUME NEW t \in Thread, Fork(t) PROVE LockInv'
  BY <1>0, <1>8 DEF Fork
<1>9. CASE UNCHANGED vars
  BY <1>9 DEF vars
<1>10. QED
  BY <1>1, <1>2, <1>3, <1>4, <1>5, <1>6, <1>7, <1>8, <1>9 DEF Next, Proceed

-----------------------------------------------------------------------------
(* The batch.                                                              *)

\* What the invariant says of the retained batch and its history.
Kept == BatchInv /\ OffsetInv /\ NothingShownEarly /\ ObligationsAreMet

\* A step that leaves the batch and its history alone, and at most ends calls.
LEMMA NothingHappens ==
  ASSUME IInv, native'.batch = native.batch, UNCHANGED Record,
         \A t \in Thread : call'[t] \in {call[t], NoCall}
  PROVE  Kept'
<1>1. BatchInv' /\ NothingShownEarly' /\ ObligationsAreMet'
  BY DEF IInv, BatchInv, NothingShownEarly, ObligationsAreMet, Record
<1>2. OffsetInv'
  BY DEF IInv, OffsetInv, Record, NoCall
<1>3. QED
  BY <1>1, <1>2 DEF Kept

\* A call that is over leaves its thread none.
LEMMA CallEnds ==
  ASSUME TypeOK, NEW t \in Thread, ClearOwner(t, NoCall)
  PROVE  \A u \in Thread : call'[u] \in {call[u], NoCall}
BY DEF TypeOK, ClearOwner

\* Node._begin, on a batch that is over: every record so far was acknowledged.
LEMMA BeginKeeps ==
  ASSUME IInv, NEW t \in Thread, Begin(t)
  PROVE  Kept'
<1> DEFINE b == native.batch
           g == b.generation
<1>1. CASE Answer(t, "begin", \/ Raises(OpenStatus(b)) \/ g = MaxGeneration)
  BY <1>1, CallEnds, NothingHappens DEF Answer, IInv, Record
<1>2. CASE Inside(t, "begin") /\ ~Raises(OpenStatus(b)) /\ g < MaxGeneration
  <2>1. b \in Batches(MaxWrites) /\ g \in 0 .. MaxGeneration
    BY DEF IInv, TypeOK, NativeType
  <2>2. PICK w \in 0 .. MaxWrites :
          /\ native'.batch = Begun(b, w)
          /\ wrote' = [wrote EXCEPT ![g + 1] = w]
          /\ UNCHANGED <<handed, acked, shown>>
    <3>1. PICK w \in 0 .. MaxWrites, fresh \in {0, 1} :
            /\ native' = [native EXCEPT !.batch = Begun(@, w), !.kept = @ + fresh, !.fresh = fresh]
            /\ wrote' = [wrote EXCEPT ![g + 1] = w]
            /\ UNCHANGED <<handed, acked, shown>>
      <4>1. g # MaxGeneration
        BY <1>2, <2>1, HandleAssumption
      <4>2. QED
        BY <1>2, <4>1 DEF Begin, Answer
    <3>2. native'.batch = Begun(b, w)
      BY <3>1 DEF IInv, TypeOK, NativeType
    <3>3. QED
      BY <3>1, <3>2
  <2>3. \A u \in Thread : call'[u] \in {call[u], NoCall}
    BY <1>2, CallEnds DEF Begin, Answer, IInv
  <2>4. b.phase \in {"Idle", "Finished"}
    BY <1>2, <2>1 DEF Raises, OpenStatus, Live, Batches, Phase
  <2>5. /\ native'.batch.generation = g + 1 /\ g + 1 \in Generation
        /\ native'.batch.writes = w /\ native'.batch.copied = 0
        /\ native'.batch.phase = IF w = 0 THEN "Confirmed" ELSE "Pending"
    BY <1>2, <2>1, <2>2, HandleAssumption DEF Begun, Generation
  <2>6. /\ wrote' \in [Generation -> 0 .. MaxWrites] /\ wrote'[g + 1] = w
        /\ \A h \in Generation : h # g + 1 => wrote'[h] = wrote[h]
    BY <2>2, <2>5 DEF IInv, TypeOK
  <2>7. g + 1 \notin acked \cup shown /\ handed[g + 1] = 0
    BY <2>1, <2>5 DEF IInv, BatchInv
  <2>8. g # 0 => wrote[g] = 0 \/ g \in acked
    BY <2>1, <2>4 DEF IInv, BatchInv
  <2>9. BatchInv'
    BY <2>1, <2>2, <2>5, <2>6, <2>7 DEF IInv, BatchInv, Generation
  <2>10. OffsetInv'
    BY <2>1, <2>2, <2>3, <2>5 DEF IInv, OffsetInv, NoCall
  <2>11. NothingShownEarly'
    BY <2>2, <2>6, <2>7 DEF IInv, NothingShownEarly, TypeOK
  <2>12. ObligationsAreMet'
    <3>1. ASSUME NEW h \in Generation, h < g + 1 PROVE wrote'[h] = 0 \/ h \in acked'
      <4>1. h # g + 1 /\ (h < g \/ h = g)
        BY <2>1, <3>1 DEF Generation
      <4>2. wrote[h] = 0 \/ h \in acked
        BY <2>8, <4>1, <3>1 DEF IInv, ObligationsAreMet, Generation
      <4>3. QED
        BY <2>2, <2>6, <4>1, <4>2
    <3>2. QED
      BY <2>5, <3>1 DEF ObligationsAreMet
  <2>13. QED
    BY <2>9, <2>10, <2>11, <2>12 DEF Kept
<1>3. QED
  BY <1>1, <1>2 DEF Begin

\* PendingBatch.writes: the records handed over stay a prefix of the batch's.
LEMMA CopyKeeps ==
  ASSUME IInv, NEW t \in Thread, CopyWrites(t)
  PROVE  Kept'
<1> DEFINE b == native.batch
           g == b.generation
           c == call[t]
           through == c.offset + Span(b, c.offset, WriteChunk)
           More == [c EXCEPT !.offset = through]
<1>1. CASE Answer(t, "writes", Raises(ReadStatus(b, c.token)))
  BY <1>1, CallEnds, NothingHappens DEF Answer, IInv, Record
<1>2. CASE Inside(t, "writes") /\ ~Raises(ReadStatus(b, c.token))
  <2>1. /\ b \in Batches(MaxWrites) /\ g \in 0 .. MaxGeneration
        /\ c \in CallType /\ c.op = "writes"
        /\ handed \in [Generation -> 0 .. MaxWrites]
    BY <1>2 DEF IInv, TypeOK, CallType, Inside, NativeType
  <2>2. c.token = g /\ g \in Generation /\ b.phase # "Idle"
    <3>1. c.token = g /\ b.phase # "Idle"
      BY <1>2, ReadIsCurrent
    <3>2. g # 0
      BY <3>1 DEF IInv, BatchInv
    <3>3. QED
      BY <2>1, <3>1, <3>2 DEF Generation
  <2>3. /\ c.offset \in Nat /\ b.writes \in Nat /\ b.copied \in Nat /\ WriteChunk \in Nat \ {0}
        /\ c.offset <= b.copied /\ b.copied <= b.writes /\ handed[g] = b.copied
    BY <2>1, <2>2, HandleAssumption DEF IInv, BatchInv, OffsetInv, CallType, Batches, Generation
  <2>4. through \in Nat /\ c.offset <= through /\ through <= b.writes
    BY <2>3 DEF Span
  <2>5. /\ native'.batch = Copied(b, through)
        /\ handed' = [handed EXCEPT ![g] = IF c.offset <= @ /\ through > @ THEN through ELSE @]
        /\ wrote' = wrote /\ acked' = acked /\ shown' = shown
        /\ \E rest \in {More, NoCall} : call' = [call EXCEPT ![t] = rest]
    <3>1. native' = [native EXCEPT !.batch = Copied(b, through)]
      BY <1>2 DEF CopyWrites, Answer
    <3>2. native'.batch = Copied(b, through)
      BY <3>1 DEF IInv, TypeOK
    <3>3. QED
      BY <1>2, <2>2, <3>2 DEF CopyWrites, Answer, ClearOwner
  <2>6. /\ native'.batch.phase = b.phase /\ native'.batch.generation = g
        /\ native'.batch.writes = b.writes
        /\ native'.batch.copied = IF through > b.copied THEN through ELSE b.copied
    BY <2>1, <2>5 DEF Copied, Batches
  <2>7. /\ handed'[g] = native'.batch.copied
        /\ handed[g] <= handed'[g] /\ through <= handed'[g]
        /\ \A h \in Generation : h # g => handed'[h] = handed[h]
    BY <2>1, <2>2, <2>3, <2>4, <2>5, <2>6
  <2>8. BatchInv'
    BY <2>1, <2>2, <2>3, <2>4, <2>5, <2>6, <2>7 DEF IInv, BatchInv, Generation
  <2>9. OffsetInv'
    <3> SUFFICES ASSUME NEW u \in Thread, call'[u].op = "writes"
                 PROVE  /\ call'[u].token \in 1 .. g
                        /\ call'[u].offset <= handed'[call'[u].token]
      BY <2>6 DEF OffsetInv
    <3>1. call \in [Thread -> CallType]
      BY DEF IInv, TypeOK, CallType
    <3>2. CASE call'[u] = call[u]
      <4>1. call[u].token \in 1 .. g /\ call[u].offset <= handed[call[u].token]
        BY <3>2 DEF IInv, OffsetInv
      <4>2. call[u].token \in Generation /\ call[u].offset \in Nat
        BY <2>1, <3>1, <4>1 DEF Generation, CallType
      <4>3. handed[call[u].token] <= handed'[call[u].token]
        BY <2>1, <2>2, <2>7, <4>2
      <4>4. handed[call[u].token] \in Nat /\ handed'[call[u].token] \in Nat
        BY <2>1, <2>2, <2>4, <2>5, <4>2
      <4>5. QED
        BY <3>2, <4>1, <4>2, <4>3, <4>4
    <3>3. CASE call'[u] = More
      <4>1. More.token = g /\ More.offset = through
        BY <2>1, <2>2 DEF CallType
      <4>2. QED
        BY <2>1, <2>2, <2>7, <3>3, <4>1 DEF Generation
    <3>4. CASE call'[u] = NoCall
      BY <3>4 DEF NoCall
    <3>5. QED
      BY <2>5, <3>1, <3>2, <3>3, <3>4
  <2>10. NothingShownEarly'
    <3>1. \A h \in acked : handed'[h] = wrote[h]
      <4> TAKE h \in acked
      <4>1. h \in Generation /\ handed[h] = wrote[h]
        BY DEF IInv, TypeOK, NothingShownEarly
      <4>2. CASE h = g
        <5>1. wrote[g] = b.writes
          BY <2>1, <2>2 DEF IInv, BatchInv, Generation
        <5>2. b.copied = b.writes
          BY <2>3, <4>1, <4>2, <5>1
        <5>3. QED
          BY <2>3, <2>4, <2>6, <2>7, <4>2, <5>1, <5>2
      <4>3. CASE h # g
        BY <2>7, <4>1, <4>3
      <4>4. QED
        BY <4>2, <4>3
    <3>2. QED
      BY <2>5, <3>1 DEF IInv, NothingShownEarly
  <2>11. ObligationsAreMet'
    BY <2>5, <2>6 DEF IInv, ObligationsAreMet
  <2>12. QED
    BY <2>8, <2>9, <2>10, <2>11 DEF Kept
<1>3. QED
  BY <1>1, <1>2 DEF CopyWrites

\* PendingBatch.persisted: a batch is acknowledged when all of it was handed over.
LEMMA PersistedKeeps ==
  ASSUME IInv, NEW t \in Thread, Persisted(t)
  PROVE  Kept'
<1> DEFINE b == native.batch
           g == b.generation
           status == ConfirmStatus(b, call[t].token)
<1>1. CASE Answer(t, "persisted", Raises(status))
  BY <1>1, CallEnds, NothingHappens DEF Answer, IInv, Record
<1>2. CASE Inside(t, "persisted") /\ ~Raises(status) /\ ~Answer(t, "persisted", Raises(status))
  <2>1. b \in Batches(MaxWrites) /\ g \in 0 .. MaxGeneration /\ b.copied <= b.writes
    BY DEF IInv, TypeOK, BatchInv, NativeType
  <2>2. /\ call[t].token = g
        /\ b.phase = "Confirmed" \/ (b.phase = "Pending" /\ b.copied = b.writes)
    BY <1>2, <2>1, ConfirmIsComplete
  <2>3. g \in Generation /\ wrote[g] = b.writes /\ handed[g] = b.copied /\ b.copied = b.writes
    BY <2>1, <2>2 DEF IInv, BatchInv, Generation
  <2>4. /\ native'.batch = Confirmed(b)
        /\ acked' = acked \cup {g}
        /\ wrote' = wrote /\ handed' = handed /\ shown' = shown
    BY <1>2, <2>2 DEF Persisted, IInv, TypeOK, NativeType
  <2>5. \A u \in Thread : call'[u] \in {call[u], NoCall}
    BY <1>2, CallEnds DEF Persisted, IInv
  <2>6. /\ native'.batch.phase = "Confirmed" /\ native'.batch.generation = g
        /\ native'.batch.writes = b.writes /\ native'.batch.copied = b.copied
    BY <2>1, <2>4 DEF Confirmed, Batches
  <2>7. BatchInv'
    BY <2>1, <2>2, <2>3, <2>4, <2>6 DEF IInv, BatchInv, Generation
  <2>8. OffsetInv'
    BY <2>4, <2>5, <2>6 DEF IInv, OffsetInv, NoCall
  <2>9. NothingShownEarly'
    BY <2>3, <2>4 DEF IInv, NothingShownEarly
  <2>10. ObligationsAreMet'
    BY <2>4, <2>6 DEF IInv, ObligationsAreMet
  <2>11. QED
    BY <2>7, <2>8, <2>9, <2>10 DEF Kept
<1>3. QED
  BY <1>1, <1>2 DEF Persisted

\* messages(), committed() and requests(): nothing is shown before the acknowledgement.
LEMMA OutputsKeeps ==
  ASSUME IInv, NEW t \in Thread, Outputs(t)
  PROVE  Kept'
<1> DEFINE b == native.batch
           g == b.generation
           status == OutputStatus(b, call[t].token)
<1>1. CASE Answer(t, "outputs", Raises(status))
  BY <1>1, CallEnds, NothingHappens DEF Answer, IInv, Record
<1>2. CASE Inside(t, "outputs") /\ ~Raises(status) /\ ~Answer(t, "outputs", Raises(status))
  <2>1. b \in Batches(MaxWrites) /\ g \in 0 .. MaxGeneration
    BY DEF IInv, TypeOK, NativeType
  <2>2. call[t].token = g /\ b.phase = "Confirmed"
    BY <1>2, <2>1, OutputIsConfirmed
  <2>3. g \in Generation /\ (wrote[g] = 0 \/ g \in acked)
    BY <2>1, <2>2 DEF IInv, BatchInv, Generation
  <2>4. /\ native' = native /\ shown' = shown \cup {g}
        /\ wrote' = wrote /\ handed' = handed /\ acked' = acked
    BY <1>2, <2>2 DEF Outputs
  <2>5. \A u \in Thread : call'[u] \in {call[u], NoCall}
    BY <1>2, CallEnds DEF Outputs, IInv
  <2>6. BatchInv'
    BY <2>1, <2>3, <2>4 DEF IInv, BatchInv, Generation
  <2>7. OffsetInv'
    BY <2>4, <2>5 DEF IInv, OffsetInv, NoCall
  <2>8. NothingShownEarly' /\ ObligationsAreMet'
    BY <2>3, <2>4 DEF IInv, NothingShownEarly, ObligationsAreMet
  <2>9. QED
    BY <2>6, <2>7, <2>8 DEF Kept
<1>3. QED
  BY <1>1, <1>2 DEF Outputs

\* finish: only a confirmed batch is dropped.
LEMMA FinishKeeps ==
  ASSUME IInv, NEW t \in Thread, Finish(t)
  PROVE  Kept'
<1> DEFINE b == native.batch
           g == b.generation
           status == FinishStatus(b, call[t].token)
<1>1. CASE Answer(t, "finish", Raises(status))
  BY <1>1, CallEnds, NothingHappens DEF Answer, IInv, Record
<1>2. CASE Inside(t, "finish") /\ ~Raises(status) /\ ~Answer(t, "finish", Raises(status))
  <2>1. b \in Batches(MaxWrites)
    BY DEF IInv, TypeOK, NativeType
  <2>2. b.phase \in {"Confirmed", "Finished"}
    BY <1>2, <2>1, FinishIsConfirmed
  <2>3. native'.batch = Finished(b) /\ UNCHANGED Record
    BY <1>2 DEF Finish, IInv, TypeOK, NativeType
  <2>4. \A u \in Thread : call'[u] \in {call[u], NoCall}
    BY <1>2, CallEnds DEF Finish, IInv
  <2>5. /\ native'.batch.phase = "Finished" /\ native'.batch.generation = b.generation
        /\ native'.batch.writes = b.writes /\ native'.batch.copied = b.copied
    BY <2>1, <2>3 DEF Finished, Batches
  <2>6. BatchInv'
    BY <2>1, <2>2, <2>3, <2>5 DEF IInv, BatchInv, Record
  <2>7. OffsetInv'
    BY <2>3, <2>4, <2>5 DEF IInv, OffsetInv, NoCall, Record
  <2>8. NothingShownEarly' /\ ObligationsAreMet'
    BY <2>3, <2>5 DEF IInv, NothingShownEarly, ObligationsAreMet, Record
  <2>9. QED
    BY <2>6, <2>7, <2>8 DEF Kept
<1>3. QED
  BY <1>1, <1>2 DEF Finish

\* The calls that leave the batch alone: the end of a `with` block, the floor, queries,
\* close.
LEMMA OtherCallsKeep ==
  ASSUME IInv, NEW t \in Thread, Exit(t) \/ AdvanceFloor(t) \/ Query(t) \/ Close(t)
  PROVE  Kept'
<1>1. native'.batch = native.batch /\ UNCHANGED Record
  BY DEF Exit, AdvanceFloor, Query, Close, Answer, IInv, TypeOK, NativeType
<1>2. CASE Exit(t)
  <2>1. BatchInv' /\ NothingShownEarly' /\ ObligationsAreMet'
    BY <1>1 DEF IInv, BatchInv, NothingShownEarly, ObligationsAreMet, Record
  <2>2. \A u \in Thread : call'[u] = call[u] \/ call'[u].op # "writes"
    <3>1. call \in [Thread -> CallType]
      BY DEF IInv, TypeOK, CallType
    <3>2. [call[t] EXCEPT !.op = "finish"].op = "finish"
      BY <3>1 DEF CallType
    <3>3. QED
      BY <1>2, <3>1, <3>2 DEF Exit, ClearOwner, NoCall
  <2>3. OffsetInv'
    BY <1>1, <2>2 DEF IInv, OffsetInv, Record
  <2>4. QED
    BY <2>1, <2>3 DEF Kept
<1>3. CASE AdvanceFloor(t) \/ Query(t) \/ Close(t)
  <2>1. ClearOwner(t, NoCall)
    BY <1>3 DEF AdvanceFloor, Query, Close, Answer
  <2>2. QED
    BY <1>1, <2>1, CallEnds, NothingHappens DEF IInv
<1>4. QED
  BY <1>2, <1>3

\* A new call of writes() starts at the first record of a batch that exists.
LEMMA TakeKeeps ==
  ASSUME IInv, NEW t \in Thread, Take(t)
  PROVE  Kept'
<1>1. UNCHANGED <<native, Record>>
  BY DEF Take
<1>2. BatchInv' /\ NothingShownEarly' /\ ObligationsAreMet'
  BY <1>1 DEF IInv, BatchInv, NothingShownEarly, ObligationsAreMet, Record
<1>3. PICK c \in CallType :
        /\ IF call[t] = NoCall THEN Chosen(c) ELSE c = call[t]
        /\ call' = [call EXCEPT ![t] = c]
  BY DEF Take, CallType
<1>4. call \in [Thread -> CallType]
  BY DEF IInv, TypeOK, CallType
<1>5. c.op = "writes" /\ Chosen(c) => c.token \in 1 .. native.batch.generation /\ c.offset <= handed[c.token]
  <2> SUFFICES ASSUME c.op = "writes", Chosen(c)
               PROVE  c.token \in 1 .. native.batch.generation /\ c.offset <= handed[c.token]
    OBVIOUS
  <2>1. c.token \in 1 .. native.batch.generation /\ c.offset = 0
    BY DEF Chosen, OnBatch
  <2>2. c.token \in Generation /\ handed \in [Generation -> 0 .. MaxWrites]
    BY <2>1, HandleAssumption DEF IInv, TypeOK, Generation
  <2>3. QED
    BY <2>1, <2>2, HandleAssumption
<1>6. OffsetInv'
  BY <1>1, <1>3, <1>4, <1>5 DEF IInv, OffsetInv, Record
<1>7. QED
  BY <1>2, <1>6 DEF Kept

LEMMA KeptStep ==
  ASSUME IInv, [Next]_vars
  PROVE  Kept'
<1>1. CASE Open \/ Restore \/ ReplayRecord \/ ReplayRestore \/ Interrupt
  <2>1. native'.batch = native.batch /\ UNCHANGED <<call, Record>>
    BY <1>1 DEF Open, Restore, ReplayRecord, ReplayRestore, Interrupt, IInv, TypeOK, NativeType
  <2>2. QED
    BY <2>1, NothingHappens
<1>2. ASSUME NEW t \in Thread, Acquire(t) \/ Refuse(t) \/ Leave(t) \/ Fork(t) PROVE Kept'
  <2>1. UNCHANGED <<native, Record>>
    BY <1>2 DEF Acquire, Refuse, Leave, Fork
  <2>2. \A u \in Thread : call'[u] \in {call[u], NoCall}
    BY <1>2 DEF Acquire, Refuse, Leave, Fork, IInv, TypeOK
  <2>3. QED
    BY <2>1, <2>2, NothingHappens
<1>3. ASSUME NEW t \in Thread, Take(t) PROVE Kept'
  BY <1>3, TakeKeeps
<1>4. ASSUME NEW t \in Thread, Call(t) PROVE Kept'
  BY <1>4, BeginKeeps, CopyKeeps, PersistedKeeps, OutputsKeeps, FinishKeeps, OtherCallsKeep
    DEF Call
<1>5. CASE UNCHANGED vars
  BY <1>5, NothingHappens DEF vars, Record
<1>6. QED
  BY <1>1, <1>2, <1>3, <1>4, <1>5 DEF Next, Proceed

-----------------------------------------------------------------------------
(* Types.                                                                  *)

\* The thread whose call ends or goes on keeps the types of the lock and the calls.
LEMMA ClearOwnerTyped ==
  ASSUME TypeOK, NEW t \in Thread, NEW rest \in CallType, ClearOwner(t, rest)
  PROVE  /\ lock' \in Thread \cup {Nobody} /\ owner' \in Thread \cup {Nobody}
         /\ forked' \in BOOLEAN
         /\ pc' \in [Thread -> {"idle", "taken", "inside", "leaving", "again", "stuck", "gone"}]
         /\ call' \in [Thread -> CallType]
BY DEF ClearOwner, TypeOK

\* A refused call, and one that changes neither the batch nor its history.
LEMMA AnswerTyped ==
  ASSUME TypeOK, NEW t \in Thread, NEW op, NEW refused, Answer(t, op, refused)
  PROVE  TypeOK'
BY NoCallTyped, ClearOwnerTyped DEF Answer, Record, TypeOK

LEMMA CallTyped ==
  ASSUME IInv, NEW t \in Thread, Call(t)
  PROVE  TypeOK'
<1> DEFINE b == native.batch
           g == b.generation
<1>0. /\ TypeOK /\ NoCall \in CallType /\ call[t] \in CallType
      /\ b \in Batches(MaxWrites) /\ g \in 0 .. MaxGeneration
      /\ native \in NativeType
  BY NoCallTyped DEF IInv, TypeOK, NativeType
<1>1. CASE Begin(t)
  <2>1. CASE ClearOwner(t, NoCall) /\ UNCHANGED <<box, native, Record>>
    BY <1>0, <2>1, ClearOwnerTyped DEF Record, TypeOK
  <2>2. CASE /\ g < MaxGeneration
             /\ \E w \in 0 .. MaxWrites, fresh \in {0, 1} :
                  /\ native' = [native EXCEPT !.batch = Begun(@, w), !.kept = @ + fresh, !.fresh = fresh]
                  /\ wrote' = [wrote EXCEPT ![g + 1] = w]
             /\ ClearOwner(t, NoCall)
             /\ UNCHANGED <<box, handed, acked, shown>>
    <3>1. PICK w \in 0 .. MaxWrites, fresh \in {0, 1} :
            /\ native' = [native EXCEPT !.batch = Begun(@, w), !.kept = @ + fresh, !.fresh = fresh]
            /\ wrote' = [wrote EXCEPT ![g + 1] = w]
      BY <2>2
    <3>2. /\ Begun(b, w) \in Batches(MaxWrites)
          /\ Begun(b, w).generation \in 0 .. MaxGeneration
      BY <1>0, <2>2, HandleAssumption DEF Begun, Batches, Phase
    <3>3. /\ native' \in NativeType
          /\ native'.batch = Begun(b, w)
      <4>1. native.kept + fresh \in Nat
        BY <1>0 DEF NativeType
      <4>2. QED
        BY <1>0, <3>1, <3>2, <4>1 DEF NativeType
    <3>4. wrote' \in [Generation -> 0 .. MaxWrites]
      BY <1>0, <3>1 DEF TypeOK
    <3>5. QED
      BY <1>0, <2>2, <3>2, <3>3, <3>4, ClearOwnerTyped DEF TypeOK
  <2>3. QED
    BY <1>1, <2>1, <2>2 DEF Begin, Answer
<1>2. CASE CopyWrites(t)
  <2> DEFINE c == call[t]
             through == c.offset + Span(b, c.offset, WriteChunk)
             More == [c EXCEPT !.offset = through]
  <2>1. CASE Answer(t, "writes", Raises(ReadStatus(b, c.token)))
    BY <1>0, <2>1, AnswerTyped
  <2>2. CASE Inside(t, "writes") /\ ~Raises(ReadStatus(b, c.token)) /\ ~Answer(t, "writes", Raises(ReadStatus(b, c.token)))
    <3>1. c.token = g /\ g \in Generation
      <4>1. c.token = g /\ b.phase # "Idle"
        BY <2>2, ReadIsCurrent
      <4>2. QED
        BY <1>0, <4>1 DEF IInv, BatchInv, Generation
    <3>2. c.offset \in Nat /\ c.offset <= b.copied /\ b.copied <= b.writes /\ b.writes \in 0 .. MaxWrites
          /\ b.copied \in Nat
      BY <1>0, <2>2, <3>1 DEF IInv, BatchInv, OffsetInv, CallType, Batches, Inside, Generation
    <3>3. through \in 0 .. b.writes /\ through \in 0 .. MaxWrites
      BY <3>2, HandleAssumption DEF Span
    <3>4. Copied(b, through) \in Batches(MaxWrites) /\ Copied(b, through).generation = g
      BY <1>0, <3>3 DEF Copied, Batches
    <3>5. More \in CallType
      BY <1>0, <3>3 DEF CallType
    <3>6. /\ native' = [native EXCEPT !.batch = Copied(@, through)]
          /\ handed' = [handed EXCEPT ![c.token] = IF c.offset <= @ /\ through > @ THEN through ELSE @]
          /\ \E rest \in {More, NoCall} : ClearOwner(t, rest)
          /\ UNCHANGED <<box, wrote, acked, shown>>
      BY <1>2, <2>2 DEF CopyWrites
    <3>7. /\ native' \in NativeType
          /\ native'.batch = Copied(b, through)
      BY <1>0, <3>4, <3>6 DEF NativeType
    <3>8. handed' \in [Generation -> 0 .. MaxWrites]
      BY <1>0, <3>3, <3>6 DEF TypeOK
    <3>9. QED
      BY <1>0, <3>4, <3>5, <3>6, <3>7, <3>8, ClearOwnerTyped DEF TypeOK
  <2>3. QED
    BY <1>2, <2>1, <2>2 DEF CopyWrites
<1>3. CASE Persisted(t)
  <2> DEFINE status == ConfirmStatus(b, call[t].token)
  <2>1. CASE Answer(t, "persisted", Raises(status))
    BY <1>0, <2>1, AnswerTyped
  <2>2. CASE Inside(t, "persisted") /\ ~Raises(status) /\ ~Answer(t, "persisted", Raises(status))
    <3>1. call[t].token \in Generation
      <4>1. call[t].token = g /\ b.phase # "Idle"
        BY <1>0, <2>2, ConfirmIsComplete DEF IInv, BatchInv
      <4>2. QED
        BY <1>0, <4>1 DEF IInv, BatchInv, Generation
    <3>2. Confirmed(b) \in Batches(MaxWrites) /\ Confirmed(b).generation = g
      BY <1>0 DEF Confirmed, Batches, Phase
    <3>3. /\ native' = [native EXCEPT !.batch = Confirmed(@)]
          /\ acked' = acked \cup {call[t].token}
          /\ ClearOwner(t, NoCall)
          /\ UNCHANGED <<box, wrote, handed, shown>>
      BY <1>3, <2>2 DEF Persisted
    <3>4. /\ native' \in NativeType
          /\ native'.batch = Confirmed(b)
      BY <1>0, <3>2, <3>3 DEF NativeType
    <3>5. QED
      BY <1>0, <3>1, <3>2, <3>3, <3>4, ClearOwnerTyped DEF TypeOK
  <2>3. QED
    BY <1>3, <2>1, <2>2 DEF Persisted
<1>4. CASE Outputs(t)
  <2> DEFINE status == OutputStatus(b, call[t].token)
  <2>1. CASE Answer(t, "outputs", Raises(status))
    BY <1>0, <2>1, AnswerTyped
  <2>2. CASE Inside(t, "outputs") /\ ~Raises(status) /\ ~Answer(t, "outputs", Raises(status))
    <3>1. call[t].token \in Generation
      <4>1. call[t].token = g /\ b.phase # "Idle"
        BY <1>0, <2>2, OutputIsConfirmed
      <4>2. QED
        BY <1>0, <4>1 DEF IInv, BatchInv, Generation
    <3>2. /\ shown' = shown \cup {call[t].token}
          /\ ClearOwner(t, NoCall)
          /\ UNCHANGED <<box, native, wrote, handed, acked>>
      BY <1>4, <2>2 DEF Outputs
    <3>3. QED
      BY <1>0, <3>1, <3>2, ClearOwnerTyped DEF TypeOK
  <2>3. QED
    BY <1>4, <2>1, <2>2 DEF Outputs
<1>5. CASE Exit(t)
  <2>1. [call[t] EXCEPT !.op = "finish"] \in CallType
    BY <1>0 DEF CallType, Operations
  <2>2. QED
    BY <1>0, <1>5, <2>1, ClearOwnerTyped DEF Exit, Record, TypeOK
<1>6. CASE Finish(t)
  <2> DEFINE status == FinishStatus(b, call[t].token)
  <2>1. CASE Answer(t, "finish", Raises(status))
    BY <1>0, <2>1, AnswerTyped
  <2>2. CASE Inside(t, "finish") /\ ~Raises(status) /\ ~Answer(t, "finish", Raises(status))
    <3>1. Finished(b) \in Batches(MaxWrites) /\ Finished(b).generation = g
      BY <1>0 DEF Finished, Batches, Phase
    <3>2. /\ native' = [native EXCEPT !.batch = Finished(@)]
          /\ ClearOwner(t, NoCall)
          /\ UNCHANGED <<box, Record>>
      BY <1>6, <2>2 DEF Finish
    <3>3. /\ native' \in NativeType
          /\ native'.batch = Finished(b)
      BY <1>0, <3>1, <3>2 DEF NativeType
    <3>4. QED
      BY <1>0, <3>1, <3>2, <3>3, ClearOwnerTyped DEF Record, TypeOK
  <2>3. QED
    BY <1>6, <2>1, <2>2 DEF Finish
<1>7. CASE AdvanceFloor(t)
  <2>1. CASE Answer(t, "floor", Raises(FloorStatus))
    BY <1>0, <2>1, AnswerTyped
  <2>2. CASE /\ \E k \in 0 .. native.kept : native' = [native EXCEPT !.kept = k]
             /\ ClearOwner(t, NoCall)
             /\ UNCHANGED <<box, Record>>
    <3>1. /\ native' \in NativeType
          /\ native'.batch = b
      BY <1>0, <2>2 DEF NativeType
    <3>2. QED
      BY <1>0, <2>2, <3>1, ClearOwnerTyped DEF Record, TypeOK
  <2>3. QED
    BY <1>7, <2>1, <2>2 DEF AdvanceFloor
<1>8. CASE Query(t)
  BY <1>0, <1>8, AnswerTyped DEF Query
<1>9. CASE Close(t)
  BY <1>0, <1>9, ClearOwnerTyped DEF Close, Record, TypeOK
<1>10. QED
  BY <1>1, <1>2, <1>3, <1>4, <1>5, <1>6, <1>7, <1>8, <1>9 DEF Call

LEMMA TypeStep ==
  ASSUME IInv, [Next]_vars
  PROVE  TypeOK'
<1>0. TypeOK /\ NoCall \in CallType
  BY NoCallTyped DEF IInv
<1>1. CASE Open
  BY <1>0, <1>1 DEF Open, Record, TypeOK
<1>2. CASE Restore \/ ReplayRecord \/ ReplayRestore
  <2>1. /\ native' \in NativeType
        /\ native'.batch = native.batch
    <3>1. CASE Restore
      BY <1>0, <3>1 DEF Restore, TypeOK, NativeType
    <3>2. CASE ReplayRecord
      <4>1. native.left \in 0 .. MaxReplay /\ native.left > 0 /\ native.kept \in Nat
        BY <1>0, <3>2 DEF ReplayRecord, TypeOK, NativeType
      <4>2. native.left - 1 \in 0 .. MaxReplay /\ native.kept + 1 \in Nat
        BY <4>1, HandleAssumption
      <4>3. native \in NativeType
        BY <1>0 DEF TypeOK
      <4>4. \/ native' = [native EXCEPT !.left = native.left - 1, !.kept = native.kept + 1]
            \/ native' = native
        BY <3>2 DEF ReplayRecord
      <4>5. QED
        BY <4>2, <4>3, <4>4 DEF NativeType
    <3>3. CASE ReplayRestore
      <4>1. \A k \in 0 .. native.kept : k \in Nat
        BY <1>0 DEF TypeOK, NativeType
      <4>2. QED
        BY <1>0, <3>3, <4>1 DEF ReplayRestore, TypeOK, NativeType
    <3>4. QED
      BY <1>2, <3>1, <3>2, <3>3
  <2>2. box' \in {"none", "replaying", "open", "closed"}
        /\ UNCHANGED <<lock, owner, forked, pc, call, Record>>
    BY <1>0, <1>2 DEF Restore, ReplayRecord, ReplayRestore, TypeOK
  <2>3. QED
    BY <1>0, <2>1, <2>2 DEF Record, TypeOK
<1>3. CASE Interrupt
  BY <1>0, <1>3, HandleAssumption DEF Interrupt, Record, TypeOK
<1>4. ASSUME NEW t \in Thread, Acquire(t) \/ Refuse(t) \/ Leave(t) PROVE TypeOK'
  BY <1>0, <1>4 DEF Acquire, Refuse, Leave, Record, TypeOK
<1>5. ASSUME NEW t \in Thread, Take(t) PROVE TypeOK'
  BY <1>0, <1>5 DEF Take, Record, CallType, TypeOK
<1>6. ASSUME NEW t \in Thread, Fork(t) PROVE TypeOK'
  BY <1>0, <1>6 DEF Fork, Record, TypeOK
<1>7. ASSUME NEW t \in Thread, Call(t) PROVE TypeOK'
  BY <1>7, CallTyped
<1>8. CASE UNCHANGED vars
  BY <1>0, <1>8 DEF vars, Record, TypeOK
<1>9. QED
  BY <1>1, <1>2, <1>3, <1>4, <1>5, <1>6, <1>7, <1>8 DEF Next, Proceed

-----------------------------------------------------------------------------

\* The inductive invariant holds when the process starts.
LEMMA InitIInv == Init => IInv
<1> SUFFICES ASSUME Init PROVE IInv
  OBVIOUS
<1>1. TypeOK
  <2>1. native \in NativeType /\ native.batch.generation \in 0 .. MaxGeneration
    BY HandleAssumption DEF Init, NoBatch, Batches, Phase, NativeType
  <2>2. wrote \in [Generation -> 0 .. MaxWrites] /\ handed \in [Generation -> 0 .. MaxWrites]
    BY HandleAssumption DEF Init
  <2>3. call \in [Thread -> CallType]
    BY NoCallTyped DEF Init
  <2>4. QED
    BY <2>1, <2>2, <2>3, HandleAssumption DEF Init, TypeOK
<1>2. LockInv
  BY HandleAssumption DEF Init, LockInv
<1>3. BatchInv
  BY DEF Init, BatchInv, NoBatch, Generation
<1>4. OffsetInv
  BY DEF Init, OffsetInv, NoCall
<1>5. NothingShownEarly /\ ObligationsAreMet
  BY DEF Init, NothingShownEarly, ObligationsAreMet, Generation, NoBatch
<1>6. QED
  BY <1>1, <1>2, <1>3, <1>4, <1>5 DEF IInv

\* Node, _Guard and native/batch.odin together: the inductive invariant.
THEOREM HandleInvariant == Spec => []IInv
<1>1. IInv /\ [Next]_vars => IInv'
  BY LockStep, KeptStep, TypeStep DEF IInv, Kept
<1>2. QED
  BY <1>1, InitIInv, PTL DEF Spec

\* The lock, the handle and the batch keep their types.
THEOREM HandleTypes == Spec => []TypeOK
<1>1. IInv => TypeOK
  BY DEF IInv
<1>2. QED
  BY <1>1, HandleInvariant, PTL

\* node.py:354-356: for every number of threads, at most one call is inside the native
\* handle, and none is inside a handle that another thread has released.
THEOREM OneCallIsInside == Spec => []OneCallInside
<1>1. IInv => OneCallInside
  BY DEF IInv, LockInv, OneCallInside
<1>2. QED
  BY <1>1, HandleInvariant, PTL

\* node.py:237-239: whatever the chunks, retries and threads, nothing is acknowledged that
\* was not handed over whole, and nothing is read before the acknowledgement.
THEOREM NothingIsShownEarly == Spec => []NothingShownEarly
<1>1. IInv => NothingShownEarly
  BY DEF IInv
<1>2. QED
  BY <1>1, HandleInvariant, PTL

\* batch.odin:3-6: no transition runs while records of an earlier one wait for their
\* acknowledgement.
THEOREM ObligationsAreAlwaysMet == Spec => []ObligationsAreMet
<1>1. IInv => ObligationsAreMet
  BY DEF IInv
<1>2. QED
  BY <1>1, HandleInvariant, PTL

-----------------------------------------------------------------------------
(* The memory floor.                                                       *)

\* A node that is being made has released nothing.
FloorInv ==
  /\ LiveEntriesStay
  /\ box \in {"none", "replaying"} => native.fresh = 0

\* A call that leaves the floor and the released entries alone, and opens no batch.
LEMMA FloorKept ==
  ASSUME FloorInv, box' \in {box, "closed"},
         native'.kept = native.kept, native'.fresh = native.fresh,
         Live(native'.batch) => Live(native.batch)
  PROVE  FloorInv'
BY DEF FloorInv, LiveEntriesStay

LEMMA FloorCall ==
  ASSUME IInv, FloorInv, NEW t \in Thread, Call(t)
  PROVE  FloorInv'
<1>1. native \in NativeType /\ native.batch \in Batches(MaxWrites) /\ native.kept \in Nat
  BY DEF IInv, TypeOK, NativeType
<1>2. pc[t] = "inside" /\ box \notin {"none", "replaying"} /\ box' \in {box, "closed"}
  BY CallLeaves DEF IInv, LockInv
<1>3. ASSUME UNCHANGED native PROVE FloorInv'
  BY <1>2, <1>3, FloorKept
<1>4. CASE Begin(t)
  <2>1. ASSUME NEW w \in 0 .. MaxWrites, NEW fresh \in {0, 1}, UNCHANGED box,
               native' = [native EXCEPT !.batch = Begun(@, w), !.kept = @ + fresh, !.fresh = fresh]
        PROVE  FloorInv'
    <3>1. native'.kept = native.kept + fresh /\ native'.fresh = fresh
      BY <1>1, <2>1 DEF NativeType
    <3>2. native'.fresh <= native'.kept
      BY <1>1, <3>1
    <3>3. QED
      BY <1>2, <2>1, <3>2 DEF FloorInv, LiveEntriesStay
  <2>2. QED
    BY <1>3, <1>4, <2>1 DEF Begin, Answer
<1>5. ASSUME NEW b, native' = [native EXCEPT !.batch = b], Live(b) => Live(native.batch)
      PROVE  FloorInv'
  BY <1>1, <1>2, <1>5, FloorKept DEF NativeType
<1>6. CASE CopyWrites(t)
  <2>1. ASSUME NEW n, native' = [native EXCEPT !.batch = Copied(@, n)] PROVE FloorInv'
    <3>1. Copied(native.batch, n).phase = native.batch.phase
      BY <1>1 DEF Copied, Batches
    <3>2. QED
      BY <1>5, <2>1, <3>1 DEF Live
  <2>2. QED
    BY <1>3, <1>6, <2>1 DEF CopyWrites, Answer
<1>7. CASE Persisted(t)
  <2>1. ASSUME ~Raises(ConfirmStatus(native.batch, call[t].token)) PROVE Live(native.batch)
    BY <1>1, <2>1, ConfirmIsComplete DEF Live, IInv, BatchInv
  <2>2. QED
    BY <1>3, <1>5, <1>7, <2>1 DEF Persisted, Answer
<1>8. CASE Finish(t)
  <2>1. ~Live(Finished(native.batch))
    BY <1>1 DEF Live, Finished, Batches
  <2>2. QED
    BY <1>3, <1>5, <1>8, <2>1 DEF Finish, Answer
<1>9. CASE AdvanceFloor(t)
  <2>1. ASSUME NEW k \in 0 .. native.kept, ~Raises(FloorStatus), UNCHANGED box,
               native' = [native EXCEPT !.kept = k]
        PROVE  FloorInv'
    <3>1. ~Live(native.batch)
      BY <2>1 DEF FloorStatus, OpenStatus, Raises
    <3>2. native'.batch = native.batch
      BY <1>1, <2>1 DEF NativeType
    <3>3. QED
      BY <1>2, <2>1, <3>1, <3>2 DEF FloorInv, LiveEntriesStay
  <2>2. QED
    BY <1>3, <1>9, <2>1 DEF AdvanceFloor, Answer
<1>10. CASE Outputs(t) \/ Exit(t) \/ Query(t) \/ Close(t)
  BY <1>3, <1>10 DEF Outputs, Exit, Query, Close, Answer
<1>11. QED
  BY <1>4, <1>6, <1>7, <1>8, <1>9, <1>10 DEF Call

LEMMA FloorStep ==
  ASSUME IInv, FloorInv, [Next]_vars
  PROVE  FloorInv'
<1>1. native \in NativeType /\ native.kept \in Nat
  BY DEF IInv, TypeOK, NativeType
<1>2. CASE Open \/ Restore \/ Interrupt
  BY <1>1, <1>2 DEF Open, Restore, Interrupt, FloorInv, LiveEntriesStay, NativeType
<1>3. CASE ReplayRecord \/ ReplayRestore
  <2>1. native.fresh = 0
    BY <1>3 DEF ReplayRecord, ReplayRestore, FloorInv
  <2>2. native'.fresh = 0 /\ native'.kept \in Nat
    <3>1. CASE UNCHANGED native
      BY <1>1, <2>1, <3>1
    <3>2. CASE native' = [native EXCEPT !.left = @ - 1, !.kept = @ + 1]
      BY <1>1, <2>1, <3>2 DEF NativeType
    <3>3. ASSUME NEW k \in 0 .. native.kept, native' = [native EXCEPT !.kept = k]
          PROVE  native'.fresh = 0 /\ native'.kept \in Nat
      BY <1>1, <2>1, <3>3 DEF NativeType
    <3>4. QED
      BY <1>3, <3>1, <3>2, <3>3 DEF ReplayRecord, ReplayRestore
  <2>3. QED
    BY <2>2 DEF FloorInv, LiveEntriesStay
<1>4. ASSUME NEW t \in Thread, Acquire(t) \/ Refuse(t) \/ Take(t) \/ Leave(t) \/ Fork(t)
      PROVE  FloorInv'
  BY <1>4 DEF Acquire, Refuse, Take, Leave, Fork, FloorInv, LiveEntriesStay
<1>5. ASSUME NEW t \in Thread, Call(t) PROVE FloorInv'
  BY <1>5, FloorCall
<1>6. CASE UNCHANGED vars
  BY <1>6 DEF vars, FloorInv, LiveEntriesStay
<1>7. QED
  BY <1>2, <1>3, <1>4, <1>5, <1>6 DEF Next, Proceed

\* queries.odin:39-42: whatever threads move the floor, the entries a live batch released
\* stay above it until the batch is finished.
THEOREM LiveEntriesAlwaysStay == Spec => []LiveEntriesStay
<1>1. Init => FloorInv
  BY DEF Init, FloorInv, LiveEntriesStay
<1>2. IInv /\ FloorInv /\ [Next]_vars => FloorInv'
  BY FloorStep
<1>3. FloorInv => LiveEntriesStay
  BY DEF FloorInv
<1>4. QED
  BY <1>1, <1>2, <1>3, HandleInvariant, PTL DEF Spec
===============================================================================
