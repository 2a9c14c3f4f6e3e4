---------------------------- MODULE StorageProofs ----------------------------
(***************************************************************************)
(* The files of a node directory: for any processes, identities, numbers   *)
(* of records and slots, and any number of failing writes, kills and power *)
(* losses, one process owns the directory, no acknowledged record and no   *)
(* retained command is lost, and FileJournal implements the protocol of    *)
(* Journal as long as no fragment is left in the file.                     *)
(***************************************************************************)
EXTENDS Storage, SequenceTheorems, TLAPS

Item == [name : Nat, whole : BOOLEAN]

IsFile(f) ==
  /\ f = [items |-> f.items, given |-> f.given, stable |-> f.stable]
  /\ f.items \in Seq(Item)
  /\ f.stable \in Nat /\ f.given \in Nat
  /\ f.stable <= f.given /\ f.given <= Len(f.items)

IsProc(r) ==
  /\ r = [state |-> r.state, synced |-> r.synced, failed |-> r.failed, own |-> r.own, index |-> r.index]
  /\ r.synced \in BOOLEAN /\ r.failed \in BOOLEAN
  /\ r.state \in {"closed", "locked", "header", "open"}

\* The part of TypeOK the invariant needs.
Typed ==
  /\ IsFile(journal) /\ next \in Nat
  /\ proc = [p \in Process |-> proc[p]] /\ \A p \in Process : IsProc(proc[p])

\* A header is in the making only while its process is writing it.
WritesHeader == \A p \in Process : proc[p].state = "header" => header = "part"

\* r is whole among the first n items.
In(f, r, n) == \E i \in 1 .. n : f.items[i] = Whole(r)

\* Acknowledged records are on stable storage.
AckedIsStable == \A r \in acked : In(journal, r, journal.stable)

\* A process that has seen no failure finds its records in the file, on stable storage
\* when it believes so; one that is not open has none.
OwnIsWritten ==
  \A p \in Process :
    /\ proc[p].state # "open" => proc[p].own = {}
    /\ ~proc[p].failed =>
         \A r \in proc[p].own :
           In(journal, r, IF proc[p].synced THEN journal.stable ELSE Len(journal.items))

IInv == Typed /\ OneOwner /\ WritesHeader /\ AckedIsStable /\ OwnIsWritten

-----------------------------------------------------------------------------
(* Files.                                                                  *)

LEMMA RecordIsItem == \A n \in Nat : Whole(n) \in Item /\ Fragment(n) \in Item
  BY DEF Whole, Fragment, Item

\* Writing at the end leaves everything before it where it is.
LEMMA WrittenKeeps ==
  ASSUME NEW f, IsFile(f), NEW n \in Nat
  PROVE  LET g == Written(f, <<Whole(n)>>) IN
         /\ IsFile(g) /\ g.stable = f.stable /\ g.given = f.given
         /\ Len(g.items) = Len(f.items) + 1 /\ g.items[Len(g.items)] = Whole(n)
         /\ \A i \in 1 .. Len(f.items) : g.items[i] = f.items[i]
<1> DEFINE g == Written(f, <<Whole(n)>>)
<1>1. <<Whole(n)>> \in Seq(Item) /\ Len(<<Whole(n)>>) = 1 /\ <<Whole(n)>>[1] = Whole(n)
  BY RecordIsItem
<1>2. Len(f.items) \in Nat
  BY LenProperties DEF IsFile
<1>3. /\ g = [items |-> f.items \o <<Whole(n)>>, given |-> f.given, stable |-> f.stable]
      /\ g.items = f.items \o <<Whole(n)>>
  <2>1. f = [items |-> f.items, given |-> f.given, stable |-> f.stable]
    BY DEF IsFile
  <2>2. g = [f EXCEPT !.items = f.items \o <<Whole(n)>>]
    BY <2>1 DEF Written
  <2>3. QED
    BY <2>1, <2>2
<1>4. /\ g.items \in Seq(Item) /\ Len(g.items) = Len(f.items) + 1
      /\ \A i \in 1 .. Len(f.items) + 1 :
           g.items[i] = IF i <= Len(f.items) THEN f.items[i] ELSE <<Whole(n)>>[i - Len(f.items)]
  <2>1. f.items \in Seq(Item)
    BY DEF IsFile
  <2> DEFINE one == <<Whole(n)>>
  <2> HIDE DEF one
  <2>2. one \in Seq(Item) /\ Len(one) = 1 /\ g.items = f.items \o one
    BY <1>1, <1>3 DEF one
  <2>3. /\ f.items \o one \in Seq(Item) /\ Len(f.items \o one) = Len(f.items) + Len(one)
        /\ \A i \in 1 .. Len(f.items) + Len(one) :
             (f.items \o one)[i] = IF i <= Len(f.items) THEN f.items[i] ELSE one[i - Len(f.items)]
    BY <2>1, <2>2, ConcatProperties
  <2>4. QED
    BY <2>2, <2>3 DEF one
<1>5. g.items[Len(g.items)] = Whole(n) /\ \A i \in 1 .. Len(f.items) : g.items[i] = f.items[i]
  BY <1>1, <1>2, <1>4
<1>6. IsFile(g)
  BY <1>2, <1>3, <1>4 DEF IsFile
<1>7. QED
  BY <1>3, <1>4, <1>5, <1>6

\* Whatever survives is a prefix that holds everything up to from, and perhaps part of
\* the next item.
LEMMA SurvivorsKeep ==
  ASSUME NEW f, IsFile(f), NEW from \in 0 .. Len(f.items), NEW s \in Survivors(f, from)
  PROVE  /\ s \in Seq(Item) /\ Len(s) \in Nat /\ from <= Len(s)
         /\ \A i \in 1 .. from : s[i] = f.items[i]
<1>1. Len(f.items) \in Nat /\ \A i \in 1 .. Len(f.items) : f.items[i] \in Item
  BY LenProperties DEF IsFile
<1>2. ASSUME NEW k \in from .. Len(f.items)
      PROVE  LET c == SubSeq(f.items, 1, k) IN
             /\ c \in Seq(Item) /\ Len(c) = k
             /\ \A i \in 1 .. k : c[i] = f.items[i]
  <2>1. k \in Int /\ \A i \in 1 .. k : f.items[i] \in Item
    BY <1>1
  <2>2. QED
    BY <1>1, <2>1, SubSeqProperties
<1>3. CASE \E k \in from .. Len(f.items) : s = SubSeq(f.items, 1, k)
  BY <1>1, <1>2, <1>3
<1>4. CASE \E k \in from .. Len(f.items) - 1 :
             s = Append(SubSeq(f.items, 1, k), Fragment(f.items[k + 1].name))
  <2>1. PICK k \in from .. Len(f.items) - 1 :
          s = Append(SubSeq(f.items, 1, k), Fragment(f.items[k + 1].name))
    BY <1>4
  <2> DEFINE c == SubSeq(f.items, 1, k)
  <2>2. c \in Seq(Item) /\ Len(c) = k /\ \A i \in 1 .. k : c[i] = f.items[i]
    BY <1>1, <1>2
  <2>3. Fragment(f.items[k + 1].name) \in Item
    <3>1. f.items[k + 1] \in Item
      BY <1>1
    <3>2. f.items[k + 1].name \in Nat
      BY <3>1 DEF Item
    <3>3. QED
      BY <3>2, RecordIsItem
  <2>4. /\ s \in Seq(Item) /\ Len(s) = k + 1
        /\ \A i \in 1 .. k : s[i] = c[i]
    BY <2>1, <2>2, <2>3, AppendProperties
  <2>5. QED
    BY <1>1, <2>2, <2>4
<1>5. QED
  BY <1>3, <1>4 DEF Survivors

LEMMA StaysIn ==
  ASSUME NEW f, NEW g, NEW n \in Nat, NEW m \in Nat, n <= m,
         \A i \in 1 .. n : g.items[i] = f.items[i],
         NEW r, In(f, r, n)
  PROVE  In(g, r, m)
BY DEF In

LEMMA FlushedKeeps ==
  ASSUME NEW f, IsFile(f)
  PROVE  /\ IsFile(Flushed(f)) /\ Flushed(f).items = f.items /\ Flushed(f).stable = Len(f.items)
         /\ IsFile(Given(f)) /\ Given(f).items = f.items /\ Given(f).stable = f.stable
<1>1. Len(f.items) \in Nat
  BY LenProperties DEF IsFile
<1>2. f = [items |-> f.items, given |-> f.given, stable |-> f.stable]
  BY DEF IsFile
<1>3. Given(f) = [items |-> f.items, given |-> Len(f.items), stable |-> f.stable]
  BY <1>2 DEF Given
<1>4. QED
  BY <1>1, <1>3 DEF Flushed, IsFile

-----------------------------------------------------------------------------
LEMMA ProcExcept ==
  ASSUME NEW c, IsProc(c), NEW st, NEW ix
  PROVE  [c EXCEPT !.state = st, !.index = ix] =
           [state |-> st, synced |-> c.synced, failed |-> c.failed, own |-> c.own, index |-> ix]
<1>1. PICK a, b, d, e, g : c = [state |-> a, synced |-> b, failed |-> d, own |-> e, index |-> g]
  BY DEF IsProc
<1> DEFINE half == [c EXCEPT !.state = st]
<1>2. half = [state |-> st, synced |-> b, failed |-> d, own |-> e, index |-> g]
  BY <1>1
<1> HIDE DEF half
<1>3. [half EXCEPT !.index = ix] = [state |-> st, synced |-> b, failed |-> d, own |-> e, index |-> ix]
  BY <1>2
<1>4. [c EXCEPT !.state = st, !.index = ix] = [half EXCEPT !.index = ix]
  BY <1>1 DEF half
<1>5. c.synced = b /\ c.failed = d /\ c.own = e
  BY <1>1
<1>6. QED
  BY <1>3, <1>4, <1>5

LEMMA ProcFields ==
  ASSUME NEW c, IsProc(c), NEW b \in BOOLEAN, NEW o
  PROVE  /\ IsProc([c EXCEPT !.synced = b]) /\ [c EXCEPT !.synced = b].state = c.state
         /\ IsProc([c EXCEPT !.failed = b]) /\ [c EXCEPT !.failed = b].state = c.state
         /\ IsProc([c EXCEPT !.own = o]) /\ [c EXCEPT !.own = o].state = c.state
<1>1. c = [state |-> c.state, synced |-> c.synced, failed |-> c.failed, own |-> c.own, index |-> c.index]
  BY DEF IsProc
<1>2. [c EXCEPT !.synced = b] =
        [state |-> c.state, synced |-> b, failed |-> c.failed, own |-> c.own, index |-> c.index]
  BY <1>1
<1>3. [c EXCEPT !.failed = b] =
        [state |-> c.state, synced |-> c.synced, failed |-> b, own |-> c.own, index |-> c.index]
  BY <1>1
<1>4. [c EXCEPT !.own = o] =
        [state |-> c.state, synced |-> c.synced, failed |-> c.failed, own |-> o, index |-> c.index]
  BY <1>1
<1>5. IsProc([c EXCEPT !.synced = b]) /\ [c EXCEPT !.synced = b].state = c.state
  BY <1>2 DEF IsProc
<1>6. IsProc([c EXCEPT !.failed = b]) /\ [c EXCEPT !.failed = b].state = c.state
  BY <1>3 DEF IsProc
<1>7. IsProc([c EXCEPT !.own = o]) /\ [c EXCEPT !.own = o].state = c.state
  BY <1>4 DEF IsProc
<1>8. QED
  BY <1>5, <1>6, <1>7

LEMMA ClosedIsProc == IsProc(Closed)
  BY DEF IsProc, Closed

LEMMA InitIInv == Init => IInv
<1> SUFFICES ASSUME Init PROVE IInv
  OBVIOUS
<1>1. Typed
  <2>1. IsFile(Empty)
    BY DEF IsFile, Empty
  <2>2. proc = [p \in Process |-> Closed] /\ \A p \in Process : proc[p] = Closed
    BY DEF Init
  <2>3. next \in Nat /\ journal = Empty
    BY DEF Init
  <2>4. QED
    BY <2>1, <2>2, <2>3, ClosedIsProc DEF Typed
<1>2. OneOwner /\ WritesHeader
  BY StorageAssumption DEF Init, OneOwner, WritesHeader, Closed, IsOpen
<1>3. AckedIsStable /\ OwnIsWritten
  BY DEF Init, AckedIsStable, OwnIsWritten, Closed
<1>4. QED
  BY <1>1, <1>2, <1>3 DEF IInv

\* What a step does to the process that takes it: every other one is left alone.
LEMMA ProcStep ==
  ASSUME Typed, NEW p \in Process, NEW q, IsProc(q), proc' = [proc EXCEPT ![p] = q]
  PROVE  /\ proc' = [r \in Process |-> proc'[r]] /\ \A r \in Process : IsProc(proc'[r])
         /\ proc'[p] = q /\ \A r \in Process \ {p} : proc'[r] = proc[r]
BY DEF Typed

\* The directory's lock and header, whatever a process does.
LEMMA OwnerKeeps ==
  ASSUME IInv, NEW p \in Process,
         \/ AcquireLock(p) \/ CheckHeader(p) \/ WriteHeader(p) \/ SyncHeader(p)
         \/ AppendRecord(p) \/ AppendFails(p) \/ Sync(p) \/ SyncFails(p) \/ Close(p)
         \/ RecordSlot(p) \/ RecordFails(p) \/ Kill(p)
  PROVE  OneOwner' /\ WritesHeader'
<1>1. /\ proc = [r \in Process |-> proc[r]] /\ IsProc(proc[p])
      /\ \A r \in Process : lock = r <=> proc[r].state # "closed"
      /\ \A r \in Process : proc[r].state = "open" => header = Identity[r]
      /\ \A r \in Process : proc[r].state = "header" => header = "part"
  BY DEF IInv, Typed, OneOwner, IsOpen, WritesHeader
<1>2. SUFFICES /\ \A r \in Process : lock' = r <=> proc'[r].state # "closed"
               /\ \A r \in Process : proc'[r].state = "open" => header' = Identity[r]
               /\ \A r \in Process : proc'[r].state = "header" => header' = "part"
  BY DEF OneOwner, IsOpen, WritesHeader
<1>3. \A r \in Process \ {p} : proc'[r] = proc[r]
  BY <1>1 DEF AcquireLock, CheckHeader, WriteHeader, SyncHeader, AppendRecord, AppendFails, Sync,
     SyncFails, Close, RecordSlot, RecordFails, Kill, Released
<1>4. Closed.state = "closed"
  BY DEF Closed
<1>5. CASE AcquireLock(p)
  <2>1. PICK index : proc' = [proc EXCEPT ![p] = [Closed EXCEPT !.state = "locked", !.index = index]]
    BY <1>5 DEF AcquireLock
  <2>2. proc'[p].state = "locked"
    BY <1>1, <2>1 DEF Closed
  <2>3. QED
    BY <1>1, <1>3, <1>5, <2>2, StorageAssumption DEF AcquireLock
<1>6. CASE proc' = Released(p) /\ lock' = None /\ lock = p
  <2>1. proc'[p].state = "closed"
    BY <1>1, <1>4, <1>6 DEF Released
  <2>2. QED
    BY <1>1, <1>3, <1>6, <2>1, StorageAssumption
<1>7. CASE \E st \in {"open", "header"} :
             /\ proc' = [proc EXCEPT ![p].state = st] /\ proc[p].state \in {"locked", "header"}
             /\ UNCHANGED lock
             /\ header' = IF st = "open" THEN Identity[p] ELSE "part"
  <2>1. PICK st \in {"open", "header"} :
             /\ proc' = [proc EXCEPT ![p].state = st] /\ proc[p].state \in {"locked", "header"}
             /\ UNCHANGED lock
             /\ header' = IF st = "open" THEN Identity[p] ELSE "part"
    BY <1>7
  <2>2. proc'[p].state = st
    BY <1>1, <2>1 DEF IsProc
  <2>3. lock = p
    BY <1>1, <2>1
  <2>4. QED
    BY <1>1, <1>3, <2>1, <2>2, <2>3
<1>8. CASE UNCHANGED <<lock, header>> /\ proc[p].state = "open" /\ proc'[p].state = proc[p].state
  BY <1>1, <1>3, <1>8
<1>9. Close(p) \/ Kill(p) => proc' = Released(p) /\ lock' = None /\ lock = p
  BY <1>1 DEF Close, Kill
<1>10. AppendRecord(p) \/ AppendFails(p) \/ Sync(p) \/ SyncFails(p) \/ RecordSlot(p) \/ RecordFails(p) =>
         UNCHANGED <<lock, header>> /\ proc[p].state = "open" /\ proc'[p].state = proc[p].state
  <2>1. AppendRecord(p) \/ AppendFails(p) =>
          UNCHANGED <<lock, header>> /\ proc[p].state = "open" /\ proc'[p].state = proc[p].state
    BY <1>1 DEF AppendRecord, AppendFails, IsProc
  <2>2. Sync(p) \/ SyncFails(p) =>
          UNCHANGED <<lock, header>> /\ proc[p].state = "open" /\ proc'[p].state = proc[p].state
    BY <1>1 DEF Sync, SyncFails, IsProc
  <2>3. RecordSlot(p) \/ RecordFails(p) =>
          UNCHANGED <<lock, header>> /\ proc[p].state = "open" /\ proc'[p].state = proc[p].state
    BY <1>1 DEF RecordSlot, RecordFails, IsProc
  <2>4. QED
    BY <2>1, <2>2, <2>3
<1>11. WriteHeader(p) \/ SyncHeader(p) =>
         \E st \in {"open", "header"} :
             /\ proc' = [proc EXCEPT ![p].state = st] /\ proc[p].state \in {"locked", "header"}
             /\ UNCHANGED lock
             /\ header' = IF st = "open" THEN Identity[p] ELSE "part"
  BY DEF WriteHeader, SyncHeader
<1>12. CheckHeader(p) =>
         \/ proc' = Released(p) /\ lock' = None /\ lock = p
         \/ \E st \in {"open", "header"} :
             /\ proc' = [proc EXCEPT ![p].state = st] /\ proc[p].state \in {"locked", "header"}
             /\ UNCHANGED lock
             /\ header' = IF st = "open" THEN Identity[p] ELSE "part"
  BY <1>1 DEF CheckHeader
<1>13. QED
  BY <1>5, <1>6, <1>7, <1>8, <1>9, <1>10, <1>11, <1>12

\* Opening the directory and recording slots: the journal's records stay as they are.
LEMMA OpenKeeps ==
  ASSUME IInv, NEW p \in Process,
         AcquireLock(p) \/ CheckHeader(p) \/ WriteHeader(p) \/ SyncHeader(p) \/ RecordSlot(p) \/ RecordFails(p)
  PROVE  IInv'
<1>1. UNCHANGED <<journal, acked, next>>
  BY DEF AcquireLock, CheckHeader, WriteHeader, SyncHeader, RecordSlot, RecordFails
<1>2. IsProc(proc[p])
  BY DEF IInv, Typed
<1>3. \E q : /\ IsProc(q) /\ proc' = [proc EXCEPT ![p] = q]
             /\ q.own = {} \/ (q.own = proc[p].own /\ q.synced = proc[p].synced /\ q.failed = proc[p].failed)
             /\ q.state # "open" => q.own = {}
  <2>0. proc[p].state # "open" => proc[p].own = {}
    BY DEF IInv, OwnIsWritten
  <2>1. CASE AcquireLock(p)
    <3>1. PICK index \in Indexes(history) :
            proc' = [proc EXCEPT ![p] = [Closed EXCEPT !.state = "locked", !.index = index]]
      BY <2>1 DEF AcquireLock
    <3> DEFINE q == [Closed EXCEPT !.state = "locked", !.index = index]
    <3>2. IsProc(q) /\ q.own = {}
      <4>1. q = [state |-> "locked", synced |-> TRUE, failed |-> FALSE, own |-> {}, index |-> index]
        <5>1. Closed.synced = TRUE /\ Closed.failed = FALSE /\ Closed.own = {}
          BY DEF Closed
        <5>2. q = [state |-> "locked", synced |-> Closed.synced, failed |-> Closed.failed,
                   own |-> Closed.own, index |-> index]
          BY ClosedIsProc, ProcExcept
        <5>3. QED
          BY <5>1, <5>2
      <4>2. QED
        BY <4>1 DEF IsProc
    <3>3. QED
      BY <3>1, <3>2
  <2>2. CASE proc' = Released(p)
    <3>1. Closed.own = {} /\ proc' = [proc EXCEPT ![p] = Closed]
      BY <2>2 DEF Released, Closed
    <3>2. QED
      BY <3>1, ClosedIsProc
  <2>3. CASE \E st \in {"open", "header"} : proc' = [proc EXCEPT ![p].state = st] /\ proc[p].state # "open"
    <3>1. PICK st \in {"open", "header"} : proc' = [proc EXCEPT ![p].state = st]
      BY <2>3
    <3> DEFINE q == [proc[p] EXCEPT !.state = st]
    <3>2. IsProc(q) /\ q.own = {}
      BY <1>2, <2>0, <2>3 DEF IsProc
    <3>3. proc' = [proc EXCEPT ![p] = q]
      BY <3>1
    <3>4. QED
      BY <3>2, <3>3
  <2>4. CASE RecordSlot(p)
    <3>1. PICK slot : proc' = [proc EXCEPT ![p].index = proc[p].index \cup {<<slot, TRUE>>}]
      BY <2>4 DEF RecordSlot, IInv, Typed
    <3> DEFINE q == [proc[p] EXCEPT !.state = proc[p].state, !.index = proc[p].index \cup {<<slot, TRUE>>}]
    <3>2. IsProc(q) /\ q.own = proc[p].own /\ q.synced = proc[p].synced /\ q.failed = proc[p].failed
          /\ q.state = "open"
      <4>1. q = [state |-> proc[p].state, synced |-> proc[p].synced, failed |-> proc[p].failed,
                 own |-> proc[p].own, index |-> proc[p].index \cup {<<slot, TRUE>>}]
        BY <1>2, ProcExcept
      <4>2. proc[p].state = "open"
        BY <2>4 DEF RecordSlot
      <4>3. QED
        BY <1>2, <4>1, <4>2 DEF IsProc
    <3>3. proc' = [proc EXCEPT ![p] = q]
      BY <3>1
    <3>4. QED
      BY <3>2, <3>3
  <2>5. CASE RecordFails(p)
    <3>1. proc' = [proc EXCEPT ![p] = proc[p]] /\ proc[p].state = "open"
      BY <2>5 DEF RecordFails, IInv, Typed
    <3>2. QED
      BY <1>2, <3>1
  <2>6. QED
    BY <2>1, <2>2, <2>3, <2>4, <2>5 DEF CheckHeader, WriteHeader, SyncHeader
<1>4. PICK q : /\ IsProc(q) /\ proc' = [proc EXCEPT ![p] = q]
               /\ q.own = {} \/ (q.own = proc[p].own /\ q.synced = proc[p].synced /\ q.failed = proc[p].failed)
               /\ q.state # "open" => q.own = {}
  BY <1>3
<1>5. /\ proc' = [r \in Process |-> proc'[r]] /\ \A r \in Process : IsProc(proc'[r])
      /\ proc'[p] = q /\ \A r \in Process \ {p} : proc'[r] = proc[r]
  BY <1>4, ProcStep DEF IInv
<1>6. Typed'
  BY <1>1, <1>5 DEF IInv, Typed
<1>7. AckedIsStable' /\ OwnIsWritten'
  BY <1>1, <1>4, <1>5 DEF IInv, AckedIsStable, OwnIsWritten
<1>8. OneOwner' /\ WritesHeader'
  BY OwnerKeeps
<1>9. QED
  BY <1>6, <1>7, <1>8 DEF IInv

-----------------------------------------------------------------------------
(* The journal's steps.                                                    *)

\* A step that keeps the items before n, where n is at least what is on stable storage,
\* keeps the acknowledged records on stable storage.
LEMMA AckedKeeps ==
  ASSUME IInv, acked' = acked, IsFile(journal'), journal.stable <= journal'.stable,
         \A i \in 1 .. journal.stable : journal'.items[i] = journal.items[i]
  PROVE  AckedIsStable'
<1>1. journal.stable \in Nat /\ journal'.stable \in Nat
  BY DEF IInv, Typed, IsFile
<1>2. QED
  BY <1>1, StaysIn DEF IInv, AckedIsStable

\* A step that keeps every item keeps each process's own records where they were.
LEMMA OwnKeeps ==
  ASSUME IInv, NEW p \in Process, IsFile(journal'), journal.stable <= journal'.stable,
         Len(journal.items) <= Len(journal'.items),
         \A i \in 1 .. Len(journal.items) : journal'.items[i] = journal.items[i],
         proc'[p].own = proc[p].own, proc'[p].synced = proc[p].synced, proc'[p].failed = proc[p].failed
  PROVE  ~proc'[p].failed =>
           \A r \in proc'[p].own : In(journal', r, IF proc'[p].synced THEN journal'.stable ELSE Len(journal'.items))
<1>1. /\ journal.stable \in Nat /\ journal'.stable \in Nat
      /\ Len(journal.items) \in Nat /\ Len(journal'.items) \in Nat
      /\ journal.stable <= Len(journal.items)
  BY LenProperties DEF IInv, Typed, IsFile
<1>2. SUFFICES ASSUME ~proc[p].failed, NEW r \in proc[p].own
               PROVE  In(journal', r, IF proc[p].synced THEN journal'.stable ELSE Len(journal'.items))
  OBVIOUS
<1>3. In(journal, r, IF proc[p].synced THEN journal.stable ELSE Len(journal.items))
  BY <1>2 DEF IInv, OwnIsWritten
<1>4. CASE proc[p].synced
  <2>1. In(journal, r, journal.stable) /\ \A i \in 1 .. journal.stable : journal'.items[i] = journal.items[i]
    BY <1>1, <1>3, <1>4
  <2>2. In(journal', r, journal'.stable)
    BY <1>1, <2>1, StaysIn
  <2>3. QED
    BY <1>4, <2>2
<1>5. CASE ~proc[p].synced
  <2>1. In(journal', r, Len(journal'.items))
    BY <1>1, <1>3, <1>5, StaysIn
  <2>2. QED
    BY <1>5, <2>1
<1>6. QED
  BY <1>4, <1>5

\* Appending, and failing to: the file keeps every item it had.
LEMMA AppendKeeps ==
  ASSUME IInv, NEW p \in Process, AppendRecord(p) \/ AppendFails(p)
  PROVE  IInv'
<1> DEFINE g == Written(journal, <<Whole(next)>>)
<1>1. /\ IsFile(journal) /\ next \in Nat /\ IsProc(proc[p]) /\ Len(journal.items) \in Nat
      /\ journal.stable \in Nat /\ journal.stable <= Len(journal.items)
  BY LenProperties DEF IInv, Typed, IsFile
<1>2. /\ IsFile(g) /\ g.stable = journal.stable
      /\ Len(g.items) = Len(journal.items) + 1 /\ g.items[Len(g.items)] = Whole(next)
      /\ \A i \in 1 .. Len(journal.items) : g.items[i] = journal.items[i]
  BY <1>1, WrittenKeeps
<1> HIDE DEF g
<1>3. /\ IsFile(journal') /\ journal'.stable = journal.stable
      /\ Len(journal.items) <= Len(journal'.items)
      /\ \A i \in 1 .. Len(journal.items) : journal'.items[i] = journal.items[i]
  <2>1. CASE AppendRecord(p)
    BY <1>1, <1>2, <2>1 DEF AppendRecord, g
  <2>2. CASE AppendFails(p)
    <3>1. PICK s \in Survivors(g, Len(journal.items)) : journal' = [journal EXCEPT !.items = s]
      BY <2>2 DEF AppendFails, g
    <3>2. /\ s \in Seq(Item) /\ Len(s) \in Nat /\ Len(journal.items) <= Len(s)
          /\ \A i \in 1 .. Len(journal.items) : s[i] = g.items[i]
      BY <1>1, <1>2, <3>1, SurvivorsKeep
    <3>3. journal' = [items |-> s, given |-> journal.given, stable |-> journal.stable]
      BY <1>1, <3>1 DEF IsFile
    <3>4. journal'.items = s /\ journal'.given = journal.given /\ journal'.stable = journal.stable
      BY <3>3
    <3>5. IsFile(journal')
      BY <1>1, <3>2, <3>3, <3>4 DEF IsFile
    <3>6. QED
      BY <1>1, <1>2, <3>2, <3>4, <3>5
  <2>3. QED
    BY <2>1, <2>2
<1>4. /\ proc[p].state = "open" /\ ~proc[p].failed /\ acked' = acked /\ next' = next + 1
      /\ \A r \in Process \ {p} : proc'[r] = proc[r]
  BY DEF AppendRecord, AppendFails, IInv, Typed
<1>5. \E q : IsProc(q) /\ q.state = "open" /\ proc' = [proc EXCEPT ![p] = q]
  <2>1. CASE AppendRecord(p)
    <3> DEFINE half == [proc[p] EXCEPT !.synced = FALSE]
               q == [half EXCEPT !.own = proc[p].own \cup {next}]
    <3>1. proc' = [proc EXCEPT ![p] = q]
      BY <1>1, <2>1 DEF AppendRecord, IInv, Typed, IsProc
    <3>2. IsProc(half) /\ half.state = "open"
      BY <1>1, <1>4, ProcFields
    <3> HIDE DEF half
    <3>3. IsProc(q) /\ q.state = "open"
      BY <3>2, ProcFields
    <3>4. QED
      BY <3>1, <3>3
  <2>2. CASE AppendFails(p)
    <3> DEFINE q == [proc[p] EXCEPT !.failed = TRUE]
    <3>1. proc' = [proc EXCEPT ![p] = q]
      BY <2>2 DEF AppendFails, IInv, Typed
    <3>2. IsProc(q) /\ q.state = "open"
      BY <1>1, <1>4, ProcFields
    <3>3. QED
      BY <3>1, <3>2
  <2>3. QED
    BY <2>1, <2>2
<1>6. Typed' /\ proc'[p].state = "open"
  BY <1>1, <1>3, <1>4, <1>5, ProcStep DEF IInv, Typed
<1>7. AckedIsStable'
  BY <1>1, <1>3, <1>4, AckedKeeps
<1>8. OwnIsWritten'
  <2>1. ASSUME NEW r \in Process \ {p}
        PROVE  /\ proc'[r].state # "open" => proc'[r].own = {}
               /\ ~proc'[r].failed => \A n \in proc'[r].own :
                    In(journal', n, IF proc'[r].synced THEN journal'.stable ELSE Len(journal'.items))
    BY <1>1, <1>3, <1>4, OwnKeeps DEF IInv, OwnIsWritten
  <2>2. CASE AppendRecord(p)
    <3>1. proc'[p].own = proc[p].own \cup {next} /\ proc'[p].synced = FALSE
      BY <1>1, <2>2 DEF AppendRecord, IInv, Typed, IsProc
    <3>2. In(journal', next, Len(journal'.items))
      BY <1>1, <1>2, <2>2 DEF AppendRecord, g, In
    <3>3. ASSUME NEW n \in proc[p].own PROVE In(journal', n, Len(journal'.items))
      <4>1. \E m \in Nat : m <= Len(journal.items) /\ In(journal, n, m)
        BY <1>1, <1>4 DEF IInv, OwnIsWritten
      <4>2. Len(journal'.items) \in Nat
        BY <1>3, LenProperties DEF IsFile
      <4>3. QED
        BY <1>1, <1>3, <4>1, <4>2, StaysIn
    <3>4. QED
      BY <1>6, <2>1, <3>1, <3>2, <3>3 DEF OwnIsWritten
  <2>3. CASE AppendFails(p)
    <3>1. proc'[p].failed = TRUE
      BY <1>1, <2>3 DEF AppendFails, IInv, Typed, IsProc
    <3>2. QED
      BY <1>6, <2>1, <3>1 DEF OwnIsWritten
  <2>4. QED
    BY <2>2, <2>3
<1>9. QED
  BY <1>6, <1>7, <1>8, OwnerKeeps DEF IInv

\* Syncing, failing to, and closing: the same items, more of them on stable storage.
LEMMA SyncKeeps ==
  ASSUME IInv, NEW p \in Process, Sync(p) \/ SyncFails(p) \/ Close(p)
  PROVE  IInv'
<1>1. /\ IsFile(journal) /\ IsProc(proc[p]) /\ Len(journal.items) \in Nat
      /\ journal.stable \in Nat /\ journal.stable <= Len(journal.items)
  BY LenProperties DEF IInv, Typed, IsFile
<1>2. /\ IsFile(journal') /\ journal'.items = journal.items /\ journal.stable <= journal'.stable
  BY <1>1, FlushedKeeps DEF Sync, SyncFails, Close
<1>3. \E q : IsProc(q) /\ proc' = [proc EXCEPT ![p] = q] /\ (q.state = "open" \/ q = Closed)
  <2>1. CASE Sync(p)
    <3> DEFINE q == [proc[p] EXCEPT !.synced = TRUE]
    <3>1. proc' = [proc EXCEPT ![p] = q] /\ proc[p].state = "open"
      BY <2>1 DEF Sync
    <3>2. IsProc(q) /\ q.state = "open"
      BY <1>1, <3>1, ProcFields
    <3>3. QED
      BY <3>1, <3>2
  <2>2. CASE SyncFails(p)
    <3> DEFINE q == [proc[p] EXCEPT !.failed = TRUE]
    <3>1. proc' = [proc EXCEPT ![p] = q] /\ proc[p].state = "open"
      BY <2>2 DEF SyncFails
    <3>2. IsProc(q) /\ q.state = "open"
      BY <1>1, <3>1, ProcFields
    <3>3. QED
      BY <3>1, <3>2
  <2>3. CASE Close(p)
    BY <2>3, ClosedIsProc DEF Close, Released
  <2>4. QED
    BY <2>1, <2>2, <2>3
<1>4. /\ \A r \in Process \ {p} : proc'[r] = proc[r]
      /\ proc'[p].state # "open" => proc'[p] = Closed
      /\ proc' = [r \in Process |-> proc'[r]] /\ \A r \in Process : IsProc(proc'[r])
  BY <1>3, ProcStep DEF IInv
<1>5. next' = next
  BY DEF Sync, SyncFails, Close
<1>6. Typed'
  BY <1>2, <1>4, <1>5 DEF IInv, Typed
<1>7. CASE Sync(p)
  <2>1. ~proc[p].failed /\ acked' = acked \cup proc[p].own
        /\ (IF proc[p].synced THEN journal' = journal ELSE journal' = Flushed(journal))
    BY <1>7 DEF Sync
  <2>2. ASSUME NEW r \in proc[p].own PROVE In(journal', r, journal'.stable)
    <3>1. In(journal, r, IF proc[p].synced THEN journal.stable ELSE Len(journal.items))
      BY <2>1 DEF IInv, OwnIsWritten
    <3>2. CASE proc[p].synced
      BY <2>1, <3>1, <3>2
    <3>3. CASE ~proc[p].synced
      <4>1. journal'.stable = Len(journal.items)
        BY <1>1, <2>1, <3>3, FlushedKeeps
      <4>2. QED
        BY <1>2, <3>1, <3>3, <4>1 DEF In
    <3>4. QED
      BY <3>2, <3>3
  <2>3. ASSUME NEW r \in acked PROVE In(journal', r, journal'.stable)
    <3>1. In(journal, r, journal.stable) /\ journal'.stable \in Nat
      BY <1>2 DEF IInv, AckedIsStable, IsFile
    <3>2. QED
      BY <1>1, <1>2, <3>1, StaysIn
  <2>4. AckedIsStable'
    BY <2>1, <2>2, <2>3 DEF AckedIsStable
  <2>5. proc'[p].own = proc[p].own /\ proc'[p].synced = TRUE /\ proc'[p].failed = proc[p].failed
        /\ proc'[p].state = "open"
    BY <1>1, <1>7 DEF Sync, IInv, Typed, IsProc
  <2>6. ASSUME NEW r \in Process \ {p}
        PROVE  /\ proc'[r].state # "open" => proc'[r].own = {}
               /\ ~proc'[r].failed => \A n \in proc'[r].own :
                    In(journal', n, IF proc'[r].synced THEN journal'.stable ELSE Len(journal'.items))
    BY <1>1, <1>2, <1>4, OwnKeeps DEF IInv, OwnIsWritten
  <2>7. OwnIsWritten'
    BY <2>2, <2>5, <2>6 DEF OwnIsWritten
  <2>8. QED
    BY <1>6, <2>4, <2>7, OwnerKeeps DEF IInv
<1>8. CASE SyncFails(p) \/ Close(p)
  <2>1. acked' = acked /\ proc'[p].own \in {{}, proc[p].own}
        /\ (proc'[p].state # "open" => proc'[p].own = {}) /\ (proc'[p].own # {} => proc'[p].failed = TRUE)
    BY <1>1, <1>4, <1>8 DEF SyncFails, Close, Released, Closed, IInv, Typed, IsProc
  <2>2. AckedIsStable'
    BY <1>1, <1>2, <2>1, AckedKeeps
  <2>3. ASSUME NEW r \in Process \ {p}
        PROVE  /\ proc'[r].state # "open" => proc'[r].own = {}
               /\ ~proc'[r].failed => \A n \in proc'[r].own :
                    In(journal', n, IF proc'[r].synced THEN journal'.stable ELSE Len(journal'.items))
    BY <1>1, <1>2, <1>4, OwnKeeps DEF IInv, OwnIsWritten
  <2>4. OwnIsWritten'
    BY <2>1, <2>3 DEF OwnIsWritten
  <2>5. QED
    BY <1>6, <2>2, <2>4, OwnerKeeps DEF IInv
<1>9. QED
  BY <1>7, <1>8

\* A killed process and a power loss: what was on stable storage is still there.
LEMMA CrashKeeps ==
  ASSUME IInv, PowerLoss \/ \E p \in Process : Kill(p)
  PROVE  IInv'
<1>1. /\ IsFile(journal) /\ Len(journal.items) \in Nat
      /\ journal.stable \in 0 .. Len(journal.items) /\ journal.given \in 0 .. Len(journal.items)
      /\ journal.stable <= journal.given
  BY LenProperties DEF IInv, Typed, IsFile
<1>2. /\ IsFile(journal') /\ journal.stable <= journal'.stable
      /\ \A i \in 1 .. journal.stable : journal'.items[i] = journal.items[i]
  <2>1. CASE PowerLoss
    <3>1. PICK s \in Survivors(journal, journal.stable) :
            journal' = [items |-> s, given |-> Len(s), stable |-> Len(s)]
      BY <2>1 DEF PowerLoss, PowerLost
    <3>2. /\ s \in Seq(Item) /\ Len(s) \in Nat /\ journal.stable <= Len(s)
          /\ \A i \in 1 .. journal.stable : s[i] = journal.items[i]
      BY <1>1, SurvivorsKeep
    <3>3. QED
      BY <3>1, <3>2 DEF IsFile
  <2>2. CASE \E p \in Process : Kill(p)
    <3>1. PICK s \in Survivors(journal, journal.given) :
            journal' = [items |-> s, given |-> Len(s), stable |-> journal.stable]
      BY <2>2 DEF Kill, Killed
    <3>2. /\ s \in Seq(Item) /\ Len(s) \in Nat /\ journal.given <= Len(s)
          /\ \A i \in 1 .. journal.given : s[i] = journal.items[i]
      BY <1>1, SurvivorsKeep
    <3>3. QED
      BY <1>1, <3>1, <3>2 DEF IsFile
  <2>3. QED
    BY <2>1, <2>2
<1>3. acked' = acked /\ next' = next
  BY DEF PowerLoss, Kill
<1>4. /\ proc' = [r \in Process |-> proc'[r]]
      /\ \A r \in Process : IsProc(proc'[r]) /\ proc'[r].own = {}
  <2>1. Closed.own = {}
    BY DEF Closed
  <2>2. CASE PowerLoss
    <3>1. proc' = [p \in Process |-> Closed]
      BY <2>2 DEF PowerLoss
    <3>2. QED
      BY <2>1, <3>1, ClosedIsProc
  <2>3. CASE \E p \in Process : Kill(p)
    <3>1. PICK p \in Process : lock = p /\ proc' = [proc EXCEPT ![p] = Closed]
      BY <2>3 DEF Kill, Released
    <3>2. /\ proc' = [r \in Process |-> proc'[r]] /\ \A r \in Process : IsProc(proc'[r])
          /\ proc'[p] = Closed /\ \A r \in Process \ {p} : proc'[r] = proc[r]
      BY <3>1, ProcStep, ClosedIsProc DEF IInv
    <3>3. \A r \in Process \ {p} : proc[r].own = {}
      BY <3>1 DEF IInv, OneOwner, OwnIsWritten
    <3>4. QED
      BY <2>1, <3>2, <3>3
  <2>4. QED
    BY <2>2, <2>3
<1>5. Typed' /\ OwnIsWritten'
  BY <1>2, <1>3, <1>4 DEF IInv, Typed, OwnIsWritten
<1>6. AckedIsStable'
  BY <1>2, <1>3, AckedKeeps
<1>7. OneOwner' /\ WritesHeader'
  <2>1. CASE PowerLoss
    <3>1. lock' = None /\ \A p \in Process : proc'[p].state = "closed"
      BY <2>1 DEF PowerLoss, Closed
    <3>2. QED
      BY <3>1, StorageAssumption DEF OneOwner, IsOpen, WritesHeader
  <2>2. QED
    BY <2>1, OwnerKeeps
<1>8. QED
  BY <1>5, <1>6, <1>7 DEF IInv

-----------------------------------------------------------------------------
LEMMA StepIInv ==
  ASSUME IInv, [Next]_vars
  PROVE  IInv'
<1>1. CASE Next
  BY <1>1, OpenKeeps, AppendKeeps, SyncKeeps, CrashKeeps DEF Next
<1>2. CASE UNCHANGED vars
  BY <1>2 DEF vars, IInv, Typed, OneOwner, IsOpen, WritesHeader, AckedIsStable, OwnIsWritten, In
<1>3. QED
  BY <1>1, <1>2

\* Where the reader of a file with no buried fragment loses its place: at its end, or
\* one item before it.
LEMMA ReadsToTheEnd ==
  ASSUME NEW f, IsFile(f), ~Buried(f)
  PROVE  /\ Readable(f) \in 0 .. Len(f.items)
         /\ \A i \in 1 .. Len(f.items) : f.items[i].whole => i <= Readable(f)
<1> DEFINE Place(k) == /\ \A i \in 1 .. k : f.items[i].whole
                       /\ k < Len(f.items) => ~f.items[k + 1].whole
<1>1. Len(f.items) \in Nat /\ DOMAIN f.items = 1 .. Len(f.items)
  BY LenProperties DEF IsFile
<1>2. \A i \in 1 .. Len(f.items) : i < Len(f.items) => f.items[i].whole
  BY <1>1 DEF Buried, Fragments
<1>3. \E k \in 0 .. Len(f.items) : Place(k)
  <2>1. CASE Len(f.items) = 0 \/ f.items[Len(f.items)].whole
    <3>1. Place(Len(f.items))
      BY <1>1, <1>2, <2>1
    <3>2. QED
      BY <1>1, <3>1
  <2>2. CASE Len(f.items) # 0 /\ ~f.items[Len(f.items)].whole
    <3>1. Place(Len(f.items) - 1)
      BY <1>1, <1>2, <2>2
    <3>2. Len(f.items) - 1 \in 0 .. Len(f.items)
      BY <1>1, <2>2
    <3> HIDE DEF Place
    <3>3. QED
      BY <3>1, <3>2
  <2>3. QED
    BY <2>1, <2>2
<1>4. Readable(f) \in 0 .. Len(f.items) /\ Place(Readable(f))
  BY <1>3 DEF Readable
<1>5. QED
  BY <1>1, <1>2, <1>4

-----------------------------------------------------------------------------
\* FileJournal: acknowledged records stand on stable storage, and a process that has
\* seen no failure has its records where it believes them to be, whatever fails.
THEOREM StorageInvariant == Spec => []IInv
<1>1. QED
  BY InitIInv, StepIInv, PTL DEF Spec

\* FileJournal.open and close: for any number of processes the directory has one owner,
\* it is used as the node it was made for, and it is never left locked.
THEOREM TheDirectoryHasOneOwner == Spec => []OneOwner
<1>1. IInv => OneOwner
  BY DEF IInv
<1>2. QED
  BY <1>1, StorageInvariant, PTL

\* FileJournal.append, sync and replay: an acknowledged record stays in front of
\* anything unreadable, after any number of failing writes, kills and power losses, as
\* long as nothing was written behind a fragment.
THEOREM AckedAlwaysSurvives == Spec => []AckedSurvives
<1>1. IInv => AckedSurvives
  <2>1. SUFFICES ASSUME IInv, ~Buried(journal), NEW r \in acked
                 PROVE  r \in {journal.items[i].name : i \in 1 .. Readable(journal)}
    BY DEF AckedSurvives
  <2>2. IsFile(journal) /\ journal.stable \in Nat /\ Len(journal.items) \in Nat
        /\ journal.stable <= Len(journal.items)
    BY <2>1, LenProperties DEF IInv, Typed, IsFile
  <2>3. PICK i \in 1 .. journal.stable : journal.items[i] = Whole(r)
    BY <2>1 DEF IInv, AckedIsStable, In
  <2>4. journal.items[i].whole /\ journal.items[i].name = r
    BY <2>3 DEF Whole
  <2>5. i \in 1 .. Readable(journal)
    BY <2>1, <2>2, <2>4, ReadsToTheEnd
  <2>6. QED
    BY <2>4, <2>5
<1>2. QED
  BY <1>1, StorageInvariant, PTL

-----------------------------------------------------------------------------
(* The history, and a directory without a header.                          *)

\* Slots for which record returned are on stable storage.
RetainedIsStable == \A s \in retained : In(history, s, history.stable)

\* A process in the directory has every retained slot in its index, unless the file it
\* built it from had something written behind a fragment; then it still has.
IndexIsTrue ==
  \A p \in Process : proc[p].state # "closed" =>
    Buried(history) \/ \A s \in retained : <<s, TRUE>> \in proc[p].index

\* Before the header is synced nothing is acknowledged.
HeaderFirst == header \in {"none", "part"} => acked = {} /\ retained = {}

HInv == IsFile(history) /\ RetainedIsStable /\ IndexIsTrue /\ HeaderFirst

\* Adding at the end of a file does not dig up what is buried in it.
LEMMA BuriedStays ==
  ASSUME NEW f, IsFile(f), NEW g, IsFile(g), Len(f.items) <= Len(g.items),
         \A i \in 1 .. Len(f.items) : g.items[i] = f.items[i], Buried(f)
  PROVE  Buried(g)
<1>1. /\ Len(f.items) \in Nat /\ DOMAIN f.items = 1 .. Len(f.items)
      /\ Len(g.items) \in Nat /\ DOMAIN g.items = 1 .. Len(g.items)
  BY LenProperties DEF IsFile
<1>2. PICK i \in 1 .. Len(f.items) : ~f.items[i].whole /\ i < Len(f.items)
  BY <1>1 DEF Buried, Fragments
<1>3. QED
  BY <1>1, <1>2 DEF Buried, Fragments

\* What an action does to the history and to the indexes, when it neither opens the
\* directory nor records a slot.
LEMMA OthersKeepIndex ==
  ASSUME IInv, IsFile(history), NEW p \in Process,
         \/ CheckHeader(p) \/ WriteHeader(p) \/ SyncHeader(p) \/ AppendRecord(p) \/ AppendFails(p)
         \/ Sync(p) \/ SyncFails(p) \/ Close(p)
  PROVE  /\ UNCHANGED <<history, retained>>
         /\ \A r \in Process : proc'[r].state # "closed" =>
              proc[r].state # "closed" /\ proc'[r].index = proc[r].index
<1>1. /\ proc = [r \in Process |-> proc[r]] /\ IsProc(proc[p])
  BY DEF IInv, Typed
<1>2. UNCHANGED <<history, retained>>
  BY DEF CheckHeader, WriteHeader, SyncHeader, AppendRecord, AppendFails, Sync, SyncFails, Close
<1>3. \A r \in Process \ {p} : proc'[r] = proc[r]
  BY <1>1 DEF CheckHeader, WriteHeader, SyncHeader, AppendRecord, AppendFails, Sync, SyncFails, Close, Released
<1>4. proc[p].state # "closed"
  BY DEF CheckHeader, WriteHeader, SyncHeader, AppendRecord, AppendFails, Sync, SyncFails, Close
<1>5. CASE proc' = Released(p)
  <2>1. proc'[p].state = "closed"
    BY <1>1, <1>5 DEF Released, Closed
  <2>2. QED
    BY <1>2, <1>3, <2>1
<1>6. CASE proc'[p].index = proc[p].index
  BY <1>2, <1>3, <1>4, <1>6
<1>7. proc' = Released(p) \/ proc'[p].index = proc[p].index
  <2>1. CASE CheckHeader(p) \/ WriteHeader(p) \/ SyncHeader(p)
    BY <1>1, <2>1 DEF CheckHeader, WriteHeader, SyncHeader, IsProc
  <2>2. CASE AppendRecord(p) \/ AppendFails(p)
    BY <1>1, <2>2 DEF AppendRecord, AppendFails, IsProc
  <2>3. CASE Sync(p) \/ SyncFails(p) \/ Close(p)
    BY <1>1, <2>3 DEF Sync, SyncFails, Close, IsProc
  <2>4. QED
    BY <2>1, <2>2, <2>3
<1>8. QED
  BY <1>5, <1>6, <1>7

\* Opening the directory: the index is read off the file.
LEMMA AcquireKeepsHistory ==
  ASSUME IInv, HInv, NEW p \in Process, AcquireLock(p)
  PROVE  IsFile(history)' /\ RetainedIsStable' /\ IndexIsTrue'
<1>1. UNCHANGED <<history, retained>> /\ lock = None
  BY DEF AcquireLock
<1>2. IsFile(history)' /\ RetainedIsStable'
  BY <1>1 DEF HInv, RetainedIsStable, IsFile, In
<1>3. PICK index \in Indexes(history) :
        proc' = [proc EXCEPT ![p] = [Closed EXCEPT !.state = "locked", !.index = index]]
  BY DEF AcquireLock
<1>4. proc'[p].index = index /\ \A r \in Process \ {p} : proc'[r] = proc[r]
  BY <1>3 DEF IInv, Typed, Closed
<1>5. \A r \in Process : proc[r].state = "closed"
  BY <1>1, StorageAssumption DEF IInv, OneOwner
<1>6. ASSUME ~Buried(history), NEW s \in retained PROVE <<s, TRUE>> \in index
  <2>1. IsFile(history) /\ history.stable \in Nat /\ Len(history.items) \in Nat
        /\ history.stable <= Len(history.items)
    BY LenProperties DEF HInv, IsFile
  <2>2. PICK i \in 1 .. history.stable : history.items[i] = Whole(s)
    BY DEF HInv, RetainedIsStable, In
  <2>3. history.items[i].whole /\ history.items[i].name = s
    BY <2>2 DEF Whole
  <2>4. i \in 1 .. Readable(history)
    BY <1>6, <2>1, <2>3, ReadsToTheEnd
  <2>5. <<s, TRUE>> \in {<<history.items[j].name, TRUE>> : j \in 1 .. Readable(history)}
    BY <2>3, <2>4
  <2>6. {<<history.items[j].name, TRUE>> : j \in 1 .. Readable(history)} \subseteq index
    BY <1>3 DEF Indexes
  <2>7. QED
    BY <2>5, <2>6
<1>7. IndexIsTrue'
  BY <1>1, <1>4, <1>5, <1>6 DEF IndexIsTrue, Buried, Fragments
<1>8. QED
  BY <1>2, <1>7

\* Recording a slot, and failing to: the history keeps every item it had.
LEMMA RecordKeepsHistory ==
  ASSUME IInv, HInv, NEW p \in Process, RecordSlot(p) \/ RecordFails(p)
  PROVE  IsFile(history)' /\ RetainedIsStable' /\ IndexIsTrue'
<1>1. /\ IsFile(history) /\ Len(history.items) \in Nat /\ history.stable \in Nat
      /\ history.stable <= Len(history.items) /\ IsProc(proc[p]) /\ proc = [r \in Process |-> proc[r]]
  BY LenProperties DEF IInv, HInv, Typed, IsFile
<1>2. \A r \in Process \ {p} : proc'[r] = proc[r] /\ proc[r].state = "closed"
  BY DEF RecordSlot, RecordFails, IInv, OneOwner, Typed
<1>3. PICK slot \in Nat :
        \/ /\ history' = Flushed(Written(history, <<Whole(slot)>>))
           /\ proc' = [proc EXCEPT ![p].index = @ \cup {<<slot, TRUE>>}]
           /\ retained' = retained \cup {slot}
        \/ /\ \E s \in Survivors(Written(history, <<Whole(slot)>>), Len(history.items)) :
                history' = [history EXCEPT !.items = s]
           /\ UNCHANGED <<proc, retained>>
  <2>1. 1 .. MaxSlot \subseteq Nat
    BY StorageAssumption
  <2>2. CASE RecordSlot(p)
    <3>1. PICK slot \in 1 .. MaxSlot :
            /\ history' = Flushed(Written(history, <<Whole(slot)>>))
            /\ proc' = [proc EXCEPT ![p].index = @ \cup {<<slot, TRUE>>}]
            /\ retained' = retained \cup {slot}
      BY <2>2 DEF RecordSlot
    <3>2. QED
      BY <2>1, <3>1
  <2>3. CASE RecordFails(p)
    <3>1. PICK slot \in 1 .. MaxSlot :
            \E s \in Survivors(Written(history, <<Whole(slot)>>), Len(history.items)) :
              history' = [history EXCEPT !.items = s]
      BY <2>3 DEF RecordFails
    <3>2. UNCHANGED <<proc, retained>>
      BY <2>3 DEF RecordFails
    <3>3. QED
      BY <2>1, <3>1, <3>2
  <2>4. QED
    BY <2>2, <2>3
<1> DEFINE g == Written(history, <<Whole(slot)>>)
<1>4. /\ IsFile(g) /\ g.stable = history.stable
      /\ Len(g.items) = Len(history.items) + 1 /\ g.items[Len(g.items)] = Whole(slot)
      /\ \A i \in 1 .. Len(history.items) : g.items[i] = history.items[i]
  BY <1>1, WrittenKeeps
<1> HIDE DEF g
<1>5. CASE /\ history' = Flushed(g)
           /\ proc' = [proc EXCEPT ![p].index = @ \cup {<<slot, TRUE>>}]
           /\ retained' = retained \cup {slot}
  <2>1. /\ IsFile(history') /\ history'.items = g.items /\ history'.stable = Len(g.items)
    BY <1>4, <1>5, FlushedKeeps
  <2>2. Buried(history) => Buried(history')
    BY <1>1, <1>4, <2>1, BuriedStays
  <2>3. ASSUME NEW s \in retained PROVE In(history', s, history'.stable)
    <3>1. In(history, s, history.stable)
      BY DEF HInv, RetainedIsStable
    <3>2. \A i \in 1 .. history.stable : history'.items[i] = history.items[i]
      BY <1>1, <1>4, <2>1
    <3>3. history'.stable \in Nat /\ history.stable <= history'.stable
      BY <1>1, <1>4, <2>1
    <3>4. QED
      BY <1>1, <3>1, <3>2, <3>3, StaysIn
  <2>4. In(history', slot, history'.stable)
    BY <1>1, <1>4, <2>1 DEF In
  <2>5. RetainedIsStable'
    BY <1>5, <2>3, <2>4 DEF RetainedIsStable
  <2>6. proc'[p].index = proc[p].index \cup {<<slot, TRUE>>} /\ proc[p].state # "closed"
    BY <1>1, <1>5 DEF IsProc, RecordSlot, RecordFails
  <2>7. IndexIsTrue'
    BY <1>2, <1>5, <2>2, <2>6 DEF HInv, IndexIsTrue
  <2>8. QED
    BY <2>1, <2>5, <2>7
<1>6. CASE /\ \E s \in Survivors(g, Len(history.items)) : history' = [history EXCEPT !.items = s]
           /\ UNCHANGED <<proc, retained>>
  <2>1. PICK s \in Survivors(g, Len(history.items)) : history' = [history EXCEPT !.items = s]
    BY <1>6
  <2>2. /\ s \in Seq(Item) /\ Len(s) \in Nat /\ Len(history.items) <= Len(s)
        /\ \A i \in 1 .. Len(history.items) : s[i] = g.items[i]
    BY <1>1, <1>4, SurvivorsKeep
  <2>3. history' = [items |-> s, given |-> history.given, stable |-> history.stable]
    BY <1>1, <2>1 DEF IsFile
  <2>4. history'.items = s /\ history'.given = history.given /\ history'.stable = history.stable
    BY <2>3
  <2>5. IsFile(history')
    BY <1>1, <2>2, <2>3, <2>4 DEF IsFile
  <2>6. \A i \in 1 .. Len(history.items) : history'.items[i] = history.items[i]
    BY <1>4, <2>2, <2>4
  <2>7. Buried(history) => Buried(history')
    BY <1>1, <2>2, <2>4, <2>5, <2>6, BuriedStays
  <2>8. RetainedIsStable'
    BY <1>1, <1>6, <2>4, <2>6 DEF HInv, RetainedIsStable, In
  <2>9. QED
    BY <1>6, <2>5, <2>7, <2>8 DEF HInv, IndexIsTrue
<1>7. QED
  BY <1>3, <1>5, <1>6 DEF g

\* A killed process and a power loss leave no process with an index.
LEMMA CrashKeepsHistory ==
  ASSUME IInv, HInv, PowerLoss \/ \E p \in Process : Kill(p)
  PROVE  IsFile(history)' /\ RetainedIsStable' /\ IndexIsTrue'
<1>1. /\ IsFile(history) /\ Len(history.items) \in Nat
      /\ history.stable \in 0 .. Len(history.items) /\ history.given \in 0 .. Len(history.items)
      /\ history.stable <= history.given
  BY LenProperties DEF HInv, IsFile
<1>2. /\ IsFile(history') /\ history.stable <= history'.stable
      /\ \A i \in 1 .. history.stable : history'.items[i] = history.items[i]
  <2>1. CASE PowerLoss
    <3>1. PICK s \in Survivors(history, history.stable) :
            history' = [items |-> s, given |-> Len(s), stable |-> Len(s)]
      BY <2>1 DEF PowerLoss, PowerLost
    <3>2. /\ s \in Seq(Item) /\ Len(s) \in Nat /\ history.stable <= Len(s)
          /\ \A i \in 1 .. history.stable : s[i] = history.items[i]
      BY <1>1, SurvivorsKeep
    <3>3. QED
      BY <3>1, <3>2 DEF IsFile
  <2>2. CASE \E p \in Process : Kill(p)
    <3>1. PICK s \in Survivors(history, history.given) :
            history' = [items |-> s, given |-> Len(s), stable |-> history.stable]
      BY <2>2 DEF Kill, Killed
    <3>2. /\ s \in Seq(Item) /\ Len(s) \in Nat /\ history.given <= Len(s)
          /\ \A i \in 1 .. history.given : s[i] = history.items[i]
      BY <1>1, SurvivorsKeep
    <3>3. QED
      BY <1>1, <3>1, <3>2 DEF IsFile
  <2>3. QED
    BY <2>1, <2>2
<1>3. retained' = retained /\ history'.stable \in Nat /\ history.stable \in Nat
  BY <1>1, <1>2 DEF PowerLoss, Kill, IsFile
<1>4. RetainedIsStable'
  BY <1>2, <1>3, StaysIn DEF HInv, RetainedIsStable
<1>5. \A r \in Process : proc'[r].state = "closed"
  BY StorageAssumption DEF PowerLoss, Kill, Released, Closed, IInv, OneOwner, Typed
<1>6. QED
  BY <1>2, <1>4, <1>5 DEF IndexIsTrue

\* Nothing is acknowledged or retained but by a process that has the directory open.
LEMMA HeaderComesFirst ==
  ASSUME IInv, HInv, Next
  PROVE  HeaderFirst'
<1>1. \A p \in Process : proc[p].state = "open" => header = Identity[p] /\ header \notin {"none", "part"}
  BY StorageAssumption DEF IInv, OneOwner, IsOpen
<1>2. header' \in {"none", "part"} => header \in {"none", "part"}
  BY StorageAssumption DEF Next, PowerLoss, HeaderLeft, AcquireLock, CheckHeader, WriteHeader, SyncHeader,
     AppendRecord, AppendFails, Sync, SyncFails, Close, RecordSlot, RecordFails, Kill
<1>3. header \in {"none", "part"} => UNCHANGED <<acked, retained>>
  BY <1>1 DEF Next, PowerLoss, AcquireLock, CheckHeader, WriteHeader, SyncHeader,
     AppendRecord, AppendFails, Sync, SyncFails, Close, RecordSlot, RecordFails, Kill
<1>4. QED
  BY <1>2, <1>3 DEF HInv, HeaderFirst

LEMMA InitHInv == Init => HInv
<1>1. IsFile(Empty)
  BY DEF IsFile, Empty
<1>2. QED
  BY <1>1 DEF Init, HInv, RetainedIsStable, IndexIsTrue, HeaderFirst, Closed

LEMMA StepHInv ==
  ASSUME IInv, HInv, [Next]_vars
  PROVE  HInv'
<1>1. CASE Next
  <2>1. IsFile(history)' /\ RetainedIsStable' /\ IndexIsTrue'
    <3>1. CASE PowerLoss \/ \E p \in Process : Kill(p)
      BY <3>1, CrashKeepsHistory
    <3>2. CASE \E p \in Process : AcquireLock(p)
      BY <3>2, AcquireKeepsHistory
    <3>3. CASE \E p \in Process : RecordSlot(p) \/ RecordFails(p)
      BY <3>3, RecordKeepsHistory
    <3>4. CASE \E p \in Process :
                 \/ CheckHeader(p) \/ WriteHeader(p) \/ SyncHeader(p) \/ AppendRecord(p) \/ AppendFails(p)
                 \/ Sync(p) \/ SyncFails(p) \/ Close(p)
      <4>1. /\ UNCHANGED <<history, retained>>
            /\ \A r \in Process : proc'[r].state # "closed" =>
                 proc[r].state # "closed" /\ proc'[r].index = proc[r].index
        BY <3>4, OthersKeepIndex DEF HInv
      <4>2. QED
        BY <4>1 DEF HInv, IsFile, RetainedIsStable, IndexIsTrue, In, Buried, Fragments
    <3>5. QED
      BY <1>1, <3>1, <3>2, <3>3, <3>4 DEF Next
  <2>2. QED
    BY <1>1, <2>1, HeaderComesFirst DEF HInv
<1>2. CASE UNCHANGED vars
  BY <1>2 DEF vars, HInv, IsFile, RetainedIsStable, IndexIsTrue, HeaderFirst, In, Buried, Fragments
<1>3. QED
  BY <1>1, <1>2

\* FileHistory and _check_header: retained slots stand on stable storage and in the index
\* of whoever opens the directory, and nothing is acknowledged under an unsynced header.
THEOREM HistoryInvariant == Spec => []HInv
<1>1. QED
  BY InitHInv, StepHInv, StorageInvariant, PTL DEF Spec

\* FileHistory.record and _load: a slot for which record returned is found again with its
\* own value by every process that opens the directory, whatever failed or was lost
\* before, as long as nothing was written behind a fragment.
THEOREM RetainedAlwaysSurvives == Spec => []RetainedSurvives
<1>1. IInv /\ HInv => RetainedSurvives
  <2>1. SUFFICES ASSUME IInv, HInv, ~Buried(history), NEW s \in retained
                 PROVE  /\ s \in {history.items[i].name : i \in 1 .. Readable(history)}
                        /\ \A p \in Process : IsOpen(p) => <<s, TRUE>> \in proc[p].index
    <3>1. \A index : (\A s \in retained : <<s, TRUE>> \in index) => retained \X {TRUE} \subseteq index
      <4>1. \A A, B : \A e \in A \X B : e[1] \in A /\ e[2] \in B /\ e = <<e[1], e[2]>>
        OBVIOUS
      <4>2. \A e \in retained \X {TRUE} : e[1] \in retained /\ e[2] \in {TRUE} /\ e = <<e[1], e[2]>>
        BY <4>1
      <4>3. \A e \in retained \X {TRUE} : e[1] \in retained /\ e = <<e[1], TRUE>>
        BY <4>2
      <4>4. QED
        BY <4>3
    <3>2. QED
      BY <3>1 DEF RetainedSurvives
  <2>2. IsFile(history) /\ history.stable \in Nat /\ Len(history.items) \in Nat
        /\ history.stable <= Len(history.items)
    BY <2>1, LenProperties DEF HInv, IsFile
  <2>3. PICK i \in 1 .. history.stable : history.items[i] = Whole(s)
    BY <2>1 DEF HInv, RetainedIsStable, In
  <2>4. history.items[i].whole /\ history.items[i].name = s
    BY <2>3 DEF Whole
  <2>5. i \in 1 .. Readable(history)
    BY <2>1, <2>2, <2>4, ReadsToTheEnd
  <2>6. \A p \in Process : IsOpen(p) => <<s, TRUE>> \in proc[p].index
    BY <2>1 DEF HInv, IndexIsTrue, IsOpen
  <2>7. QED
    BY <2>4, <2>5, <2>6
<1>2. QED
  BY <1>1, StorageInvariant, HistoryInvariant, PTL

\* _check_header: a directory whose header is torn, and which is refused for good, is one
\* in which nothing was ever acknowledged or retained.
THEOREM ARefusedDirectoryHeldNothing == Spec => []RefusedHoldsNothing
<1>1. HInv => RefusedHoldsNothing
  BY DEF HInv, HeaderFirst, RefusedHoldsNothing
<1>2. QED
  BY <1>1, HistoryInvariant, PTL

-----------------------------------------------------------------------------
(* FileJournal implements the Journal protocol, step by step.              *)

\* A reader of a file without a fragment replays every item of it.
LEMMA ReplaysEverything ==
  ASSUME NEW f, IsFile(f), ~Torn(f)
  PROVE  /\ Readable(f) = Len(f.items) /\ Len(f.items) \in Nat
         /\ \A i \in 1 .. Len(f.items) : f.items[i].whole
         /\ Replayed(f) = [i \in 1 .. Len(f.items) |-> f.items[i].name]
         /\ Replayed(f) \in Seq(Nat) /\ Len(Replayed(f)) = Len(f.items)
<1>1. /\ Len(f.items) \in Nat /\ DOMAIN f.items = 1 .. Len(f.items)
      /\ \A i \in 1 .. Len(f.items) : f.items[i] \in Item
  BY LenProperties DEF IsFile
<1>2. \A i \in 1 .. Len(f.items) : f.items[i].whole
  BY <1>1 DEF Torn, Fragments
<1>3. ~Buried(f)
  BY DEF Torn, Buried
<1>4. Readable(f) \in 0 .. Len(f.items) /\ \A i \in 1 .. Len(f.items) : i <= Readable(f)
  BY <1>2, <1>3, ReadsToTheEnd
<1>5. Readable(f) = Len(f.items)
  BY <1>1, <1>4
<1>6. SubSeq(f.items, 1, Len(f.items)) = f.items
  BY <1>1, SubSeqProperties DEF IsFile
<1>7. Replayed(f) = [i \in 1 .. Len(f.items) |-> f.items[i].name]
  BY <1>1, <1>5, <1>6 DEF Replayed, Names
<1>8. \A i \in 1 .. Len(f.items) : f.items[i].name \in Nat
  BY <1>1 DEF Item
<1>9. Replayed(f) \in Seq(Nat) /\ Len(Replayed(f)) = Len(f.items)
  BY <1>1, <1>7, <1>8, IsASeq, LenProperties
<1>10. QED
  BY <1>1, <1>2, <1>5, <1>7, <1>9

\* What survives without a fragment is a prefix, item for item.
LEMMA WholeSurvivors ==
  ASSUME NEW f, IsFile(f), NEW from \in 0 .. Len(f.items), NEW s \in Survivors(f, from),
         \A i \in 1 .. Len(s) : s[i].whole
  PROVE  \E k \in from .. Len(f.items) : Len(s) = k /\ \A i \in 1 .. k : s[i] = f.items[i]
<1>1. Len(f.items) \in Nat /\ \A i \in 1 .. Len(f.items) : f.items[i] \in Item
  BY LenProperties DEF IsFile
<1>2. ASSUME NEW k \in from .. Len(f.items)
      PROVE  LET c == SubSeq(f.items, 1, k) IN
             /\ c \in Seq(Item) /\ Len(c) = k
             /\ \A i \in 1 .. k : c[i] = f.items[i]
  <2>1. k \in Int /\ \A i \in 1 .. k : f.items[i] \in Item
    BY <1>1
  <2>2. QED
    BY <1>1, <2>1, SubSeqProperties
<1>3. CASE \E k \in from .. Len(f.items) : s = SubSeq(f.items, 1, k)
  BY <1>2, <1>3
<1>4. CASE \E k \in from .. Len(f.items) - 1 :
             s = Append(SubSeq(f.items, 1, k), Fragment(f.items[k + 1].name))
  <2>1. PICK k \in from .. Len(f.items) - 1 :
          s = Append(SubSeq(f.items, 1, k), Fragment(f.items[k + 1].name))
    BY <1>4
  <2> DEFINE c == SubSeq(f.items, 1, k)
             e == Fragment(f.items[k + 1].name)
  <2>2. c \in Seq(Item) /\ Len(c) = k
    BY <1>1, <1>2
  <2>3. e \in Item /\ e.whole = FALSE
    <3>1. f.items[k + 1] \in Item
      BY <1>1
    <3>2. f.items[k + 1].name \in Nat
      BY <3>1 DEF Item
    <3>3. QED
      BY <3>2, RecordIsItem DEF Fragment
  <2>4. Len(s) = k + 1 /\ s[k + 1] = e
    <3> HIDE DEF c, e
    <3>1. s = Append(c, e)
      BY <2>1 DEF c, e
    <3>2. QED
      BY <2>2, <2>3, <3>1, AppendProperties
  <2>5. s[k + 1].whole = FALSE /\ k + 1 \in 1 .. Len(s)
    BY <1>1, <2>3, <2>4
  <2>6. QED
    BY <2>5
<1>5. QED
  BY <1>3, <1>4 DEF Survivors

\* How many records the protocol sees as durable.
Durable(f) == IF f.stable < Readable(f) THEN f.stable ELSE Readable(f)

\* A step after which a prefix of the items is left, the stable ones at least.
LEMMA LosingIsAllowed ==
  ASSUME IsFile(journal), IsFile(journal'), ~Torn(journal), ~Torn(journal'),
         NEW k \in journal.stable .. Len(journal.items), Len(journal'.items) = k,
         \A i \in 1 .. k : journal'.items[i] = journal.items[i],
         journal'.stable \in {journal.stable, k}
  PROVE  /\ Contract!LoseUnsynced
         /\ k = Len(journal.items) /\ journal'.stable = k => Contract!SyncRecords
<1>1. /\ Readable(journal) = Len(journal.items) /\ Len(journal.items) \in Nat
      /\ Replayed(journal) = [i \in 1 .. Len(journal.items) |-> journal.items[i].name]
      /\ Replayed(journal) \in Seq(Nat) /\ Len(Replayed(journal)) = Len(journal.items)
  BY ReplaysEverything
<1>2. /\ Readable(journal') = k
      /\ Replayed(journal') = [i \in 1 .. k |-> journal'.items[i].name]
  BY ReplaysEverything
<1>3. journal.stable \in Nat /\ k \in Nat /\ journal.stable <= k /\ k <= Len(journal.items)
  BY <1>1 DEF IsFile
<1>4. Durable(journal) = journal.stable /\ Durable(journal') = journal'.stable
  BY <1>1, <1>2, <1>3 DEF Durable
<1>5. /\ SubSeq(Replayed(journal), 1, k) \in Seq(Nat) /\ Len(SubSeq(Replayed(journal), 1, k)) = k
      /\ \A i \in 1 .. k : SubSeq(Replayed(journal), 1, k)[i] = Replayed(journal)[i]
  <2>1. \A i \in 1 .. k : Replayed(journal)[i] \in Nat
    BY <1>1, <1>3
  <2>2. QED
    BY <1>1, <1>3, <2>1, SubSeqProperties
<1>6. SubSeq(Replayed(journal), 1, k) = [i \in 1 .. k |-> SubSeq(Replayed(journal), 1, k)[i]]
  BY <1>5, LenProperties
<1>7. \A i \in 1 .. k : SubSeq(Replayed(journal), 1, k)[i] = journal'.items[i].name
  BY <1>1, <1>3, <1>5
<1>8. Replayed(journal') = SubSeq(Replayed(journal), 1, k)
  BY <1>2, <1>6, <1>7
<1>9. Contract!LoseUnsynced
  <2>1. /\ k \in Durable(journal) .. Len(Replayed(journal))
        /\ Replayed(journal') = SubSeq(Replayed(journal), 1, k)
        /\ Durable(journal') \in {Durable(journal), k}
    BY <1>1, <1>3, <1>4, <1>8
  <2>2. QED
    BY <2>1 DEF Contract!LoseUnsynced, Durable
<1>10. ASSUME k = Len(journal.items), journal'.stable = k PROVE Contract!SyncRecords
  <2>1. Replayed(journal') = Replayed(journal)
    BY <1>1, <1>2, <1>10
  <2>2. Durable(journal') = Len(Replayed(journal))
    BY <1>1, <1>4, <1>10
  <2>3. QED
    BY <2>1, <2>2 DEF Contract!SyncRecords, Durable
<1>11. QED
  BY <1>9, <1>10

\* A step that adds a whole record at the end.
LEMMA AddingIsAllowed ==
  ASSUME IsFile(journal), IsFile(journal'), ~Torn(journal), ~Torn(journal'), next \in Nat,
         Len(journal'.items) = Len(journal.items) + 1, journal'.stable = journal.stable,
         \A i \in 1 .. Len(journal.items) : journal'.items[i] = journal.items[i],
         journal'.items[Len(journal.items) + 1] = Whole(next)
  PROVE  Contract!AppendRecords(<<next>>)
<1> DEFINE n == Len(journal.items)
           one == <<next>>
<1>1. /\ Readable(journal) = n /\ n \in Nat
      /\ Replayed(journal) = [i \in 1 .. n |-> journal.items[i].name]
      /\ Replayed(journal) \in Seq(Nat) /\ Len(Replayed(journal)) = n
  BY ReplaysEverything
<1>2. /\ Readable(journal') = n + 1
      /\ Replayed(journal') = [i \in 1 .. n + 1 |-> journal'.items[i].name]
  BY ReplaysEverything
<1>3. journal.stable \in Nat /\ journal.stable <= n
  BY <1>1 DEF IsFile
<1>4. Durable(journal') = Durable(journal)
  BY <1>1, <1>2, <1>3 DEF Durable
<1>5. one \in Seq(Nat) /\ Len(one) = 1 /\ one[1] = next
  OBVIOUS
<1>6. /\ Replayed(journal) \o one \in Seq(Nat) /\ Len(Replayed(journal) \o one) = n + 1
      /\ \A i \in 1 .. n + 1 :
           (Replayed(journal) \o one)[i] = IF i <= n THEN Replayed(journal)[i] ELSE one[i - n]
  <2>1. PICK r \in Seq(Nat), o \in Seq(Nat) : r = Replayed(journal) /\ o = one
    BY <1>1, <1>5
  <2>2. /\ r \o o \in Seq(Nat) /\ Len(r \o o) = Len(r) + Len(o)
        /\ \A i \in 1 .. Len(r) + Len(o) :
             (r \o o)[i] = IF i <= Len(r) THEN r[i] ELSE o[i - Len(r)]
    BY ConcatProperties
  <2>3. r = Replayed(journal) /\ o = one /\ Len(r) = n /\ Len(o) = 1
    BY <1>1, <1>5, <2>1
  <2> HIDE DEF one
  <2>4. QED
    BY <2>2, <2>3
<1>7. \A i \in 1 .. n + 1 : (Replayed(journal) \o one)[i] = journal'.items[i].name
  <2>1. \A i \in 1 .. n : Replayed(journal)[i] = journal'.items[i].name
    BY <1>1
  <2>2. journal'.items[n + 1].name = one[1]
    BY <1>5 DEF Whole
  <2> HIDE DEF one
  <2>3. (Replayed(journal) \o one)[n + 1] = one[1]
    BY <1>1, <1>6
  <2>4. \A i \in 1 .. n : (Replayed(journal) \o one)[i] = Replayed(journal)[i]
    BY <1>1, <1>6
  <2>5. ASSUME NEW i \in 1 .. n + 1
        PROVE  (Replayed(journal) \o one)[i] = journal'.items[i].name
    <3>1. CASE i \in 1 .. n
      BY <2>1, <2>4, <3>1
    <3>2. CASE i = n + 1
      BY <2>2, <2>3, <3>2
    <3>3. i \in 1 .. n \/ i = n + 1
      BY <1>1
    <3>4. QED
      BY <3>1, <3>2, <3>3
  <2>6. QED
    BY <2>5
<1>8. Replayed(journal) \o one = [i \in 1 .. n + 1 |-> (Replayed(journal) \o one)[i]]
  <2> HIDE DEF one
  <2>1. QED
    BY <1>6, LenProperties
<1>9. Replayed(journal') = Replayed(journal) \o one
  <2> HIDE DEF one
  <2>1. QED
    BY <1>2, <1>7, <1>8
<1>10. QED
  BY <1>4, <1>9 DEF Contract!AppendRecords, Durable

\* Appending, and failing to.
LEMMA AppendImplements ==
  ASSUME IInv, NEW p \in Process, AppendRecord(p) \/ AppendFails(p), ~Torn(journal), ~Torn(journal')
  PROVE  ContractStep
<1> DEFINE g == Written(journal, <<Whole(next)>>)
<1>1. /\ IsFile(journal) /\ next \in Nat /\ Len(journal.items) \in Nat
      /\ journal.stable \in Nat /\ journal.stable <= Len(journal.items)
  BY LenProperties DEF IInv, Typed, IsFile
<1>2. /\ IsFile(g) /\ g.stable = journal.stable
      /\ Len(g.items) = Len(journal.items) + 1 /\ g.items[Len(g.items)] = Whole(next)
      /\ \A i \in 1 .. Len(journal.items) : g.items[i] = journal.items[i]
  BY <1>1, WrittenKeeps
<1>3. IsFile(journal')
  BY AppendKeeps DEF IInv, Typed
<1> HIDE DEF g
<1>4. CASE AppendRecord(p)
  <2>1. journal' = g
    BY <1>4 DEF AppendRecord, g
  <2>2. Contract!AppendRecords(<<next>>)
    BY <1>1, <1>2, <1>3, <2>1, AddingIsAllowed
  <2>3. QED
    BY <2>2 DEF ContractStep
<1>5. CASE AppendFails(p)
  <2>1. PICK s \in Survivors(g, Len(journal.items)) : journal' = [journal EXCEPT !.items = s]
    BY <1>5 DEF AppendFails, g
  <2>2. journal'.items = s /\ journal'.stable = journal.stable
    BY <1>1, <2>1 DEF IsFile
  <2>3. \A i \in 1 .. Len(s) : s[i].whole
    BY <1>3, <2>2, ReplaysEverything
  <2>4. PICK k \in Len(journal.items) .. Len(g.items) : Len(s) = k /\ \A i \in 1 .. k : s[i] = g.items[i]
    BY <1>1, <1>2, <2>3, WholeSurvivors
  <2>5. CASE k = Len(journal.items)
    <3>1. Contract!LoseUnsynced
      BY <1>1, <1>2, <1>3, <2>2, <2>4, <2>5, LosingIsAllowed
    <3>2. QED
      BY <3>1 DEF ContractStep
  <2>6. CASE k = Len(journal.items) + 1
    <3>1. Contract!AppendRecords(<<next>>)
      BY <1>1, <1>2, <1>3, <2>2, <2>4, <2>6, AddingIsAllowed
    <3>2. QED
      BY <3>1 DEF ContractStep
  <2>7. QED
    BY <1>1, <1>2, <2>4, <2>5, <2>6
<1>6. QED
  BY <1>4, <1>5

\* Syncing, failing to, and closing.
LEMMA SyncImplements ==
  ASSUME IInv, NEW p \in Process, Sync(p) \/ SyncFails(p) \/ Close(p), ~Torn(journal), ~Torn(journal')
  PROVE  journal' = journal \/ ContractStep
<1>1. /\ IsFile(journal) /\ Len(journal.items) \in Nat
      /\ journal.stable \in Nat /\ journal.stable <= Len(journal.items)
  BY LenProperties DEF IInv, Typed, IsFile
<1>2. journal' \in {journal, Given(journal), Flushed(journal)}
  BY DEF Sync, SyncFails, Close
<1>3. CASE journal' \in {Given(journal), Flushed(journal)}
  <2>1. /\ IsFile(journal') /\ journal'.items = journal.items
        /\ journal'.stable \in {journal.stable, Len(journal.items)}
    BY <1>1, <1>3, FlushedKeeps
  <2>2. Contract!LoseUnsynced
    BY <1>1, <2>1, LosingIsAllowed
  <2>3. QED
    BY <2>2 DEF ContractStep
<1>4. QED
  BY <1>2, <1>3

\* A killed process and a power loss.
LEMMA CrashImplements ==
  ASSUME IInv, PowerLoss \/ \E p \in Process : Kill(p), ~Torn(journal), ~Torn(journal')
  PROVE  ContractStep
<1>1. /\ IsFile(journal) /\ Len(journal.items) \in Nat
      /\ journal.stable \in 0 .. Len(journal.items) /\ journal.given \in 0 .. Len(journal.items)
      /\ journal.stable <= journal.given
  BY LenProperties DEF IInv, Typed, IsFile
<1>2. IsFile(journal')
  BY CrashKeeps DEF IInv, Typed
<1>3. PICK from \in {journal.stable, journal.given} : \E s \in Survivors(journal, from) :
        journal'.items = s /\ journal'.stable \in {journal.stable, Len(s)}
  <2>1. CASE PowerLoss
    <3>1. PICK s \in Survivors(journal, journal.stable) :
            journal' = [items |-> s, given |-> Len(s), stable |-> Len(s)]
      BY <2>1 DEF PowerLoss, PowerLost
    <3>2. QED
      BY <3>1
  <2>2. CASE \E p \in Process : Kill(p)
    <3>1. PICK s \in Survivors(journal, journal.given) :
            journal' = [items |-> s, given |-> Len(s), stable |-> journal.stable]
      BY <2>2 DEF Kill, Killed
    <3>2. QED
      BY <3>1
  <2>3. QED
    BY <2>1, <2>2
<1>4. PICK s \in Survivors(journal, from) :
        journal'.items = s /\ journal'.stable \in {journal.stable, Len(s)}
  BY <1>3
<1>5. \A i \in 1 .. Len(s) : s[i].whole
  BY <1>2, <1>4, ReplaysEverything
<1>6. from \in 0 .. Len(journal.items) /\ journal.stable <= from
  BY <1>1, <1>3
<1>7. PICK k \in from .. Len(journal.items) : Len(s) = k /\ \A i \in 1 .. k : s[i] = journal.items[i]
  BY <1>1, <1>4, <1>5, <1>6, WholeSurvivors
<1>8. k \in journal.stable .. Len(journal.items)
  BY <1>1, <1>6
<1>9. Contract!LoseUnsynced
  BY <1>1, <1>2, <1>4, <1>7, <1>8, LosingIsAllowed
<1>10. QED
  BY <1>9 DEF ContractStep

\* FileJournal.append, sync, close and the failures of each: while no fragment is left in
\* the file, every step of the adapter is a step of the protocol MemoryJournal states.
THEOREM TheJournalIsImplemented == Spec => StepsImplementJournal
<1>1. IInv /\ [Next]_vars => [Torn(journal) \/ Torn(journal)' \/ ContractStep]_journal
  <2>1. SUFFICES ASSUME IInv, [Next]_vars, ~Torn(journal), ~Torn(journal)', journal' # journal
                 PROVE  ContractStep
    OBVIOUS
  <2>2. Next
    BY <2>1 DEF vars
  <2>3. ~Torn(journal')
    BY <2>1 DEF Torn, Fragments
  <2>4. CASE PowerLoss \/ \E p \in Process : Kill(p)
    BY <2>1, <2>3, <2>4, CrashImplements
  <2>5. CASE \E p \in Process : AppendRecord(p) \/ AppendFails(p)
    BY <2>1, <2>3, <2>5, AppendImplements
  <2>6. CASE \E p \in Process : Sync(p) \/ SyncFails(p) \/ Close(p)
    BY <2>1, <2>3, <2>6, SyncImplements
  <2>7. CASE \E p \in Process : AcquireLock(p) \/ CheckHeader(p) \/ WriteHeader(p) \/ SyncHeader(p)
                                \/ RecordSlot(p) \/ RecordFails(p)
    BY <2>1, <2>7 DEF AcquireLock, CheckHeader, WriteHeader, SyncHeader, RecordSlot, RecordFails
  <2>8. QED
    BY <2>2, <2>4, <2>5, <2>6, <2>7 DEF Next
<1>2. QED
  BY <1>1, StorageInvariant, PTL DEF Spec, StepsImplementJournal
===============================================================================
