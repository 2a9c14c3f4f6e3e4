------------------------------- MODULE Storage -------------------------------
(***************************************************************************)
(* FileJournal and FileHistory (storage.py): the files of one node         *)
(* directory, the processes that open it, failing writes, killed           *)
(* processes and power losses.                                             *)
(*                                                                         *)
(* A file is a sequence of items.  An item is a record, whole or a         *)
(* fragment: the first bytes of a record whose writing was cut short.  Of  *)
(* a file, a prefix is on stable storage, a longer one has been handed to  *)
(* the operating system, and the rest is in the process's buffer.          *)
(***************************************************************************)
EXTENDS Sequences, Integers

CONSTANTS
  Process,      \* processes that may open the directory
  None,         \* no process
  Identity,     \* Identity[p]: the node and configuration p opens it as
  Tears,        \* whether a write cut short can leave a fragment
  MaxRecords,   \* bound: journal records ever appended
  MaxSlot,      \* bound: slots released to the history
  MaxHistory,   \* bound: items in the history file
  MaxFailures   \* bound: failing writes, kills and power losses

ASSUME StorageAssumption ==
  /\ None \notin Process /\ Tears \subseteq BOOLEAN /\ FALSE \in Tears
  /\ \A p \in Process : Identity[p] \notin {"none", "part"}
  /\ {MaxRecords, MaxSlot, MaxHistory, MaxFailures} \subseteq Nat

VARIABLES
  lock,      \* the process that holds journal.lock
  header,    \* journal.bin's header: "none", "part" or the identity in it
  journal,   \* journal.bin after its header
  history,   \* history.bin
  proc,      \* per process: what its FileJournal and FileHistory objects hold
  next,      \* the number of the next journal record
  acked,     \* records for whose appender sync returned
  retained,  \* slots for which record returned
  failures

vars == <<lock, header, journal, history, proc, next, acked, retained, failures>>

Empty == [items |-> <<>>, given |-> 0, stable |-> 0]

Closed == [state |-> "closed", synced |-> TRUE, failed |-> FALSE, own |-> {}, index |-> {}]

Init ==
  /\ lock = None /\ header = "none"
  /\ journal = Empty /\ history = Empty
  /\ proc = [p \in Process |-> Closed]
  /\ next = 1 /\ acked = {} /\ retained = {} /\ failures = 0

-----------------------------------------------------------------------------
(* Files.                                                                  *)

Whole(n) == [name |-> n, whole |-> TRUE]
Fragment(n) == [name |-> n, whole |-> FALSE]

Fragments(file) == {i \in DOMAIN file.items : ~file.items[i].whole}

\* A fragment with further items behind it.
Buried(file) == \E i \in Fragments(file) : i < Len(file.items)

Torn(file) == Fragments(file) # {}

\* Where a reader loses its place: the first fragment, or the end.
Readable(file) ==
  CHOOSE k \in 0 .. Len(file.items) :
    /\ \A i \in 1 .. k : file.items[i].whole
    /\ k < Len(file.items) => ~file.items[k + 1].whole

Written(file, items) == [file EXCEPT !.items = @ \o items]

Given(file) == [file EXCEPT !.given = Len(file.items)]

Flushed(file) == [items |-> file.items, given |-> Len(file.items), stable |-> Len(file.items)]

\* What is left of a file of which everything up to from survives: any longer
\* prefix, the item after it perhaps in part.
Survivors(file, from) ==
  LET Cut(k) == SubSeq(file.items, 1, k)
      whole == {Cut(k) : k \in from .. Len(file.items)}
      torn == {Append(Cut(k), Fragment(file.items[k + 1].name)) : k \in from .. Len(file.items) - 1}
  IN  whole \cup IF TRUE \in Tears THEN torn ELSE {}

\* The process dies: its buffer is lost, what the system was given is not.
Killed(file) ==
  {[items |-> s, given |-> Len(s), stable |-> file.stable] : s \in Survivors(file, file.given)}

\* The machine stops: only what was on stable storage is sure to be there.
PowerLost(file) ==
  {[items |-> s, given |-> Len(s), stable |-> Len(s)] : s \in Survivors(file, file.stable)}

-----------------------------------------------------------------------------
(* FileHistory.  A record's length is in front of it and nothing checks    *)
(* it, so the payload of a buried fragment ends in the next record's bytes *)

Names(items) == [i \in DOMAIN items |-> items[i].name]

\* What _load may make of the file: each slot with whether its value is the true one.
Indexes(file) ==
  LET k == Readable(file)
      index == {<<file.items[i].name, TRUE>> : i \in 1 .. k}
  IN  {index} \cup IF k + 1 < Len(file.items) THEN {index \cup {<<file.items[k + 1].name, FALSE>>}} ELSE {}

Slots(index) == {e[1] : e \in index}

\* The last slot retained with no gap before it.
Cursor(index) == CHOOSE c \in 0 .. MaxSlot : c + 1 \notin Slots(index) /\ 1 .. c \subseteq Slots(index)

\* Entries are released in slot order; one may have failed and been passed over.
NextSlot(p) == LET c == Cursor(proc[p].index) IN c + 1 .. c + 2

\* Mutant of RecordSlot: the entry is written but neither flushed nor synced.
RecordSlotUnsynced(p) ==
  /\ proc[p].state = "open" /\ Len(history.items) < MaxHistory
  /\ \E slot \in NextSlot(p) \cap 1 .. MaxSlot :
       /\ slot \notin Slots(proc[p].index)
       /\ history' = Written(history, <<Whole(slot)>>)
       /\ proc' = [proc EXCEPT ![p].index = @ \cup {<<slot, TRUE>>}]
       /\ retained' = retained \cup {slot}
  /\ UNCHANGED <<lock, header, journal, next, acked, failures>>

RecordSlot(p) ==
  /\ proc[p].state = "open" /\ Len(history.items) < MaxHistory
  /\ \E slot \in NextSlot(p) \cap 1 .. MaxSlot :
       /\ slot \notin Slots(proc[p].index)
       /\ history' = Flushed(Written(history, <<Whole(slot)>>))
       /\ proc' = [proc EXCEPT ![p].index = @ \cup {<<slot, TRUE>>}]
       /\ retained' = retained \cup {slot}
  /\ UNCHANGED <<lock, header, journal, next, acked, failures>>

RecordFails(p) ==
  /\ proc[p].state = "open" /\ failures < MaxFailures
  /\ \E slot \in NextSlot(p) \cap 1 .. MaxSlot :
       /\ slot \notin Slots(proc[p].index)
       /\ \E s \in Survivors(Written(history, <<Whole(slot)>>), Len(history.items)) :
            history' = [history EXCEPT !.items = s]
  /\ failures' = failures + 1
  /\ UNCHANGED <<lock, header, journal, proc, next, acked, retained>>

-----------------------------------------------------------------------------
(* FileJournal.                                                            *)

Released(p) == [proc EXCEPT ![p] = Closed]

\* open(): the directory lock first; the header is checked, or written and synced.
\* The process has built its FileHistory just before; that takes no lock, and another
\* process opening the directory as the same node in between is not modelled.
AcquireLock(p) ==
  /\ proc[p].state = "closed" /\ lock = None
  /\ lock' = p
  /\ \E index \in Indexes(history) :
       proc' = [proc EXCEPT ![p] = [Closed EXCEPT !.state = "locked", !.index = index]]
  /\ UNCHANGED <<header, journal, history, next, acked, retained, failures>>

\* Mutant of CheckHeader: a refused open keeps the directory lock.
CheckHeaderKeepsLock(p) ==
  /\ proc[p].state = "locked" /\ header # "none"
  /\ proc' = IF header = Identity[p] THEN [proc EXCEPT ![p].state = "open"] ELSE Released(p)
  /\ UNCHANGED <<lock, header, journal, history, next, acked, retained, failures>>

\* _open on an existing file: a torn header is JournalCorrupt, another identity is
\* InvalidArgument, and either way open() gives the lock back.
CheckHeader(p) ==
  /\ proc[p].state = "locked" /\ header # "none"
  /\ IF header = Identity[p]
     THEN proc' = [proc EXCEPT ![p].state = "open"] /\ UNCHANGED lock
     ELSE proc' = Released(p) /\ lock' = None
  /\ UNCHANGED <<header, journal, history, next, acked, retained, failures>>

\* Mutant of WriteHeader: the journal is open before its header is synced.
WriteHeaderUnsynced(p) ==
  /\ proc[p].state = "locked" /\ header = "none"
  /\ header' = "part"
  /\ proc' = [proc EXCEPT ![p].state = "open"]
  /\ UNCHANGED <<lock, journal, history, next, acked, retained, failures>>

WriteHeader(p) ==
  /\ proc[p].state = "locked" /\ header = "none"
  /\ header' = "part"
  /\ proc' = [proc EXCEPT ![p].state = "header"]
  /\ UNCHANGED <<lock, journal, history, next, acked, retained, failures>>

SyncHeader(p) ==
  /\ proc[p].state = "header"
  /\ header' = Identity[p]
  /\ proc' = [proc EXCEPT ![p].state = "open"]
  /\ UNCHANGED <<lock, journal, history, next, acked, retained, failures>>

\* replay(): every record before the first fragment.  One behind which something was
\* written may also be seen for the corruption it is (JournalCorrupt).
Replayed(file) == Names(SubSeq(file.items, 1, Readable(file)))

\* Mutant of AppendRecord: append does not mark the file as unsynced.
AppendRecordUnmarked(p) ==
  /\ proc[p].state = "open" /\ ~proc[p].failed /\ next <= MaxRecords
  /\ journal' = Written(journal, <<Whole(next)>>)
  /\ next' = next + 1
  /\ proc' = [proc EXCEPT ![p].own = @ \cup {next}]
  /\ UNCHANGED <<lock, header, history, acked, retained, failures>>

AppendRecord(p) ==
  /\ proc[p].state = "open" /\ ~proc[p].failed /\ next <= MaxRecords
  /\ journal' = Written(journal, <<Whole(next)>>)
  /\ next' = next + 1
  /\ proc' = [proc EXCEPT ![p].synced = FALSE, ![p].own = @ \cup {next}]
  /\ UNCHANGED <<lock, header, history, acked, retained, failures>>

\* Mutant of AppendFails: after a failed write the records before it are rewritten from the start.
AppendFailsTruncates(p) ==
  /\ proc[p].state = "open" /\ ~proc[p].failed
  /\ next <= MaxRecords /\ failures < MaxFailures
  /\ journal' = [journal EXCEPT !.items = <<>>]
  /\ next' = next + 1
  /\ proc' = [proc EXCEPT ![p].failed = TRUE]
  /\ failures' = failures + 1
  /\ UNCHANGED <<lock, header, history, acked, retained>>

\* The write fails: nothing, a part or all of it went into the file.  The caller may
\* then only close and replay (StorageError's hint).
AppendFails(p) ==
  /\ proc[p].state = "open" /\ ~proc[p].failed
  /\ next <= MaxRecords /\ failures < MaxFailures
  /\ \E s \in Survivors(Written(journal, <<Whole(next)>>), Len(journal.items)) :
       journal' = [journal EXCEPT !.items = s]
  /\ next' = next + 1
  /\ proc' = [proc EXCEPT ![p].failed = TRUE]
  /\ failures' = failures + 1
  /\ UNCHANGED <<lock, header, history, acked, retained>>

\* sync(): nothing to do when nothing was appended since the last one.
Sync(p) ==
  /\ proc[p].state = "open" /\ ~proc[p].failed
  /\ journal' = IF proc[p].synced THEN journal ELSE Flushed(journal)
  /\ proc' = [proc EXCEPT ![p].synced = TRUE]
  /\ acked' = acked \cup proc[p].own
  /\ UNCHANGED <<lock, header, history, next, retained, failures>>

SyncFails(p) ==
  /\ proc[p].state = "open" /\ ~proc[p].failed /\ ~proc[p].synced
  /\ failures < MaxFailures
  /\ journal' = Given(journal)
  /\ proc' = [proc EXCEPT ![p].failed = TRUE]
  /\ failures' = failures + 1
  /\ UNCHANGED <<lock, header, history, next, acked, retained>>

\* close(): sync, then release the file, which flushes it, and the lock.
Close(p) ==
  /\ proc[p].state = "open"
  /\ journal' = IF proc[p].synced THEN Given(journal) ELSE Flushed(journal)
  /\ proc' = Released(p)
  /\ lock' = None
  /\ UNCHANGED <<header, history, next, acked, retained, failures>>

-----------------------------------------------------------------------------
(* Crashes.                                                                *)

\* What a header that was being written may look like afterwards.
HeaderLeft ==
  IF header = "part" THEN {"none"} \cup {Identity[p] : p \in {q \in Process : lock = q}} \cup
                          IF TRUE \in Tears THEN {"part"} ELSE {}
  ELSE {header}

Kill(p) ==
  /\ lock = p /\ failures < MaxFailures
  /\ journal' \in Killed(journal)
  /\ history' \in Killed(history)
  /\ header' \in HeaderLeft
  /\ proc' = Released(p)
  /\ lock' = None
  /\ failures' = failures + 1
  /\ UNCHANGED <<next, acked, retained>>

PowerLoss ==
  /\ failures < MaxFailures
  /\ journal' \in PowerLost(journal)
  /\ history' \in PowerLost(history)
  /\ header' \in HeaderLeft
  /\ proc' = [p \in Process |-> Closed]
  /\ lock' = None
  /\ failures' = failures + 1
  /\ UNCHANGED <<next, acked, retained>>

-----------------------------------------------------------------------------
Next ==
  \/ PowerLoss
  \/ \E p \in Process :
       \/ AcquireLock(p) \/ CheckHeader(p) \/ WriteHeader(p) \/ SyncHeader(p)
       \/ AppendRecord(p) \/ AppendFails(p) \/ Sync(p) \/ SyncFails(p) \/ Close(p)
       \/ RecordSlot(p) \/ RecordFails(p) \/ Kill(p)

Spec == Init /\ [][Next]_vars

-----------------------------------------------------------------------------
(* Properties.                                                             *)

IsOpen(p) == proc[p].state = "open"

TypeOK ==
  /\ lock \in Process \cup {None}
  /\ header \in {"none", "part"} \cup {Identity[p] : p \in Process}
  /\ \A file \in {journal, history} :
       /\ \A i \in DOMAIN file.items : file.items[i] \in [name : Nat \ {0}, whole : BOOLEAN]
       /\ file.stable <= file.given /\ file.given <= Len(file.items)
  /\ \A p \in Process : proc[p].state \in {"closed", "locked", "header", "open"}
  /\ next \in 1 .. MaxRecords + 1
  /\ acked \subseteq 1 .. MaxRecords /\ retained \subseteq 1 .. MaxSlot

\* FileJournal, storage.py:142-145: two processes are never the same node, a directory
\* is only ever used as the node it was made for, and a refused open or the end of a
\* process leaves the directory free for the next.
OneOwner ==
  /\ \A p \in Process : lock = p <=> proc[p].state # "closed"
  /\ \A p \in Process : IsOpen(p) => header = Identity[p]

\* append/sync/replay: a record whose sync returned is still there, whole and in front
\* of anything unreadable, after any sequence of failed writes, kills, power losses
\* and reopenings -- as long as nothing was written behind a fragment.
AckedSurvives ==
  ~Buried(journal) =>
    acked \subseteq {journal.items[i].name : i \in 1 .. Readable(journal)}

\* replay returns "every intact record, in append order" (storage.py:319), so a record
\* that sync made "durable" (storage.py:299) is replayed, also when an earlier write was
\* cut short and its torn tail "discarded" (storage.py:148-150).
SyncedIsReplayed ==
  LET got == Replayed(journal) IN acked \subseteq {got[i] : i \in DOMAIN got}

\* replay, "Never skip an interior record" (storage.py:346): what a restart is given is
\* intact, in append order, and never holds a record while missing an older one that
\* was acknowledged.
ReplayHasNoHole ==
  LET got == Replayed(journal)
      Position(r) == {i \in DOMAIN got : got[i] = r}
  IN  /\ \A i \in DOMAIN got : \E j \in DOMAIN journal.items : journal.items[j] = Whole(got[i])
      /\ \A i, j \in DOMAIN got : i < j => got[i] < got[j]
      /\ \A i \in DOMAIN got, r \in acked : r < got[i] => Position(r) # {}

\* _check_header refuses a torn header for good ("too short to hold a journal header"):
\* that can only happen to a directory in which nothing was ever acknowledged.
RefusedHoldsNothing ==
  header = "part" => acked = {} /\ retained = {}

\* record/_load: a slot for which record returned is found again with its own value by
\* every process that opens the directory -- as long as nothing was written behind a
\* fragment.
RetainedSurvives ==
  ~Buried(history) =>
    /\ retained \subseteq {history.items[i].name : i \in 1 .. Readable(history)}
    /\ \A p \in Process : IsOpen(p) => retained \X {TRUE} \subseteq proc[p].index

\* FileJournal does what the Journal protocol says, step by step, until a fragment is
\* left in the file.
Contract ==
  INSTANCE Journal WITH
    records <- Replayed(journal),
    synced <- IF journal.stable < Readable(journal) THEN journal.stable ELSE Readable(journal)

\* A step of the adapter, in the protocol's terms.
ContractStep ==
  \/ Contract!AppendRecords(<<next>>)
  \/ Contract!SyncRecords
  \/ Contract!LoseUnsynced

StepsImplementJournal == [][Torn(journal) \/ Torn(journal)' \/ ContractStep]_journal
===============================================================================
