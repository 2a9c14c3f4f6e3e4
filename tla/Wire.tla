--------------------------------- MODULE Wire ---------------------------------
(***************************************************************************)
(* Frames between the participants of one process: the codec (Codec) over  *)
(* the in-process fabrics of testing.py, the loopback one of Cluster and   *)
(* the asyncio one of AsyncCluster, up to the envelopes an engine takes.   *)
(*                                                                         *)
(* The k-th message sent is Traffic[k], addressed by whoever sends it; the *)
(* member it is for may be of another build or in another configuration,   *)
(* as during an upgrade or a handover, or not be there at all.             *)
(***************************************************************************)
EXTENDS Codec, Sequences, FiniteSets

CONSTANTS
  Member,         \* members with a mailbox
  Absent,         \* a member of the configuration without one
  Build,          \* Build[m]: wire version and capacity profile of m's process
  Configuration,  \* Configuration[m]: the configuration m is in
  Leaver,         \* members that may close, or be cut off
  Depth,          \* queue_depth, maxsize: frames a mailbox holds
  Traffic         \* the messages, in the order they are sent

ASSUME WireAssumption ==
  /\ Absent \notin Member /\ 0 \notin Member \cup {Absent}
  /\ Leaver \subseteq Member /\ Depth \in Nat \ {0}
  /\ Traffic \in Seq({Traffic[k] : k \in DOMAIN Traffic})
  /\ \A k \in DOMAIN Traffic : IsMessage(Traffic[k])

VARIABLES
  fabric,       \* "loopback" (_Fabric) or "asyncio" (AsyncFabric)
  boxes,        \* per member, the queue of senders and frames
  partitioned,  \* AsyncFabric.partitioned
  delivered,    \* _Fabric.delivered
  dropped,      \* _Fabric.dropped
  closed,       \* members that closed their transport
  sent,         \* the envelopes sent so far
  got           \* per member, the envelopes its engine took

vars == <<fabric, boxes, partitioned, delivered, dropped, closed, sent, got>>

Init ==
  /\ fabric \in {"loopback", "asyncio"}
  /\ boxes = [m \in Member |-> <<>>]
  /\ partitioned = {} /\ closed = {}
  /\ delivered = 0 /\ dropped = 0
  /\ sent = <<>>
  /\ got = [m \in Member |-> <<>>]

TypeOK ==
  /\ \A m \in Member : Len(boxes[m]) <= Depth
  /\ partitioned \subseteq Member /\ closed \subseteq Member
  /\ {delivered, dropped} \subseteq 0 .. Len(Traffic)
  /\ \A k \in DOMAIN sent : IsEnvelope(sent[k])
  /\ \A m \in Member : \A i \in DOMAIN got[m] : IsEnvelope(got[m][i])

-----------------------------------------------------------------------------
(* Sending.                                                                *)

Full(m) == Len(boxes[m]) = Depth

\* The next message, as from's engine addresses it.
NextEnvelope(from, to) ==
  [configuration_id |-> Configuration[from], sender |-> from, recipient |-> to,
   message |-> Traffic[Len(sent) + 1]]

Queued(from, env) == [from |-> from, frame |-> encode(env, Build[from])]

\* Mutant of Deliver: a full mailbox drops the frame that arrives.
DeliverDropsNewest(to, item) ==
  /\ boxes' = IF Full(to) THEN boxes ELSE [boxes EXCEPT ![to] = Append(@, item)]
  /\ dropped' = IF Full(to) THEN dropped + 1 ELSE dropped
  /\ delivered' = delivered + 1

\* _Fabric.deliver: a deque with maxlen drops its oldest frame.
Deliver(to, item) ==
  /\ boxes' = [boxes EXCEPT ![to] = Append(IF Full(to) THEN Tail(@) ELSE @, item)]
  /\ dropped' = IF Full(to) THEN dropped + 1 ELSE dropped
  /\ delivered' = delivered + 1

\* put_nowait raises QueueFull, which the session suppresses.
PutNowait(from, to, item) ==
  /\ boxes' = IF from \in partitioned \/ Full(to) THEN boxes ELSE [boxes EXCEPT ![to] = Append(@, item)]
  /\ UNCHANGED <<delivered, dropped>>

Send(from, to) ==
  /\ from \notin closed /\ from # to /\ Len(sent) < Len(Traffic)
  /\ LET env == NextEnvelope(from, to)
     IN  /\ ~EncodeRefuses(env)
         /\ sent' = Append(sent, env)
         /\ IF to \notin Member THEN UNCHANGED <<boxes, delivered, dropped>>
            ELSE IF fabric = "loopback" THEN Deliver(to, Queued(from, env))
            ELSE PutNowait(from, to, Queued(from, env))
  /\ UNCHANGED <<fabric, partitioned, closed, got>>

-----------------------------------------------------------------------------
(* Receiving.                                                              *)

\* log_step and node_step take an envelope of their configuration, for this member,
\* from a member.
Takes(m, env) ==
  /\ env.configuration_id = Configuration[m]
  /\ env.recipient = m /\ env.sender \in Member \cup {Absent}
  /\ EntryStatus(ToNative(env).entry) = "Ok"

\* Mutant of PopLeft: the frame queued last is read.
PopLast(m) == boxes[m][Len(boxes[m])]

\* popleft, Queue.get.
PopLeft(m) == Head(boxes[m])

\* poll and _receive_forever: a frame that cannot be decoded is consumed as well.
Receive(m) ==
  /\ m \notin closed /\ boxes[m] # <<>>
  /\ boxes' = [boxes EXCEPT ![m] = Tail(@)]
  /\ LET frame == PopLeft(m).frame
         env == decode(frame)
     IN  got' = IF ValidFrame(frame, Build[m]) /\ Takes(m, env)
                THEN [got EXCEPT ![m] = Append(@, env)] ELSE got
  /\ UNCHANGED <<fabric, partitioned, delivered, dropped, closed, sent>>

\* Session.close and AsyncSession.close: the loopback mailbox is emptied.
Close(m) ==
  /\ m \in Leaver \ closed
  /\ closed' = closed \cup {m}
  /\ IF fabric = "loopback"
     THEN boxes' = [boxes EXCEPT ![m] = <<>>]
     ELSE UNCHANGED boxes
  /\ UNCHANGED <<fabric, partitioned, delivered, dropped, sent, got>>

\* A test cuts a member off, or lets it back.
Partition ==
  /\ fabric = "asyncio"
  /\ \E m \in Leaver :
       partitioned' = IF m \in partitioned THEN partitioned \ {m} ELSE partitioned \cup {m}
  /\ UNCHANGED <<fabric, boxes, delivered, dropped, closed, sent, got>>

Next ==
  \/ \E from \in Member, to \in Member \cup {Absent} : Send(from, to)
  \/ \E m \in Member : Receive(m) \/ Close(m)
  \/ Partition

Spec == Init /\ [][Next]_vars

-----------------------------------------------------------------------------
(* Properties.                                                             *)

\* encode, decode and _encode_envelope: what an engine takes is an envelope that was
\* sent to it, field by field, by a peer of its build and its configuration.
TakenAsSent ==
  \A m \in Member : \A i \in DOMAIN got[m] :
    LET env == got[m][i]
    IN  /\ \E k \in DOMAIN sent : sent[k] = env
        /\ env.recipient = m
        /\ Build[env.sender] = Build[m] /\ Configuration[env.sender] = Configuration[m]

\* Both fabrics deliver in the order of sending, and nothing twice.
TakenInOrder ==
  \A m \in Member : \E place \in [DOMAIN got[m] -> DOMAIN sent] :
    /\ \A i \in DOMAIN got[m] : sent[place[i]] = got[m][i]
    /\ \A i, j \in DOMAIN got[m] : i < j => place[i] < place[j]

\* _Fabric.deliver, testing.py:93-94, "A bounded queue drops rather than grows": what it
\* drops is the oldest, so that a frame in a mailbox is followed by all that were sent
\* to it later.
NewestAreKept ==
  fabric = "loopback" =>
    \A m \in Member : \A i \in DOMAIN boxes[m] :
      LET item == boxes[m][i]
          Later == {k \in DOMAIN sent : sent[k].recipient = m /\ encode(sent[k], Build[sent[k].sender]) \in
                      {boxes[m][j].frame : j \in i .. Len(boxes[m])}}
      IN  \E k \in Later :
            /\ encode(sent[k], Build[sent[k].sender]) = item.frame
            /\ \A n \in DOMAIN sent : n > k /\ sent[n].recipient = m => n \in Later
===============================================================================
