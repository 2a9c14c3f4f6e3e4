------------------------------- MODULE MultiPaxos -----------------------------
(***************************************************************************)
(* A cluster of nodes with standing leaders (src/src/node.odin,            *)
(* election.odin and consensus.odin), each run by a host that persists,    *)
(* releases and sends what a transition produced before it starts the next *)
(* one (the order of Session.discharge and of the simulator's              *)
(* process_effects), over a network that loses, duplicates, delays and     *)
(* reorders messages.                                                      *)
(*                                                                         *)
(* One action is one transition of one node together with the discharge of *)
(* its effects, or that transition cut short by a crash: a prefix of its   *)
(* writes is durable, of its messages only the Accepts allowed before the  *)
(* durability barrier have left, and the node is restored from its         *)
(* journal.  A node that is down is a node that takes no step.             *)
(*                                                                         *)
(* Timers fire at any time.  leader_hint, peer_decided_through and the     *)
(* resend cursor only choose when and to whom repair messages go; here     *)
(* they may go at any time to anyone.                                      *)
(***************************************************************************)
EXTENDS Ledger, Sequences

CONSTANTS
  Node,         \* the voting members, a set of Node_Ids
  Priority,     \* Priority[n]: the priority option of node n
  ReadQuorum, WriteQuorum,
  Chunk,        \* CHUNK_SLOTS
  Campaigners,  \* nodes created with campaigning enabled
  Gate,         \* the option gate_proposals_on_inherited_prefix
  OnceOnly,     \* message types the network never duplicates
  Lost,         \* message types of which the network loses every one
  Calls,        \* the optional host calls and timers of a model
  LaggingHost,  \* TRUE: entries become durable only when the floor advances
  MaxTrims,     \* bound on trim records
  MaxCrashes    \* bound on crashes

ASSUME MultiPaxosAssumption ==
  /\ Node \subseteq NodeId /\ Campaigners \subseteq Node
  /\ Priority \in [Node -> Priorities]
  /\ Chunk \in 1 .. Window
  /\ Gate \in BOOLEAN /\ LaggingHost \in BOOLEAN
  /\ MaxTrims \in Nat /\ MaxCrashes \in Nat

\* What membership_init accepts (src/src/membership.odin:43-52).
ASSUME QuorumAssumption ==
  /\ ReadQuorum \in 1 .. Cardinality(Node)
  /\ WriteQuorum \in 1 .. Cardinality(Node)
  /\ ReadQuorum + WriteQuorum > Cardinality(Node)

VARIABLES
  node,      \* node[n]: the Node structure in memory
  disk,      \* disk[n]: the ledger that replaying n's journal gives
  history,   \* history[n]: the values n's host has durably consumed, slot by slot
  net,       \* every envelope that was sent and may still arrive
  votes,     \* every vote that ever reached a journal
  crashes    \* crashes so far

vars == <<node, disk, history, net, votes, crashes>>

BallotSet ==
  {BALLOT_ZERO} \cup {ballot_make(r, Priority[n], n) : r \in 1 .. MaxRound, n \in Node}

-------------------------------------------------------------------------------
(* Node records.                                                           *)

ChunkSlots(base, last) == base .. last

NoReport == [state |-> "Empty", ballot |-> BALLOT_ZERO, value |-> NoValue]

NoPeer ==
  [anchor |-> NoAnchor, chosen_through |-> 0, expected_in_range |-> 0,
   range_described |-> FALSE, more |-> FALSE, seen |-> {}]

\* Phase one's scratch: meaningful only while the node is Preparing, cleared
\* when it stops so that equal states are equal.
NoRecovery ==
  [base |-> 0, last |-> 0, ready |-> FALSE, more |-> FALSE,
   peer |-> <<>>, recovered |-> <<>>]

NewRecovery(base, peers) ==
  LET last == slot_add(base, Chunk - 1) IN
  [base |-> base, last |-> last, ready |-> FALSE, more |-> FALSE,
   peer |-> peers, recovered |-> [s \in ChunkSlots(base, last) |-> NoReport]]

NoLead == [c \in Cells |-> [slot |-> 0, ballot |-> BALLOT_ZERO, acks |-> {}]]

\* Mutant of ReopenedThrough: open votes below the floor are kept.
ReopenedNowhere(l, base) == l

\* The loop of node_resume_at: cells at or below base that are not decided reopen.
ReopenedThrough(l, base) ==
  [l EXCEPT !.cell = [c \in Cells |->
     IF @[c].slot <= base /\ @[c].state # "Chosen" THEN ledger_open(0) ELSE @[c]]]

\* node_init followed by node_resume_at(base) on ledger l.
Resumed(n, l, base) ==
  LET kept == ReopenedThrough(l, base)
      next == slot_add(MaxOf(ledger_highest_used(kept), base), 1)
  IN  [role |-> "Follower", ballot |-> BALLOT_ZERO, highest_observed_round |-> 0,
       next_slot |-> next, leader_base |-> next, delivered_through |-> base,
       memory_floor |-> base, campaign_enabled |-> n \in Campaigners,
       ledger |-> kept, recovery |-> NoRecovery, lead |-> NoLead]

node_restore(n, l, floor) == Resumed(n, l, MaxOf(floor, l.anchor.chosen_trim_slot))

Init ==
  /\ node = [n \in Node |-> Resumed(n, EmptyLedger, 0)]
  /\ disk = [n \in Node |-> EmptyLedger]
  /\ history = [n \in Node |-> <<>>]
  /\ net = {}
  /\ votes = {}
  /\ crashes = 0

-------------------------------------------------------------------------------
(* Envelopes.                                                              *)

Peers(n) == Node \ {n}

Prepare(n, p, b, first, last) ==
  [type |-> "Prepare", from |-> n, to |-> p, ballot |-> b, first |-> first, last |-> last]

Promise(n, p, b, cell) ==
  [type |-> "Promise", from |-> n, to |-> p, ballot |-> b, slot |-> cell.slot,
   vote |-> cell.vote_ballot, state |-> cell.state, value |-> cell.value]

Accept(n, p, b, slot, v) ==
  [type |-> "Accept", from |-> n, to |-> p, ballot |-> b, slot |-> slot, value |-> v]

Accepted(n, p, b, slot) ==
  [type |-> "Accepted", from |-> n, to |-> p, ballot |-> b, slot |-> slot]

Commit(n, p, slot, v) ==
  [type |-> "Commit", from |-> n, to |-> p, slot |-> slot, value |-> v]

Nack(n, p, rejected, promised) ==
  [type |-> "Nack", from |-> n, to |-> p, rejected |-> rejected, promised |-> promised]

Learn(n, p, from_slot) ==
  [type |-> "Learn", from |-> n, to |-> p, from_slot |-> from_slot]

Heartbeat(n, p, b, through) ==
  [type |-> "Heartbeat", from |-> n, to |-> p, ballot |-> b, decided_through |-> through]

Received(n, type) == {m \in net : m.to = n /\ m.type = type}

-------------------------------------------------------------------------------
(* Discharging a transition.                                               *)

\* The values released when delivered_through goes from one to the other. A
\* decision passed through beyond the window is only in the batch.
Released(nd, w, from, through) ==
  [i \in 1 .. (through - from) |->
     IF from + i \in DOMAIN w.chosen THEN w.chosen[from + i]
                                     ELSE Cell(nd.ledger, from + i).value]

\* Mutant of PreDurable: every message may leave before the barrier.
PreDurableAny(m) == TRUE

\* pre_durable_next: only an Accept of a campaign ballot may leave early.
PreDurable(m) == m.type = "Accept" /\ ballot_round(m.ballot) > 0

VotesIn(n, w) ==
  { [acceptor |-> n, slot |-> s, ballot |-> w.votes[s].ballot, value |-> w.votes[s].value]
      : s \in DOMAIN w.votes }

\* The whole batch is discharged: persist, release, send.
Discharged(n, nd, w, out, used) ==
  /\ node' = [node EXCEPT ![n] = nd]
  /\ disk' = [disk EXCEPT ![n] = ledger_replay_fold(@, w)]
  /\ history' = [history EXCEPT ![n] =
                   @ \o Released(nd, w, node[n].delivered_through, nd.delivered_through)]
  /\ net' = (net \ used) \cup {m \in out : m.type \notin Lost}
  /\ votes' = votes \cup VotesIn(n, w)
  /\ UNCHANGED crashes

\* A restart from ledger l, by a host that was handed the entries of log: it
\* resumes above what it made durable.
Restarted(n, l, log) ==
  LET kept == IF LaggingHost THEN SubSeq(log, 1, node[n].memory_floor) ELSE log IN
  /\ node' = [node EXCEPT ![n] = node_restore(n, l, Len(kept))]
  /\ history' = [history EXCEPT ![n] = kept]

\* The node crashes inside the batch: part of the writes, no message but the
\* early ones, and entries released only if all the writes are durable.
CutShort(n, nd, w, out, used) ==
  /\ crashes < MaxCrashes
  /\ crashes' = crashes + 1
  /\ \E kept \in Prefixes(w) :
       \E through \in node[n].delivered_through ..
                        (IF kept = w THEN nd.delivered_through
                                     ELSE node[n].delivered_through) :
         /\ disk' = [disk EXCEPT ![n] = ledger_replay_fold(@, kept)]
         /\ Restarted(n, disk'[n],
                      history[n] \o Released(nd, w, node[n].delivered_through, through))
         /\ votes' = votes \cup VotesIn(n, kept)
  /\ net' = (net \ used) \cup {m \in out : PreDurable(m) /\ m.type \notin Lost}

Finish(n, nd, w, out, used) ==
  \/ Discharged(n, nd, w, out, used)
  \/ CutShort(n, nd, w, out, used)

\* A received envelope stays in the network unless it cannot be duplicated.
Consumed(m) == IF m.type \in OnceOnly THEN {m} ELSE {}

-------------------------------------------------------------------------------
(* The live window.                                                        *)

\* Mutant of claim_live: a decided cell may be reused before the host has
\* released its slot.
ClaimDecided(nd, slot) ==
  LET cell == Cell(nd.ledger, slot) IN
  /\ slot > nd.memory_floor
  /\ cell.slot \in {0, slot} \/ cell.state = "Chosen"

\* Whether slot can have its cell: it is in the live window, and the cell is
\* its own, free, or holds a decided slot the host has consumed.
claim_live(nd, slot) ==
  LET cell == Cell(nd.ledger, slot) IN
  /\ slot > nd.memory_floor /\ slot - nd.memory_floor <= Window
  /\ \/ cell.slot \in {0, slot}
     \/ cell.slot <= nd.memory_floor /\ cell.state = "Chosen"

LiveCell(nd, slot) == Claim(Cell(nd.ledger, slot), slot)

\* The end of the run of decisions that starts just above through.
emit_contiguous(l, through) ==
  Max({t \in through .. MinOf(through + Window, MaxSlot) :
         \A s \in (through + 1) .. t : ledger_is_chosen(l, s)})

Emitted(nd) ==
  [nd EXCEPT !.delivered_through = emit_contiguous(nd.ledger, @)]

\* A transition's result: the node, its writes and its messages.
Result(nd, w, out) == [nd |-> nd, w |-> w, out |-> out]

Nothing(nd) == Result(nd, NoWrites, {})

\* A decision the window has no cell for is still wanted if it is the next one.
PassesThrough(nd, slot) == slot = nd.delivered_through + 1

\* record_commit: the decision goes to its cell, or, when the slot has no cell
\* but is the next to release, straight through to the host.
record_commit(nd, slot, v) ==
  IF slot <= nd.memory_floor \/ slot <= nd.ledger.anchor.chosen_trim_slot
    THEN Nothing(nd)
  ELSE IF ~ claim_live(nd, slot)
    THEN IF PassesThrough(nd, slot)
           THEN Result(Emitted([nd EXCEPT !.delivered_through = slot]),
                       WriteChosen(slot, v), {})
           ELSE Nothing(nd)
  ELSE IF LiveCell(nd, slot).state = "Chosen"
    THEN IF LiveCell(nd, slot).value = v THEN Nothing(Emitted(nd)) ELSE Nothing(nd)
  ELSE Result(Emitted([nd EXCEPT !.ledger = RecordWrites(@, WriteChosen(slot, v))]),
              WriteChosen(slot, v), {})

\* send_accept for the undecided slots S: the node votes for val[s] itself,
\* starts counting, and asks its peers.  A write quorum of one decides at once.
SendAccepts(n, nd, S, val) ==
  LET w == [NoWrites EXCEPT
              !.votes = [s \in S |-> [ballot |-> nd.ballot, value |-> val[s]]],
              !.chosen = IF WriteQuorum = 1 THEN [s \in S |-> val[s]] ELSE <<>>]
      voted == [nd EXCEPT
        !.ledger = RecordWrites(@, w),
        !.lead = [c \in Cells |->
           IF \E s \in S : cell_of(s) = c
             THEN [slot |-> CHOOSE s \in S : cell_of(s) = c,
                   ballot |-> nd.ballot, acks |-> {n}]
             ELSE @[c]]]
  IN  Result(IF WriteQuorum = 1 /\ S # {} THEN Emitted(voted) ELSE voted, w,
             {Accept(n, p, nd.ballot, s, val[s]) : p \in Peers(n), s \in S})

-------------------------------------------------------------------------------
(* Phase one.                                                              *)

Follow(nd) == [nd EXCEPT !.role = "Follower", !.recovery = NoRecovery]

\* Mutant of observe_leader: only a candidate steps down, a leader goes on.
ObserveKeepsLeader(nd, b) ==
  LET seen == [nd EXCEPT !.highest_observed_round = MaxOf(@, ballot_round(b))]
  IN  IF nd.ballot = b \/ nd.role = "Leader" THEN seen ELSE Follow(seen)

\* observe_leader
observe_leader(nd, b) ==
  LET seen == [nd EXCEPT !.highest_observed_round = MaxOf(@, ballot_round(b))]
  IN  IF nd.ballot = b THEN seen ELSE Follow(seen)

GreatestRound(nd) ==
  Max({nd.highest_observed_round, ballot_round(nd.ballot),
       ballot_round(ledger_highest_ballot(nd.ledger))})

\* An inherited gap: what the leader's repair timer waits on.
Gap(nd) == nd.role = "Leader" /\ nd.delivered_through < nd.leader_base - 1

\* Mutant of CampaignWrites: the candidate's promise is not written.
CampaignWritesNothing(b) == NoWrites

CampaignWrites(b) == WritePromise(b)

\* Mutant of CampaignDue: the last round is passed.
CampaignDueLate(n) ==
  LET nd == node[n] IN
  /\ nd.campaign_enabled \/ Gap(nd)
  /\ nd.delivered_through # MaxSlot
  /\ GreatestRound(nd) <= MaxRound

\* When start_campaign may run: the host calls it, the election timer fires, or
\* a leader's inherited gap does not close; rounds and slots are not used up.
CampaignDue(n) ==
  LET nd == node[n] IN
  /\ nd.campaign_enabled \/ Gap(nd)
  /\ nd.delivered_through # MaxSlot
  /\ GreatestRound(nd) < MaxRound

\* start_campaign
StartCampaign(n) ==
  LET nd == node[n]
      b == ballot_make(GreatestRound(nd) + 1, Priority[n], n)
      rec == NewRecovery(nd.delivered_through + 1, [p \in Node |-> NoPeer])
  IN
  /\ CampaignDue(n)
  /\ Finish(n, [nd EXCEPT !.ballot = b, !.role = "Preparing", !.recovery = rec,
                          !.lead = NoLead, !.ledger.promised = b],
            CampaignWrites(b),
            {Prepare(n, p, b, rec.base, rec.last) : p \in Node}, {})

\* The cells a prepare from slot first on must report.
Reported(l, first) ==
  {c \in UsedCells(l) : /\ l.cell[c].slot > l.anchor.chosen_trim_slot
                        /\ l.cell[c].slot >= first}

OnPrepare(n, m) ==
  LET nd == node[n]
      l == nd.ledger
      cells == Reported(l, m.first)
      inside == {c \in cells : l.cell[c].slot <= m.last}
      range == [type |-> "Promise_Range", from |-> n, to |-> m.from, ballot |-> m.ballot,
                anchor |-> l.anchor, chosen_through |-> nd.delivered_through,
                first |-> m.first, last |-> m.last,
                reported |-> Cardinality(inside), more |-> inside # cells]
  IN
  \/ /\ m.ballot < l.promised
     /\ Finish(n, nd, NoWrites, {Nack(n, m.from, m.ballot, l.promised)}, Consumed(m))
  \/ /\ m.ballot >= l.promised
     /\ Finish(n, observe_leader([nd EXCEPT !.ledger.promised = m.ballot], m.ballot),
               IF m.ballot = l.promised THEN NoWrites ELSE WritePromise(m.ballot),
               {Promise(n, m.from, m.ballot, l.cell[c]) : c \in inside} \cup {range},
               Consumed(m))

\* quorum_fences: the slots a new leader may not touch.
Fence(nd) ==
  Max({nd.ledger.anchor.chosen_trim_slot, nd.delivered_through}
        \cup {nd.recovery.peer[p].anchor.chosen_trim_slot : p \in Node}
        \cup {nd.recovery.peer[p].chosen_through : p \in Node})

ChosenFence(nd) ==
  Max({nd.delivered_through} \cup {nd.recovery.peer[p].chosen_through : p \in Node})

\* The first member, in membership order, that reported the chosen fence.
ChosenPeer(nd) ==
  Min({p \in Node : nd.recovery.peer[p].chosen_through = ChosenFence(nd)})

\* begin_next_chunk: ask for the following slots, keeping the fences.
BeginNextChunk(n, nd) ==
  LET rec == NewRecovery(nd.recovery.last + 1,
               [p \in Node |-> [NoPeer EXCEPT
                  !.anchor = nd.recovery.peer[p].anchor,
                  !.chosen_through = nd.recovery.peer[p].chosen_through]])
  IN  Result([nd EXCEPT !.recovery = rec], NoWrites,
             {Prepare(n, p, nd.ballot, rec.base, rec.last) : p \in Node})

\* Mutant of BecomeLeader: the first slot is taken from the node's own frontier.
BecomeLeaderAtOwnFrontier(nd) ==
  Emitted([nd EXCEPT !.role = "Leader", !.recovery = NoRecovery,
                     !.leader_base = nd.next_slot])

\* become_leader: propose above everything the read quorum reported.
BecomeLeader(nd) ==
  LET highest == MaxOf(ledger_highest_used(nd.ledger), Fence(nd))
      next == MaxOf(nd.next_slot, slot_add(highest, 1))
  IN  Emitted([nd EXCEPT !.role = "Leader", !.recovery = NoRecovery,
                         !.next_slot = next, !.leader_base = next])

\* Mutant of SelectedValue: a hole is filled even where a vote was reported.
SelectNoop(nd, slot) == Noop

\* The value B3 selects: the greatest reported vote's, or the no-op.
SelectedValue(nd, slot) ==
  LET r == nd.recovery.recovered[slot] IN
  IF r.state = "Empty" THEN Noop ELSE r.value

\* Mutant of Adoptable: a reported vote is taken for a decision.
AnyReport(report) == report.state # "Empty"

Adoptable(report) == report.state = "Chosen"

\* resolve_chunk: rebroadcast the decisions the node has, adopt the reported
\* ones, propose for the rest; then stay (window full), go on to the next
\* chunk, or lead.  Every slot of the drive has its cell: LiveWindow.
ResolveChunk(n, nd) ==
  LET rec == nd.recovery
      l == nd.ledger
      reported == {s \in DOMAIN rec.recovered : rec.recovered[s].state # "Empty"}
      known_high == Max({ledger_highest_used(l), Fence(nd)} \cup reported)
      limit == IF rec.more THEN rec.last ELSE MinOf(rec.last, known_high)
      drive_limit == MinOf(limit, slot_add(nd.memory_floor, Window))
      drive == MaxOf(rec.base, Fence(nd) + 1) .. drive_limit
      known == {s \in drive : ledger_is_chosen(l, s)}
      adopted == {s \in drive \ known : Adoptable(rec.recovered[s])}
      val == [s \in drive |-> SelectedValue(nd, s)]
      learnt == [NoWrites EXCEPT !.chosen = [s \in adopted |-> val[s]]]
      adopting == [nd EXCEPT !.ledger = RecordWrites(@, learnt)]
      sent == SendAccepts(n, IF adopted = {} THEN adopting ELSE Emitted(adopting),
                          drive \ (known \cup adopted), val)
      w == [sent.w EXCEPT !.chosen = [s \in DOMAIN @ \cup adopted |-> val[s]]]
      commits == {Commit(n, p, s, Cell(sent.nd.ledger, s).value)
                    : p \in Peers(n), s \in known \cup adopted}
      learn == IF ChosenFence(nd) > sent.nd.delivered_through
                 THEN {Learn(n, ChosenPeer(nd), sent.nd.delivered_through + 1)} ELSE {}
      next == IF drive_limit < limit THEN Nothing(sent.nd)
              ELSE IF rec.more THEN BeginNextChunk(n, sent.nd)
              ELSE Nothing(BecomeLeader(sent.nd))
  IN  Result(next.nd, w, sent.out \cup commits \cup learn \cup next.out)

\* Mutant of Complete: one promise more than the manifest counts.
CompleteAbove(rec, p) ==
  /\ rec.peer[p].range_described
  /\ Cardinality(rec.peer[p].seen) > rec.peer[p].expected_in_range

\* A member has described the chunk when its manifest and as many promises as
\* the manifest counts have arrived.
Complete(rec, p) ==
  /\ rec.peer[p].range_described
  /\ Cardinality(rec.peer[p].seen) >= rec.peer[p].expected_in_range

\* maybe_resolve_chunk: the selection is frozen once a read quorum is complete.
MaybeResolve(n, nd) ==
  LET rec == nd.recovery
      complete == {p \in Node : Complete(rec, p)}
      frozen == [nd EXCEPT !.recovery.ready = TRUE,
                           !.recovery.more = \E p \in complete : rec.peer[p].more]
  IN  CASE rec.ready -> ResolveChunk(n, nd)
        [] ~ rec.ready /\ Cardinality(complete) >= ReadQuorum -> ResolveChunk(n, frozen)
        [] OTHER -> Nothing(nd)

FinishResult(n, r, used) == Finish(n, r.nd, r.w, r.out, used)

Preparing(n, b) == node[n].role = "Preparing" /\ node[n].ballot = b

\* A decision beats every vote; otherwise the greater ballot wins.
Better(new, old) ==
  \/ old.state = "Empty"
  \/ old.state = "Voted" /\ (new.state = "Chosen" \/ new.ballot > old.ballot)

\* Two reports that cannot both be true: the code returns an error.
Contradicts(new, old) ==
  /\ new.value # old.value
  /\ \/ new.state = "Chosen" /\ old.state = "Chosen"
     \/ new.state = "Voted" /\ old.state = "Voted" /\ new.ballot = old.ballot

OnPromise(n, m) ==
  LET nd == node[n]
      rec == nd.recovery
      new == [state |-> m.state, ballot |-> m.vote, value |-> m.value]
      counted == [nd EXCEPT !.recovery.peer[m.from].seen = @ \cup {m.slot}]
  IN
  /\ Preparing(n, m.ballot)
  /\ \/ /\ rec.ready
        /\ FinishResult(n, ResolveChunk(n, nd), Consumed(m))
     \/ /\ ~ rec.ready /\ m.slot \in DOMAIN rec.recovered
        /\ LET old == rec.recovered[m.slot]
               merged == [counted EXCEPT !.recovery.recovered[m.slot] =
                            IF Better(new, old) THEN new ELSE old]
           IN  FinishResult(n, IF Contradicts(new, old) THEN Nothing(counted)
                                                        ELSE MaybeResolve(n, merged),
                            Consumed(m))

OnPromiseRange(n, m) ==
  LET nd == node[n]
      rec == nd.recovery
      old == rec.peer[m.from]
      fenced == [old EXCEPT
        !.anchor = IF m.anchor.chosen_trim_slot > @.chosen_trim_slot THEN m.anchor ELSE @,
        !.chosen_through = MaxOf(@, m.chosen_through)]
      described == [fenced EXCEPT !.expected_in_range = m.reported,
                                  !.range_described = TRUE, !.more = m.more]
      With(peer) == [nd EXCEPT !.recovery.peer[m.from] = peer]
  IN
  /\ Preparing(n, m.ballot)
  /\ FinishResult(n, IF rec.ready THEN ResolveChunk(n, nd)
                     ELSE IF m.first = rec.base THEN MaybeResolve(n, With(described))
                     ELSE Nothing(With(fenced)),
                  Consumed(m))

\* node_tick of a candidate: drive on as far as the window now allows.
Retry(n) ==
  /\ node[n].role = "Preparing"
  /\ FinishResult(n, MaybeResolve(n, node[n]), {})

-------------------------------------------------------------------------------
(* Phase two.                                                              *)

CanPropose(nd) ==
  /\ nd.role = "Leader"
  /\ Gate => nd.delivered_through >= nd.leader_base - 1

\* node_propose and node_propose_batch: the values take the next slots.  A slot
\* whose decision has already arrived keeps it, and the value is dropped.  A
\* leader overtaken by its floor is refused (the unsigned difference is huge:
\* .Window_Full), but for one value at the floor itself, whose slot is taken
\* before claim_live refuses it (.Window_Overrun).
Propose(n, vals) ==
  LET nd == node[n]
      slots == nd.next_slot .. (nd.next_slot + Len(vals) - 1)
      open == {s \in slots : claim_live(nd, s) /\ LiveCell(nd, s).state # "Chosen"}
      val == [s \in slots |-> vals[s - nd.next_slot + 1]]
  IN
  /\ CanPropose(nd)
  /\ Len(vals) <= MaxSlot - nd.next_slot
  /\ \/ nd.next_slot > nd.memory_floor
     \/ nd.next_slot = nd.memory_floor /\ Len(vals) = 1
  /\ nd.next_slot - 1 - nd.memory_floor + Len(vals) <= Window
  /\ FinishResult(n, SendAccepts(n, [nd EXCEPT !.next_slot = @ + Len(vals)], open, val), {})

\* on_accept's two comparisons: the global promise and the slot's own.
MayVote(nd, slot, b) ==
  b >= nd.ledger.promised /\ b >= LiveCell(nd, slot).promised_at

OnAccept(n, m) ==
  LET nd == node[n]
      l == nd.ledger
      cell == LiveCell(nd, m.slot)
      again == cell.state = "Voted" /\ cell.vote_ballot = m.ballot
      w == WriteVote(m.slot, m.ballot, m.value)
      ack == Accepted(n, m.from, m.ballot, m.slot)
  IN
  /\ m.slot > l.anchor.chosen_trim_slot
  /\ \/ /\ m.ballot < l.promised
        /\ Finish(n, nd, NoWrites, {Nack(n, m.from, m.ballot, l.promised)}, Consumed(m))
     \/ /\ m.ballot >= l.promised /\ claim_live(nd, m.slot)
        /\ ~ MayVote(nd, m.slot, m.ballot)
        /\ Finish(n, nd, NoWrites, {Nack(n, m.from, m.ballot, cell.promised_at)}, Consumed(m))
     \/ /\ claim_live(nd, m.slot) /\ MayVote(nd, m.slot, m.ballot)
        /\ cell.state = "Chosen"
        /\ Finish(n, nd, NoWrites,
                  {IF cell.value = m.value THEN ack ELSE Commit(n, m.from, m.slot, cell.value)},
                  Consumed(m))
     \/ /\ claim_live(nd, m.slot) /\ MayVote(nd, m.slot, m.ballot)
        /\ again /\ cell.value = m.value
        /\ Finish(n, nd, NoWrites, {ack}, Consumed(m))
     \/ /\ claim_live(nd, m.slot) /\ MayVote(nd, m.slot, m.ballot)
        /\ cell.state # "Chosen" /\ ~ again
        /\ Finish(n, observe_leader([nd EXCEPT !.ledger = RecordWrites(@, w)], m.ballot),
                  w, {ack}, Consumed(m))

\* Whether an acknowledgement is for what this node is driving.
CountsFor(nd, m) ==
  LET lead == nd.lead[cell_of(m.slot)] IN lead.slot = m.slot /\ lead.ballot = m.ballot

\* Whether the node's own vote in that slot is still the one acknowledged.
StillDriving(nd, m) ==
  LET cell == Cell(nd.ledger, m.slot) IN
  cell.slot = m.slot /\ cell.state = "Voted" /\ cell.vote_ballot = m.ballot

\* Mutant of Decides: one acknowledgement too many is asked for.
DecidesAbove(acks) == Cardinality(acks) > WriteQuorum

\* Whether the distinct voters counted so far are a write quorum.
Decides(acks) == Cardinality(acks) >= WriteQuorum

OnAccepted(n, m) ==
  LET nd == node[n]
      c == cell_of(m.slot)
      counted == [nd EXCEPT !.lead[c].acks = @ \cup {m.from}]
      v == Cell(nd.ledger, m.slot).value
      decided == record_commit(counted, m.slot, v)
  IN
  /\ CountsFor(nd, m)
  /\ \/ /\ ~ Decides(counted.lead[c].acks) \/ ~ StillDriving(nd, m)
        /\ Finish(n, counted, NoWrites, {}, Consumed(m))
     \/ /\ Decides(counted.lead[c].acks) /\ StillDriving(nd, m)
        /\ Finish(n, decided.nd, decided.w,
                  {Commit(n, p, m.slot, v) : p \in Peers(n)}, Consumed(m))

OnCommit(n, m) == FinishResult(n, record_commit(node[n], m.slot, m.value), Consumed(m))

-------------------------------------------------------------------------------
(* Heartbeats, catch-up and repair.                                        *)

LearnFrom(n, nd, p) == Learn(n, p, nd.delivered_through + 1)

OnHeartbeat(n, m) ==
  LET nd == node[n]
      followed == observe_leader([nd EXCEPT !.ledger.promised = m.ballot], m.ballot)
  IN
  \/ /\ m.ballot < nd.ledger.promised
     /\ Finish(n, nd, NoWrites, {Nack(n, m.from, m.ballot, nd.ledger.promised)}, Consumed(m))
  \/ /\ m.ballot >= nd.ledger.promised
     /\ Finish(n, followed,
               IF m.ballot = nd.ledger.promised THEN NoWrites ELSE WritePromise(m.ballot),
               IF m.decided_through > nd.delivered_through
                 THEN {LearnFrom(n, nd, m.from)} ELSE {},
               Consumed(m))

\* on_learn, and the host's answer to the Serve_Range request it raises: the
\* decisions in the window, and those below the floor from the host's history.
OnLearn(n, m) ==
  LET nd == node[n]
      asked == m.from_slot .. slot_add(m.from_slot, Chunk - 1)
      resident == {s \in asked : ledger_is_chosen(nd.ledger, s)}
      served == {s \in asked : s <= nd.memory_floor}
  IN  Finish(n, nd, NoWrites,
             {Commit(n, m.from, s, Cell(nd.ledger, s).value) : s \in resident} \cup
             {Commit(n, m.from, s, history[n][s]) : s \in served},
             Consumed(m))

OnNack(n, m) ==
  LET nd == node[n]
      seen == [nd EXCEPT !.highest_observed_round = MaxOf(@, ballot_round(m.promised))]
  IN  Finish(n, IF m.rejected = nd.ballot /\ m.promised > nd.ballot
                  THEN Follow(seen) ELSE seen,
             NoWrites, {}, Consumed(m))

\* node_tick of a leader whose heartbeat interval has passed.
SendHeartbeat(n) ==
  /\ "heartbeat" \in Calls
  /\ node[n].role = "Leader"
  /\ Finish(n, node[n], NoWrites,
            {Heartbeat(n, p, node[n].ballot, node[n].delivered_through) : p \in Peers(n)}, {})

\* resend_to, from node_tick and node_reconnected: the decisions in the window
\* and the open votes the leader is still driving.
ResendTo(n, p) ==
  LET nd == node[n]
      l == nd.ledger
      chosen == {c \in Cells : l.cell[c].state = "Chosen"}
      driven == {c \in Cells : /\ l.cell[c].state = "Voted"
                               /\ nd.lead[c].slot = l.cell[c].slot
                               /\ nd.lead[c].ballot = l.cell[c].vote_ballot}
  IN
  /\ "resend" \in Calls
  /\ nd.role = "Leader"
  /\ Finish(n, nd, NoWrites,
            {Commit(n, p, l.cell[c].slot, l.cell[c].value) : c \in chosen} \cup
            {Accept(n, p, nd.lead[c].ballot, l.cell[c].slot, l.cell[c].value) : c \in driven},
            {})

\* request_learn, from node_request_catch_up, node_reconnected and resend_to.
CatchUp(n, p) ==
  /\ "catch_up" \in Calls
  /\ Finish(n, node[n], NoWrites, {LearnFrom(n, node[n], p)}, {})

-------------------------------------------------------------------------------
(* Host calls.                                                             *)

\* What a host may name as consumed: the repository's hosts always everything
\* they were handed, although the node accepts any slot up to it ("partial").
ConsumedBy(n) ==
  IF "partial" \in Calls THEN Slot ELSE {node[n].delivered_through}

\* node_advance_memory_floor
AdvanceMemoryFloor(n, through) ==
  /\ "floor" \in Calls
  /\ through \in (node[n].memory_floor + 1) .. node[n].delivered_through
  /\ through \in ConsumedBy(n)
  /\ node' = [node EXCEPT ![n].memory_floor = through]
  /\ UNCHANGED <<disk, history, net, votes, crashes>>

\* Trim records are decided once for the cluster: a node adopts one another
\* node has, or the next one, for a slot its host has consumed.
TrimRecords ==
  {node[m].ledger.anchor : m \in Node}

NewTrims ==
  LET last == CHOOSE a \in TrimRecords : \A b \in TrimRecords : a.trim_id >= b.trim_id
  IN  IF last.trim_id = MaxTrims THEN {}
      ELSE [trim_id : {last.trim_id + 1}, chosen_trim_slot : last.chosen_trim_slot .. MaxSlot]

\* node_install_chosen_trim
InstallChosenTrim(n, anchor) ==
  LET nd == node[n] IN
  /\ "trim" \in Calls
  /\ anchor.chosen_trim_slot <= nd.delivered_through
  /\ \/ anchor.chosen_trim_slot <= nd.memory_floor
     \/ anchor.chosen_trim_slot \in ConsumedBy(n)
  /\ anchor.trim_id > nd.ledger.anchor.trim_id
  /\ anchor.chosen_trim_slot >= nd.ledger.anchor.chosen_trim_slot
  /\ Finish(n, [nd EXCEPT !.ledger.anchor = anchor,
                          !.memory_floor = MaxOf(@, anchor.chosen_trim_slot)],
            WriteTrim(anchor), {}, {})

\* Mutant of NeedsImage: any newer anchor will do.
NewerAnchor(nd, anchor) == anchor.trim_id > nd.ledger.anchor.trim_id

\* The host's reason to install an image: the anchor covers slots it has not
\* released.  ledger_apply refuses an anchor that is not newer.
NeedsImage(nd, anchor) ==
  /\ anchor.chosen_trim_slot > nd.delivered_through
  /\ anchor.trim_id > nd.ledger.anchor.trim_id

\* node_begin_recovery, for a node whose missing slots lie below a peer's
\* anchor: a certified image of the donor's first slots replaces the host's
\* state; the host persists image and anchor before anything else runs.
BeginRecovery(n, donor) ==
  LET nd == node[n]
      anchor == node[donor].ledger.anchor
      applied == ledger_replay_fold(nd.ledger, WriteTrim(anchor))
      resumed == Resumed(n, applied, anchor.chosen_trim_slot)
  IN
  /\ "recover" \in Calls
  /\ NeedsImage(nd, anchor)
  /\ node' = [node EXCEPT ![n] = [resumed EXCEPT
                 !.ballot = nd.ballot, !.campaign_enabled = nd.campaign_enabled,
                 !.highest_observed_round = nd.highest_observed_round]]
  /\ disk' = [disk EXCEPT ![n] = ledger_replay_fold(@, WriteTrim(anchor))]
  /\ history' = [history EXCEPT ![n] = SubSeq(history[donor], 1, anchor.chosen_trim_slot)]
  /\ UNCHANGED <<net, votes, crashes>>

\* node_set_campaign_enabled
SetCampaignEnabled(n, enabled) ==
  /\ "toggle" \in Calls
  /\ node' = [node EXCEPT ![n] =
                IF ~ enabled /\ @.role = "Preparing"
                  THEN [Follow(@) EXCEPT !.campaign_enabled = FALSE]
                  ELSE [@ EXCEPT !.campaign_enabled = enabled]]
  /\ UNCHANGED <<disk, history, net, votes, crashes>>

\* A crash between transitions, and the restart from the journal.
Crash(n) ==
  /\ crashes < MaxCrashes
  /\ crashes' = crashes + 1
  /\ Restarted(n, disk[n], history[n])
  /\ UNCHANGED <<disk, net, votes>>

-------------------------------------------------------------------------------
ProposalBatches ==
  UNION {[1 .. k -> Value] : k \in IF "batch" \in Calls THEN 1 .. Chunk ELSE {1}}

\* node_step: the handler of each kind of message.
Step(n) ==
  \/ \E m \in Received(n, "Prepare") : OnPrepare(n, m)
  \/ \E m \in Received(n, "Promise") : OnPromise(n, m)
  \/ \E m \in Received(n, "Promise_Range") : OnPromiseRange(n, m)
  \/ \E m \in Received(n, "Accept") : OnAccept(n, m)
  \/ \E m \in Received(n, "Accepted") : OnAccepted(n, m)
  \/ \E m \in Received(n, "Commit") : OnCommit(n, m)
  \/ \E m \in Received(n, "Learn") : OnLearn(n, m)
  \/ \E m \in Received(n, "Nack") : OnNack(n, m)
  \/ \E m \in Received(n, "Heartbeat") : OnHeartbeat(n, m)

\* node_tick
Tick(n) ==
  \/ StartCampaign(n)
  \/ Retry(n)
  \/ SendHeartbeat(n)
  \/ \E p \in Peers(n) : ResendTo(n, p)

\* The hosts of the model switch campaigning on the nodes of Campaigners only.
Host(n) ==
  \/ \E vals \in ProposalBatches : Propose(n, vals)
  \/ \E p \in Peers(n) : CatchUp(n, p)
  \/ \E s \in Slot : AdvanceMemoryFloor(n, s)
  \/ \E a \in TrimRecords \cup NewTrims : InstallChosenTrim(n, a)
  \/ \E donor \in Peers(n) : BeginRecovery(n, donor)
  \/ n \in Campaigners /\ \E enabled \in BOOLEAN : SetCampaignEnabled(n, enabled)
  \/ Crash(n)

Next == \E n \in Node : Step(n) \/ Tick(n) \/ Host(n)

Spec == Init /\ [][Next]_vars

\* The message types whose handler would do something, with what it waits for:
\* the enabling conditions of the actions of Step, spelt out so that TLC need
\* not compute them.
Handled(n, m) ==
  LET nd == node[n] IN
  CASE m.type = "Promise" -> /\ Preparing(n, m.ballot)
                             /\ nd.recovery.ready \/ m.slot \in DOMAIN nd.recovery.recovered
    [] m.type = "Promise_Range" -> Preparing(n, m.ballot)
    [] m.type = "Accept" -> /\ m.slot > nd.ledger.anchor.chosen_trim_slot
                            /\ m.ballot < nd.ledger.promised \/ claim_live(nd, m.slot)
    [] m.type = "Accepted" -> CountsFor(nd, m)
    [] OTHER -> TRUE

Waiting(n, type) == \E m \in Received(n, type) : Handled(n, m)

\* What the hosts' loops guarantee while the processes stay up and the network
\* delivers each message once: every kind of message is handled in the end, and
\* the heartbeat and election timers fire.  Each conjunct is the weak fairness
\* of one action.  Nothing is assumed about proposals, floors, trims, retries
\* or retransmissions.
Fairness ==
  \A n \in Node :
    /\ []<> ~ Waiting(n, "Prepare")
         \/ []<> <<\E m \in Received(n, "Prepare") : OnPrepare(n, m)>>_vars
    /\ []<> ~ Waiting(n, "Promise")
         \/ []<> <<\E m \in Received(n, "Promise") : OnPromise(n, m)>>_vars
    /\ []<> ~ Waiting(n, "Promise_Range")
         \/ []<> <<\E m \in Received(n, "Promise_Range") : OnPromiseRange(n, m)>>_vars
    /\ []<> ~ Waiting(n, "Accept")
         \/ []<> <<\E m \in Received(n, "Accept") : OnAccept(n, m)>>_vars
    /\ []<> ~ Waiting(n, "Accepted")
         \/ []<> <<\E m \in Received(n, "Accepted") : OnAccepted(n, m)>>_vars
    /\ []<> ~ Waiting(n, "Commit")
         \/ []<> <<\E m \in Received(n, "Commit") : OnCommit(n, m)>>_vars
    /\ []<> ~ Waiting(n, "Learn")
         \/ []<> <<\E m \in Received(n, "Learn") : OnLearn(n, m)>>_vars
    /\ []<> ~ Waiting(n, "Heartbeat")
         \/ []<> <<\E m \in Received(n, "Heartbeat") : OnHeartbeat(n, m)>>_vars
    /\ WF_vars(SendHeartbeat(n))
    /\ []<> ~ CampaignDue(n) \/ []<> <<StartCampaign(n)>>_vars
-------------------------------------------------------------------------------
(* Properties.                                                             *)

PeerType ==
  [anchor : AnchorType, chosen_through : 0 .. MaxSlot, expected_in_range : 0 .. Chunk,
   range_described : BOOLEAN, more : BOOLEAN, seen : SUBSET Slot]

ReportType ==
  [state : {"Empty", "Voted", "Chosen"}, ballot : BallotSet, value : Values \cup {NoValue}]

RecoveryOK(rec) ==
  \/ rec = NoRecovery
  \/ /\ rec.base \in Slot /\ rec.last \in rec.base .. MaxSlot
     /\ rec.ready \in BOOLEAN /\ rec.more \in BOOLEAN
     /\ rec.peer \in [Node -> PeerType]
     /\ rec.recovered \in [rec.base .. rec.last -> ReportType]

NodeOK(nd) ==
  /\ nd.role \in {"Follower", "Preparing", "Leader"}
  /\ nd.ballot \in BallotSet
  /\ nd.highest_observed_round \in 0 .. MaxRound
  /\ nd.next_slot \in Slot /\ nd.leader_base \in Slot
  /\ nd.delivered_through \in 0 .. MaxSlot
  /\ nd.memory_floor \in 0 .. nd.delivered_through
  /\ nd.campaign_enabled \in BOOLEAN
  /\ nd.ledger \in LedgerType(BallotSet)
  /\ RecoveryOK(nd.recovery)
  /\ nd.lead \in [Cells -> [slot : 0 .. MaxSlot, ballot : BallotSet, acks : SUBSET Node]]

VoteType == [acceptor : Node, slot : Slot, ballot : BallotSet, value : Values]

TypeOK ==
  /\ \A n \in Node : NodeOK(node[n])
  /\ disk \in [Node -> LedgerType(BallotSet)]
  /\ history \in [Node -> Seq(Values)]
  /\ votes \subseteq VoteType
  /\ crashes \in 0 .. MaxCrashes

\* A value is chosen for a slot when a write quorum of journals held a vote
\* for it in one ballot.
ChosenIn(slot, v) ==
  \E b \in {w.ballot : w \in votes} :
    Cardinality({n \in Node :
      [acceptor |-> n, slot |-> slot, ballot |-> b, value |-> v] \in votes}) >= WriteQuorum

\* Everything the nodes treat as decided really is: a decision in memory, on
\* disk, in a Commit on the wire or in a host's history has a write quorum of
\* durable votes behind it, however old its ballot and however often the
\* voters have crashed since.
DecidedIsChosen ==
  /\ \A n \in Node, c \in Cells : \A l \in {node[n].ledger, disk[n]} :
       l.cell[c].state = "Chosen" => ChosenIn(l.cell[c].slot, l.cell[c].value)
  /\ \A m \in net : m.type = "Commit" => ChosenIn(m.slot, m.value)
  /\ \A n \in Node : \A s \in DOMAIN history[n] : ChosenIn(s, history[n][s])

\* Agreement: two write quorums never chose different values for a slot, so no
\* two hosts ever apply different logs.
Agreement ==
  /\ \A u, w \in votes :
       u.slot = w.slot /\ ChosenIn(u.slot, u.value) /\ ChosenIn(w.slot, w.value)
         => u.value = w.value
  /\ \A m, n \in Node : \A s \in DOMAIN history[m] \cap DOMAIN history[n] :
       history[m][s] = history[n][s]

\* B1 across crashes: all the Accepts ever sent for one slot in one ballot
\* carry one value, although they may leave before the proposer's own vote,
\* and even its whole batch, is durable.
OneValuePerBallot ==
  \A m, k \in net :
    m.type = "Accept" /\ k.type = "Accept" /\ m.slot = k.slot /\ m.ballot = k.ballot
      => m.value = k.value

\* What n's host would find of its own log after a crash now.
DurableThrough(n) == IF LaggingHost THEN node[n].memory_floor ELSE Len(history[n])

\* Lemma 9 of POD 0008: a restart finds every promise and vote the node has
\* revealed.  What a Promise_Range answered is on disk as a promise; what an
\* Accepted acknowledged was written, and is still on disk unless its slot has
\* been consumed by the host, trimmed, or outvoted by a later ballot.
RevealedIsDurable ==
  /\ \A m \in net : m.type = "Promise_Range" => disk[m.from].promised >= m.ballot
  /\ \A m \in net : m.type = "Accepted" =>
       \/ m.slot <= DurableThrough(m.from)
       \/ /\ Cell(disk[m.from], m.slot).slot = m.slot
          /\ \/ Cell(disk[m.from], m.slot).state = "Chosen"
             \/ Cell(disk[m.from], m.slot).vote_ballot >= m.ballot

\* Cells and live slots are in bijection: every slot of the window above the
\* floor can be given its cell, so no drive, vote or decision inside the window
\* is ever refused for want of one, and every record of such a slot replays.
LiveWindow ==
  \A n \in Node :
    \A s \in (node[n].memory_floor + 1) .. MinOf(node[n].memory_floor + Window, MaxSlot) :
      claim_live(node[n], s) /\ (ledger_claim(disk[n], s) \/ Cell(disk[n], s).slot > s)

\* A leader has the slots from next_slot on to itself: of its ballot there is no
\* Accept for any of them, and every one there is below was sent by itself.  The
\* last slot is the exception: next_slot stops at it (slot_add), also when it has
\* been driven, and Propose never takes it.
LeaderOwnsItsBallot ==
  \A n \in Node, m \in net :
    m.type = "Accept" /\ m.ballot = node[n].ballot /\ node[n].role = "Leader"
      => m.from = n /\ (m.slot < node[n].next_slot \/ m.slot = MaxSlot)

\* While a node campaigns or leads, it has promised and voted for nothing above
\* its ballot: every path that raises a promise also ends its term.  This is
\* why send_accept never finds its own ballot refused (.Not_Leader).
NeverOutbid ==
  \A n \in Node : node[n].role # "Follower" =>
    ledger_highest_ballot(node[n].ledger) <= node[n].ballot

\* Releases never go back: a host's log only ever grows, through crashes and
\* image installs alike.
LogsOnlyGrow ==
  [][ \A n \in Node : /\ Len(history'[n]) >= Len(history[n])
                      /\ \A s \in DOMAIN history[n] : history'[n][s] = history[n][s] ]_vars

AcceptorPromise(n, slot) ==
  Max({disk[n].promised} \cup
      {w.ballot : w \in {u \in votes : u.acceptor = n /\ u.slot = slot}})

Abstract == INSTANCE Synod WITH
  Acceptor <- Node, Slots <- Slot, Ballots <- BallotSet,
  promised <- [n \in Node |-> [s \in Slot |-> AcceptorPromise(n, s)]]

\* The cluster implements Synod: with the disks as the voters' promises, every
\* step of every node, crash points included, is a Synod step or leaves its
\* state alone.
ImplementsSynod == Abstract!Spec

\* What is chosen reaches every host: under Fairness, once a write quorum has
\* voted for a value, every node releases that slot, although its window may
\* have been full when the Commit arrived and every message arrives only once.
ChosenReachesEveryHost ==
  \A s \in Slot :
    (\E v \in Values : ChosenIn(s, v)) ~> (\A n \in Node : Len(history[n]) >= s)

\* A campaign ends: under Fairness a candidate leads, or gives way to a greater
\* ballot, and is not left waiting for promises or for its window.
CampaignsEnd ==
  \A n \in Node : node[n].role = "Preparing" ~> node[n].role # "Preparing"
===============================================================================
