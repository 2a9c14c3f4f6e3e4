----------------------------- MODULE ReplicatedLog -----------------------------
(***************************************************************************)
(* The replicated log on top of the nodes of MultiPaxos                    *)
(* (src/src/replicated_log.odin): commands and stop signs share the slots, *)
(* and a decided stop sign seals the configuration.                        *)
(*                                                                         *)
(* Every transition of the node is followed by the log's own bookkeeping   *)
(* of the batch it produced: stop signs among the released entries are     *)
(* recorded, the pending flag is recomputed from the ledger, and what was  *)
(* released above the seal is taken out of the batch again.  history[n] is *)
(* what the node releases, log[n] what the log hands to the host.          *)
(*                                                                         *)
(* All stop signs of the model name a newer configuration than the one     *)
(* that runs: propose_stop_sign refuses the others.                        *)
(***************************************************************************)
EXTENDS MultiPaxos

CONSTANT Stop    \* the values that are stop signs
ASSUME StopAssumption == Stop \subseteq Value

VARIABLES
  seal,   \* seal[n]: stop_slot (0: no decided stop sign) and stop_pending
  log     \* log[n]: the entries n's host was handed, slot by slot

logVars == <<vars, seal, log>>

-------------------------------------------------------------------------------
(* Bookkeeping.                                                            *)

\* Mutant of replicated_log_pending_stop_sign: only decided cells are looked at.
DecidedStop(l) == \E c \in Cells : l.cell[c].state = "Chosen" /\ l.cell[c].value \in Stop

\* A stop sign in any used cell: voted for, or proposed by this leader.
replicated_log_pending_stop_sign(l) == \E c \in UsedCells(l) : l.cell[c].value \in Stop

\* replicated_log_observe_stop for the slots of stops: the earliest is kept.
ObserveStops(slot, stops) == IF slot = 0 /\ stops = {} THEN 0
                             ELSE Min(stops \cup ({slot} \ {0}))

\* replicated_log_recalculate_stop_pending
Sealing(slot, l) ==
  [stop_slot |-> slot, stop_pending |-> slot # 0 \/ replicated_log_pending_stop_sign(l)]

NoSeal == [stop_slot |-> 0, stop_pending |-> FALSE]

\* Mutant of replicated_log_observe_durable: only what is not decided is seen.
ObservePendingOnly(l) == Sealing(0, l)

\* replicated_log_observe_durable, after a reset: the stop signs of the decided
\* cells, whether released or not.
replicated_log_observe_durable(l) ==
  Sealing(ObserveStops(0, {l.cell[c].slot : c \in {d \in Cells : /\ l.cell[d].state = "Chosen"
                                                                /\ l.cell[d].value \in Stop}}),
          l)

replicated_log_abandoned(slot, stop_slot) == stop_slot # 0 /\ slot > stop_slot

replicated_log_is_sealed(n) == seal[n].stop_pending \/ seal[n].stop_slot # 0

\* replicated_log_observe_effects, on the entries the transition released.
ObserveEffects(n) ==
  LET released == (Len(history[n]) + 1) .. Len(history'[n])
      stop_slot == ObserveStops(seal[n].stop_slot,
                                {s \in released : history'[n][s] \in Stop})
      kept == {s \in released : ~ replicated_log_abandoned(s, stop_slot)}
  IN
  /\ seal' = [seal EXCEPT ![n] = Sealing(stop_slot, node'[n].ledger)]
  /\ log' = [log EXCEPT ![n] = @ \o SubSeq(history'[n], Len(history[n]) + 1,
                                          Len(history[n]) + Cardinality(kept))]

\* The transition was cut short by a crash, and replicated_log_restore follows.
\* What the batch released was handed over as a whole or not at all: a crash
\* in a batch that the seal cuts is left to Restart.
Rediscover(n) ==
  /\ \A s \in DOMAIN history'[n] : history'[n][s] \in Stop => s = Len(history'[n])
  /\ seal' = [seal EXCEPT ![n] = replicated_log_observe_durable(node'[n].ledger)]
  /\ log' = [log EXCEPT ![n] = history'[n]]

Observe(n) ==
  \/ crashes' = crashes /\ ObserveEffects(n)
  \/ crashes' # crashes /\ Rediscover(n)

-------------------------------------------------------------------------------
(* Operations.                                                             *)

\* replicated_log_propose, propose_batch and propose_stop_sign: a stop sign is
\* proposed by itself.
ProposeEntries(n) ==
  /\ ~ replicated_log_is_sealed(n)
  /\ \E vals \in ProposalBatches :
       /\ Len(vals) > 1 => \A i \in DOMAIN vals : vals[i] \notin Stop
       /\ Propose(n, vals)
  /\ Observe(n)

\* replicated_log_step and replicated_log_tick.
LogStep(n) == Step(n) /\ Observe(n)

LogTick(n) == Tick(n) /\ Observe(n)

\* Calls that pass straight through to the node.
LogCatchUp(n) ==
  /\ \E p \in Peers(n) : CatchUp(n, p)
  /\ UNCHANGED <<seal, log>>

\* The host reports what it has consumed: never an abandoned entry.
LogAdvanceMemoryFloor(n) ==
  /\ \E through \in 1 .. Len(log[n]) : AdvanceMemoryFloor(n, through)
  /\ UNCHANGED <<seal, log>>

\* A crash between transitions, and replicated_log_restore with the host's log
\* as the floor.
Restart(n) ==
  /\ crashes < MaxCrashes
  /\ crashes' = crashes + 1
  /\ node' = [node EXCEPT ![n] = node_restore(n, disk[n], Len(log[n]))]
  /\ history' = [history EXCEPT ![n] = log[n]]
  /\ seal' = [seal EXCEPT ![n] = replicated_log_observe_durable(node'[n].ledger)]
  /\ UNCHANGED <<disk, net, votes, log>>

LogInit ==
  /\ Init
  /\ seal = [n \in Node |-> NoSeal]
  /\ log = [n \in Node |-> <<>>]

LogNext ==
  \E n \in Node :
    \/ ProposeEntries(n) \/ LogStep(n) \/ LogTick(n)
    \/ LogCatchUp(n) \/ LogAdvanceMemoryFloor(n) \/ Restart(n)

LogSpec == LogInit /\ [][LogNext]_logVars

-------------------------------------------------------------------------------
(* Reads.                                                                  *)

\* Mutant of replicated_log_decided_through: the node's frontier.
NodeDecidedThrough(n) == node[n].delivered_through

replicated_log_decided_through(n) ==
  IF seal[n].stop_slot # 0 THEN MinOf(node[n].delivered_through, seal[n].stop_slot)
                           ELSE node[n].delivered_through

\* replicated_log_read: whether the log answers for slot.
replicated_log_read(n, slot) ==
  /\ ~ replicated_log_abandoned(slot, seal[n].stop_slot)
  /\ ledger_is_chosen(node[n].ledger, slot)

-------------------------------------------------------------------------------
(* Properties.                                                             *)

\* S1 of src/src/paxos.odin: above a stop sign that any host was handed, no host
\* is ever handed anything: not by a batch, after a replay or by catch-up, and
\* although votes of earlier leaders may still be chosen there.
NothingAboveTheSeal ==
  \A m, n \in Node : \A s \in DOMAIN log[m] :
    log[m][s] \in Stop => Len(log[n]) <= s

\* The reads end where the log ends: what decided_through reports is exactly
\* what the host was handed, whatever the node below has gone on to release.
ReadsEndAtTheSeal ==
  \A n \in Node : replicated_log_decided_through(n) = Len(log[n])

\* A leader that has a stop sign under way admits nothing new: above a stop sign
\* of its own ballot it only repeats what an earlier ballot voted or fills holes.
NothingNewAboveAStop ==
  \A m, k \in net :
    /\ m.type = "Accept" /\ m.value \in Stop
    /\ k.type = "Accept" /\ k.ballot = m.ballot /\ k.slot > m.slot
    => \/ k.value = Noop
       \/ \E w \in votes : w.slot = k.slot /\ w.value = k.value /\ w.ballot < k.ballot

\* "no later slot is ever chosen in it" (replicated_log.odin:78-79): above a chosen
\* stop sign nothing is chosen.
NothingChosenAboveAStop ==
  \A u, w \in votes :
    u.value \in Stop /\ ChosenIn(u.slot, u.value) /\ w.slot > u.slot
      => ~ ChosenIn(w.slot, w.value)

\* "no Replicated_Log_Node of K that has decided s ever releases, reports or
\* reads a slot above s" (docs/book/03_proofs.typ:487-489): a node whose ledger holds
\* a decided stop sign answers no read above it.
ReadsNothingAbove ==
  \A n \in Node, s, t \in Slot :
    /\ s < t
    /\ ledger_is_chosen(node[n].ledger, s) /\ Cell(node[n].ledger, s).value \in Stop
    => ~ replicated_log_read(n, t)
===============================================================================
