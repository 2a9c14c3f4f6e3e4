-------------------------------- MODULE Codec --------------------------------
(***************************************************************************)
(* The forms a message and a journal record take between two engines:      *)
(* native record, typed object, frame on the wire, bytes in the journal    *)
(* (codec.py, _decode.py, models.py, _fill_write and _encode_envelope of   *)
(* node.py, the record functions of storage.py, native/convert.odin).      *)
(*                                                                         *)
(* Numbers keep their value: every form gives a field the same width, and  *)
(* struct.pack raises rather than wrap.  An enum's tag is its number, as   *)
(* is a bool.  A payload is a member of Body, and a frame whose size is    *)
(* not the one its header declares is marked "cut".                        *)
(***************************************************************************)
EXTENDS Integers

CONSTANTS
  Body,        \* payloads
  NoBody,      \* the empty one
  Oversized,   \* payloads longer than MAX_VALUE_BYTES
  Stop,        \* contents of stop signs
  NoStop       \* no stop sign

ASSUME CodecAssumption ==
  /\ NoBody \in Body /\ Oversized \subseteq Body \ {NoBody}
  /\ NoStop \notin Stop

-----------------------------------------------------------------------------
(* models.py                                                               *)

EntryKind == {"NONE", "COMMAND", "NOOP", "STOP_SIGN"}

MessageKind ==
  {"PREPARE", "PROMISE", "PROMISE_RANGE", "ACCEPT", "ACCEPTED", "COMMIT", "LEARN", "NACK", "HEARTBEAT"}

WriteKind == {"NONE", "PROMISE", "PROMISE_AT", "VOTE", "CHOSEN", "TRIM"}

LogEntry == [kind : EntryKind, body : Body, stop : Stop \cup {NoStop}]

NoEntry == [kind |-> "NONE", body |-> NoBody, stop |-> NoStop]

\* What an entry can be: a payload or a seal, never both.
Entries ==
  {e \in LogEntry :
     /\ e.kind \in {"NONE", "STOP_SIGN"} => e.body = NoBody
     /\ e.stop = NoStop <=> e.kind # "STOP_SIGN"}

\* The fields of the flat record; scope, cell_state and more are tags.
Field ==
  {"ballot", "slot", "vote", "first", "last", "rejected", "promised", "decided_through",
   "trim_id", "trim_slot", "range_count", "scope", "cell_state", "more"}

\* The attributes of each message class, by the names of the flat record.
Carries ==
  [PREPARE |-> {"ballot", "first", "last", "scope"},
   PROMISE |-> {"ballot", "slot", "vote", "cell_state"},
   PROMISE_RANGE |-> {"ballot", "first", "last", "range_count", "more", "decided_through", "trim_id", "trim_slot"},
   ACCEPT |-> {"ballot", "slot"},
   ACCEPTED |-> {"ballot", "slot", "decided_through"},
   COMMIT |-> {"slot"},
   LEARN |-> {"first", "range_count"},
   NACK |-> {"rejected", "promised", "slot", "decided_through"},
   HEARTBEAT |-> {"ballot", "decided_through"}]

\* The classes with an entry attribute.
WithEntry == {"PROMISE", "ACCEPT", "COMMIT"}

\* The values a field of a typed message can have; more is a bool.
Values(f) ==
  IF f \in {"scope", "more"} THEN 0 .. 1 ELSE IF f = "cell_state" THEN 0 .. 2 ELSE Nat

IsMessage(m) ==
  /\ m = [kind |-> m.kind, fields |-> m.fields, entry |-> m.entry]
  /\ m.kind \in MessageKind
  /\ m.fields = [f \in Carries[m.kind] |-> m.fields[f]]
  /\ \A f \in Carries[m.kind] : m.fields[f] \in Values(f)
  /\ m.entry \in IF m.kind \in WithEntry THEN Entries ELSE {NoEntry}

IsEnvelope(env) ==
  /\ env = [configuration_id |-> env.configuration_id, sender |-> env.sender,
            recipient |-> env.recipient, message |-> env.message]
  /\ IsMessage(env.message)

\* The native record of a message an engine sends: what its class does not carry is zero.
IsNativeEnvelope(raw) ==
  /\ raw = [configuration_id |-> raw.configuration_id, sender |-> raw.sender,
            recipient |-> raw.recipient, kind |-> raw.kind, fields |-> raw.fields,
            entry |-> raw.entry]
  /\ raw.kind \in MessageKind
  /\ raw.fields = [f \in Field |-> raw.fields[f]]
  /\ \A f \in Field : raw.fields[f] \in IF f \in Carries[raw.kind] THEN Values(f) ELSE {0}
  /\ raw.entry \in IF raw.kind \in WithEntry THEN Entries ELSE {NoEntry}

-----------------------------------------------------------------------------
(* Flat records (_decode.py).                                              *)

\* Flat: the fields a class does not carry are zero.
Flat(kind, fields, entry) == [kind |-> kind, fields |-> fields, entry |-> entry]

flatten(m) ==
  Flat(m.kind,
       [f \in Field |-> IF f \in Carries[m.kind] THEN m.fields[f] ELSE 0],
       IF m.kind \in WithEntry THEN m.entry ELSE NoEntry)

Bool(n) == IF n = 0 THEN 0 ELSE 1

unflatten(flat) ==
  [kind |-> flat.kind,
   fields |-> [f \in Carries[flat.kind] |->
     IF f = "more" THEN Bool(flat.fields[f]) ELSE flat.fields[f]],
   entry |-> IF flat.kind \in WithEntry THEN flat.entry ELSE NoEntry]

\* entry(): the payload of a command or no-op, the seal of a stop sign.
entry(source) ==
  CASE source.kind = "NONE" -> NoEntry
    [] source.kind = "STOP_SIGN" -> [kind |-> source.kind, body |-> NoBody, stop |-> source.stop]
    [] OTHER -> [kind |-> source.kind, body |-> source.body, stop |-> NoStop]

message(source) == unflatten(Flat(source.kind, source.fields, entry(source.entry)))

envelope(source) ==
  [configuration_id |-> source.configuration_id, sender |-> source.sender,
   recipient |-> source.recipient, message |-> message(source)]

-----------------------------------------------------------------------------
(* Frames (codec.py).  A build is its wire version and profile fingerprint *)

\* encode raises InvalidArgument.
EncodeRefuses(env) == flatten(env.message).entry.body \in Oversized

encode(env, build) ==
  LET flat == flatten(env.message)
  IN  [build |-> build, configuration_id |-> env.configuration_id,
       sender |-> env.sender, recipient |-> env.recipient,
       kind |-> flat.kind, fields |-> flat.fields,
       entry_kind |-> flat.entry.kind, body |-> flat.entry.body, cut |-> FALSE]

\* Mutant of ValidFrame: the fingerprint is not compared.
ValidFrameOfAnyBuild(frame, build) ==
  /\ ~frame.cut /\ frame.sender # 0 /\ frame.recipient # 0
  /\ frame.kind \in MessageKind /\ frame.entry_kind \in EntryKind

\* _validate_frame, in a process of the given build.
ValidFrame(frame, build) ==
  /\ ~frame.cut
  /\ frame.build = build
  /\ frame.sender # 0 /\ frame.recipient # 0
  /\ frame.kind \in MessageKind /\ frame.entry_kind \in EntryKind
  /\ frame.fields["cell_state"] \in 0 .. 2 /\ frame.fields["scope"] <= 1
  /\ frame.body \notin Oversized

\* The frame has no room for a stop sign: its content is not sent.
decode(frame) ==
  [configuration_id |-> frame.configuration_id,
   sender |-> frame.sender, recipient |-> frame.recipient,
   message |-> unflatten(Flat(frame.kind, frame.fields,
     [kind |-> frame.entry_kind, body |-> frame.body, stop |-> NoStop]))]

-----------------------------------------------------------------------------
(* Back into the engine (node.py, native/convert.odin).                    *)

\* _encode_envelope; the native record starts zeroed.
ToNative(env) ==
  LET flat == flatten(env.message)
      e == flat.entry
  IN  [configuration_id |-> env.configuration_id, sender |-> env.sender,
       recipient |-> env.recipient, kind |-> flat.kind, fields |-> flat.fields,
       entry |-> [kind |-> e.kind, stop |-> NoStop,
                  body |-> IF e.kind \in {"COMMAND", "NOOP"} THEN e.body ELSE NoBody]]

\* entry_from_c: what the engine takes, and the status it refuses the rest with.
EntryStatus(source) ==
  CASE source.kind \in {"COMMAND", "NOOP"} /\ source.body \in Oversized -> "ValueTooLarge"
    [] source.kind = "STOP_SIGN" -> "UnsupportedCapability"
    [] OTHER -> "Ok"

-----------------------------------------------------------------------------
(* Journal records (_decode.py, storage.py, node.py).                      *)

WriteField == {"ballot", "slot", "trim_id", "trim_slot"}

IsNativeWrite(raw) ==
  /\ raw = [kind |-> raw.kind, flags |-> raw.flags, fields |-> raw.fields, entry |-> raw.entry]
  /\ raw.kind \in WriteKind /\ raw.flags \in 0 .. 1
  /\ raw.fields \in [WriteField -> Nat]
  /\ raw.entry \in Entries

\* write(): the record the host is handed.
write(raw) ==
  [kind |-> raw.kind, fields |-> raw.fields, entry |-> entry(raw.entry),
   requires_barrier |-> raw.flags % 2]

\* _encode_record: like the frame, without room for a stop sign.
encode_record(r) ==
  [kind |-> r.kind, barrier |-> r.requires_barrier,
   entry_kind |-> r.entry.kind, fields |-> r.fields, body |-> r.entry.body]

decode_record(payload) ==
  [kind |-> payload.kind, fields |-> payload.fields,
   entry |-> [kind |-> payload.entry_kind, body |-> payload.body, stop |-> NoStop],
   requires_barrier |-> Bool(payload.barrier)]

\* _fill_write: the record handed back to the engine for replay.
fill_write(r) ==
  [kind |-> r.kind, flags |-> r.requires_barrier, fields |-> r.fields,
   entry |-> [kind |-> r.entry.kind, body |-> r.entry.body, stop |-> NoStop]]
===============================================================================
