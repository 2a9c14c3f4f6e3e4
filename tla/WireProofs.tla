------------------------------ MODULE WireProofs ------------------------------
(***************************************************************************)
(* The forms of Codec carry a message from one engine to another, and a    *)
(* record through the journal, without changing it: for every number,      *)
(* every payload and every build.  Stop signs are excepted: neither frames *)
(* nor journal records hold their content, and the engine refuses them.    *)
(*                                                                         *)
(* What an engine takes from either fabric is an envelope that was sent to *)
(* it, unchanged, by a peer of its build and configuration; from one peer  *)
(* it takes them in the order they were sent, and an overfull mailbox      *)
(* loses the oldest: for every set of members, every traffic, every depth  *)
(* and every mix of builds.                                                *)
(***************************************************************************)
EXTENDS Wire, SequenceTheorems, TLAPS

\* A typed entry without a seal is its kind and its payload, which is what the frame
\* and the journal record hold of it.
LEMMA EntryIsKindAndBody ==
  ASSUME NEW e \in Entries, e.kind # "STOP_SIGN"
  PROVE  /\ e = [kind |-> e.kind, body |-> e.body, stop |-> NoStop]
         /\ entry(e) = e
         /\ e.kind \in EntryKind /\ e.body \in Body
         /\ e.kind = "NONE" => e.body = NoBody
<1>1. /\ e = [kind |-> e.kind, body |-> e.body, stop |-> e.stop]
      /\ e.kind \in EntryKind /\ e.body \in Body
  BY DEF Entries, LogEntry
<1>2. e.stop = NoStop
  BY DEF Entries
<1>3. e.kind = "NONE" => e.body = NoBody
  BY DEF Entries
<1>4. entry(e) = e
  <2>1. CASE e.kind = "NONE"
    <3>1. e = [kind |-> "NONE", body |-> NoBody, stop |-> NoStop]
      BY <1>1, <1>2, <1>3, <2>1
    <3>2. QED
      BY <2>1, <3>1 DEF entry, NoEntry
  <2>2. CASE e.kind # "NONE"
    BY <1>1, <1>2, <2>2 DEF entry
  <2>3. QED
    BY <2>1, <2>2
<1>5. QED
  BY <1>1, <1>2, <1>3, <1>4

\* The attributes of every class are fields of the flat record.
LEMMA CarriesFields ==
  ASSUME NEW k \in MessageKind
  PROVE  Carries[k] \subseteq Field
BY DEF MessageKind, Carries, Field

\* A class without an entry carries NoEntry through the flat form.
LEMMA EntryOfClass ==
  ASSUME NEW m, IsMessage(m)
  PROVE  (IF m.kind \in WithEntry THEN m.entry ELSE NoEntry) = m.entry
BY DEF IsMessage

\* unflatten after flatten is the identity on typed messages.
LEMMA FlattenIsInjective ==
  ASSUME NEW m, IsMessage(m)
  PROVE  unflatten(flatten(m)) = m
<1> DEFINE flat == flatten(m)
           g == [f \in Carries[m.kind] |->
                   IF f = "more" THEN Bool(flat.fields[f]) ELSE flat.fields[f]]
<1>1. /\ flat.kind = m.kind
      /\ flat.entry = m.entry
      /\ flat.fields = [f \in Field |-> IF f \in Carries[m.kind] THEN m.fields[f] ELSE 0]
  BY EntryOfClass DEF flatten, Flat
<1>2. Carries[m.kind] \subseteq Field
  BY CarriesFields DEF IsMessage
<1>3. \A f \in Carries[m.kind] : g[f] = m.fields[f]
  <2> TAKE f \in Carries[m.kind]
  <2>1. flat.fields[f] = m.fields[f]
    BY <1>1, <1>2
  <2>2. CASE f = "more"
    <3>1. m.fields[f] \in 0 .. 1
      BY <2>2 DEF IsMessage, Values
    <3>2. QED
      BY <2>1, <2>2, <3>1 DEF Bool
  <2>3. CASE f # "more"
    BY <2>1, <2>3
  <2>4. QED
    BY <2>2, <2>3
<1>4. g = m.fields
  BY <1>3 DEF IsMessage
<1>5. unflatten(flat) = [kind |-> m.kind, fields |-> g, entry |-> m.entry]
  BY <1>1, EntryOfClass DEF unflatten
<1>6. QED
  BY <1>4, <1>5 DEF IsMessage

\* Whatever its class, a message has an entry in the sense of models.py.
LEMMA EntryIsTyped ==
  ASSUME NEW m, IsMessage(m)
  PROVE  m.entry \in Entries
<1>1. NoEntry \in Entries
  BY CodecAssumption DEF NoEntry, Entries, LogEntry, EntryKind
<1>2. QED
  BY <1>1 DEF IsMessage

-----------------------------------------------------------------------------

\* codec.py: a process of the same build accepts the frame of every message that encode
\* does not refuse, and decodes it to the envelope that was sent.
THEOREM FrameRoundTrip ==
  ASSUME NEW env, NEW build, IsEnvelope(env),
         env.sender # 0, env.recipient # 0,
         env.message.entry.kind # "STOP_SIGN", ~EncodeRefuses(env)
  PROVE  /\ ValidFrame(encode(env, build), build)
         /\ decode(encode(env, build)) = env
<1> DEFINE m == env.message
           flat == flatten(m)
           frame == encode(env, build)
<1>1. IsMessage(m)
  BY DEF IsEnvelope
<1>2. /\ flat.kind = m.kind
      /\ flat.entry = m.entry
      /\ flat.fields = [f \in Field |-> IF f \in Carries[m.kind] THEN m.fields[f] ELSE 0]
  BY <1>1, EntryOfClass DEF flatten, Flat
<1>3. /\ frame.build = build /\ ~frame.cut
      /\ frame.configuration_id = env.configuration_id
      /\ frame.sender = env.sender /\ frame.recipient = env.recipient
      /\ frame.kind = m.kind /\ frame.fields = flat.fields
      /\ frame.entry_kind = m.entry.kind /\ frame.body = m.entry.body
  BY <1>2 DEF encode
<1>4. /\ m.entry = [kind |-> m.entry.kind, body |-> m.entry.body, stop |-> NoStop]
      /\ m.entry.kind \in EntryKind
  BY <1>1, EntryIsTyped, EntryIsKindAndBody
<1>5. ValidFrame(frame, build)
  <2>1. frame.kind \in MessageKind /\ frame.entry_kind \in EntryKind
    BY <1>1, <1>3, <1>4 DEF IsMessage
  <2>2. frame.body \notin Oversized
    BY <1>2, <1>3 DEF EncodeRefuses
  <2>3. frame.fields["cell_state"] \in 0 .. 2
    <3>1. "cell_state" \in Field
      BY DEF Field
    <3>2. "cell_state" \in Carries[m.kind] => m.fields["cell_state"] \in 0 .. 2
      BY <1>1 DEF IsMessage, Values
    <3>3. QED
      BY <1>2, <1>3, <3>1, <3>2
  <2>4. frame.fields["scope"] <= 1
    <3>1. "scope" \in Field
      BY DEF Field
    <3>2. "scope" \in Carries[m.kind] => m.fields["scope"] \in 0 .. 1
      BY <1>1 DEF IsMessage, Values
    <3>3. QED
      BY <1>2, <1>3, <3>1, <3>2
  <2>5. QED
    BY <1>3, <2>1, <2>2, <2>3, <2>4 DEF ValidFrame
<1>6. decode(frame) = env
  <2>1. Flat(frame.kind, frame.fields,
             [kind |-> frame.entry_kind, body |-> frame.body, stop |-> NoStop])
          = [kind |-> m.kind, fields |-> flat.fields, entry |-> m.entry]
    BY <1>3, <1>4 DEF Flat
  <2>2. flat = [kind |-> m.kind, fields |-> flat.fields, entry |-> m.entry]
    BY <1>2 DEF flatten, Flat
  <2>3. unflatten(flat) = m
    BY <1>1, FlattenIsInjective
  <2>4. decode(frame) = [configuration_id |-> env.configuration_id, sender |-> env.sender,
                         recipient |-> env.recipient, message |-> m]
    BY <1>3, <2>1, <2>2, <2>3 DEF decode
  <2>5. QED
    BY <2>4 DEF IsEnvelope
<1>7. QED
  BY <1>5, <1>6

\* A typed message is not changed by _encode_envelope: the native record is the one
\* the sending engine filled in.
LEMMA NativeRoundTrip ==
  ASSUME NEW raw, IsNativeEnvelope(raw), raw.entry.kind # "STOP_SIGN"
  PROVE  /\ IsEnvelope(envelope(raw))
         /\ envelope(raw).message.entry = raw.entry
         /\ ToNative(envelope(raw)) = raw
<1> DEFINE m == message(raw)
           g == [f \in Carries[raw.kind] |->
                   IF f = "more" THEN Bool(raw.fields[f]) ELSE raw.fields[f]]
<1>1. raw.entry \in Entries
  BY CodecAssumption DEF IsNativeEnvelope, NoEntry, Entries, LogEntry, EntryKind
<1>2. entry(raw.entry) = raw.entry
  BY <1>1, EntryIsKindAndBody
<1>3. (IF raw.kind \in WithEntry THEN raw.entry ELSE NoEntry) = raw.entry
  BY DEF IsNativeEnvelope
<1>4. m = [kind |-> raw.kind, fields |-> g, entry |-> raw.entry]
  BY <1>2, <1>3 DEF message, unflatten, Flat
<1>5. raw.kind \in MessageKind /\ Carries[raw.kind] \subseteq Field
  BY CarriesFields DEF IsNativeEnvelope
<1>6. \A f \in Carries[raw.kind] : g[f] = raw.fields[f] /\ g[f] \in Values(f)
  <2> TAKE f \in Carries[raw.kind]
  <2>1. raw.fields[f] \in Values(f)
    BY <1>5 DEF IsNativeEnvelope
  <2>2. CASE f = "more"
    BY <2>1, <2>2 DEF Values, Bool
  <2>3. CASE f # "more"
    BY <2>1, <2>3
  <2>4. QED
    BY <2>2, <2>3
<1>7. IsMessage(m)
  BY <1>3, <1>4, <1>5, <1>6 DEF IsMessage, IsNativeEnvelope
<1>8. IsEnvelope(envelope(raw)) /\ envelope(raw).message = m
  BY <1>7 DEF IsEnvelope, envelope
<1>9. ToNative(envelope(raw)) = raw
  <2>1. flatten(m) = [kind |-> raw.kind, entry |-> raw.entry,
                      fields |-> [f \in Field |-> IF f \in Carries[raw.kind] THEN g[f] ELSE 0]]
    BY <1>3, <1>4 DEF flatten, Flat
  <2>2. [f \in Field |-> IF f \in Carries[raw.kind] THEN g[f] ELSE 0] = raw.fields
    BY <1>6 DEF IsNativeEnvelope
  <2>3. [kind |-> raw.entry.kind, stop |-> NoStop,
         body |-> IF raw.entry.kind \in {"COMMAND", "NOOP"} THEN raw.entry.body ELSE NoBody]
          = raw.entry
    BY <1>1, EntryIsKindAndBody DEF EntryKind
  <2>4. flatten(m).entry = raw.entry /\ flatten(m).kind = raw.kind
        /\ flatten(m).fields = raw.fields
    BY <2>1, <2>2
  <2>5. ToNative(envelope(raw)) =
          [configuration_id |-> raw.configuration_id, sender |-> raw.sender,
           recipient |-> raw.recipient, kind |-> raw.kind, fields |-> raw.fields,
           entry |-> [kind |-> raw.entry.kind, stop |-> NoStop,
                      body |-> IF raw.entry.kind \in {"COMMAND", "NOOP"}
                               THEN raw.entry.body ELSE NoBody]]
    <3>1. /\ envelope(raw).configuration_id = raw.configuration_id
          /\ envelope(raw).sender = raw.sender
          /\ envelope(raw).recipient = raw.recipient
          /\ envelope(raw).message = m
      BY DEF envelope
    <3>2. QED
      BY <2>4, <3>1 DEF ToNative
  <2>6. QED
    BY <2>3, <2>5 DEF IsNativeEnvelope
<1>10. QED
  BY <1>4, <1>8, <1>9

\* From engine to engine: the record that reaches the receiving engine is the one the
\* sending engine produced, through typed message, frame and typed message again.
THEOREM EngineToEngine ==
  ASSUME NEW raw, NEW build, IsNativeEnvelope(raw),
         raw.sender # 0, raw.recipient # 0,
         raw.entry.kind # "STOP_SIGN", raw.entry.body \notin Oversized
  PROVE  LET frame == encode(envelope(raw), build)
         IN  ValidFrame(frame, build) /\ ToNative(decode(frame)) = raw
<1> DEFINE env == envelope(raw)
<1>1. /\ IsEnvelope(env) /\ ToNative(env) = raw
      /\ env.message.entry = raw.entry
  BY NativeRoundTrip
<1>2. env.sender # 0 /\ env.recipient # 0
  BY DEF envelope
<1>3. ~EncodeRefuses(env)
  <2>1. flatten(env.message).entry = raw.entry
    BY <1>1, EntryOfClass DEF flatten, Flat, IsEnvelope
  <2>2. QED
    BY <2>1 DEF EncodeRefuses
<1>4. ValidFrame(encode(env, build), build) /\ decode(encode(env, build)) = env
  BY <1>1, <1>2, <1>3, FrameRoundTrip
<1>5. QED
  BY <1>1, <1>4

\* MemoryJournal and FileJournal: the record given back to the engine at replay is the
\* one it produced, whatever its kind, numbers and payload.
THEOREM JournalRoundTrip ==
  ASSUME NEW raw, IsNativeWrite(raw), raw.entry.kind # "STOP_SIGN"
  PROVE  /\ decode_record(encode_record(write(raw))) = write(raw)
         /\ fill_write(decode_record(encode_record(write(raw)))) = raw
<1> DEFINE r == write(raw)
<1>1. /\ entry(raw.entry) = raw.entry
      /\ raw.entry = [kind |-> raw.entry.kind, body |-> raw.entry.body, stop |-> NoStop]
  BY EntryIsKindAndBody DEF IsNativeWrite
<1>2. raw.flags % 2 = raw.flags /\ Bool(raw.flags) = raw.flags
  BY DEF IsNativeWrite, Bool
<1>3. r = [kind |-> raw.kind, fields |-> raw.fields, entry |-> raw.entry,
           requires_barrier |-> raw.flags]
  BY <1>1, <1>2 DEF write
<1>4. decode_record(encode_record(r)) = r
  BY <1>1, <1>2, <1>3 DEF decode_record, encode_record
<1>5. fill_write(r) = [kind |-> raw.kind, flags |-> raw.flags, fields |-> raw.fields,
                       entry |-> raw.entry]
  BY <1>1, <1>3 DEF fill_write
<1>6. QED
  BY <1>4, <1>5 DEF IsNativeWrite

-------------------------------------------------------------------------------

\* The envelopes the members can send, and what can lie in a mailbox.
SentEnvelope ==
  [configuration_id : {Configuration[m] : m \in Member}, sender : Member,
   recipient : Member \cup {Absent}, message : {Traffic[k] : k \in DOMAIN Traffic}]

Item ==
  [from : Member, frame : {encode(env, Build[m]) : env \in SentEnvelope, m \in Member}]

\* A frame for m is the encoding of one of the envelopes s, sent to m.
Encodes(s, frame, m) ==
  \E k \in DOMAIN s :
    /\ s[k].recipient = m /\ ~EncodeRefuses(s[k])
    /\ frame = encode(s[k], Build[s[k].sender])

\* TakenAsSent with what it rests on: the mailboxes hold encodings of what was sent.
WireInv ==
  /\ sent \in Seq(SentEnvelope)
  /\ \A k \in DOMAIN sent : sent[k].configuration_id = Configuration[sent[k].sender]
  /\ boxes \in [Member -> Seq(Item)]
  /\ \A m \in Member : \A i \in DOMAIN boxes[m] : Encodes(sent, boxes[m][i].frame, m)
  /\ got \in [Member -> Seq(SentEnvelope)]
  /\ TakenAsSent

-----------------------------------------------------------------------------

\* Every envelope a member sends is an envelope in the codec's sense.
LEMMA SentIsEnvelope ==
  ASSUME NEW env \in SentEnvelope
  PROVE  IsEnvelope(env) /\ env.sender # 0 /\ env.recipient # 0
BY WireAssumption DEF SentEnvelope, IsEnvelope

\* A frame tells which kind of entry was sent, also where it cannot hold its content.
LEMMA KindIsKept ==
  ASSUME NEW env, NEW build, IsEnvelope(env)
  PROVE  decode(encode(env, build)).message.entry.kind = env.message.entry.kind
<1> DEFINE m == env.message
           flat == flatten(m)
           frame == encode(env, build)
<1>1. IsMessage(m)
  BY DEF IsEnvelope
<1>2. flat.kind = m.kind /\ flat.entry = m.entry
  BY <1>1, EntryOfClass DEF flatten, Flat
<1>3. frame.kind = m.kind /\ frame.entry_kind = m.entry.kind
  BY <1>2 DEF encode
<1>4. decode(frame).message.entry =
        IF m.kind \in WithEntry
        THEN [kind |-> m.entry.kind, body |-> frame.body, stop |-> NoStop] ELSE NoEntry
  BY <1>3 DEF decode, unflatten, Flat
<1>5. QED
  BY <1>1, <1>4 DEF IsMessage

\* An engine takes no stop sign from a frame (native/convert.odin).
LEMMA NoStopSignIsTaken ==
  ASSUME NEW env, NEW m, Takes(m, env),
         env.message.kind \notin WithEntry => env.message.entry = NoEntry
  PROVE  env.message.entry.kind # "STOP_SIGN"
<1>1. flatten(env.message).entry = env.message.entry
  BY DEF flatten, Flat
<1>2. ToNative(env).entry.kind = env.message.entry.kind
  BY <1>1 DEF ToNative
<1>3. QED
  BY <1>2 DEF Takes, EntryStatus

\* An accepted frame was sent by a process of the build that accepts it.
LEMMA AcceptedFrame ==
  ASSUME NEW env \in SentEnvelope, NEW m \in Member, ~EncodeRefuses(env),
         NEW frame, frame = encode(env, Build[env.sender]),
         ValidFrame(frame, Build[m]), Takes(m, decode(frame))
  PROVE  decode(frame) = env /\ Build[env.sender] = Build[m]
<1>1. IsEnvelope(env) /\ env.sender # 0 /\ env.recipient # 0
  BY SentIsEnvelope
<1>2. Build[env.sender] = Build[m]
  BY DEF ValidFrame, encode
<1>3. decode(frame).message.kind \notin WithEntry => decode(frame).message.entry = NoEntry
  BY DEF decode, unflatten, Flat
<1>4. decode(frame).message.entry.kind # "STOP_SIGN"
  BY <1>3, NoStopSignIsTaken
<1>5. env.message.entry.kind # "STOP_SIGN"
  BY <1>1, <1>4, KindIsKept
<1>6. QED
  BY <1>1, <1>2, <1>5, FrameRoundTrip

-----------------------------------------------------------------------------

\* The fabrics start empty.
LEMMA InitWireInv == Init => WireInv
BY DEF Init, WireInv, TakenAsSent, Encodes

\* A send appends to what was sent, and at most queues its own encoding.
LEMMA SendKeepsInv ==
  ASSUME WireInv, NEW from \in Member, NEW to \in Member \cup {Absent}, Send(from, to)
  PROVE  WireInv'
<1> DEFINE env == NextEnvelope(from, to)
           item == Queued(from, env)
<1>1. env \in SentEnvelope /\ env.sender = from /\ env.recipient = to
      /\ env.configuration_id = Configuration[from] /\ ~EncodeRefuses(env)
  <2>1. Len(sent) + 1 \in DOMAIN Traffic
    BY WireAssumption DEF Send, WireInv
  <2>2. QED
    BY <2>1 DEF Send, NextEnvelope, SentEnvelope
<1>2. sent \in Seq(SentEnvelope) /\ sent' = Append(sent, env)
  BY DEF Send, WireInv
<1>3. /\ sent' \in Seq(SentEnvelope)
      /\ DOMAIN sent' = DOMAIN sent \cup {Len(sent) + 1}
      /\ \A k \in DOMAIN sent : sent'[k] = sent[k]
      /\ sent'[Len(sent) + 1] = env
  BY <1>1, <1>2
<1>4. \A k \in DOMAIN sent' : sent'[k].configuration_id = Configuration[sent'[k].sender]
  BY <1>1, <1>3 DEF WireInv
<1>5. item \in Item
  BY <1>1 DEF Queued, Item
<1>6. \A frame : \A m \in Member : Encodes(sent, frame, m) => Encodes(sent', frame, m)
  BY <1>3 DEF Encodes
<1>7. Encodes(sent', item.frame, to)
  <2>1. item.frame = encode(env, Build[env.sender])
    BY <1>1 DEF Queued
  <2>2. QED
    BY <1>1, <1>3, <2>1 DEF Encodes
<1>8. /\ boxes' \in [Member -> Seq(Item)]
      /\ \A m \in Member : \A i \in DOMAIN boxes'[m] :
           \/ \E j \in DOMAIN boxes[m] : boxes'[m][i] = boxes[m][j]
           \/ m = to /\ boxes'[m][i] = item
  <2>1. boxes \in [Member -> Seq(Item)]
    BY DEF WireInv
  <2>2. CASE boxes' = boxes
    BY <2>1, <2>2
  <2>3. CASE to \in Member /\ boxes' = [boxes EXCEPT ![to] = Append(@, item)]
    BY <1>5, <2>1, <2>3
  <2>4. CASE to \in Member /\ boxes' = [boxes EXCEPT ![to] = Append(Tail(@), item)] /\ Full(to)
    <3>1. boxes[to] \in Seq(Item) /\ boxes[to] # <<>>
      BY <2>1, <2>4, WireAssumption DEF Full
    <3>2. /\ Tail(boxes[to]) \in Seq(Item) /\ Len(Tail(boxes[to])) = Len(boxes[to]) - 1
          /\ \A i \in 1 .. Len(boxes[to]) - 1 : Tail(boxes[to])[i] = boxes[to][i + 1]
      BY <3>1
    <3>3. Append(Tail(boxes[to]), item) \in Seq(Item)
      BY <1>5, <3>2
    <3>4. \A i \in DOMAIN Append(Tail(boxes[to]), item) :
             \/ \E j \in DOMAIN boxes[to] : Append(Tail(boxes[to]), item)[i] = boxes[to][j]
             \/ Append(Tail(boxes[to]), item)[i] = item
      BY <1>5, <3>1, <3>2
    <3>5. QED
      BY <2>1, <2>4, <3>3, <3>4
  <2>5. QED
    BY <2>2, <2>3, <2>4 DEF Send, Deliver, PutNowait
<1>9. \A m \in Member : \A i \in DOMAIN boxes'[m] : Encodes(sent', boxes'[m][i].frame, m)
  <2> TAKE m \in Member
  <2> TAKE i \in DOMAIN boxes'[m]
  <2>1. CASE m = to /\ boxes'[m][i] = item
    BY <1>7, <2>1
  <2>2. CASE \E j \in DOMAIN boxes[m] : boxes'[m][i] = boxes[m][j]
    BY <1>6, <2>2 DEF WireInv
  <2>3. QED
    BY <1>8, <2>1, <2>2
<1>10. got' = got
  BY DEF Send
<1>11. TakenAsSent'
  BY <1>3, <1>10 DEF TakenAsSent, WireInv
<1>12. QED
  BY <1>3, <1>4, <1>8, <1>9, <1>10, <1>11 DEF WireInv

\* A receive removes the frame and gives the engine what was encoded in it.
LEMMA ReceiveKeepsInv ==
  ASSUME WireInv, NEW m \in Member, Receive(m)
  PROVE  WireInv'
<1> DEFINE frame == PopLeft(m).frame
           env == decode(frame)
<1>1. boxes[m] \in Seq(Item) /\ boxes[m] # <<>>
  BY DEF WireInv, Receive
<1>2. /\ boxes' \in [Member -> Seq(Item)]
      /\ \A n \in Member : \A i \in DOMAIN boxes'[n] :
           \E j \in DOMAIN boxes[n] : boxes'[n][i] = boxes[n][j]
  <2>1. boxes \in [Member -> Seq(Item)] /\ boxes' = [boxes EXCEPT ![m] = Tail(@)]
    BY DEF WireInv, Receive
  <2>2. /\ Tail(boxes[m]) \in Seq(Item)
        /\ \A i \in DOMAIN Tail(boxes[m]) :
             i + 1 \in DOMAIN boxes[m] /\ Tail(boxes[m])[i] = boxes[m][i + 1]
    BY <1>1
  <2>3. QED
    BY <2>1, <2>2
<1>3. sent' = sent
  BY DEF Receive
<1>4. \A n \in Member : \A i \in DOMAIN boxes'[n] : Encodes(sent', boxes'[n][i].frame, n)
  <2> TAKE n \in Member
  <2> TAKE i \in DOMAIN boxes'[n]
  <2>1. PICK j \in DOMAIN boxes[n] : boxes'[n][i] = boxes[n][j]
    BY <1>2
  <2>2. QED
    BY <1>3, <2>1 DEF WireInv
<1>5. PICK k \in DOMAIN sent :
        /\ sent[k].recipient = m /\ ~EncodeRefuses(sent[k])
        /\ frame = encode(sent[k], Build[sent[k].sender])
  <2>1. 1 \in DOMAIN boxes[m] /\ frame = boxes[m][1].frame
    BY <1>1 DEF PopLeft
  <2>2. QED
    BY <2>1 DEF WireInv, Encodes
<1>6. sent[k] \in SentEnvelope /\ sent[k].configuration_id = Configuration[sent[k].sender]
  BY <1>5 DEF WireInv
<1>7. CASE ValidFrame(frame, Build[m]) /\ Takes(m, env)
  <2>1. env = sent[k] /\ Build[env.sender] = Build[m]
    BY <1>5, <1>6, <1>7, AcceptedFrame
  <2>2. Configuration[env.sender] = Configuration[m] /\ env.recipient = m
    BY <1>5, <1>6, <1>7, <2>1 DEF Takes
  <2>3. got' = [got EXCEPT ![m] = Append(@, env)]
    BY <1>7 DEF Receive
  <2>4. got \in [Member -> Seq(SentEnvelope)]
    BY DEF WireInv
  <2>5. /\ got' \in [Member -> Seq(SentEnvelope)]
        /\ \A n \in Member : \A i \in DOMAIN got'[n] :
             \/ i \in DOMAIN got[n] /\ got'[n][i] = got[n][i]
             \/ n = m /\ got'[n][i] = env
    BY <1>6, <2>1, <2>3, <2>4
  <2>6. TakenAsSent'
    BY <1>3, <2>1, <2>2, <2>5, SMTT(30) DEF TakenAsSent, WireInv
  <2>7. QED
    BY <1>2, <1>3, <1>4, <2>5, <2>6 DEF WireInv
<1>8. CASE ~(ValidFrame(frame, Build[m]) /\ Takes(m, env))
  <2>1. got' = got
    BY <1>8 DEF Receive
  <2>2. QED
    BY <1>2, <1>3, <1>4, <2>1 DEF WireInv, TakenAsSent
<1>9. QED
  BY <1>7, <1>8

\* A close empties a mailbox at most.
LEMMA CloseKeepsInv ==
  ASSUME WireInv, NEW m \in Member, Close(m)
  PROVE  WireInv'
<1>1. sent' = sent /\ got' = got
  BY DEF Close
<1>2. boxes \in [Member -> Seq(Item)]
  BY DEF WireInv
<1>3. boxes' = boxes \/ boxes' = [boxes EXCEPT ![m] = <<>>]
  BY DEF Close
<1>4. /\ boxes' \in [Member -> Seq(Item)]
      /\ \A n \in Member : \A i \in DOMAIN boxes'[n] :
           i \in DOMAIN boxes[n] /\ boxes'[n][i] = boxes[n][i]
  <2>1. CASE boxes' = boxes
    BY <1>2, <2>1
  <2>2. CASE boxes' = [boxes EXCEPT ![m] = <<>>]
    <3>1. \A n \in Member : boxes'[n] = IF n = m THEN <<>> ELSE boxes[n]
      BY <1>2, <2>2
    <3>2. boxes' \in [Member -> Seq(Item)]
      BY <1>2, <2>2
    <3>3. DOMAIN <<>> = {}
      OBVIOUS
    <3>4. QED
      BY <3>1, <3>2, <3>3
  <2>3. QED
    BY <1>3, <2>1, <2>2
<1>5. \A n \in Member : \A i \in DOMAIN boxes'[n] : Encodes(sent', boxes'[n][i].frame, n)
  BY <1>1, <1>4 DEF WireInv
<1>6. QED
  BY <1>1, <1>4, <1>5 DEF WireInv, TakenAsSent

\* A partition touches no mailbox.
LEMMA PartitionKeepsInv ==
  ASSUME WireInv, Partition
  PROVE  WireInv'
<1>1. sent' = sent /\ got' = got /\ boxes' = boxes
  BY DEF Partition
<1>2. QED
  BY <1>1 DEF WireInv, TakenAsSent, Encodes

\* The mailboxes of either fabric hold encodings of what was sent to their members, and
\* engines take nothing else.
THEOREM WireInvariant == Spec => []WireInv
<1>1. WireInv /\ [Next]_vars => WireInv'
  <2> SUFFICES ASSUME WireInv, [Next]_vars
               PROVE  WireInv'
    OBVIOUS
  <2>1. CASE \E from \in Member, to \in Member \cup {Absent} : Send(from, to)
    BY <2>1, SendKeepsInv
  <2>2. CASE \E m \in Member : Receive(m)
    BY <2>2, ReceiveKeepsInv
  <2>3. CASE \E m \in Member : Close(m)
    BY <2>3, CloseKeepsInv
  <2>4. CASE Partition
    BY <2>4, PartitionKeepsInv
  <2>5. CASE UNCHANGED vars
    BY <2>5 DEF vars, WireInv, TakenAsSent, Encodes
  <2>6. QED
    BY <2>1, <2>2, <2>3, <2>4, <2>5 DEF Next
<1>2. QED
  BY <1>1, InitWireInv, PTL DEF Spec

\* codec.encode, codec.decode and the fabrics: whatever is sent, displaced, cut off or
\* closed, an engine takes only what was sent to it, as it was sent.
THEOREM TakenAsSentHolds == Spec => []TakenAsSent
<1>1. WireInv => TakenAsSent
  BY DEF WireInv
<1>2. QED
  BY <1>1, WireInvariant, PTL

-----------------------------------------------------------------------------
(* The order of the frames.                                                *)

\* place and queued say where, in what was sent, the envelopes m took and the frames in
\* its mailbox come from: the former before the latter, and each in order.
Placed(m, place, queued) ==
  /\ place \in [1 .. Len(got[m]) -> DOMAIN sent] /\ queued \in [1 .. Len(boxes[m]) -> DOMAIN sent]
  /\ \A i \in 1 .. Len(got[m]) : sent[place[i]] = got[m][i]
  /\ \A j \in 1 .. Len(boxes[m]) :
       LET env == sent[queued[j]]
       IN  /\ env.recipient = m /\ ~EncodeRefuses(env)
           /\ boxes[m][j].frame = encode(env, Build[env.sender])
  /\ \A i, j \in 1 .. Len(got[m]) : i < j => place[i] < place[j]
  /\ \A i, j \in 1 .. Len(boxes[m]) : i < j => queued[i] < queued[j]
  /\ \A i \in 1 .. Len(got[m]), j \in 1 .. Len(boxes[m]) : place[i] < queued[j]
  /\ fabric = "loopback" =>
       \A j \in 1 .. Len(boxes[m]), n \in DOMAIN sent :
         sent[n].recipient = m /\ queued[j] < n => \E l \in 1 .. Len(boxes[m]) : queued[l] = n

OrderInv == \A m \in Member : \E place, queued : Placed(m, place, queued)

\* What the mailboxes are: sequences, with the lengths and domains the proofs use.
LEMMA BoxTypes ==
  ASSUME WireInv, NEW m \in Member
  PROVE  /\ boxes[m] \in Seq(Item) /\ Len(boxes[m]) \in Nat /\ DOMAIN boxes[m] = 1 .. Len(boxes[m])
         /\ got[m] \in Seq(SentEnvelope) /\ Len(got[m]) \in Nat /\ DOMAIN got[m] = 1 .. Len(got[m])
         /\ sent \in Seq(SentEnvelope) /\ Len(sent) \in Nat /\ DOMAIN sent = 1 .. Len(sent)
BY DEF WireInv

LEMMA InitOrder == Init => OrderInv
<1> SUFFICES ASSUME Init, NEW m \in Member
             PROVE  \E place, queued : Placed(m, place, queued)
  BY DEF OrderInv
<1> DEFINE none == [i \in {} |-> i]
<1>1. Len(got[m]) = 0 /\ Len(boxes[m]) = 0
  BY DEF Init
<1>2. 1 .. Len(got[m]) = {} /\ 1 .. Len(boxes[m]) = {}
  BY <1>1
<1>3. none \in [{} -> DOMAIN sent]
  OBVIOUS
<1> HIDE DEF none
<1>4. Placed(m, none, none)
  BY <1>2, <1>3 DEF Placed
<1>5. QED
  BY <1>4

\* A step that leaves what m took alone, and takes frames off the front of its mailbox.
LEMMA DroppingKeepsOrder ==
  ASSUME WireInv, OrderInv, NEW m \in Member, NEW d \in Nat,
         UNCHANGED <<fabric, sent>>, got'[m] = got[m],
         Len(boxes'[m]) \in Nat, Len(boxes'[m]) + d = Len(boxes[m]),
         \A j \in 1 .. Len(boxes'[m]) : boxes'[m][j] = boxes[m][j + d]
  PROVE  \E place, queued : Placed(m, place, queued)'
<1>1. PICK place, queued : Placed(m, place, queued)
  BY DEF OrderInv
<1>2. /\ Len(boxes[m]) \in Nat /\ Len(got[m]) \in Nat
      /\ DOMAIN sent = 1 .. Len(sent) /\ Len(sent) \in Nat
  BY BoxTypes
<1> DEFINE n == Len(boxes'[m])
<1>3. \A j \in 1 .. n : j + d \in 1 .. Len(boxes[m])
  BY <1>2
<1>4. /\ \A j \in 1 .. Len(boxes[m]) : queued[j] \in 1 .. Len(sent)
      /\ \A i, j \in 1 .. Len(boxes[m]) : i < j => queued[i] < queued[j]
  BY <1>1, <1>2 DEF Placed
<1>5. PICK later : later \in [1 .. n -> DOMAIN sent] /\ \A j \in 1 .. n : later[j] = queued[j + d]
  <2> DEFINE l == [j \in 1 .. n |-> queued[j + d]]
  <2>1. l \in [1 .. n -> DOMAIN sent] /\ \A j \in 1 .. n : l[j] = queued[j + d]
    BY <1>2, <1>3, <1>4
  <2> HIDE DEF l
  <2>2. QED
    BY <2>1
<1>6. ASSUME fabric = "loopback", NEW j \in 1 .. n, NEW k \in DOMAIN sent, sent[k].recipient = m, later[j] < k
      PROVE  \E l \in 1 .. n : later[l] = k
  <2>1. PICK l \in 1 .. Len(boxes[m]) : queued[l] = k
    BY <1>1, <1>3, <1>5, <1>6 DEF Placed
  <2>2. l > j + d
    <3>1. queued[j + d] < queued[l]
      BY <1>5, <1>6, <2>1
    <3>2. \A a, b \in 1 .. Len(sent) : a < b => ~(b < a) /\ a # b
      OBVIOUS
    <3>3. j + d \in 1 .. Len(boxes[m]) /\ queued[l] \in 1 .. Len(sent) /\ queued[j + d] \in 1 .. Len(sent)
      BY <1>3, <1>4
    <3>4. ~(l < j + d) /\ l # j + d
      BY <1>4, <3>1, <3>2, <3>3
    <3>5. QED
      BY <1>2, <3>3, <3>4
  <2>3. l - d \in 1 .. n /\ (l - d) + d = l
    BY <1>2, <2>2
  <2>4. QED
    BY <1>5, <2>1, <2>3
<1>7. Placed(m, place, later)'
  <2>1. \A j \in 1 .. n :
          LET env == sent[later[j]]
          IN  /\ env.recipient = m /\ ~EncodeRefuses(env)
              /\ boxes'[m][j].frame = encode(env, Build[env.sender])
    <3>1. \A j \in 1 .. Len(boxes[m]) :
            LET env == sent[queued[j]]
            IN  /\ env.recipient = m /\ ~EncodeRefuses(env)
                /\ boxes[m][j].frame = encode(env, Build[env.sender])
      BY <1>1 DEF Placed
    <3>2. \A j \in 1 .. n : /\ j + d \in 1 .. Len(boxes[m]) /\ later[j] = queued[j + d]
                            /\ boxes'[m][j] = boxes[m][j + d]
      BY <1>3, <1>5
    <3>3. QED
      BY <3>1, <3>2
  <2>2. \A i, j \in 1 .. n : i < j => later[i] < later[j]
    BY <1>2, <1>3, <1>4, <1>5
  <2>3. \A i \in 1 .. Len(got[m]), j \in 1 .. n : place[i] < later[j]
    BY <1>1, <1>3, <1>5 DEF Placed
  <2>4. /\ place \in [1 .. Len(got[m]) -> DOMAIN sent]
        /\ \A i \in 1 .. Len(got[m]) : sent[place[i]] = got[m][i]
        /\ \A i, j \in 1 .. Len(got[m]) : i < j => place[i] < place[j]
    BY <1>1 DEF Placed
  <2>5. QED
    BY <1>5, <1>6, <2>1, <2>2, <2>3, <2>4 DEF Placed
<1>8. QED
  BY <1>7

\* A step that appends an envelope to what was sent, and leaves a mailbox of the other
\* fabric, or of a member it is not for, alone.
LEMMA SendingKeepsOrder ==
  ASSUME WireInv, OrderInv, NEW m \in Member, NEW env \in SentEnvelope, sent' = Append(sent, env),
         fabric' = fabric, got'[m] = got[m], boxes'[m] = boxes[m],
         fabric = "loopback" => env.recipient # m
  PROVE  \E place, queued : Placed(m, place, queued)'
<1>1. PICK place, queued : Placed(m, place, queued)
  BY DEF OrderInv
<1>2. /\ DOMAIN sent = 1 .. Len(sent) /\ Len(sent) \in Nat
      /\ DOMAIN sent' = 1 .. Len(sent) + 1 /\ sent'[Len(sent) + 1] = env
      /\ \A k \in DOMAIN sent : sent'[k] = sent[k] /\ k \in DOMAIN sent'
  BY BoxTypes
<1>3. /\ place \in [1 .. Len(got[m]) -> DOMAIN sent] /\ queued \in [1 .. Len(boxes[m]) -> DOMAIN sent]
  BY <1>1 DEF Placed
<1>4. /\ place \in [1 .. Len(got[m]) -> DOMAIN sent'] /\ queued \in [1 .. Len(boxes[m]) -> DOMAIN sent']
  BY <1>2, <1>3
<1>5. ASSUME fabric = "loopback", NEW j \in 1 .. Len(boxes[m]), NEW k \in DOMAIN sent',
             sent'[k].recipient = m, queued[j] < k
      PROVE  \E l \in 1 .. Len(boxes[m]) : queued[l] = k
  <2>1. k \in DOMAIN sent /\ sent[k].recipient = m
    BY <1>2, <1>5
  <2>2. QED
    BY <1>1, <1>5, <2>1 DEF Placed
<1>6. \A i \in 1 .. Len(got[m]) : sent'[place[i]] = got[m][i]
  BY <1>1, <1>2, <1>3 DEF Placed
<1>7. \A j \in 1 .. Len(boxes[m]) : sent'[queued[j]] = sent[queued[j]]
  BY <1>2, <1>3
<1>8. Placed(m, place, queued)'
  <2>1. /\ \A j \in 1 .. Len(boxes[m]) :
             LET e == sent[queued[j]]
             IN  /\ e.recipient = m /\ ~EncodeRefuses(e)
                 /\ boxes[m][j].frame = encode(e, Build[e.sender])
        /\ \A i, j \in 1 .. Len(got[m]) : i < j => place[i] < place[j]
        /\ \A i, j \in 1 .. Len(boxes[m]) : i < j => queued[i] < queued[j]
        /\ \A i \in 1 .. Len(got[m]), j \in 1 .. Len(boxes[m]) : place[i] < queued[j]
    BY <1>1 DEF Placed
  <2>2. \A j \in 1 .. Len(boxes[m]) :
          LET e == sent'[queued[j]]
          IN  /\ e.recipient = m /\ ~EncodeRefuses(e)
              /\ boxes[m][j].frame = encode(e, Build[e.sender])
    BY <1>7, <2>1
  <2>3. fabric' = "loopback" =>
          \A j \in 1 .. Len(boxes[m]), k \in DOMAIN sent' :
            sent'[k].recipient = m /\ queued[j] < k => \E l \in 1 .. Len(boxes[m]) : queued[l] = k
    BY <1>5
  <2>4. QED
    BY <1>4, <1>6, <2>1, <2>2, <2>3 DEF Placed
<1>9. QED
  BY <1>8

\* A step that sends m an envelope and appends its frame to the mailbox, in front of
\* which d frames may be dropped.
LEMMA QueueingKeepsOrder ==
  ASSUME WireInv, OrderInv, NEW m \in Member, NEW env \in SentEnvelope, NEW d \in Nat, NEW item \in Item,
         sent' = Append(sent, env), env.recipient = m, ~EncodeRefuses(env),
         item.frame = encode(env, Build[env.sender]),
         fabric' = fabric, got'[m] = got[m], d <= Len(boxes[m]),
         Len(boxes'[m]) = Len(boxes[m]) - d + 1, boxes'[m][Len(boxes[m]) - d + 1] = item,
         \A j \in 1 .. Len(boxes[m]) - d : boxes'[m][j] = boxes[m][j + d]
  PROVE  \E place, queued : Placed(m, place, queued)'
<1>1. PICK place, queued : Placed(m, place, queued)
  BY DEF OrderInv
<1>2. /\ DOMAIN sent = 1 .. Len(sent) /\ Len(sent) \in Nat
      /\ DOMAIN sent' = 1 .. Len(sent) + 1 /\ sent'[Len(sent) + 1] = env
      /\ \A k \in DOMAIN sent : sent'[k] = sent[k] /\ k \in DOMAIN sent'
      /\ Len(boxes[m]) \in Nat
  BY BoxTypes
<1>a. PICK n, last : n = Len(boxes[m]) - d /\ last = Len(sent) + 1
  OBVIOUS
<1>3. /\ n \in Nat /\ \A j \in 1 .. n : j + d \in 1 .. Len(boxes[m])
      /\ \A j \in 1 .. n + 1 : j \in 1 .. n \/ j = n + 1
      /\ \A j \in 1 .. n : j \in 1 .. n + 1 /\ j # n + 1
      /\ n + 1 \in 1 .. n + 1
  <2>1. n \in Nat /\ n + d = Len(boxes[m])
    BY <1>2, <1>a
  <2>2. QED
    BY <2>1
<1>4. /\ place \in [1 .. Len(got[m]) -> DOMAIN sent]
      /\ \A i \in 1 .. Len(got[m]) : place[i] \in 1 .. Len(sent)
      /\ \A j \in 1 .. Len(boxes[m]) : queued[j] \in 1 .. Len(sent)
      /\ \A i, j \in 1 .. Len(boxes[m]) : i < j => queued[i] < queued[j]
  BY <1>1, <1>2 DEF Placed
<1>5. PICK later : /\ later = [j \in 1 .. n + 1 |-> IF j = n + 1 THEN last ELSE queued[j + d]]
                   /\ \A j \in 1 .. n : later[j] = queued[j + d] /\ later[j] \in 1 .. Len(sent)
                   /\ later[n + 1] = last
  <2> DEFINE l == [j \in 1 .. n + 1 |-> IF j = n + 1 THEN last ELSE queued[j + d]]
  <2>1. \A j \in 1 .. n : l[j] = queued[j + d] /\ l[j] \in 1 .. Len(sent)
    BY <1>3, <1>4
  <2>2. l[n + 1] = last
    BY <1>3
  <2>3. QED
    BY <2>1, <2>2
<1>6. later \in [1 .. n + 1 -> DOMAIN sent'] /\ place \in [1 .. Len(got[m]) -> DOMAIN sent']
  <2>1. last \in DOMAIN sent' /\ \A j \in 1 .. n : later[j] \in DOMAIN sent'
    <3>1. last \in DOMAIN sent'
      BY <1>2, <1>a
    <3>2. \A j \in 1 .. n : later[j] \in DOMAIN sent
      BY <1>2, <1>5
    <3>3. QED
      BY <1>2, <3>1, <3>2
  <2>2. \A j \in 1 .. n + 1 : later[j] \in DOMAIN sent'
    BY <1>3, <1>5, <2>1
  <2>3. QED
    BY <1>2, <1>4, <1>5, <2>2
<1>7. ASSUME NEW j \in 1 .. n + 1
      PROVE  LET e == sent'[later[j]]
             IN  /\ e.recipient = m /\ ~EncodeRefuses(e)
                 /\ boxes'[m][j].frame = encode(e, Build[e.sender])
  <2>1. CASE j = n + 1
    <3>1. sent'[later[j]] = env /\ boxes'[m][j] = item
      BY <1>2, <1>5, <1>a, <2>1
    <3>2. QED
      BY <3>1
  <2>2. CASE j \in 1 .. n
    <3>1. sent'[later[j]] = sent[queued[j + d]] /\ boxes'[m][j] = boxes[m][j + d]
      BY <1>2, <1>3, <1>4, <1>5, <1>a, <2>2
    <3>2. QED
      BY <1>1, <1>3, <2>2, <3>1 DEF Placed
  <2>3. QED
    BY <1>3, <2>1, <2>2
<1>8. ASSUME NEW i \in 1 .. n + 1, NEW j \in 1 .. n + 1, i < j PROVE later[i] < later[j]
  <2>1. i \in 1 .. n
    BY <1>3, <1>8
  <2>2. CASE j = n + 1
    <3>1. later[j] = Len(sent) + 1 /\ later[i] \in 1 .. Len(sent)
      BY <1>5, <1>a, <2>1, <2>2
    <3>2. QED
      BY <1>2, <3>1
  <2>3. CASE j \in 1 .. n
    <3>1. i + d \in 1 .. Len(boxes[m]) /\ j + d \in 1 .. Len(boxes[m]) /\ i + d < j + d
      BY <1>3, <1>8, <2>1, <2>3
    <3>2. QED
      BY <1>4, <1>5, <2>1, <2>3, <3>1
  <2>4. QED
    BY <1>3, <2>2, <2>3
<1>9. ASSUME NEW i \in 1 .. Len(got[m]), NEW j \in 1 .. n + 1 PROVE place[i] < later[j]
  <2>1. CASE j = n + 1
    BY <1>2, <1>4, <1>5, <1>a, <2>1
  <2>2. CASE j \in 1 .. n
    <3>1. place[i] < queued[j + d]
      BY <1>1, <1>3, <2>2 DEF Placed
    <3>2. QED
      BY <1>5, <2>2, <3>1
  <2>3. QED
    BY <1>3, <2>1, <2>2
<1>10. ASSUME fabric = "loopback", NEW j \in 1 .. n + 1, NEW k \in DOMAIN sent',
              sent'[k].recipient = m, later[j] < k
       PROVE  \E l \in 1 .. n + 1 : later[l] = k
  <2>1. CASE k = last
    BY <1>3, <1>5, <2>1
  <2>2. CASE k \in DOMAIN sent
    <3>1. k \in 1 .. Len(sent) /\ sent[k].recipient = m
      BY <1>2, <1>10, <2>2
    <3>2. j \in 1 .. n
      BY <1>2, <1>3, <1>5, <1>10, <1>a, <3>1
    <3>3. j + d \in 1 .. Len(boxes[m]) /\ queued[j + d] < k
      BY <1>3, <1>5, <1>10, <3>2
    <3>4. PICK l \in 1 .. Len(boxes[m]) : queued[l] = k
      BY <1>1, <1>10, <2>2, <3>1, <3>3 DEF Placed
    <3>5. l > j + d
      <4>1. queued[l] \in 1 .. Len(sent) /\ queued[j + d] \in 1 .. Len(sent) /\ queued[j + d] < queued[l]
        BY <1>4, <3>3, <3>4
      <4>2. \A a, b \in 1 .. Len(sent) : a < b => ~(b < a) /\ a # b
        OBVIOUS
      <4>3. ~(l < j + d) /\ l # j + d
        BY <1>4, <3>3, <4>1, <4>2
      <4>4. QED
        BY <1>2, <3>3, <4>3
    <3>6. l - d \in 1 .. n /\ (l - d) + d = l
      BY <1>2, <1>a, <3>2, <3>5
    <3>7. QED
      BY <1>3, <1>5, <3>4, <3>6
  <2>3. QED
    BY <1>2, <1>a, <2>1, <2>2
<1>11. \A i \in 1 .. Len(got[m]) : sent'[place[i]] = got[m][i]
  BY <1>1, <1>2, <1>4 DEF Placed
<1>12. \A i, j \in 1 .. Len(got[m]) : i < j => place[i] < place[j]
  BY <1>1 DEF Placed
<1>13. Placed(m, place, later)'
  <2>1. Len(boxes'[m]) = n + 1 /\ got'[m] = got[m] /\ fabric' = fabric
    BY <1>a
  <2>2. \A j \in 1 .. Len(boxes'[m]) :
          LET e == sent'[later[j]]
          IN  /\ e.recipient = m /\ ~EncodeRefuses(e)
              /\ boxes'[m][j].frame = encode(e, Build[e.sender])
    BY <1>7, <2>1
  <2>3. /\ \A i, j \in 1 .. Len(boxes'[m]) : i < j => later[i] < later[j]
        /\ \A i \in 1 .. Len(got'[m]), j \in 1 .. Len(boxes'[m]) : place[i] < later[j]
    BY <1>8, <1>9, <2>1
  <2>4. fabric' = "loopback" =>
          \A j \in 1 .. Len(boxes'[m]), k \in DOMAIN sent' :
            sent'[k].recipient = m /\ later[j] < k => \E l \in 1 .. Len(boxes'[m]) : later[l] = k
    BY <1>10, <2>1
  <2>5. /\ later \in [1 .. Len(boxes'[m]) -> DOMAIN sent']
        /\ place \in [1 .. Len(got'[m]) -> DOMAIN sent']
        /\ \A i \in 1 .. Len(got'[m]) : sent'[place[i]] = got'[m][i]
        /\ \A i, j \in 1 .. Len(got'[m]) : i < j => place[i] < place[j]
    BY <1>6, <1>11, <1>12, <2>1
  <2>6. QED
    BY <2>2, <2>3, <2>4, <2>5 DEF Placed
<1>14. QED
  BY <1>13

\* A step in which m takes the envelope the first frame of its mailbox encodes.
LEMMA TakingKeepsOrder ==
  ASSUME WireInv, OrderInv, NEW m \in Member, NEW env,
         UNCHANGED <<fabric, sent>>, boxes[m] # <<>>, boxes'[m] = Tail(boxes[m]),
         got'[m] = Append(got[m], env), env \in SentEnvelope,
         \A e \in SentEnvelope :
           ~EncodeRefuses(e) /\ boxes[m][1].frame = encode(e, Build[e.sender]) => env = e
  PROVE  \E place, queued : Placed(m, place, queued)'
<1>1. PICK place, queued : Placed(m, place, queued)
  BY DEF OrderInv
<1>a. PICK n, g : n = Len(boxes[m]) - 1 /\ g = Len(got[m])
  OBVIOUS
<1>2. /\ Len(boxes[m]) \in Nat /\ g \in Nat /\ n \in Nat
      /\ DOMAIN sent = 1 .. Len(sent) /\ Len(sent) \in Nat
      /\ Len(boxes'[m]) = n /\ \A j \in 1 .. n : boxes'[m][j] = boxes[m][j + 1]
      /\ Len(got'[m]) = g + 1 /\ got'[m][g + 1] = env /\ \A i \in 1 .. g : got'[m][i] = got[m][i]
  <2>1. /\ boxes[m] \in Seq(Item) /\ Len(boxes[m]) \in Nat /\ got[m] \in Seq(SentEnvelope) /\ Len(got[m]) \in Nat
        /\ DOMAIN sent = 1 .. Len(sent) /\ Len(sent) \in Nat
    BY BoxTypes
  <2>2. n \in Nat /\ Len(boxes'[m]) = n /\ \A j \in 1 .. n : boxes'[m][j] = boxes[m][j + 1]
    BY <1>a, <2>1
  <2>3. Len(got'[m]) = g + 1 /\ got'[m][g + 1] = env /\ \A i \in 1 .. g : got'[m][i] = got[m][i]
    BY <1>a, <2>1
  <2>4. QED
    BY <1>a, <2>1, <2>2, <2>3
<1>3. /\ \A j \in 1 .. n : j + 1 \in 1 .. Len(boxes[m]) /\ 1 < j + 1
      /\ 1 \in 1 .. Len(boxes[m])
      /\ \A i \in 1 .. g + 1 : i \in 1 .. g \/ i = g + 1
      /\ \A i \in 1 .. g : i \in 1 .. g + 1 /\ i # g + 1
      /\ g + 1 \in 1 .. g + 1
  BY <1>2, <1>a
<1>4. /\ \A i \in 1 .. g : place[i] \in 1 .. Len(sent)
      /\ \A j \in 1 .. Len(boxes[m]) : queued[j] \in 1 .. Len(sent)
      /\ \A i, j \in 1 .. Len(boxes[m]) : i < j => queued[i] < queued[j]
      /\ \A i, j \in 1 .. g : i < j => place[i] < place[j]
      /\ \A i \in 1 .. g, j \in 1 .. Len(boxes[m]) : place[i] < queued[j]
  BY <1>1, <1>2, <1>a DEF Placed
<1>b. PICK later : later \in [1 .. n -> DOMAIN sent] /\ \A j \in 1 .. n : later[j] = queued[j + 1]
  <2> DEFINE l == [j \in 1 .. n |-> queued[j + 1]]
  <2>1. l \in [1 .. n -> DOMAIN sent] /\ \A j \in 1 .. n : l[j] = queued[j + 1]
    BY <1>2, <1>3, <1>4
  <2> HIDE DEF l
  <2>2. QED
    BY <2>1
<1>c. PICK taken : /\ taken \in [1 .. g + 1 -> DOMAIN sent] /\ taken[g + 1] = queued[1]
                   /\ \A i \in 1 .. g : taken[i] = place[i]
  <2> DEFINE t == [i \in 1 .. g + 1 |-> IF i = g + 1 THEN queued[1] ELSE place[i]]
  <2>1. t[g + 1] = queued[1] /\ \A i \in 1 .. g : t[i] = place[i]
    BY <1>3
  <2>2. \A i \in 1 .. g + 1 : t[i] \in DOMAIN sent
    BY <1>2, <1>3, <1>4, <2>1
  <2>3. t \in [1 .. g + 1 -> DOMAIN sent]
    BY <2>2
  <2>4. QED
    BY <2>1, <2>3
<1>5. \A j \in 1 .. n : later[j] = queued[j + 1]
  BY <1>b
<1>6. sent[queued[1]] = env
  <2>1. sent[queued[1]] \in SentEnvelope
    BY <1>2, <1>3, <1>4, BoxTypes
  <2>2. ~EncodeRefuses(sent[queued[1]])
        /\ boxes[m][1].frame = encode(sent[queued[1]], Build[sent[queued[1]].sender])
    BY <1>1, <1>3 DEF Placed
  <2>3. QED
    BY <2>1, <2>2
<1>7. \A i \in 1 .. g + 1 : sent[taken[i]] = got'[m][i]
  <2>1. \A i \in 1 .. g : sent[place[i]] = got[m][i]
    BY <1>1, <1>a DEF Placed
  <2>2. QED
    BY <1>2, <1>3, <1>5, <1>b, <1>c, <1>6, <2>1
<1>8. \A j \in 1 .. n :
        LET e == sent[later[j]]
        IN  /\ e.recipient = m /\ ~EncodeRefuses(e)
            /\ boxes'[m][j].frame = encode(e, Build[e.sender])
  <2> TAKE j \in 1 .. n
  <2>1. boxes'[m][j] = boxes[m][j + 1] /\ later[j] = queued[j + 1] /\ j + 1 \in 1 .. Len(boxes[m])
    BY <1>2, <1>3, <1>5
  <2>2. QED
    BY <1>1, <2>1 DEF Placed
<1>9. ASSUME NEW i \in 1 .. g + 1, NEW j \in 1 .. g + 1, i < j PROVE taken[i] < taken[j]
  <2>1. i \in 1 .. g
    BY <1>2, <1>3, <1>9
  <2>2. CASE j = g + 1
    BY <1>3, <1>4, <1>5, <1>b, <1>c, <2>1, <2>2
  <2>3. CASE j \in 1 .. g
    BY <1>4, <1>5, <1>b, <1>c, <1>9, <2>1, <2>3
  <2>4. QED
    BY <1>3, <2>2, <2>3
<1>10. ASSUME NEW i \in 1 .. n, NEW j \in 1 .. n, i < j PROVE later[i] < later[j]
  <2>1. i + 1 \in 1 .. Len(boxes[m]) /\ j + 1 \in 1 .. Len(boxes[m]) /\ i + 1 < j + 1
    BY <1>2, <1>3, <1>10
  <2>2. QED
    BY <1>4, <1>5, <2>1
<1>11. ASSUME NEW i \in 1 .. g + 1, NEW j \in 1 .. n PROVE taken[i] < later[j]
  <2>1. CASE i = g + 1
    BY <1>3, <1>4, <1>5, <1>b, <1>c, <2>1
  <2>2. CASE i \in 1 .. g
    BY <1>3, <1>4, <1>5, <1>b, <1>c, <2>2
  <2>3. QED
    BY <1>3, <2>1, <2>2
<1>12. ASSUME fabric = "loopback", NEW j \in 1 .. n, NEW k \in DOMAIN sent, sent[k].recipient = m, later[j] < k
       PROVE  \E l \in 1 .. n : later[l] = k
  <2>1. PICK l \in 1 .. Len(boxes[m]) : queued[l] = k
    BY <1>1, <1>3, <1>b, <1>12 DEF Placed
  <2>2. l # 1
    <3>1. queued[1] < queued[j + 1] /\ queued[j + 1] < k
      BY <1>3, <1>4, <1>5, <1>b, <1>c, <1>12
    <3>2. queued[1] \in 1 .. Len(sent) /\ queued[j + 1] \in 1 .. Len(sent) /\ k \in 1 .. Len(sent)
      BY <1>2, <1>3, <1>4
    <3>3. \A a, b, c \in 1 .. Len(sent) : a < b /\ b < c => a # c
      BY <1>2
    <3>4. QED
      BY <2>1, <3>1, <3>2, <3>3
  <2>3. l - 1 \in 1 .. n /\ (l - 1) + 1 = l
    BY <1>2, <1>a, <2>2
  <2>4. QED
    BY <1>5, <1>b, <1>c, <2>1, <2>3
<1>13. Placed(m, taken, later)'
  <2>1. Len(boxes'[m]) = n /\ Len(got'[m]) = g + 1
    BY <1>2
  <2>2. QED
    BY <1>5, <1>b, <1>c, <1>7, <1>8, <1>9, <1>10, <1>11, <1>12, <2>1 DEF Placed
<1>14. QED
  BY <1>13

\* A step that leaves a member's mailbox and what it took alone.
LEMMA AsideKeepsOrder ==
  ASSUME WireInv, OrderInv, NEW m \in Member,
         UNCHANGED <<fabric, sent>>, got'[m] = got[m], boxes'[m] = boxes[m]
  PROVE  \E place, queued : Placed(m, place, queued)'
<1>1. Len(boxes[m]) \in Nat
  BY BoxTypes
<1>2. Len(boxes'[m]) + 0 = Len(boxes[m]) /\ \A j \in 1 .. Len(boxes'[m]) : boxes'[m][j] = boxes[m][j + 0]
  BY <1>1
<1>3. QED
  BY <1>1, <1>2, DroppingKeepsOrder

LEMMA SendKeepsOrder ==
  ASSUME WireInv, OrderInv, NEW from \in Member, NEW to \in Member \cup {Absent}, Send(from, to),
         NEW m \in Member
  PROVE  \E place, queued : Placed(m, place, queued)'
<1> DEFINE env == NextEnvelope(from, to)
           item == Queued(from, env)
<1>1. env \in SentEnvelope /\ env.sender = from /\ env.recipient = to /\ ~EncodeRefuses(env)
      /\ sent' = Append(sent, env) /\ fabric' = fabric /\ got'[m] = got[m]
  <2>1. Len(sent) + 1 \in DOMAIN Traffic
    BY WireAssumption DEF Send, WireInv
  <2>2. QED
    BY <2>1 DEF Send, NextEnvelope, SentEnvelope
<1>2. item \in Item /\ item.frame = encode(env, Build[env.sender])
  BY <1>1 DEF Queued, Item
<1>3. boxes[m] \in Seq(Item) /\ Len(boxes[m]) \in Nat /\ boxes \in [Member -> Seq(Item)]
  BY BoxTypes DEF WireInv
<1>4. CASE boxes'[m] = boxes[m] /\ (fabric = "loopback" => to # m)
  <2> HIDE DEF env
  <2>1. QED
    BY <1>1, <1>4, SendingKeepsOrder
<1>5. CASE m = to /\ boxes'[m] = Append(boxes[m], item)
  <2>1. /\ Len(boxes'[m]) = Len(boxes[m]) - 0 + 1 /\ boxes'[m][Len(boxes[m]) - 0 + 1] = item
        /\ \A j \in 1 .. Len(boxes[m]) - 0 : boxes'[m][j] = boxes[m][j + 0]
    <3> HIDE DEF item
    <3>1. QED
      BY <1>2, <1>3, <1>5
  <2>2. 0 \in Nat /\ 0 <= Len(boxes[m])
    BY <1>3
  <2> HIDE DEF env, item
  <2>3. QED
    BY <1>1, <1>2, <1>5, <2>1, <2>2, QueueingKeepsOrder
<1>6. CASE m = to /\ boxes'[m] = Append(Tail(boxes[m]), item) /\ Full(m)
  <2>1. boxes[m] # <<>> /\ 1 <= Len(boxes[m])
    BY <1>3, <1>6, WireAssumption DEF Full
  <2>2. /\ Tail(boxes[m]) \in Seq(Item) /\ Len(Tail(boxes[m])) = Len(boxes[m]) - 1
        /\ \A j \in 1 .. Len(boxes[m]) - 1 : Tail(boxes[m])[j] = boxes[m][j + 1]
    BY <1>3, <2>1
  <2>3. /\ Len(boxes'[m]) = Len(boxes[m]) - 1 + 1 /\ boxes'[m][Len(boxes[m]) - 1 + 1] = item
        /\ \A j \in 1 .. Len(boxes[m]) - 1 : boxes'[m][j] = boxes[m][j + 1]
    <3> HIDE DEF item
    <3>1. /\ Len(Append(Tail(boxes[m]), item)) = Len(Tail(boxes[m])) + 1
          /\ Append(Tail(boxes[m]), item)[Len(Tail(boxes[m])) + 1] = item
          /\ \A j \in 1 .. Len(Tail(boxes[m])) : Append(Tail(boxes[m]), item)[j] = Tail(boxes[m])[j]
      BY <1>2, <2>2, AppendProperties
    <3>2. QED
      BY <1>3, <1>6, <2>2, <3>1
  <2> HIDE DEF env, item
  <2>4. QED
    BY <1>1, <1>2, <1>6, <2>1, <2>3, QueueingKeepsOrder
<1>7. \/ boxes'[m] = boxes[m] /\ (fabric = "loopback" => to # m)
      \/ m = to /\ boxes'[m] = Append(boxes[m], item)
      \/ m = to /\ boxes'[m] = Append(Tail(boxes[m]), item) /\ Full(m)
  <2>1. CASE m # to
    BY <1>3, <2>1 DEF Send, Deliver, PutNowait
  <2>2. CASE m = to /\ fabric = "loopback"
    BY <1>3, <2>2 DEF Send, Deliver
  <2>3. CASE m = to /\ fabric # "loopback"
    BY <1>3, <2>3 DEF Send, PutNowait
  <2>4. QED
    BY <2>1, <2>2, <2>3
<1>8. QED
  BY <1>4, <1>5, <1>6, <1>7

LEMMA ReceiveKeepsOrder ==
  ASSUME WireInv, OrderInv, NEW r \in Member, Receive(r), NEW m \in Member
  PROVE  \E place, queued : Placed(m, place, queued)'
<1> DEFINE frame == PopLeft(r).frame
           env == decode(frame)
<1>1. /\ boxes[r] \in Seq(Item) /\ boxes[r] # <<>> /\ Len(boxes[r]) \in Nat
      /\ boxes \in [Member -> Seq(Item)] /\ got \in [Member -> Seq(SentEnvelope)]
      /\ boxes' = [boxes EXCEPT ![r] = Tail(@)] /\ UNCHANGED <<fabric, sent>>
  BY BoxTypes DEF WireInv, Receive
<1>2. CASE m # r
  <2>1. boxes'[m] = boxes[m] /\ got'[m] = got[m]
    BY <1>1, <1>2 DEF Receive
  <2>2. QED
    BY <1>1, <2>1, AsideKeepsOrder
<1>3. boxes'[r] = Tail(boxes[r]) /\ frame = boxes[r][1].frame
  BY <1>1 DEF PopLeft
<1>4. CASE m = r /\ ValidFrame(frame, Build[m]) /\ Takes(m, env)
  <2>1. got'[m] = Append(got[m], env)
    BY <1>1, <1>4 DEF Receive
  <2>2. \A e \in SentEnvelope :
          ~EncodeRefuses(e) /\ boxes[m][1].frame = encode(e, Build[e.sender]) => env = e
    BY <1>3, <1>4, AcceptedFrame
  <2>3. env \in SentEnvelope
    <3>1. 1 \in DOMAIN boxes[m]
      BY <1>1, <1>4
    <3>2. PICK k \in DOMAIN sent :
            ~EncodeRefuses(sent[k]) /\ boxes[m][1].frame = encode(sent[k], Build[sent[k].sender])
      BY <3>1 DEF WireInv, Encodes
    <3>3. sent[k] \in SentEnvelope
      BY <3>2 DEF WireInv
    <3>4. QED
      BY <2>2, <3>2, <3>3
  <2> HIDE DEF env
  <2>4. QED
    BY <1>1, <1>3, <1>4, <2>1, <2>2, <2>3, TakingKeepsOrder
<1>5. CASE m = r /\ ~(ValidFrame(frame, Build[m]) /\ Takes(m, env))
  <2>1. got'[m] = got[m]
    BY <1>5 DEF Receive
  <2>2. /\ Len(boxes'[m]) = Len(boxes[m]) - 1
        /\ \A j \in 1 .. Len(boxes[m]) - 1 : boxes'[m][j] = boxes[m][j + 1]
        /\ 1 <= Len(boxes[m])
    BY <1>1, <1>3, <1>5
  <2>3. /\ Len(boxes'[m]) \in Nat /\ Len(boxes'[m]) + 1 = Len(boxes[m])
        /\ \A j \in 1 .. Len(boxes'[m]) : boxes'[m][j] = boxes[m][j + 1]
    BY <1>1, <1>5, <2>2
  <2>4. QED
    BY <1>1, <2>1, <2>3, DroppingKeepsOrder
<1>6. QED
  BY <1>2, <1>4, <1>5

LEMMA CloseKeepsOrder ==
  ASSUME WireInv, OrderInv, NEW c \in Member, Close(c), NEW m \in Member
  PROVE  \E place, queued : Placed(m, place, queued)'
<1>1. UNCHANGED <<fabric, sent>> /\ got'[m] = got[m] /\ Len(boxes[m]) \in Nat
  BY BoxTypes DEF Close
<1>2. CASE boxes'[m] = boxes[m]
  BY <1>1, <1>2, AsideKeepsOrder
<1>3. CASE boxes'[m] = <<>>
  <2>1. /\ Len(boxes'[m]) \in Nat /\ Len(boxes'[m]) + Len(boxes[m]) = Len(boxes[m])
        /\ \A j \in 1 .. Len(boxes'[m]) : boxes'[m][j] = boxes[m][j + Len(boxes[m])]
    BY <1>1, <1>3
  <2>2. QED
    BY <1>1, <2>1, DroppingKeepsOrder
<1>4. boxes'[m] = boxes[m] \/ boxes'[m] = <<>>
  BY DEF Close, WireInv
<1>5. QED
  BY <1>2, <1>3, <1>4

\* What an engine took, and then what is in its mailbox, are envelopes sent to it, in the
\* order of sending; the loopback fabric passes over none sent after the first it holds.
THEOREM OrderInvariant == Spec => []OrderInv
<1>1. WireInv /\ OrderInv /\ [Next]_vars => OrderInv'
  <2> SUFFICES ASSUME WireInv, OrderInv, [Next]_vars, NEW m \in Member
               PROVE  \E place, queued : Placed(m, place, queued)'
    BY DEF OrderInv
  <2>1. CASE \E from \in Member, to \in Member \cup {Absent} : Send(from, to)
    BY <2>1, SendKeepsOrder
  <2>2. CASE \E r \in Member : Receive(r)
    BY <2>2, ReceiveKeepsOrder
  <2>3. CASE \E c \in Member : Close(c)
    BY <2>3, CloseKeepsOrder
  <2>4. CASE Partition \/ UNCHANGED vars
    <3>1. UNCHANGED <<fabric, sent>> /\ got'[m] = got[m] /\ boxes'[m] = boxes[m]
      BY <2>4 DEF Partition, vars
    <3>2. QED
      BY <3>1, AsideKeepsOrder
  <2>5. QED
    BY <2>1, <2>2, <2>3, <2>4 DEF Next
<1>2. QED
  BY <1>1, InitOrder, WireInvariant, PTL DEF Spec

\* _Fabric.deliver, AsyncFabric.put and the sessions' receive loops: an engine takes the
\* envelopes in the order they were sent, and none twice, whatever is dropped, refused,
\* cut off or closed.
THEOREM TakenInOrderHolds == Spec => []TakenInOrder
<1>1. WireInv /\ OrderInv => TakenInOrder
  <2>1. SUFFICES ASSUME WireInv, OrderInv, NEW m \in Member
                 PROVE  \E place \in [DOMAIN got[m] -> DOMAIN sent] :
                          /\ \A i \in DOMAIN got[m] : sent[place[i]] = got[m][i]
                          /\ \A i, j \in DOMAIN got[m] : i < j => place[i] < place[j]
    BY DEF TakenInOrder
  <2>2. PICK place, queued : Placed(m, place, queued)
    BY <2>1 DEF OrderInv
  <2>3. DOMAIN got[m] = 1 .. Len(got[m])
    BY <2>1, BoxTypes
  <2>4. QED
    BY <2>2, <2>3 DEF Placed
<1>2. QED
  BY <1>1, WireInvariant, OrderInvariant, PTL

\* _Fabric.deliver, "A bounded queue drops rather than grows": a frame in a loopback
\* mailbox is followed by all that were sent to its member later.
THEOREM TheNewestAreKept == Spec => []NewestAreKept
<1>1. WireInv /\ OrderInv => NewestAreKept
  <2> DEFINE Later(m, i) ==
        {k \in DOMAIN sent : sent[k].recipient = m /\ encode(sent[k], Build[sent[k].sender]) \in
           {boxes[m][j].frame : j \in i .. Len(boxes[m])}}
  <2>1. SUFFICES ASSUME WireInv, OrderInv, fabric = "loopback", NEW m \in Member, NEW i \in DOMAIN boxes[m]
                 PROVE  \E k \in Later(m, i) :
                          /\ encode(sent[k], Build[sent[k].sender]) = boxes[m][i].frame
                          /\ \A n \in DOMAIN sent : n > k /\ sent[n].recipient = m => n \in Later(m, i)
    BY DEF NewestAreKept
  <2>2. PICK place, queued : Placed(m, place, queued)
    BY <2>1 DEF OrderInv
  <2>3. /\ DOMAIN boxes[m] = 1 .. Len(boxes[m]) /\ Len(boxes[m]) \in Nat
        /\ DOMAIN sent = 1 .. Len(sent) /\ Len(sent) \in Nat
    BY <2>1, BoxTypes
  <2>4. ASSUME NEW j \in i .. Len(boxes[m])
        PROVE  queued[j] \in Later(m, i) /\ j \in 1 .. Len(boxes[m])
    <3>1. j \in 1 .. Len(boxes[m])
      BY <2>1, <2>3, <2>4
    <3>2. /\ queued[j] \in DOMAIN sent /\ sent[queued[j]].recipient = m
          /\ boxes[m][j].frame = encode(sent[queued[j]], Build[sent[queued[j]].sender])
      BY <2>2, <3>1 DEF Placed
    <3>3. QED
      BY <2>4, <3>1, <3>2
  <2>5. ASSUME NEW n \in DOMAIN sent, n > queued[i], sent[n].recipient = m PROVE n \in Later(m, i)
    <3>1. queued[i] < n /\ queued[i] \in 1 .. Len(sent)
      <4>1. queued[i] \in 1 .. Len(sent)
        BY <2>1, <2>2, <2>3 DEF Placed
      <4>2. QED
        BY <2>3, <2>5, <4>1
    <3>2. PICK l \in 1 .. Len(boxes[m]) : queued[l] = n
      BY <2>1, <2>2, <2>3, <2>5, <3>1 DEF Placed
    <3>3. ~(l < i)
      <4>1. l < i => queued[l] < queued[i]
        BY <2>1, <2>2, <2>3 DEF Placed
      <4>2. QED
        BY <2>3, <2>5, <3>1, <3>2, <4>1
    <3>4. l \in i .. Len(boxes[m])
      BY <2>1, <2>3, <3>3
    <3>5. QED
      BY <2>4, <3>2, <3>4
  <2>6. i \in i .. Len(boxes[m])
    BY <2>1, <2>3
  <2>7. encode(sent[queued[i]], Build[sent[queued[i]].sender]) = boxes[m][i].frame
    BY <2>1, <2>2, <2>3 DEF Placed
  <2> HIDE DEF Later
  <2>8. QED
    BY <2>4, <2>5, <2>6, <2>7
<1>2. QED
  BY <1>1, WireInvariant, OrderInvariant, PTL
===============================================================================
