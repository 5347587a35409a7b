---------------------------- MODULE EnvelopeCodec ----------------------------
(***************************************************************************)
(* The wire format of samples (src/src/core/envelope_codec.cpp): a codec   *)
(* at the sender, one at the receiver, each with schema rules that may     *)
(* change while a message is under way, and a network that may cut,        *)
(* lengthen or change what it carries.                                     *)
(*                                                                         *)
(* A message is a sequence of units: an integer of any width is one unit,  *)
(* a text or a payload is the unit of its length and one unit for each     *)
(* byte.  All units are numbers, so a reader that has lost its place goes  *)
(* on with whatever it finds.  An envelope is a function of its fields.    *)
(***************************************************************************)
EXTENDS Integers, Sequences

CONSTANTS
    Envelopes,           \* what users encode
    SchemaKeys,          \* the <<channel, payload_type, schema_id>> rules are made for
    LegalChars,          \* the bytes isValidChar accepts
    MaxFieldBytes,       \* kMaxEnvelopeFieldBytes
    MaxPayloadBytes,     \* max_payload_bytes_ of each codec
    Units                \* bound: what a damaged unit may become

Codecs == {"sender", "receiver"}

ASSUME CodecAssumption ==
    /\ LegalChars \subseteq Nat /\ Units \subseteq Nat
    /\ MaxFieldBytes \in Nat /\ MaxPayloadBytes \in [Codecs -> Nat]

VARIABLES
    allowed_schemas,     \* allowed_schemas_ of each codec; empty: everything is allowed
    source,              \* the envelope that was encoded last
    wire,                \* the message under way
    damage,              \* what the network did to it: [kind, at]
    result               \* the DecodeResult, or Undecoded

vars == <<allowed_schemas, source, wire, damage, result>>

-----------------------------------------------------------------------------
kMagic == 9
kFormatVersion == 1
kCurrentEnvelopeSchemaVersion == 1

\* The fields in the order in which encode writes them.
encodeOrder ==
    <<"schema_version", "session_id", "team_id", "task_id", "participant_id", "channel",
      "sender_id", "node_id", "seq", "produce_cycle", "target_cycle", "t_cycle_start_ns",
      "t_produce_start_ns", "t_produce_finish_ns", "t_publish_ns", "period_ns",
      "publish_deadline_ns", "ttl_ns", "producer_status", "clock_ok", "clock_offset_ns",
      "clock_uncertainty_ns", "payload_type", "schema_id", "payload_crc32c", "payload">>

\* Mutant: the deadline and the time to live are read in the wrong order.
decodeOrderSwapped ==
    [encodeOrder EXCEPT ![17] = encodeOrder[18], ![18] = encodeOrder[17]]

\* The fields in the order in which decode reads them.
decodeOrder ==
    <<"schema_version", "session_id", "team_id", "task_id", "participant_id", "channel",
      "sender_id", "node_id", "seq", "produce_cycle", "target_cycle", "t_cycle_start_ns",
      "t_produce_start_ns", "t_produce_finish_ns", "t_publish_ns", "period_ns",
      "publish_deadline_ns", "ttl_ns", "producer_status", "clock_ok", "clock_offset_ns",
      "clock_uncertainty_ns", "payload_type", "schema_id", "payload_crc32c", "payload">>

Fields == {encodeOrder[i] : i \in DOMAIN encodeOrder}

Texts == {"session_id", "team_id", "task_id", "participant_id", "channel", "sender_id",
          "node_id", "payload_type", "schema_id"}

Sized == Texts \cup {"payload"}

UnknownStatus == 255     \* ProducerStatus::Unknown

\* SampleEnvelope as it is constructed.
EmptyEnvelope ==
    [f \in Fields |-> IF f \in Sized THEN << >>
                      ELSE IF f = "clock_ok" THEN FALSE
                      ELSE IF f = "schema_version" THEN kCurrentEnvelopeSchemaVersion
                      ELSE IF f = "producer_status" THEN UnknownStatus ELSE 0]

-----------------------------------------------------------------------------
(* Validation                                                              *)

\* A checksum in place of CRC-32C, with the one property of it that the model needs:
\* payloads of one length that differ in one unit have different sums.
crc32c(payload) ==
    LET crc[n \in 0 .. Len(payload)] ==
            IF n = 0 THEN Len(payload) ELSE (3 * crc[n - 1] + payload[n]) % 31
    IN  crc[Len(payload)]

\* Mutant: the checksum is not looked at.
verifyPayloadCrcNot(e) == TRUE

verifyPayloadCrc(e) == crc32c(e["payload"]) = e["payload_crc32c"]

isValidTaskKeyField(text) == text # << >> /\ \A i \in DOMAIN text : text[i] \in LegalChars

isKnownProducerStatus(status) == status \in (0 .. 4) \cup {UnknownStatus}

\* The status of the result; Fresh when it is ok.
validateSampleEnvelope(e, max_payload_bytes, verify_payload_crc) ==
    IF e["schema_version"] # kCurrentEnvelopeSchemaVersion THEN "TransportError"
    ELSE IF Len(e["payload"]) > max_payload_bytes THEN "BadPayload"
    ELSE IF ~ \A f \in {"session_id", "task_id", "participant_id", "channel", "schema_id"} :
                  isValidTaskKeyField(e[f])
    THEN "TransportError"
    ELSE IF ~ isKnownProducerStatus(e["producer_status"]) THEN "TransportError"
    ELSE IF verify_payload_crc /\ ~ verifyPayloadCrc(e) THEN "BadPayload"
    ELSE "Fresh"

isSchemaAccepted(codec, e) ==
    \/ allowed_schemas[codec] = {}
    \/ <<e["channel"], e["payload_type"], e["schema_id"]>> \in allowed_schemas[codec]

validate(codec, e) ==
    LET status == validateSampleEnvelope(e, MaxPayloadBytes[codec], TRUE)
    IN  IF status = "Fresh" /\ ~ isSchemaAccepted(codec, e) THEN "BadSchema" ELSE status

withSender(e) ==
    IF e["sender_id"] = << >> THEN [e EXCEPT !["sender_id"] = e["participant_id"]] ELSE e

-----------------------------------------------------------------------------
(* Encoding                                                                *)

write(f, value) ==
    IF f \in Sized THEN <<Len(value)>> \o value
    ELSE IF f = "clock_ok" THEN <<IF value THEN 1 ELSE 0>>
    ELSE <<value>>

\* What encode fills in.
completed(e) ==
    [withSender(e) EXCEPT !["payload_crc32c"] = crc32c(e["payload"])]

\* encode throws when this does not hold.
encodes(codec, e) ==
    /\ validateSampleEnvelope(withSender(e), MaxPayloadBytes[codec], FALSE) = "Fresh"
    /\ isSchemaAccepted(codec, withSender(e))

encoded(e) ==
    LET out[n \in 0 .. Len(encodeOrder)] ==
            IF n = 0 THEN <<kMagic, kFormatVersion>>
            ELSE out[n - 1] \o write(encodeOrder[n], completed(e)[encodeOrder[n]])
    IN  out[Len(encodeOrder)]

-----------------------------------------------------------------------------
(* Decoding                                                                *)

limit(codec, f) == IF f = "payload" THEN MaxPayloadBytes[codec] ELSE MaxFieldBytes

\* The reader after one more field; r.rest is what it has not read yet.
read(codec, r, f) ==
    LET u    == Head(r.rest)
        more == Tail(r.rest)
        put(value, rest) == [ok |-> TRUE, rest |-> rest,
                             envelope |-> [r.envelope EXCEPT ![f] = value]]
    IN  IF ~ r.ok \/ r.rest = << >> THEN [r EXCEPT !.ok = FALSE]
        ELSE IF f \in Sized
        THEN IF u > limit(codec, f) \/ u > Len(more) THEN [r EXCEPT !.ok = FALSE]
             ELSE put(SubSeq(more, 1, u), SubSeq(more, u + 1, Len(more)))
        ELSE put(IF f = "clock_ok" THEN u # 0 ELSE u, more)

\* Mutant: what follows the payload is ignored.
doneAnyway(rest) == TRUE

done(rest) == rest = << >>

\* An error carries no envelope here; the code returns what it has read so far.
errorResult(status) == [ok |-> FALSE, status |-> status, envelope |-> EmptyEnvelope]

decoded(codec, bytes) ==
    LET begun == Len(bytes) >= 2 /\ bytes[1] = kMagic /\ bytes[2] = kFormatVersion
        reader[n \in 0 .. Len(decodeOrder)] ==
            IF n = 0
            THEN [ok |-> TRUE, rest |-> SubSeq(bytes, 3, Len(bytes)),
                  envelope |-> EmptyEnvelope]
            ELSE read(codec, reader[n - 1], decodeOrder[n])
        last   == reader[Len(decodeOrder)]
        e      == withSender(last.envelope)
        status == validate(codec, e)
    IN  IF ~ begun THEN errorResult("TransportError")
        ELSE IF ~ last.ok \/ ~ done(last.rest) THEN errorResult("TransportError")
        ELSE IF status # "Fresh" THEN errorResult(status)
        ELSE [ok |-> TRUE, status |-> "Fresh", envelope |-> e]

-----------------------------------------------------------------------------
(* The two codecs and the network between them                             *)

Undecoded == [ok |-> FALSE, status |-> "Missing", envelope |-> EmptyEnvelope]

Undamaged == [kind |-> "none", at |-> 0]

Init ==
    /\ allowed_schemas = [c \in Codecs |-> {}]
    /\ source = EmptyEnvelope
    /\ wire = << >>
    /\ damage = Undamaged
    /\ result = Undecoded

allowSchema(codec, key) ==
    /\ allowed_schemas' = [allowed_schemas EXCEPT ![codec] = @ \cup {key}]
    /\ UNCHANGED <<source, wire, damage, result>>

clearSchemaRules(codec) ==
    /\ allowed_schemas' = [allowed_schemas EXCEPT ![codec] = {}]
    /\ UNCHANGED <<source, wire, damage, result>>

\* encode; the message before is off the wire.
encode(e) ==
    /\ wire = << >> /\ encodes("sender", e)
    /\ source' = e
    /\ wire' = encoded(e)
    /\ damage' = Undamaged
    /\ result' = Undecoded
    /\ UNCHANGED allowed_schemas

\* External: the network damages a message once.
Damage(kind, at, bytes) ==
    /\ wire # << >> /\ damage = Undamaged
    /\ wire' = bytes
    /\ damage' = [kind |-> kind, at |-> at]
    /\ UNCHANGED <<allowed_schemas, source, result>>

Cut(n) == Damage("cut", n, SubSeq(wire, 1, n))
Lengthen(u) == Damage("longer", Len(wire) + 1, Append(wire, u))
Change(i, u) == wire[i] # u /\ Damage("changed", i, [wire EXCEPT ![i] = u])

decode ==
    /\ wire # << >>
    /\ result' = decoded("receiver", wire)
    /\ wire' = << >>
    /\ UNCHANGED <<allowed_schemas, source, damage>>

Next ==
    \/ \E c \in Codecs :
        (\E key \in SchemaKeys : allowSchema(c, key)) \/ clearSchemaRules(c)
    \/ \E e \in Envelopes : encode(e)
    \/ \E n \in 1 .. Len(wire) - 1 : Cut(n)
    \/ \E u \in Units : Lengthen(u)
    \/ \E i \in DOMAIN wire, u \in Units : Change(i, u)
    \/ decode

Spec == Init /\ [][Next]_vars

-----------------------------------------------------------------------------
(* Properties                                                              *)

isDecode == result = Undecoded /\ result' # Undecoded

\* What encode let pass arrives as it was, each of the 26 fields in its place, with the sender and the
\* checksum filled in, whatever the sizes: it is refused just when a text is longer than
\* decode reads, which encode does not look at, when the payload is too long for the
\* receiver, or when the receiver's rules of that moment do not have its schema (encode,
\* decode).
ArrivesAsSent ==
    [][isDecode /\ damage = Undamaged =>
          LET e == completed(source)
          IN  result' =
                IF \/ \E f \in Texts : Len(e[f]) > MaxFieldBytes
                   \/ Len(e["payload"]) > MaxPayloadBytes["receiver"]
                THEN errorResult("TransportError")
                ELSE IF ~ isSchemaAccepted("receiver", e) THEN errorResult("BadSchema")
                ELSE [ok |-> TRUE, status |-> "Fresh", envelope |-> e]]_vars

\* A message that lost its end or got something after it is never accepted, whatever it
\* holds; one whose payload or checksum was changed is not either, and is reported as
\* BadPayload when there is nothing else to report (Reader, verifyPayloadCrc).
DamageIsRefused ==
    [][isDecode =>
          LET crcAt == Len(wire) - Len(source["payload"]) - 1
              hit   == damage.kind = "changed" /\ damage.at >= crcAt
          IN  /\ damage.kind \in {"cut", "longer"} => result'.status = "TransportError"
              /\ hit => ~ result'.ok
              /\ /\ hit /\ damage.at # crcAt + 1
                 /\ \A f \in Texts : Len(completed(source)[f]) <= MaxFieldBytes
                 /\ Len(source["payload"]) <= MaxPayloadBytes["receiver"]
                 => result'.status = "BadPayload"]_vars

\* Whatever decode accepts, also of a damaged message, it accepts again in the same form
\* when it is encoded and decoded once more by a codec with the receiver's settings: an
\* accepted envelope satisfies everything encode asks for (validate, encode).
AcceptedCanBeRelayed ==
    [][isDecode /\ result'.ok =>
          /\ encodes("receiver", result'.envelope)
          /\ decoded("receiver", encoded(result'.envelope)) = result']_vars

=============================================================================
