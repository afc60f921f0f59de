---------------------------- MODULE ProtocolCodec ----------------------------
(***************************************************************************)
(* The wire protocol between client and server: each message is encoded    *)
(* into a 16-byte header and a payload, crosses a network that may damage  *)
(* it, and is decoded in the order header, version, payload.  Encoder and  *)
(* decoder each have a layout of their own, as in the code.                *)
(***************************************************************************)
EXTENDS WireFormat

CONSTANTS
  Messages,      \* the messages the sender encodes
  Version        \* the protocol version of both sides, one byte

CodecAssumption == Version \in 0 .. 255

HeaderLen == 16

TypeCode == [AuthRequest |-> 1, AuthResponse |-> 2, Heartbeat |-> 3,
             HeartbeatAck |-> 4, VideoFrame |-> 5, ClientStats |-> 6,
             ServerNotice |-> 7, VideoFrameFragment |-> 8]

TypeOf(code) == CHOOSE t \in DOMAIN TypeCode : TypeCode[t] = code
KnownType(code) == \E t \in DOMAIN TypeCode : TypeCode[t] = code

VARIABLES
  message,   \* what the sender encoded
  packet,    \* the bytes on the way
  damage,    \* what the network did to them
  result     \* what InboundPacketDecoder::decode returned

vars == <<message, packet, damage, result>>
-----------------------------------------------------------------------------
(* Encoding.                                                               *)

Identity == <<<<"client_id", "string">>, <<"run_id", "string">>>>

\* The fields encode_*_payload writes, in its order.
encode_auth_request_payload ==
  Identity \o << <<"app_version", "string">>, <<"shared_token", "string">>,
                 <<"display_name", "optString">> >>

encode_auth_response_payload ==
  Identity \o << <<"accepted", "bool">>, <<"reason_code", "reason">>,
                 <<"message", "optString">>, <<"server_time", "optU64">>,
                 <<"expected_protocol_version", "optU32">> >>

encode_heartbeat_payload ==
  Identity \o << <<"sent_at", "u64">>, <<"local_time", "optU64">>,
                 <<"short_status", "optString">> >>

encode_heartbeat_ack_payload ==
  Identity \o << <<"echoed_sent_at", "u64">>, <<"server_received_at", "u64">>,
                 <<"server_sent_at", "u64">> >>

encode_video_frame_payload ==
  Identity \o << <<"frame_id", "u64">>, <<"capture_timestamp", "u64">>,
                 <<"send_timestamp", "u64">>, <<"is_keyframe", "bool">>,
                 <<"metadata_reserved", "zero3">>, <<"width", "u32">>,
                 <<"height", "u32">>, <<"fps_nominal", "u32">>,
                 <<"codec", "codec">>, <<"payload", "bytes">> >>

encode_video_frame_fragment_payload ==
  Identity \o << <<"frame_id", "u64">>, <<"capture_timestamp", "u64">>,
                 <<"is_keyframe", "bool">>, <<"width", "u32">>, <<"height", "u32">>,
                 <<"fps_nominal", "u32">>, <<"total_payload_len", "u32">>,
                 <<"chunk_index", "u32">>, <<"chunk_count", "u32">>,
                 <<"payload", "bytes">> >>

encode_client_stats_payload ==
  Identity \o << <<"sent_at", "u64">>, <<"capture_fps", "u32">>,
                 <<"dropped_frames", "u64">>, <<"bitrate_kbps", "u32">>,
                 <<"heartbeat_observation", "optObs">> >>

encode_server_notice_payload ==
  << <<"run_id", "string">>, <<"notice_type", "notice">>, <<"message", "string">> >>

EncodeLayout ==
  [AuthRequest |-> encode_auth_request_payload,
   AuthResponse |-> encode_auth_response_payload,
   Heartbeat |-> encode_heartbeat_payload,
   HeartbeatAck |-> encode_heartbeat_ack_payload,
   VideoFrame |-> encode_video_frame_payload,
   VideoFrameFragment |-> encode_video_frame_fragment_payload,
   ClientStats |-> encode_client_stats_payload,
   ServerNotice |-> encode_server_notice_payload]

\* encode_video_frame_payload, encode_video_frame_fragment_payload: what the
\* message claims of its payload must be so before anything is written.
PayloadAsClaimed(m) ==
  /\ m.type \in {"VideoFrame", "VideoFrameFragment"} =>
       m.fields.payload_len = Len(m.fields.payload)
  /\ m.type = "VideoFrame" => m.fields.metadata_reserved = <<0, 0, 0>>

Encodable(m) ==
  /\ PayloadAsClaimed(m)
  /\ \A i \in DOMAIN EncodeLayout[m.type] :
       LET f == EncodeLayout[m.type][i] IN ~TooLong(f[2], m.fields[f[1]])

encode_fixed_header(type, payloadLen) ==
  LE16(TypeCode[type]) \o LE16(HeaderLen) \o <<Version, 0, 0, 0>>
    \o LE32(payloadLen) \o <<0, 0, 0, 0>>

encode_message(m) ==
  LET payload == WriteFields(EncodeLayout[m.type], m.fields)
  IN  encode_fixed_header(m.type, Len(payload)) \o payload
-----------------------------------------------------------------------------
(* Decoding.                                                               *)

\* The fields decode_*_payload reads, in its order.
decode_auth_request_payload ==
  Identity \o << <<"app_version", "string">>, <<"shared_token", "string">>,
                 <<"display_name", "optString">> >>

decode_auth_response_payload ==
  Identity \o << <<"accepted", "bool">>, <<"reason_code", "reason">>,
                 <<"message", "optString">>, <<"server_time", "optU64">>,
                 <<"expected_protocol_version", "optU32">> >>

decode_heartbeat_payload ==
  Identity \o << <<"sent_at", "u64">>, <<"local_time", "optU64">>,
                 <<"short_status", "optString">> >>

decode_heartbeat_ack_payload_TimesSwapped ==
  Identity \o << <<"echoed_sent_at", "u64">>, <<"server_sent_at", "u64">>,
                 <<"server_received_at", "u64">> >>

decode_heartbeat_ack_payload ==
  Identity \o << <<"echoed_sent_at", "u64">>, <<"server_received_at", "u64">>,
                 <<"server_sent_at", "u64">> >>

decode_video_frame_payload ==
  Identity \o << <<"frame_id", "u64">>, <<"capture_timestamp", "u64">>,
                 <<"send_timestamp", "u64">>, <<"is_keyframe", "bool">>,
                 <<"metadata_reserved", "zero3">>, <<"width", "u32">>,
                 <<"height", "u32">>, <<"fps_nominal", "u32">>,
                 <<"codec", "codec">>, <<"payload", "bytes">> >>

decode_video_frame_fragment_payload ==
  Identity \o << <<"frame_id", "u64">>, <<"capture_timestamp", "u64">>,
                 <<"is_keyframe", "bool">>, <<"width", "u32">>, <<"height", "u32">>,
                 <<"fps_nominal", "u32">>, <<"total_payload_len", "u32">>,
                 <<"chunk_index", "u32">>, <<"chunk_count", "u32">>,
                 <<"payload", "bytes">> >>

decode_client_stats_payload ==
  Identity \o << <<"sent_at", "u64">>, <<"capture_fps", "u32">>,
                 <<"dropped_frames", "u64">>, <<"bitrate_kbps", "u32">>,
                 <<"heartbeat_observation", "optObs">> >>

decode_server_notice_payload ==
  << <<"run_id", "string">>, <<"notice_type", "notice">>, <<"message", "string">> >>

\* decode_payload_by_message_type
DecodeLayout ==
  [AuthRequest |-> decode_auth_request_payload,
   AuthResponse |-> decode_auth_response_payload,
   Heartbeat |-> decode_heartbeat_payload,
   HeartbeatAck |-> decode_heartbeat_ack_payload,
   VideoFrame |-> decode_video_frame_payload,
   VideoFrameFragment |-> decode_video_frame_fragment_payload,
   ClientStats |-> decode_client_stats_payload,
   ServerNotice |-> decode_server_notice_payload]

Rejected(why) == [ok |-> FALSE, err |-> why]

\* What the decoder fills in that the payload does not carry.
Completed(type, fields) ==
  CASE type = "AuthRequest" ->
       ("capabilities" :> <<>> @@ "requested_video_profile" :> <<>>) @@ fields
    [] type = "ClientStats" ->
       ("observed_client" :> fields.client_id) @@ fields
    [] type \in {"VideoFrame", "VideoFrameFragment"} ->
       ("payload_len" :> Len(fields.payload)) @@ fields
    [] OTHER -> fields

decode_payload(type, payload) ==
  LET r == Finish(ReadFields(Reader(payload), DecodeLayout[type]))
  IN  IF r.err # "None" THEN Rejected(r.err)
      ELSE [ok |-> TRUE, message |-> [type |-> type, fields |-> Completed(type, r.fields)]]

\* decode_fixed_header
HeaderError(p) ==
  IF Len(p) < HeaderLen THEN "BufferTooShort"
  ELSE IF ~KnownType(LengthOf(SubSeq(p, 1, 2))) THEN "UnknownMessageType"
  ELSE IF LengthOf(SubSeq(p, 3, 4)) # HeaderLen THEN "InvalidHeaderLength"
  ELSE IF Len(p) # HeaderLen + LengthOf(SubSeq(p, 9, 12)) THEN "InvalidPayloadLength"
  ELSE "None"

\* InboundPacketDecoder::decode
decode(p) ==
  IF HeaderError(p) # "None" THEN Rejected(HeaderError(p))
  ELSE IF SubSeq(p, 5, 8) # <<Version, 0, 0, 0>> THEN Rejected("UnsupportedProtocolVersion")
  ELSE decode_payload(TypeOf(LengthOf(SubSeq(p, 1, 2))),
                      SubSeq(p, HeaderLen + 1, HeaderLen + LengthOf(SubSeq(p, 9, 12))))
-----------------------------------------------------------------------------
(* One message on its way.                                                 *)

Nothing == [ok |-> FALSE, err |-> "Undecided"]

Init ==
  /\ message \in Messages
  /\ packet = <<>>
  /\ damage = "Unsent"
  /\ result = Nothing

Encode ==
  /\ damage = "Unsent"
  /\ IF Encodable(message)
     THEN packet' = encode_message(message) /\ damage' = "None"
     ELSE packet' = <<>> /\ damage' = "Refused"
  /\ UNCHANGED <<message, result>>

InTransit == damage = "None" /\ result = Nothing

Damage(bytes, how) ==
  /\ InTransit
  /\ packet' \in bytes
  /\ damage' = how
  /\ UNCHANGED <<message, result>>

Truncate == Damage(Truncations(packet), "Truncated")
Extend   == Damage(Extensions(packet), "Extended")
Corrupt  == Damage(Corruptions(packet), "Corrupted")

Decode ==
  /\ damage \in {"None", "Truncated", "Extended", "Corrupted"}
  /\ result = Nothing
  /\ result' = decode(packet)
  /\ UNCHANGED <<message, packet, damage>>

Next == Encode \/ Truncate \/ Extend \/ Corrupt \/ Decode

Spec == Init /\ [][Next]_vars
-----------------------------------------------------------------------------
(* Properties.                                                             *)

\* What arrives of a message: an AuthRequest loses its capabilities and video
\* profile, and an observation is taken to be the carrier's own, because the
\* payload has no room for another identity.
Received(m) ==
  CASE m.type = "AuthRequest" ->
       [m EXCEPT !.fields.capabilities = <<>>, !.fields.requested_video_profile = <<>>]
    [] m.type = "ClientStats" -> [m EXCEPT !.fields.observed_client = m.fields.client_id]
    [] OTHER -> m

\* Encoder and decoder agree: an undamaged packet of any type, with and without
\* its optional fields, decodes to the message that was sent.
RoundTrip ==
  damage = "None" /\ result # Nothing =>
    result.ok /\ result.message = Received(message)

\* There is one way to write a message: whatever the network did, a packet that
\* still decodes is, but for the header's flags and reserved bytes that the
\* decoder ignores, exactly what the encoder writes for the decoded message.
Canonical ==
  result.ok =>
    LET again == encode_message(result.message)
    IN  /\ Len(again) = Len(packet)
        /\ \A i \in DOMAIN packet : i \in 13 .. 16 \/ packet[i] = again[i]

\* A datagram cut short or with bytes appended (a receive buffer too small, two
\* packets run together) never decodes to anything.
WholePacketsOnly == damage \in {"Truncated", "Extended"} => ~result.ok

PlannedPayload(m) ==
  CASE m.type = "VideoFrame" -> 46 + Len(m.fields.payload)
    [] m.type = "VideoFrameFragment" -> 45 + Len(m.fields.payload)
    [] m.type = "ClientStats" ->
         25 + (IF m.fields.heartbeat_observation = <<>> THEN 0 ELSE 32)

\* The constants that plan a packet's size (VIDEO_FRAME_NUMERIC_METADATA_LEN,
\* VIDEO_FRAME_FRAGMENT_NUMERIC_METADATA_LEN, CLIENT_STATS_*_LEN), on which the
\* client's fragment size rests, are what the encoder really writes.
SizesAsPlanned ==
  damage = "None" /\ message.type \in {"VideoFrame", "VideoFrameFragment", "ClientStats"} =>
    Len(packet) = HeaderLen + 2 + Len(message.fields.client_id)
                    + 2 + Len(message.fields.run_id) + PlannedPayload(message)

\* Encoder and decoder are inverse to each other, and as large as planned.
CodecInvariant == RoundTrip /\ Canonical /\ WholePacketsOnly /\ SizesAsPlanned
=============================================================================
