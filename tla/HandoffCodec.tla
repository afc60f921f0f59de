----------------------------- MODULE HandoffCodec -----------------------------
(***************************************************************************)
(* The frames of the server-switcher handoff: a four-byte length and a     *)
(* body, a request one way and one of three responses the other.  One      *)
(* frame is written, may be damaged on the pipe, and is decoded by the     *)
(* boundary its direction calls for.                                       *)
(***************************************************************************)
EXTENDS WireFormat

CONSTANT Messages   \* the requests and responses to send

PrefixLen == 4

KindCode == [FrameRead |-> 1, NoFrame |-> 2, HandoffError |-> 3]

VARIABLES message, packet, damage, result

vars == <<message, packet, damage, result>>
-----------------------------------------------------------------------------
(* Bodies.  The request's and each response's fields after the head.       *)

encode_request ==
  << <<"handoff_version", "u32">>, <<"request_id", "u64">>, <<"client_id", "string">>,
     <<"run_id", "string">>, <<"read_mode", "mode">> >>

encode_FrameRead ==
  << <<"remaining_client_queue_len", "u32">>, <<"decodable_source", "source">>,
     <<"retained_keyframe_available", "flag">>, <<"retained_keyframe_frame_id", "u64">>,
     <<"client_id", "string">>, <<"run_id", "string">>, <<"frame_id", "u64">>,
     <<"capture_timestamp", "u64">>, <<"send_timestamp", "u64">>, <<"queued_at", "u64">>,
     <<"width", "u32">>, <<"height", "u32">>, <<"fps_nominal", "u32">>,
     <<"is_keyframe", "flag">>, <<"codec", "codec">>, <<"encoded_payload", "bytes">> >>

encode_NoFrame ==
  << <<"client_queue_len", "u32">>, <<"no_frame_reason", "noFrame">>,
     <<"decodable_source", "source">>, <<"retained_keyframe_available", "flag">>,
     <<"retained_keyframe_frame_id", "u64">>, <<"client_id", "string">>,
     <<"run_id", "string">>, <<"read_mode", "mode">> >>

encode_HandoffError == << <<"error", "error">> >>

decode_request ==
  << <<"handoff_version", "u32">>, <<"request_id", "u64">>, <<"client_id", "string">>,
     <<"run_id", "string">>, <<"read_mode", "mode">> >>

decode_FrameRead ==
  << <<"remaining_client_queue_len", "u32">>, <<"decodable_source", "source">>,
     <<"retained_keyframe_available", "flag">>, <<"retained_keyframe_frame_id", "u64">>,
     <<"client_id", "string">>, <<"run_id", "string">>, <<"frame_id", "u64">>,
     <<"capture_timestamp", "u64">>, <<"send_timestamp", "u64">>, <<"queued_at", "u64">>,
     <<"width", "u32">>, <<"height", "u32">>, <<"fps_nominal", "u32">>,
     <<"is_keyframe", "flag">>, <<"codec", "codec">>, <<"encoded_payload", "bytes">> >>

\* The two codes behind client_queue_len are one byte each.
decode_NoFrame ==
  << <<"client_queue_len", "u32">>, <<"no_frame_reason", "noFrame">>,
     <<"decodable_source", "source">>, <<"retained_keyframe_available", "flag">>,
     <<"retained_keyframe_frame_id", "u64">>, <<"client_id", "string">>,
     <<"run_id", "string">>, <<"read_mode", "mode">> >>

decode_HandoffError == << <<"error", "error">> >>

EncodeLayout == [FrameRead |-> encode_FrameRead, NoFrame |-> encode_NoFrame,
                 HandoffError |-> encode_HandoffError]
DecodeLayout == [FrameRead |-> decode_FrameRead, NoFrame |-> decode_NoFrame,
                 HandoffError |-> decode_HandoffError]
-----------------------------------------------------------------------------
(* Encoding.                                                               *)

frame_body(body) == LE32(Len(body)) \o body

Zero64 == <<0, 0, 0, 0, 0, 0, 0, 0>>

Retains(m) == m.kind \in {"FrameRead", "NoFrame"}

\* The optional keyframe id has a fixed place: 0 stands for none.
ToWire(m) ==
  IF ~Retains(m) THEN m.fields
  ELSE [m.fields EXCEPT !.retained_keyframe_frame_id = IF @ = <<>> THEN Zero64 ELSE @[1]]

LayoutOf(m) == IF m.kind = "Request" THEN encode_request ELSE EncodeLayout[m.kind]

Encodable(m) ==
  /\ m.kind = "FrameRead" =>
       m.fields.encoded_payload_len = Len(m.fields.encoded_payload)
  /\ \A i \in DOMAIN LayoutOf(m) :
       LET f == LayoutOf(m)[i] IN ~TooLong(f[2], m.fields[f[1]])

\* encode_request_frame, encode_response_frame
encode_frame(m) ==
  IF m.kind = "Request" THEN frame_body(WriteFields(encode_request, m.fields))
  ELSE frame_body(m.request_id \o <<KindCode[m.kind]>>
                    \o WriteFields(EncodeLayout[m.kind], ToWire(m)))
-----------------------------------------------------------------------------
(* Decoding.                                                               *)

Rejected(why) == [ok |-> FALSE, err |-> why]

\* decode_framed_body
FrameError(p) ==
  IF Len(p) < PrefixLen THEN "FramePrefixTooShort"
  ELSE IF Len(p) - PrefixLen < LengthOf(SubSeq(p, 1, PrefixLen)) THEN "TruncatedFrame"
  ELSE IF Len(p) - PrefixLen > LengthOf(SubSeq(p, 1, PrefixLen)) THEN "TrailingBytes"
  ELSE "None"

Body(p) == SubSeq(p, PrefixLen + 1, PrefixLen + LengthOf(SubSeq(p, 1, PrefixLen)))

\* The id counts only under its flag.
FromWire(kind, fields) ==
  IF kind = "HandoffError" THEN fields
  ELSE [fields EXCEPT !.retained_keyframe_frame_id =
          IF fields.retained_keyframe_available THEN <<@>> ELSE <<>>]

\* FrameRead carries its payload length on its own.
Completed(kind, fields) ==
  IF kind # "FrameRead" THEN fields
  ELSE ("encoded_payload_len" :> Len(fields.encoded_payload)) @@ fields

decode_request_body(body) ==
  LET r == Finish(ReadFields(Reader(body), decode_request))
  IN  IF r.err # "None" THEN Rejected(r.err)
      ELSE [ok |-> TRUE, message |-> [kind |-> "Request", fields |-> r.fields]]

decode_response_body(body) ==
  LET id    == Take(Reader(body), 8)
      code  == Take(id, 1)
      kinds == {k \in DOMAIN KindCode : <<KindCode[k]>> = code.got}
      kind  == CHOOSE k \in kinds : TRUE
      r     == Finish(ReadFields(code, DecodeLayout[kind]))
  IN  IF code.err # "None" THEN Rejected(code.err)
      ELSE IF kinds = {} THEN Rejected("UnknownResponseKind")
      ELSE IF r.err # "None" THEN Rejected(r.err)
      ELSE [ok |-> TRUE,
            message |-> [kind |-> kind, request_id |-> id.got,
                         fields |-> Completed(kind, FromWire(kind, r.fields))]]

\* decode_request_frame, decode_response_frame
decode_frame(p, isRequest) ==
  IF FrameError(p) # "None" THEN Rejected(FrameError(p))
  ELSE IF isRequest THEN decode_request_body(Body(p)) ELSE decode_response_body(Body(p))
-----------------------------------------------------------------------------
(* One frame on its way.                                                   *)

Nothing == [ok |-> FALSE, err |-> "Undecided"]

Init ==
  /\ message \in Messages
  /\ packet = <<>>
  /\ damage = "Unsent"
  /\ result = Nothing

Encode ==
  /\ damage = "Unsent"
  /\ IF Encodable(message)
     THEN packet' = encode_frame(message) /\ damage' = "None"
     ELSE packet' = <<>> /\ damage' = "Refused"
  /\ UNCHANGED <<message, result>>

Damage(bytes, how) ==
  /\ damage = "None" /\ result = Nothing
  /\ packet' \in bytes
  /\ damage' = how
  /\ UNCHANGED <<message, result>>

Truncate == Damage(Truncations(packet), "Truncated")
Extend   == Damage(Extensions(packet), "Extended")
Corrupt  == Damage(Corruptions(packet), "Corrupted")

Decode ==
  /\ damage \in {"None", "Truncated", "Extended", "Corrupted"}
  /\ result = Nothing
  /\ result' = decode_frame(packet, message.kind = "Request")
  /\ UNCHANGED <<message, packet, damage>>

Next == Encode \/ Truncate \/ Extend \/ Corrupt \/ Decode

Spec == Init /\ [][Next]_vars
-----------------------------------------------------------------------------
(* Properties.                                                             *)

\* The flag decides whether there is a retained keyframe, whatever the sender
\* put beside it: an id without the flag is lost, the flag without an id is 0.
Received(m) ==
  IF ~Retains(m) THEN m
  ELSE [m EXCEPT !.fields.retained_keyframe_frame_id =
          IF ~m.fields.retained_keyframe_available THEN <<>>
          ELSE IF @ = <<>> THEN <<Zero64>> ELSE @]

\* Encoder and decoder agree on requests and on every response: an undamaged
\* frame decodes to the message that was sent.
HandoffRoundTrip ==
  damage = "None" /\ result # Nothing =>
    result.ok /\ result.message = Received(message)

\* Where a decoded response's flags lie, and the id beside a clear flag.
LooseBytes(m) ==
  IF ~Retains(m) THEN {}
  ELSE LET flag == IF m.kind = "FrameRead" THEN 19 ELSE 20
           name == Len(m.fields.client_id) + Len(m.fields.run_id)
       IN  {flag}
           \cup (IF m.fields.retained_keyframe_available THEN {} ELSE flag + 1 .. flag + 8)
           \cup (IF m.kind = "FrameRead" THEN {76 + name} ELSE {})

\* Apart from the flags, where every byte but 0 means yes, and the id beside a
\* clear flag, a response can be written in one way only: whatever a damaged
\* frame decodes to is written again as that very frame.
HandoffCanonical ==
  result.ok =>
    LET again == encode_frame(result.message)
    IN  /\ Len(again) = Len(packet)
        /\ \A i \in DOMAIN packet : i \in LooseBytes(result.message) \/ packet[i] = again[i]

\* A frame cut short, or with another byte behind it, is never read.
WholeFramesOnly == damage \in {"Truncated", "Extended"} => ~result.ok

\* Encoder and decoder of the handoff are inverse to each other.
HandoffCodecInvariant == HandoffRoundTrip /\ HandoffCanonical /\ WholeFramesOnly
=============================================================================
