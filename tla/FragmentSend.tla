----------------------------- MODULE FragmentSend -----------------------------
(***************************************************************************)
(* A client that sends encoded frames, and the server's video core that    *)
(* receives them.  A frame that fits in one safe datagram is sent whole;   *)
(* a larger one is cut into fragments, each encoded and sent on its own,   *)
(* and the first send that fails abandons the rest.  What is on the wire   *)
(* may be lost, repeated and reordered.                                    *)
(*                                                                         *)
(* Lengths are bytes.  A frame is a record of its client, run, id, stamp,  *)
(* keyframe flag and size.                                                 *)
(***************************************************************************)
EXTENDS VideoIngest

CONSTANTS
  Frames,         \* the encoded frames, in the order they are sent
  Endpoint,       \* where the client sends from
  IdLen,          \* length of a client_id or run_id
  SafeMax,        \* safe_max_datagram_len
  TargetChunk,    \* target_chunk_payload_len
  DelayEvery      \* ClientVideoFrameFragmentPacingPolicy::delay_every_fragments

FragmentSendAssumption ==
  /\ Endpoint \in Sources
  /\ IdLen \in [Clients \cup Runs -> Nat]
  /\ SafeMax \in Nat /\ TargetChunk \in Nat \ {0} /\ DelayEvery \in Nat
  /\ Frames \in Seq([client : Clients, run : Runs, id : FrameIds, stamp : Stamps,
                     key : BOOLEAN, size : Nat])

VARIABLES
  next,       \* how many frames the client has taken up
  fragments,  \* datagrams of the current frame still to send
  progress,   \* fragments of the current frame sent, and pacing sleeps made
  reports,    \* what send_one returned, in order
  wire,       \* datagrams handed to the network
  accepted,   \* history: those that passed the server's gate
  stored      \* history: the frames that were ever queued

clientVars == <<next, fragments, progress, reports>>
linkVars == <<wire, accepted, stored>>

HeaderLen == 16
IdsLen(f) == 2 + IdLen[f.client] + 2 + IdLen[f.run]
VideoFrameLen(f) == HeaderLen + IdsLen(f) + 46 + f.size
FragmentLen(f, chunk) == HeaderLen + IdsLen(f) + 45 + chunk

fragment_overhead_len(f) == HeaderLen + 2 + IdLen[f.client] + 2 + IdLen[f.run] + 45

Fits(f) == fragment_overhead_len(f) < SafeMax

SmallerOf(a, b) == IF a < b THEN a ELSE b

max_chunk_payload_len(f) == SmallerOf(TargetChunk, SafeMax - fragment_overhead_len(f))

chunk_count_Floor(f) == f.size \div max_chunk_payload_len(f)
chunk_count(f) == (f.size + max_chunk_payload_len(f) - 1) \div max_chunk_payload_len(f)

Piece(f, i, len) == [source |-> Endpoint, stamp |-> f.stamp, index |-> i, len |-> len]

\* The datagram that carries the whole frame.
encode_handoff(f) ==
  [type |-> "VideoFrame", source |-> Endpoint, client |-> f.client, run |-> f.run,
   id |-> f.id, stamp |-> f.stamp, key |-> f.key, chunk |-> Piece(f, 0, f.size)]

\* payload.chunks(n): every piece has n bytes but the last, which has the rest.
fragment(f) ==
  LET n == max_chunk_payload_len(f)
      pieces == (f.size + n - 1) \div n
      len(i) == SmallerOf(n, f.size - i * n)
  IN  [j \in 1 .. pieces |->
        [type |-> "VideoFrameFragment", source |-> Endpoint, client |-> f.client,
         run |-> f.run, id |-> f.id, stamp |-> f.stamp, key |-> f.key, total |-> f.size,
         count |-> chunk_count(f), index |-> j - 1, chunk_payload_len |-> len(j - 1),
         chunk |-> Piece(f, j - 1, len(j - 1))]]

EncodedLen(p) ==
  LET f == [client |-> p.client, run |-> p.run, size |-> p.chunk.len]
  IN  IF p.type = "VideoFrame" THEN VideoFrameLen(f) ELSE FragmentLen(f, p.chunk.len)

SendsDirect(f) == VideoFrameLen(f) <= SafeMax

NoProgress == [sent |-> 0, slept |-> 0]

SendInit ==
  /\ Init
  /\ next = 0 /\ fragments = <<>> /\ progress = NoProgress /\ reports = <<>>
  /\ wire = { p \in Packets : p.type = "AuthRequest" } 
  /\ accepted = {} /\ stored = {}
-----------------------------------------------------------------------------
Report(f, kind, attempted, sent, failed, slept) ==
  reports' = Append(reports, [frame |-> f, kind |-> kind, attempted |-> attempted,
                              sent |-> sent, failed |-> failed, slept |-> slept])

Idle == fragments = <<>> /\ next < Len(Frames)

\* An empty payload, and identifiers that leave no room for a chunk.
RefuseFrame ==
  /\ Idle /\ next' = next + 1
  /\ LET f == Frames[next'] IN
       \/ f.size = 0 /\ Report(f, "EmptyPayload", 0, 0, {}, 0)
       \/ /\ f.size > 0 /\ ~SendsDirect(f) /\ ~Fits(f)
          /\ Report(f, "FragmentPayloadCapacityTooSmall", 0, 0, {}, 0)
  /\ UNCHANGED <<fragments, progress, vars, linkVars>>

SendDirect ==
  /\ Idle /\ next' = next + 1
  /\ LET f == Frames[next'] IN
       /\ f.size > 0 /\ SendsDirect(f)
       /\ \/ /\ wire' = wire \cup {encode_handoff(f)}
             /\ Report(f, "DirectSent", 0, 0, {}, 0)
          \/ /\ Report(f, "Send", 0, 0, {}, 0)
             /\ UNCHANGED wire
  /\ UNCHANGED <<fragments, progress, vars, accepted, stored>>

StartFragments ==
  /\ Idle /\ next' = next + 1
  /\ LET f == Frames[next'] IN
       /\ f.size > 0 /\ ~SendsDirect(f) /\ Fits(f)
       /\ fragments' = fragment(f)
  /\ progress' = NoProgress
  /\ UNCHANGED <<reports, vars, linkVars>>

maybe_sleep_after_fragment_send(sent) ==
  IF DelayEvery # 0 /\ sent % DelayEvery = 0 THEN 1 ELSE 0

\* One fragment sent; the last one completes the frame.
SendFragment ==
  /\ fragments # <<>>
  /\ EncodedLen(Head(fragments)) <= SafeMax
  /\ wire' = wire \cup {Head(fragments)}
  /\ fragments' = Tail(fragments)
  /\ progress' = [sent |-> progress.sent + 1,
                  slept |-> progress.slept + maybe_sleep_after_fragment_send(progress.sent + 1)]
  /\ IF fragments' = <<>>
     THEN Report(Frames[next], "FragmentedSent", progress'.sent, progress'.sent, {},
                 progress'.slept)
     ELSE UNCHANGED reports
  /\ UNCHANGED <<next, vars, accepted, stored>>

\* A fragment that is too long or cannot be sent: the rest is never sent.
FragmentFails ==
  /\ fragments # <<>>
  /\ Report(Frames[next],
            IF EncodedLen(Head(fragments)) > SafeMax THEN "PacketTooLarge" ELSE "Send",
            progress.sent + 1, progress.sent, {Head(fragments).index}, progress.slept)
  /\ fragments' = <<>>
  /\ UNCHANGED <<next, progress, vars, linkVars>>

\* UDP: a datagram may arrive at any time and any number of times.
Deliver ==
  /\ \E p \in wire :
       /\ ProcessPacket(p)
       /\ accepted' = IF GateOutcome(p) = "Accepted" THEN accepted \cup {p} ELSE accepted
  /\ stored' = stored \cup QueuedFrames'
  /\ UNCHANGED <<clientVars, wire>>

ClientSends == SendDirect \/ StartFragments \/ SendFragment

SendNext == RefuseFrame \/ ClientSends \/ FragmentFails \/ Deliver

allVars == <<vars, clientVars, linkVars>>

SendSpec == SendInit /\ [][SendNext]_allVars
-----------------------------------------------------------------------------
(* Properties.                                                             *)

SendTypeOK ==
  /\ next \in 0 .. Len(Frames)
  /\ Range(fragments) \cup wire \subseteq Packets
  /\ accepted \subseteq wire
  /\ Len(reports) + (IF fragments = <<>> THEN 0 ELSE 1) = next

\* No datagram of a frame is longer than the policy allows, so that none is
\* split by the network (send_one_detailed_with_fragment_pacing).
DatagramsFit ==
  \A p \in wire : p.type \in MediaTypes => EncodedLen(p) <= SafeMax

\* The planned chunk length accounts for every byte around the chunk: the check
\* on the encoded fragment never refuses one (fragment_overhead_len).
NeverTooLarge == \A i \in DOMAIN reports : reports[i].kind # "PacketTooLarge"

CapturedAs(q, f) ==
  /\ <<q.client, q.run, q.id, q.stamp, q.key>> = <<f.client, f.run, f.id, f.stamp, f.key>>
  /\ payload_len(q.payload) = f.size
  /\ \A j \in DOMAIN q.payload :
       q.payload[j].stamp = f.stamp /\ q.payload[j].index = j - 1

\* Every frame the server queues is, byte for byte, a frame the client sent to
\* its end: a send that failed half-way never becomes a frame, whatever is lost
\* or repeated (fragment, apply_fragment_and_queue_if_complete).
QueuedWasSentWhole ==
  \A q \in stored : \E i \in DOMAIN reports :
    /\ reports[i].kind \in {"DirectSent", "FragmentedSent"}
    /\ CapturedAs(q, reports[i].frame)

\* Client and server agree on how a frame is cut: one whose datagrams have all
\* been accepted has been queued (plan, fragment, validate_fragment_shape).
AcceptedIsQueued ==
  \A i \in DOMAIN reports :
    LET f == reports[i].frame
        own == { p \in wire : p.type \in MediaTypes /\ p.client = f.client /\ p.stamp = f.stamp }
    IN  /\ reports[i].kind \in {"DirectSent", "FragmentedSent"}
        /\ own \subseteq accepted
        => \E q \in stored : CapturedAs(q, f)

\* The counters of a result are what happened on the wire: the fragments sent
\* are the ones before the failed index, and none after it leaves the client
\* (ClientVideoFrameEncodeSendFailure).
ReportsMatchWire ==
  \A i \in DOMAIN reports :
    LET r == reports[i]
        own == { p \in wire : p.type = "VideoFrameFragment" /\ p.client = r.frame.client
                              /\ p.stamp = r.frame.stamp }
    IN  /\ Cardinality(own) = r.sent
        /\ { p.index : p \in own } = 0 .. r.sent - 1
        /\ r.attempted = r.sent + Cardinality(r.failed)
        /\ r.failed \subseteq {r.sent}
        /\ DelayEvery # 0 => r.slept = r.sent \div DelayEvery

\* What the client sends, reports and the server makes of it agrees.
FragmentSendInvariant ==
  /\ SendTypeOK /\ DatagramsFit /\ NeverTooLarge
  /\ QueuedWasSentWhole /\ AcceptedIsQueued /\ ReportsMatchWire

===========================================================================
