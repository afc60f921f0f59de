---------------------------- MODULE VideoIngest ----------------------------
(***************************************************************************)
(* The server's video core: authentication, fragment reassembly and the    *)
(* frame queue, driven by UDP packets on one side and by the switcher's    *)
(* handoff requests on the other.  In the concurrent runtime this is the   *)
(* state behind the mutex, and every action is one critical section.       *)
(*                                                                         *)
(* UDP may lose, repeat and reorder packets: any packet of Packets may     *)
(* arrive at any time and any number of times.  Packets that do not pass   *)
(* the gate or carry no video change counters only; the counters are in    *)
(* ReceiveSummary, which conjoins them to the actions below.               *)
(***************************************************************************)
EXTENDS ServerAuth, VideoFrameQueue

CONSTANT Packets    \* what clients may send

VARIABLE reassembly     \* (client, run, frame_id) -> collected chunks

vars == << registry, granted, queue, retained, reassembly >>

(***************************************************************************)
(* Reassembly of frames that arrive as VideoFrameFragment packets.  Chunks *)
(* are collected per (client_id, run_id, frame_id) until all chunk_count   *)
(* of them are there; the frame is then stored in the video queue and its  *)
(* entry removed.  An entry has no expiry.                                 *)
(*                                                                         *)
(* Of the fragment's metadata, stamp stands for the fields that a capture  *)
(* fixes (protocol version, capture timestamp, dimensions, fps).  The      *)
(* duplicate_count diagnostic is left out.                                 *)
(***************************************************************************)
VideoFrameFragment ==
    [type : {"VideoFrameFragment"}, source : Sources, client : Clients, run : Runs,
     id : FrameIds, stamp : Stamps, key : BOOLEAN, total : Nat,
     count : Nat, index : Nat, chunk_payload_len : Nat, chunk : Chunk]

\* The chunks of an entry are those received so far.
ReassemblyFrameState(e) ==
    /\ e \in [stamp : Stamps, key : BOOLEAN, total : Nat, count : Nat \ {0},
              chunks : [DOMAIN e.chunks -> Chunk]]
    /\ DOMAIN e.chunks \subseteq 0 .. e.count - 1

ReassemblyTypeOK ==
    /\ DOMAIN reassembly \subseteq Clients \X Runs \X FrameIds
    /\ \A k \in DOMAIN reassembly : ReassemblyFrameState(reassembly[k])

ReassemblyInit == reassembly = EmptyMap

---------------------------------------------------------------------------
from_fragment(p) == << p.client, p.run, p.id >>

validate_fragment_shape(p) ==
    /\ p.count # 0
    /\ p.index < p.count
    /\ p.chunk_payload_len = p.chunk.len

\* The entry a fragment is applied to: the one of its key, or a new one that
\* takes its metadata from the fragment.
EntryFor(p) ==
    IF from_fragment(p) \in DOMAIN reassembly THEN reassembly[from_fragment(p)]
    ELSE [stamp |-> p.stamp, key |-> p.key, total |-> p.total, count |-> p.count,
          chunks |-> EmptyMap]

metadata_matches_NoTimestamp(e, p) ==
    /\ e.key = p.key
    /\ e.total = p.total
    /\ e.count = p.count

metadata_matches(e, p) ==
    /\ e.stamp = p.stamp
    /\ e.key = p.key
    /\ e.total = p.total
    /\ e.count = p.count

WithChunk(e, p) == [e EXCEPT !.chunks = MapInsert(@, p.index, p.chunk)]

is_complete(e) == DOMAIN e.chunks = 0 .. e.count - 1

\* The chunks in chunk_index order.
reassemble_payload(e) == [j \in 1 .. e.count |-> e.chunks[j - 1]]

payload_len(chunks) == MapThenSumSet(LAMBDA i : chunks[i].len, DOMAIN chunks)

\* The result of apply_fragment_and_queue_if_complete for fragment p.
FragmentResult(p) ==
    LET e == EntryFor(p)
        w == WithChunk(e, p)
    IN  IF ~validate_fragment_shape(p) THEN "RejectedShape"
        ELSE IF ~metadata_matches(e, p) THEN "MetadataMismatch"
        ELSE IF p.index \in DOMAIN e.chunks THEN "DuplicateFragmentIgnored"
        ELSE IF ~is_complete(w) THEN "FragmentStored"
        ELSE IF payload_len(w.chunks) # w.total THEN "ReassembledPayloadLenMismatch"
        ELSE "FrameComplete"

RejectedFragment == {"RejectedShape", "MetadataMismatch", "ReassembledPayloadLenMismatch"}

\* The frame built from a complete entry: it is attributed to the endpoint of
\* the fragment that completed it.
ReassembledFrame(p) ==
    LET w == WithChunk(EntryFor(p), p)
    IN  [client |-> p.client, run |-> p.run, id |-> p.id, stamp |-> w.stamp,
         key |-> w.key, source |-> p.source, payload |-> reassemble_payload(w)]

\* The chunk is kept.  A complete entry whose lengths do not add up to the
\* announced total is rejected but not removed.
KeepChunk(p) ==
    /\ FragmentResult(p) \in {"FragmentStored", "ReassembledPayloadLenMismatch"}
    /\ reassembly' = MapInsert(reassembly, from_fragment(p), WithChunk(EntryFor(p), p))
    /\ UNCHANGED queueVars

CompleteFrame_NotRemoved(p) ==
    /\ FragmentResult(p) = "FrameComplete"
    /\ reassembly' = MapInsert(reassembly, from_fragment(p), WithChunk(EntryFor(p), p))
    /\ store_frame(ReassembledFrame(p))

CompleteFrame(p) ==
    /\ FragmentResult(p) = "FrameComplete"
    /\ reassembly' = MapRemove(reassembly, from_fragment(p))
    /\ store_frame(ReassembledFrame(p))

IgnoreFragment(p) ==
    /\ FragmentResult(p) \in {"RejectedShape", "MetadataMismatch", "DuplicateFragmentIgnored"}
    /\ UNCHANGED << queueVars, reassembly >>

apply_fragment_and_queue_if_complete(p) ==
    KeepChunk(p) \/ CompleteFrame(p) \/ IgnoreFragment(p)

---------------------------------------------------------------------------
(***************************************************************************)
(* The packets, and what one of them does.                                 *)
(***************************************************************************)
VideoFrame ==
    [type : {"VideoFrame"}, source : Sources, client : Clients, run : Runs,
     id : FrameIds, stamp : Stamps, key : BOOLEAN, chunk : Chunk]

\* Packets of a client that the video path only counts.
OtherPacket ==
    [type : {"Heartbeat", "ClientStats"}, source : Sources, client : Clients, run : Runs]

\* A datagram that does not decode, and a message that only the server sends.
StrayPacket == [type : {"Undecodable", "UnsupportedForServer"}, source : Sources]

MediaTypes == {"VideoFrame", "VideoFrameFragment"}

\* A client cuts the payload of one capture into chunks, and a chunk is
\* delivered by the endpoint its packet comes from.
ASSUME PacketsAssumption ==
    /\ Packets \subseteq
         AuthRequest \cup VideoFrame \cup VideoFrameFragment \cup OtherPacket \cup StrayPacket
    /\ \A p \in Packets :
         p.type \in MediaTypes =>
            /\ p.chunk.source = p.source
            /\ p.chunk.stamp = p.stamp
            /\ p.chunk.index = (IF p.type = "VideoFrame" THEN 0 ELSE p.index)

TypeOK == AuthTypeOK /\ QueueTypeOK /\ ReassemblyTypeOK

Init == AuthInit /\ QueueInit /\ ReassemblyInit

---------------------------------------------------------------------------
\* handle_received_packet_with_gate: decoding, then evaluate_route, which lets
\* AuthRequests and messages the server does not handle pass.
GateOutcome(p) ==
    CASE p.type = "Undecodable" -> "NotDecoded"
      [] p.type \in {"AuthRequest", "UnsupportedForServer"} -> "Accepted"
      [] OTHER -> evaluate_client_packet(p)

ReceiveAuthRequest(p) ==
    /\ HandleAuthRequest(p)
    /\ UNCHANGED << queueVars, reassembly >>

DirectFrame(p) ==
    [client |-> p.client, run |-> p.run, id |-> p.id, stamp |-> p.stamp, key |-> p.key,
     source |-> p.source, payload |-> <<p.chunk>>]

ReceiveVideoFrame(p) ==
    /\ p.type = "VideoFrame"
    /\ store_frame(DirectFrame(p))
    /\ UNCHANGED << authVars, reassembly >>

ReceiveVideoFrameFragment(p) ==
    /\ p.type = "VideoFrameFragment"
    /\ apply_fragment_and_queue_if_complete(p)
    /\ UNCHANGED authVars

ReceiveOther(p) ==
    /\ p.type \in {"Heartbeat", "ClientStats", "UnsupportedForServer"}
    /\ UNCHANGED vars

\* The effect of one packet on the shared state.
ProcessPacket(p) ==
    \/ /\ GateOutcome(p) = "Accepted"
       /\ \/ ReceiveAuthRequest(p)
          \/ ReceiveVideoFrame(p)
          \/ ReceiveVideoFrameFragment(p)
          \/ ReceiveOther(p)
    \/ /\ GateOutcome(p) # "Accepted"
       /\ UNCHANGED vars

---------------------------------------------------------------------------
\* The answer to one handoff request; a blank identifier is refused before
\* the queue is looked at.
HandoffResponse(c, r, mode) ==
    IF c = << >> \/ r = << >>
    THEN [kind |-> "HandoffError", frame |-> {}, reason |-> "InvalidScope", source |-> "None"]
    ELSE IF read(c, r, mode) # {}
    THEN [kind |-> "FrameRead", frame |-> read(c, r, mode), reason |-> "None",
          source |-> decodable_source(c, r, mode)]
    ELSE [kind |-> "NoFrame", frame |-> {}, reason |-> determine_no_frame_reason(c, r, mode),
          source |-> "None"]

\* Of the four read modes only DequeueOldest changes the state.
handle_request(c, r, mode) ==
    /\ IF mode = "DequeueOldest" /\ HandoffResponse(c, r, mode).kind = "FrameRead"
       THEN pop_front_for_client_run(c, r)
       ELSE UNCHANGED queueVars
    /\ UNCHANGED << authVars, reassembly >>

Next ==
    \/ \E p \in Packets : ProcessPacket(p)
    \/ \E c \in Clients, r \in Runs, mode \in ReadMode : handle_request(c, r, mode)

Spec == Init /\ [][Next]_vars

---------------------------------------------------------------------------
(***************************************************************************)
(* Properties.                                                             *)
(***************************************************************************)

QueuedFrames == UNION { { queue[c][i] : i \in 1 .. Len(queue[c]) } : c \in Clients }

RetainedFrames == { retained[k] : k \in DOMAIN retained }

\* The chunk came from an endpoint that had presented the client's token for
\* this client_id and run_id.
Authenticated(c, r, chunk) ==
    \E g \in granted :
        /\ g.client = c
        /\ g.run = r
        /\ g.source = chunk.source
        /\ decide_resolved(g.client, g.token) = "Ok"

\* Every chunk held anywhere in the server, queued, retained or waiting for
\* the rest of its frame, was delivered by an endpoint whose AuthRequest for
\* that very client_id and run_id was accepted (project overview: only UDP
\* packets of authenticated clients are accepted).
OnlyAuthenticatedVideo ==
    /\ \A f \in QueuedFrames \cup RetainedFrames :
         \A i \in DOMAIN f.payload : Authenticated(f.client, f.run, f.payload[i])
    /\ \A k \in DOMAIN reassembly :
         \A i \in DOMAIN reassembly[k].chunks :
            Authenticated(k[1], k[2], reassembly[k].chunks[i])

\* A frame handed to the queue is one capture, complete and in order: chunk i
\* of its payload is chunk i of the capture its metadata names, even when a
\* restarted client reuses run_id and frame_id while chunks of its previous
\* life are still waiting (metadata_matches, reassemble_payload).
PayloadIsOneCapture ==
    \A f \in QueuedFrames \cup RetainedFrames :
        \A i \in DOMAIN f.payload :
            f.payload[i].stamp = f.stamp /\ f.payload[i].index = i - 1

\* No client's backlog outgrows its policy (store_frame evicts before it
\* appends).
BacklogBounded == \A c \in Clients : Len(queue[c]) <= MaxFrames

\* While keyframes of a scope are queued, the retained one is the newest of
\* them: InspectLatestDecodable answers the same frame from the queue and from
\* the retained slot, whatever was evicted or dequeued in between.
RetainedAgreesWithQueue ==
    \A c \in Clients, r \in Runs :
        \A i \in LastOf(QueuedKeyframes(c, r)) :
            RetainedKeyframe(c, r) = {queue[c][i]}

\* A handoff read answers only frames of the client and the run it asked for.
ReadsStayInScope ==
    \A c \in Clients, r \in Runs, mode \in ReadMode :
        \A f \in read(c, r, mode) : f.client = c /\ f.run = r

\* The reassembly never sits on a deliverable frame: an entry misses a chunk,
\* or its chunks do not add up to the announced length.
NoCompleteFrameWaits ==
    \A k \in DOMAIN reassembly :
        is_complete(reassembly[k]) =>
            payload_len(reassembly[k].chunks) # reassembly[k].total

\* The state the packet path keeps is well formed, bounded by the queue limit,
\* and no frame that could be queued stays behind in the reassembly buffer.
IngestInvariant == TypeOK /\ BacklogBounded /\ NoCompleteFrameWaits

\* A frame enters a queue only while its client_id is bound to its run and to
\* the endpoint it is attributed to: after a re-authentication the old run and
\* the old endpoint add nothing any more.
OnlyTheBoundRunQueues ==
    [][\A c \in Clients :
         LET q == queue[c]
             n == queue'[c]
         IN  (n # << >> /\ n # q /\ Len(n) >= Len(q)) =>
                /\ c \in DOMAIN registry
                /\ registry[c] = [source |-> n[Len(n)].source, run |-> n[Len(n)].run]
      ]_vars

\* Once a keyframe was stored for a scope, InspectLatestDecodable never finds
\* nothing again: neither eviction nor a dequeue takes the last keyframe away.
DecodableStaysAvailable ==
    [][\A c \in Clients, r \in Runs :
         read(c, r, "InspectLatestDecodable") # {} =>
            read(c, r, "InspectLatestDecodable")' # {}]_vars

\* What a packet or a request may do to the queues: only the bound run adds to
\* them, and a scope that could be decoded can be decoded afterwards.
IngestSteps == OnlyTheBoundRunQueues /\ DecodableStaysAvailable

\* A fragmented frame is queued at most once however often its chunks are
\* delivered: duplicate chunks are ignored (docs/architecture/protocol.md, on
\* the reassembly boundary).
DuplicateChunksQueueNothing ==
    \A c \in Clients : \A i, j \in DOMAIN queue[c] :
        (i < j /\ Len(queue[c][i].payload) > 1) => queue[c][i] # queue[c][j]

---------------------------------------------------------------------------
(***************************************************************************)
(* The video queue as its readers see it: one FIFO per client/run scope,   *)
(* although the code keeps a single queue per client and searches it for   *)
(* the frames of a run.                                                    *)
(***************************************************************************)
\* The k-th smallest number in F.
Kth(F, k) == CHOOSE i \in F : Cardinality({ j \in F : j <= i }) = k

\* The frames of run r in the queue q, oldest first.
OfRun(q, r) ==
    LET F == { i \in 1 .. Len(q) : q[i].run = r }
    IN  [k \in 1 .. Cardinality(F) |-> q[Kth(F, k)]]

ScopeQueues == [s \in Clients \X Runs |-> OfRun(queue[s[1]], s[2])]

ScopeKeyframes == [s \in Clients \X Runs |-> RetainedKeyframe(s[1], s[2])]

Fifo == INSTANCE ScopedFifo WITH fifo <- ScopeQueues, kept <- ScopeKeyframes

\* Every read mode answers what the FIFO of the requested scope would: also
\* InspectLatestDecodable, which looks at the queue before it looks at the
\* retained keyframe.
ReadsAnswerFifo ==
    \A c \in Clients, r \in Runs, mode \in ReadMode :
        read(c, r, mode) = Fifo!Answer(<<c, r>>, mode)

\* Sharing one queue among the runs of a client, evicting its oldest frame
\* whatever its run and removing frames from the middle (store_frame,
\* pop_front_for_client_run) loses and reorders nothing within a scope beyond
\* what a FIFO that gives up its head may lose, and every read sees that FIFO.
ImplementsScopedFifo == Fifo!Spec /\ []ReadsAnswerFifo

===========================================================================
