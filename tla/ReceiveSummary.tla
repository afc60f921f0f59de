-------------------------- MODULE ReceiveSummary --------------------------
(***************************************************************************)
(* The receive side of the video core with its counters, which decide when *)
(* a bounded receive loop stops: process_received_packet_for_video_queue   *)
(* is VideoIngest!ProcessPacket and the bookkeeping of one packet.         *)
(*                                                                         *)
(* The u64 counters saturate; a run stays far below their limit.           *)
(***************************************************************************)
EXTENDS VideoIngest

CONSTANTS
    MaxVideoPackets,                    \* policy.max_video_packets
    ExpectedReassembledFrames,          \* policy.expected_reassembled_frames, 0 = disabled
    ExpectedReassembledClients,         \* policy.expected_reassembled_clients, 0 = disabled
    ExpectedReassembledFramesPerClient  \* and how many frames of each of them

ASSUME ReceivePolicyAssumption ==
    /\ MaxVideoPackets \in Nat
    /\ ExpectedReassembledFrames \in Nat
    /\ ExpectedReassembledClients \in Nat
    /\ ExpectedReassembledFramesPerClient \in Nat

\* Identifiers are fields of a datagram, of which there are finitely many; the
\* sums over clients and scopes are finite.
ASSUME FiniteScopesAssumption == IsFiniteSet(Clients) /\ IsFiniteSet(Runs)

VARIABLE summary    \* ServerReceiveAuthVideoQueueOnceVideoSummary

Counter ==
    {"packets_received", "fragments_received", "frames_reassembled", "frames_queued",
     "direct_frames_queued", "keyframes_received", "keyframes_queued", "rejected_packets",
     "rejected_fragments", "duplicate_fragments", "non_video_packets", "queue_len",
     "incomplete_reassembly_frames"}

ScopeCounter == {"queued", "direct", "reassembled", "keyframes"}

\* count: the scalar counters; per_client: the per_client_* maps, where a scope
\* that is not in a map counts 0; first/last_keyframe_frame_id: sets with at
\* most one element.
Summary ==
    [count : [Counter -> Nat], per_client : [ScopeKeys -> [ScopeCounter -> Nat]],
     first_keyframe_frame_id : SUBSET FrameIds, last_keyframe_frame_id : SUBSET FrameIds,
     stop_reason : {"None", "ReceiveTimedOut", "MaxVideoPacketsReached",
                    "ReassembledFramesThresholdReached", "ClientAwareThresholdReached",
                    "ReassembledFramesAndClientAwareThresholdReached"}]

SummaryInit ==
    summary = [count |-> [n \in Counter |-> 0],
               per_client |-> [k \in ScopeKeys |-> [n \in ScopeCounter |-> 0]],
               first_keyframe_frame_id |-> {}, last_keyframe_frame_id |-> {},
               stop_reason |-> "None"]

---------------------------------------------------------------------------
Bump(s, counters) == [s EXCEPT !.count = [n \in Counter |-> IF n \in counters THEN @[n] + 1 ELSE @[n]]]

BumpScope(s, f, counters) ==
    [s EXCEPT !.per_client[client_run_scope_key(f.client, f.run)] =
        [n \in ScopeCounter |-> IF n \in counters THEN @[n] + 1 ELSE @[n]]]

record_keyframe_received_progress(s, f) == IF f.key THEN Bump(s, {"keyframes_received"}) ELSE s

record_keyframe_queued_progress(s, f) ==
    [BumpScope(Bump(s, {"keyframes_queued"}), f, {"keyframes"})
        EXCEPT !.first_keyframe_frame_id = IF @ = {} THEN {f.id} ELSE @,
               !.last_keyframe_frame_id = {f.id}]

\* Frame f was handed to store_frame, which drops it when MaxFrames is 0.
record_queued_frame_progress(s, f) ==
    IF MaxFrames = 0 THEN s
    ELSE LET q == BumpScope(Bump(s, {"frames_queued"}), f, {"queued"})
         IN  IF f.key THEN record_keyframe_queued_progress(q, f) ELSE q

record_direct_frame_progress(s, f) ==
    IF MaxFrames = 0 THEN s
    ELSE record_queued_frame_progress(
            BumpScope(Bump(s, {"direct_frames_queued"}), f, {"direct"}), f)

record_reassembled_frame_progress(s, f) ==
    record_queued_frame_progress(
        BumpScope(Bump(s, {"frames_reassembled"}), f, {"reassembled"}), f)

TallyFragment(s, p) ==
    CASE FragmentResult(p) = "FragmentStored" -> s
      [] FragmentResult(p) = "DuplicateFragmentIgnored" -> Bump(s, {"duplicate_fragments"})
      [] FragmentResult(p) \in RejectedFragment -> Bump(s, {"rejected_fragments"})
      [] FragmentResult(p) = "FrameComplete" ->
            record_reassembled_frame_progress(
                record_keyframe_received_progress(s, ReassembledFrame(p)), ReassembledFrame(p))

\* The counters after packet p, queue_len aside.
Tally(p) ==
    LET s == Bump(summary, {"packets_received"})
    IN  IF GateOutcome(p) # "Accepted"
        THEN Bump(s, {"rejected_packets"} \cup
                     (IF p.type = "VideoFrameFragment" THEN {"rejected_fragments"} ELSE {}))
        ELSE CASE p.type = "AuthRequest" -> s
               [] p.type = "VideoFrame" ->
                    record_direct_frame_progress(
                        record_keyframe_received_progress(s, DirectFrame(p)), DirectFrame(p))
               [] p.type = "VideoFrameFragment" ->
                    TallyFragment(Bump(s, {"fragments_received"}), p)
               [] OTHER -> Bump(s, {"non_video_packets"})

total_len(q) == SumFunction([c \in Clients |-> Len(q[c])])

---------------------------------------------------------------------------
client_aware_threshold_met(s) ==
    LET scopes(n) == Cardinality({ k \in ScopeKeys : s.per_client[k]["queued"] >= n })
    IN  /\ scopes(1) >= ExpectedReassembledClients
        /\ \/ ExpectedReassembledFramesPerClient = 0
           \/ scopes(ExpectedReassembledFramesPerClient) >= ExpectedReassembledClients

\* The thresholds look at queued frames, whether they were reassembled or not.
evaluate_reassembled_stop_reason(s) ==
    LET frames  == ExpectedReassembledFrames > 0
        clients == ExpectedReassembledClients > 0
    IN  IF \/ ~frames /\ ~clients
           \/ frames /\ s.count["frames_queued"] < ExpectedReassembledFrames
           \/ clients /\ ~client_aware_threshold_met(s)
        THEN "None"
        ELSE IF frames /\ clients THEN "ReassembledFramesAndClientAwareThresholdReached"
        ELSE IF frames THEN "ReassembledFramesThresholdReached"
        ELSE "ClientAwareThresholdReached"

\* finalize_auth_video_queue_summary, with the reason it is called for: a
\* snapshot of the reassembly state re and the queue q.
Finalized(s, reason, re, q) ==
    [s EXCEPT !.stop_reason = reason,
              !.count["incomplete_reassembly_frames"] = Cardinality(DOMAIN re),
              !.count["queue_len"] = total_len(q)]

process_received_packet_for_video_queue_NoThreshold(p, limit) ==
    /\ ProcessPacket(p)
    /\ LET s == [Tally(p) EXCEPT !.count["queue_len"] = total_len(queue')]
       IN  summary' = IF limit = "None" THEN s ELSE Finalized(s, limit, reassembly', queue')

\* One packet is processed.  limit is the reason to stop that is looked at
\* before the thresholds, or "None".  The stop reason is in the summary.
process_received_packet_for_video_queue(p, limit) ==
    /\ ProcessPacket(p)
    /\ LET s == [Tally(p) EXCEPT !.count["queue_len"] = total_len(queue')]
           reason == IF limit # "None" THEN limit ELSE evaluate_reassembled_stop_reason(s)
       IN  summary' = IF reason = "None" THEN s ELSE Finalized(s, reason, reassembly', queue')

\* The answer to an AuthRequest cannot be sent: the registry has already been
\* updated, and the error ends the loop before the queue length is looked at.
AuthResponseSendFails(p) ==
    /\ p.type = "AuthRequest"
    /\ ProcessPacket(p)
    /\ summary' = Tally(p)

---------------------------------------------------------------------------
\* Sum of a per-client counter over all scopes.
ScopeTotal(n) == SumFunction([k \in ScopeKeys |-> summary.per_client[k][n]])

WaitingChunks ==
    SumFunction([k \in DOMAIN reassembly |-> Cardinality(DOMAIN reassembly[k].chunks)])

\* The counters agree with each other and with the state they describe, over
\* any number of packets: a queued frame is counted once, directly or as
\* reassembled, under the scope it was queued for (a queue without capacity
\* takes no frame, though fragments are still reassembled); a chunk that waits
\* or went into a frame was received and was not a duplicate; no scope has more
\* frames queued than were counted for it.
CountersAccountForState ==
    LET n == summary.count
    IN  /\ n["frames_queued"] = IF MaxFrames = 0 THEN 0
                                ELSE n["direct_frames_queued"] + n["frames_reassembled"]
        /\ ScopeTotal("queued") = n["frames_queued"]
        /\ ScopeTotal("direct") = n["direct_frames_queued"]
        /\ ScopeTotal("reassembled") = n["frames_reassembled"]
        /\ ScopeTotal("keyframes") = n["keyframes_queued"]
        /\ WaitingChunks + n["frames_reassembled"] + n["duplicate_fragments"]
             <= n["fragments_received"]
        /\ n["direct_frames_queued"] + n["fragments_received"] + n["non_video_packets"]
             + n["rejected_packets"] <= n["packets_received"]
        /\ \A c \in Clients, r \in Runs :
             Cardinality(frames_for_client_run(c, r))
                <= summary.per_client[client_run_scope_key(c, r)]["queued"]

===========================================================================
