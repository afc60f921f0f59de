----------------------- MODULE ServiceSession_proofs -----------------------
(***************************************************************************)
(* Proofs about the staged launchers, for every set of packets, every      *)
(* threshold, every limit and every failure: the counters a launcher       *)
(* reports account for the state, its receive loop stops with the packet   *)
(* that meets a threshold, and switchers are served from the queue that    *)
(* was reported.                                                           *)
(*                                                                         *)
(* The last part is about a client that sends to such a server             *)
(* (FragmentSend), for every sequence of frames, every datagram length and *)
(* every order, loss and repetition on the way.                            *)
(***************************************************************************)
EXTENDS ServiceSession, FragmentSend, ReceiveSummary_proofs

(***************************************************************************)
(* The inductive invariant.  Nothing is queued before the first client is  *)
(* accepted, because nobody is registered; the receive loop goes on only   *)
(* while no reason to stop is known; and the serve loop goes on only while *)
(* every answer was written.                                               *)
(***************************************************************************)
StageInv ==
    /\ pc \in {"FirstAuth", "Video", "Serve", "Done"}
    /\ result \in {"None", "Err", "NotReceivedAuthRejected", "Received"}
    /\ handoff \in [count : [HandoffCounter -> Nat], served : Nat,
                    stop_reason : {"None", "MaxRequestsReached", "CreatePipe", "Connect",
                                   "ReadRequest", "DecodeRequest", "WriteResponse"}]

LoopInv ==
    /\ pc = "FirstAuth" => DOMAIN registry = {}
    /\ pc \in {"FirstAuth", "Video"} =>
         summary.stop_reason = "None" /\ evaluate_reassembled_stop_reason(summary) = "None"
    /\ pc = "Serve" => handoff.stop_reason = "None"
    /\ pc \in {"FirstAuth", "Video"} => handoff.stop_reason = "None"
    /\ summary.count["packets_received"] <= MaxVideoPackets

SessionInv ==
    /\ ReceiveInv
    /\ StageInv
    /\ LoopInv
    /\ ServedFromReportedQueue

\* The inductive invariant implies the one the run checks.
LEMMA SessionInvImplies == ASSUME SessionInv PROVE SessionInvariant
BY DEF SessionInv, ReceiveInv, StageInv, LoopInv, SessionInvariant, SessionTypeOK, StopsAtThreshold

\* An empty summary meets no threshold, because every threshold that is on is positive.
LEMMA NothingMetAtFirst ==
    ASSUME SummaryInit
    PROVE  evaluate_reassembled_stop_reason(summary) = "None"
<1> DEFINE S(n) == { k \in ScopeKeys : summary.per_client[k]["queued"] >= n }
<1>1. summary.count["frames_queued"] = 0
  BY DEF SummaryInit, Counter
<1>2. S(1) = {}
  BY DEF SummaryInit, ScopeCounter
<1>3. Cardinality(S(1)) = 0
  BY <1>2, FS_EmptySet
<1>4. ExpectedReassembledClients > 0 => ~client_aware_threshold_met(summary)
  BY <1>3, ReceivePolicyAssumption DEF client_aware_threshold_met
<1> QED BY <1>1, <1>4, ReceivePolicyAssumption DEF evaluate_reassembled_stop_reason

\* The inductive invariant holds at first.
LEMMA SessionInvInit == ASSUME SessionInit PROVE SessionInv
<1>1. ReceiveInv
  BY CountersStart DEF SessionInit
<1>2. StageInv
  BY DEF SessionInit, StageInv
<1>3. LoopInv
  <2>1. evaluate_reassembled_stop_reason(summary) = "None"
    BY NothingMetAtFirst DEF SessionInit
  <2>2. DOMAIN registry = {}
    BY DEF SessionInit, Init, AuthInit, EmptyMap
  <2>3. summary.count["packets_received"] = 0 /\ summary.stop_reason = "None"
    BY DEF SessionInit, SummaryInit, Counter
  <2> QED BY <2>1, <2>2, <2>3, ReceivePolicyAssumption DEF LoopInv, SessionInit
<1>4. ServedFromReportedQueue
  BY DEF SessionInit, ServedFromReportedQueue
<1> QED BY <1>1, <1>2, <1>3, <1>4 DEF SessionInv

\* Before the first client is accepted a packet that is no AuthRequest does nothing.
LEMMA NobodyRegistered ==
    ASSUME DOMAIN registry = {}, NEW p \in Packets, ProcessPacket(p)
    PROVE  UNCHANGED << queue, reassembly >>
<1>1. CASE p.type \in {"AuthRequest"} \/ GateOutcome(p) # "Accepted"
  BY <1>1, PacketKindSteps
<1>2. CASE p.type \in {"VideoFrame", "VideoFrameFragment"} /\ GateOutcome(p) = "Accepted"
  <2>1. GateOutcome(p) = evaluate_client_packet(p)
    BY <1>2 DEF GateOutcome
  <2> QED BY <1>2, <2>1 DEF evaluate_client_packet
<1>3. CASE p.type \notin {"AuthRequest", "VideoFrame", "VideoFrameFragment"}
  BY <1>3, PacketKindSteps
<1> QED BY <1>1, <1>2, <1>3

\* The receive invariant when neither queue, reassembly nor summary change.
LEMMA RegistrationKeepsReceiveInv ==
    ASSUME ReceiveInv, TypeOK', UNCHANGED << queue, reassembly, summary >>
    PROVE  ReceiveInv'
BY DEF ReceiveInv, CountersAccountForState, ScopeTotal, WaitingChunks, frames_for_client_run

\* The packet of the first authentication, accepted or rejected.
LEMMA FirstAuthKeeps ==
    ASSUME SessionInv, NEW p \in Packets, FirstAuth(p)
    PROVE  SessionInv'
<1>1. UNCHANGED << queue, reassembly, summary, handoff >> /\ pc = "FirstAuth"
  BY NobodyRegistered DEF FirstAuth, SessionInv, LoopInv
<1>2. ReceiveInv'
  <2>1. TypeOK'
    BY ProcessPacketType DEF FirstAuth, SessionInv, ReceiveInv
  <2> QED BY <1>1, <2>1, RegistrationKeepsReceiveInv DEF SessionInv
<1>3. /\ pc' \in {"Video", "Serve", "Done"}
      /\ result' \in {result, "NotReceivedAuthRejected", "Err"}
      /\ pc' # "Video" => result' # "Received"
  BY DEF FirstAuth, ReceiveStageEnds
<1>4. StageInv'
  BY <1>1, <1>3 DEF SessionInv, StageInv
<1>5. LoopInv'
  BY <1>1, <1>3 DEF SessionInv, LoopInv, evaluate_reassembled_stop_reason,
                    client_aware_threshold_met
<1>6. ServedFromReportedQueue'
  BY <1>3 DEF ServedFromReportedQueue
<1> QED BY <1>2, <1>4, <1>5, <1>6 DEF SessionInv

\* The receive stage ends with its result, which reports the queue.
LEMMA ReceivedStageEnds ==
    ASSUME SessionInv, ReceiveInv', pc \in {"FirstAuth", "Video"}, ReceiveStageEnds("Received"),
           UNCHANGED handoff, summary'.count["queue_len"] = total_len(queue'),
           summary'.count["packets_received"] <= MaxVideoPackets
    PROVE  SessionInv'
<1>1. pc' = "Serve" /\ result' = "Received"
  BY DEF ReceiveStageEnds
<1>2. StageInv' /\ LoopInv'
  BY <1>1 DEF SessionInv, StageInv, LoopInv
<1>3. ServedFromReportedQueue'
  <2>1. total_len(queue') \in Nat
    BY TotalLenType DEF ReceiveInv, TypeOK, QueueTypeOK
  <2>2. handoff.count["frame_read_count"] \in Nat
    BY DEF SessionInv, StageInv, HandoffCounter
  <2>3. (IF handoff'.stop_reason = "WriteResponse" THEN 1 ELSE 0) \in Nat
    OBVIOUS
  <2>4. summary'.count["queue_len"] - total_len(queue') = 0
    BY <2>1
  <2> QED BY <2>2, <2>3, <2>4 DEF ServedFromReportedQueue
<1> QED BY <1>2, <1>3 DEF SessionInv

\* The launcher gives up.
LEMMA FailedStageEnds ==
    ASSUME SessionInv, ReceiveInv', ReceiveStageEnds("Err"), UNCHANGED handoff,
           summary'.count["packets_received"] <= MaxVideoPackets
    PROVE  SessionInv'
<1>1. pc' = "Done" /\ result' = "Err"
  BY DEF ReceiveStageEnds
<1>2. StageInv' /\ LoopInv'
  BY <1>1 DEF SessionInv, StageInv, LoopInv
<1>3. ServedFromReportedQueue'
  BY <1>1 DEF ServedFromReportedQueue
<1> QED BY <1>2, <1>3 DEF SessionInv

\* The packets received and their limit are naturals.
LEMMA PacketsReceivedType ==
    ASSUME SessionInv
    PROVE  summary.count["packets_received"] \in Nat /\ MaxVideoPackets \in Nat
BY SummaryFields, ReceivePolicyAssumption DEF SessionInv, ReceiveInv, Counter

\* A packet of the receive loop, which ends it with a threshold.
LEMMA ReceiveVideoPacketKeeps ==
    ASSUME SessionInv, NEW p \in Packets, ReceiveVideoPacket(p)
    PROVE  SessionInv'
<1>1. /\ pc = "Video" /\ UNCHANGED handoff
      /\ process_received_packet_for_video_queue(p, "None")
      /\ summary.count["packets_received"] < MaxVideoPackets
      /\ IF summary'.stop_reason = "None" THEN UNCHANGED << pc, result >> ELSE ReceiveStageEnds("Received")
  BY DEF ReceiveVideoPacket
<1>2. ReceivedPacket("None")
  BY <1>1, PacketLeavesSummary DEF SessionInv, LoopInv, StopReason
<1>3. ReceiveInv' /\ summary'.count["queue_len"] = total_len(queue')
  BY <1>2 DEF ReceivedPacket
<1>4. summary'.count["packets_received"] <= MaxVideoPackets
  BY <1>1, <1>2, PacketsReceivedType DEF ReceivedPacket
<1>5. CASE summary'.stop_reason = "None"
  <2>1. UNCHANGED << pc, result, handoff >> /\ evaluate_reassembled_stop_reason(summary') = "None"
    BY <1>1, <1>2, <1>5 DEF ReceivedPacket
  <2>2. StageInv'
    BY <2>1 DEF SessionInv, StageInv
  <2>3. LoopInv'
    <3>1. pc' = "Video" /\ handoff'.stop_reason = "None"
      BY <1>1, <2>1 DEF SessionInv, LoopInv
    <3>2. evaluate_reassembled_stop_reason(summary)' = "None"
      BY <2>1 DEF evaluate_reassembled_stop_reason, client_aware_threshold_met
    <3> QED BY <1>4, <1>5, <3>1, <3>2 DEF LoopInv
  <2>4. ServedFromReportedQueue'
    BY <1>1, <2>1 DEF ServedFromReportedQueue
  <2> QED BY <1>3, <2>2, <2>3, <2>4 DEF SessionInv
<1>6. CASE summary'.stop_reason # "None"
  BY <1>1, <1>3, <1>4, <1>6, ReceivedStageEnds
<1> QED BY <1>5, <1>6

\* A packet whose authentication answer cannot be sent ends the launcher.
LEMMA VideoPacketFailsKeeps ==
    ASSUME SessionInv, NEW p \in Packets, VideoPacketFails(p)
    PROVE  SessionInv'
<1>1. /\ AuthResponseSendFails(p) /\ ReceiveStageEnds("Err") /\ UNCHANGED handoff
      /\ summary.count["packets_received"] < MaxVideoPackets
  BY DEF VideoPacketFails
<1>2. ReceiveInv' /\ summary'.count["packets_received"] = summary.count["packets_received"] + 1
  BY <1>1, LostAnswerLeavesSummary DEF SessionInv
<1>3. summary'.count["packets_received"] <= MaxVideoPackets
  BY <1>1, <1>2, PacketsReceivedType
<1> QED BY <1>1, <1>2, <1>3, FailedStageEnds

\* A snapshot ends the receive stage: nothing arrived, or the limit is reached.
LEMMA SnapshotEndsStage ==
    ASSUME SessionInv, pc = "Video", NEW reason \in StopReason,
           summary' = Finalized(summary, reason, reassembly, queue),
           ReceiveStageEnds("Received"), UNCHANGED << vars, handoff >>
    PROVE  SessionInv'
<1>1. summary \in Summary /\ IsFiniteSet(DOMAIN reassembly) /\ queue \in [Clients -> Seq(Frame)]
  BY DEF SessionInv, ReceiveInv, TypeOK, QueueTypeOK
<1>2. SameCounts(summary, summary') /\ summary'.count["queue_len"] = total_len(queue)
  BY <1>1, SnapshotIsExact
<1>3. ReceiveInv' /\ summary'.count["queue_len"] = total_len(queue')
  BY <1>2, SnapshotKeepsReceiveInv DEF SessionInv, vars
<1>4. summary'.count["packets_received"] = summary.count["packets_received"]
  BY <1>2 DEF SameCounts, Counter
<1>5. summary'.count["packets_received"] <= MaxVideoPackets
  BY <1>4 DEF SessionInv, LoopInv
<1> QED BY <1>3, <1>5, ReceivedStageEnds

\* A receive that fails ends the launcher.
LEMMA ReceiveFailsKeeps ==
    ASSUME SessionInv, ReceiveFails
    PROVE  SessionInv'
<1>1. ReceiveStageEnds("Err") /\ UNCHANGED << vars, summary, handoff >>
  BY DEF ReceiveFails
<1>2. ReceiveInv'
  <2>1. TypeOK'
    BY <1>1, UnchangedType DEF SessionInv, ReceiveInv
  <2> QED BY <1>1, <2>1, RegistrationKeepsReceiveInv DEF SessionInv, vars
<1>3. summary'.count["packets_received"] <= MaxVideoPackets
  BY <1>1 DEF SessionInv, LoopInv
<1> QED BY <1>1, <1>2, <1>3, FailedStageEnds

---------------------------------------------------------------------------
(***************************************************************************)
(* The serve loop.                                                         *)
(***************************************************************************)

\* Counted counts up one counter of the serve loop.
LEMMA CountedCounts ==
    ASSUME StageInv, NEW n \in HandoffCounter, NEW h, h = Counted(handoff, n)
    PROVE  /\ h \in [count : [HandoffCounter -> Nat], served : Nat,
                     stop_reason : {"None", "MaxRequestsReached", "CreatePipe", "Connect",
                                    "ReadRequest", "DecodeRequest", "WriteResponse"}]
           /\ h.stop_reason = handoff.stop_reason /\ h.served = handoff.served
           /\ h.count[n] = handoff.count[n] + 1
           /\ \A i \in HandoffCounter \ {n} : h.count[i] = handoff.count[i]
<1> DEFINE c == [handoff.count EXCEPT ![n] = @ + 1]
<1>1. h = [handoff EXCEPT !.count = c]
  BY DEF Counted
<1>2. handoff.count \in [HandoffCounter -> Nat]
  BY DEF StageInv
<1>3. /\ c \in [HandoffCounter -> Nat] /\ c[n] = handoff.count[n] + 1
      /\ \A i \in HandoffCounter \ {n} : c[i] = handoff.count[i]
  BY <1>2
<1> HIDE DEF c
<1>4. /\ h \in [count : [HandoffCounter -> Nat], served : Nat,
                stop_reason : {"None", "MaxRequestsReached", "CreatePipe", "Connect",
                               "ReadRequest", "DecodeRequest", "WriteResponse"}]
      /\ h.stop_reason = handoff.stop_reason /\ h.served = handoff.served /\ h.count = c
  BY <1>1, <1>3 DEF StageInv
<1> QED BY <1>3, <1>4

\* What the serve loop's steps leave alone.
LEMMA ServingKeepsLoopInv ==
    ASSUME SessionInv, pc = "Serve", UNCHANGED summary, pc' \in {"Serve", "Done"},
           pc' = "Serve" => handoff'.stop_reason = "None"
    PROVE  LoopInv'
BY DEF SessionInv, LoopInv

\* The serve loop is left without another frame taken.
LEMMA ServeLoopEnds ==
    ASSUME SessionInv, pc = "Serve", UNCHANGED vars, NEW h, NEW reason, ServeEnds(h, reason),
           reason \in {"MaxRequestsReached", "CreatePipe", "Connect", "ReadRequest", "DecodeRequest"},
           h = handoff \/ h = Counted(handoff, "io_error_count")
              \/ h = Counted(handoff, "parse_error_count")
    PROVE  SessionInv'
<1>1. pc' = "Done" /\ handoff' = [h EXCEPT !.stop_reason = reason] /\ UNCHANGED << summary, result >>
  BY DEF ServeEnds
<1>2. /\ h \in [count : [HandoffCounter -> Nat], served : Nat,
                stop_reason : {"None", "MaxRequestsReached", "CreatePipe", "Connect",
                               "ReadRequest", "DecodeRequest", "WriteResponse"}]
      /\ h.count["frame_read_count"] = handoff.count["frame_read_count"]
  BY CountedCounts DEF SessionInv, StageInv, HandoffCounter
<1>3. StageInv' /\ handoff'.stop_reason = reason /\ handoff'.count = h.count
  BY <1>1, <1>2 DEF SessionInv, StageInv
<1>4. LoopInv'
  BY <1>1, ServingKeepsLoopInv
<1>5. ReceiveInv'
  <2>1. TypeOK'
    BY UnchangedType DEF SessionInv, ReceiveInv
  <2> QED BY <1>1, <2>1, RegistrationKeepsReceiveInv DEF SessionInv, vars
<1>6. ServedFromReportedQueue'
  <2>1. handoff.stop_reason = "None"
    BY DEF SessionInv, LoopInv
  <2>2. total_len(queue') = total_len(queue)
    BY DEF vars
  <2>3. handoff'.count["frame_read_count"] = handoff.count["frame_read_count"]
    BY <1>2, <1>3
  <2>4. result = "Received" =>
          /\ summary.count["queue_len"] - total_len(queue) >= 0
          /\ summary.count["queue_len"] - total_len(queue) <= handoff.count["frame_read_count"]
    <3>1. /\ summary.count["queue_len"] \in Nat /\ total_len(queue) \in Nat
          /\ handoff.count["frame_read_count"] \in Nat
      BY SummaryFields, TotalLenType
         DEF SessionInv, ReceiveInv, TypeOK, QueueTypeOK, Counter, StageInv, HandoffCounter
    <3>2. result = "Received" =>
            summary.count["queue_len"] - total_len(queue)
              \in 0 .. handoff.count["frame_read_count"]
      BY <2>1, <3>1 DEF SessionInv, ServedFromReportedQueue
    <3> QED BY <3>1, <3>2
  <2>5. handoff'.stop_reason # "WriteResponse"
    BY <1>3
  <2>6. result' = "Received" =>
          /\ summary'.count["queue_len"] - total_len(queue') >= 0
          /\ summary'.count["queue_len"] - total_len(queue')
               <= handoff'.count["frame_read_count"] + 0
    <3>1. handoff.count["frame_read_count"] \in Nat
      BY DEF SessionInv, StageInv, HandoffCounter
    <3>2. handoff'.count["frame_read_count"] + 0 = handoff.count["frame_read_count"]
      BY <2>3, <3>1
    <3> QED BY <1>1, <2>2, <2>4, <3>2
  <2> QED BY <2>5, <2>6 DEF ServedFromReportedQueue
<1> QED BY <1>3, <1>4, <1>5, <1>6 DEF SessionInv

\* A request that is answered, and one whose answer cannot be written.
LEMMA ServeOneKeeps ==
    ASSUME SessionInv, NEW c \in Clients, NEW r \in Runs, NEW mode \in ReadMode,
           ServeOne(c, r, mode)
    PROVE  SessionInv'
<1> DEFINE kind == HandoffResponse(c, r, mode).kind
           n == KindCounter(kind)
           g == Counted(handoff, n)
           w == Counted(handoff, "io_error_count")
           earlier == handoff.count["frame_read_count"]
<1>1. pc = "Serve" /\ handle_request(c, r, mode) /\ UNCHANGED << summary, result >>
  BY DEF ServeOne, ServeEnds
<1>2. handoff.stop_reason = "None" /\ earlier \in Nat
  BY <1>1 DEF SessionInv, LoopInv, StageInv, HandoffCounter
<1>3. ReceiveInv'
  BY <1>1, RequestKeepsReceiveInv DEF SessionInv
<1>4. /\ total_len(queue') \in Nat
      /\ total_len(queue') <= total_len(queue)
      /\ total_len(queue) <= total_len(queue') + 1
      /\ kind # "FrameRead" => total_len(queue') = total_len(queue)
  BY <1>1, RequestTakes DEF SessionInv, ReceiveInv, TypeOK
<1>5. kind \in {"FrameRead", "NoFrame", "HandoffError"}
  BY DEF HandoffResponse
<1> HIDE DEF kind
<1>6. n \in HandoffCounter /\ (kind = "FrameRead" <=> n = "frame_read_count")
  BY <1>5 DEF KindCounter, HandoffCounter
<1>7. result = "Received" =>
        /\ summary.count["queue_len"] - total_len(queue) >= 0
        /\ summary.count["queue_len"] - total_len(queue) <= earlier
  BY <1>1, <1>2 DEF SessionInv, ServedFromReportedQueue
<1>8. summary.count["queue_len"] \in Nat /\ total_len(queue) \in Nat
  BY SummaryFields, TotalLenType DEF SessionInv, ReceiveInv, TypeOK, QueueTypeOK, Counter
<1>9. CASE handoff' = [g EXCEPT !.served = @ + 1] /\ UNCHANGED << pc, result >>
  <2>1. /\ g \in [count : [HandoffCounter -> Nat], served : Nat,
                  stop_reason : {"None", "MaxRequestsReached", "CreatePipe", "Connect",
                                 "ReadRequest", "DecodeRequest", "WriteResponse"}]
        /\ g.stop_reason = handoff.stop_reason
        /\ g.count[n] = handoff.count[n] + 1
        /\ \A i \in HandoffCounter \ {n} : g.count[i] = handoff.count[i]
    BY <1>6, CountedCounts DEF SessionInv
  <2> HIDE DEF g
  <2>2. /\ handoff' \in [count : [HandoffCounter -> Nat], served : Nat,
                  stop_reason : {"None", "MaxRequestsReached", "CreatePipe", "Connect",
                                 "ReadRequest", "DecodeRequest", "WriteResponse"}]
        /\ handoff'.count = g.count /\ handoff'.stop_reason = "None"
    BY <1>2, <1>9, <2>1
  <2>3. StageInv'
    BY <1>9, <2>2 DEF SessionInv, StageInv
  <2>4. LoopInv'
    BY <1>1, <1>9, <2>2, ServingKeepsLoopInv
  <2>5. handoff'.count["frame_read_count"] = IF kind = "FrameRead" THEN earlier + 1 ELSE earlier
    BY <1>6, <2>1, <2>2 DEF HandoffCounter
  <2>6. result = "Received" =>
          /\ summary.count["queue_len"] - total_len(queue') >= 0
          /\ summary.count["queue_len"] - total_len(queue') <= handoff'.count["frame_read_count"]
    <3>1. CASE kind = "FrameRead"
      <4>1. handoff'.count["frame_read_count"] = earlier + 1
        BY <2>5, <3>1
      <4> HIDE DEF earlier
      <4> QED BY <1>2, <1>4, <1>7, <1>8, <4>1
    <3>2. CASE kind # "FrameRead"
      <4>1. handoff'.count["frame_read_count"] = earlier /\ total_len(queue') = total_len(queue)
        BY <1>4, <2>5, <3>2
      <4> QED BY <1>7, <4>1
    <3> QED BY <3>1, <3>2
  <2>7. result' = "Received" =>
          /\ summary'.count["queue_len"] - total_len(queue') >= 0
          /\ summary'.count["queue_len"] - total_len(queue')
               <= handoff'.count["frame_read_count"] + 0
    <3>1. handoff'.count["frame_read_count"] \in Nat
      BY <2>2 DEF HandoffCounter
    <3>2. handoff'.count["frame_read_count"] + 0 = handoff'.count["frame_read_count"]
      BY <3>1
    <3> QED BY <1>1, <1>9, <2>6, <3>2
  <2>8. ServedFromReportedQueue'
    BY <2>2, <2>7 DEF ServedFromReportedQueue
  <2> QED BY <1>3, <2>3, <2>4, <2>8 DEF SessionInv
<1>10. CASE ServeEnds(w, "WriteResponse")
  <2>1. /\ w \in [count : [HandoffCounter -> Nat], served : Nat,
                  stop_reason : {"None", "MaxRequestsReached", "CreatePipe", "Connect",
                                 "ReadRequest", "DecodeRequest", "WriteResponse"}]
        /\ w.count["frame_read_count"] = earlier
    BY CountedCounts DEF SessionInv, HandoffCounter
  <2>2. pc' = "Done" /\ handoff' = [w EXCEPT !.stop_reason = "WriteResponse"]
    BY <1>10 DEF ServeEnds
  <2> HIDE DEF w
  <2>3. /\ handoff' \in [count : [HandoffCounter -> Nat], served : Nat,
                  stop_reason : {"None", "MaxRequestsReached", "CreatePipe", "Connect",
                                 "ReadRequest", "DecodeRequest", "WriteResponse"}]
        /\ handoff'.count = w.count /\ handoff'.stop_reason = "WriteResponse"
    BY <2>1, <2>2
  <2>4. StageInv'
    BY <1>1, <2>2, <2>3 DEF SessionInv, StageInv
  <2>5. LoopInv'
    BY <1>1, <2>2, ServingKeepsLoopInv
  <2>6. result = "Received" =>
          /\ summary.count["queue_len"] - total_len(queue') >= 0
          /\ summary.count["queue_len"] - total_len(queue') <= earlier + 1
    <3> HIDE DEF earlier
    <3> QED BY <1>2, <1>4, <1>7, <1>8
  <2>7. ServedFromReportedQueue'
    BY <1>1, <2>1, <2>2, <2>3, <2>6 DEF ServedFromReportedQueue
  <2> QED BY <1>3, <2>4, <2>5, <2>7 DEF SessionInv
<1> QED BY <1>9, <1>10 DEF ServeOne, kind

---------------------------------------------------------------------------
\* A step that changes nothing.
LEMMA SessionStutters == ASSUME SessionInv, UNCHANGED sessionVars PROVE SessionInv'
<1>1. UNCHANGED << vars, summary, pc, result, handoff >>
  BY DEF sessionVars
<1>2. ReceiveInv'
  <2>1. TypeOK'
    BY <1>1, UnchangedType DEF SessionInv, ReceiveInv
  <2> QED BY <1>1, <2>1, RegistrationKeepsReceiveInv DEF SessionInv, vars
<1>3. StageInv'
  BY <1>1 DEF SessionInv, StageInv
<1>4. LoopInv'
  BY <1>1 DEF SessionInv, LoopInv, evaluate_reassembled_stop_reason,
              client_aware_threshold_met, vars
<1>5. ServedFromReportedQueue'
  BY <1>1 DEF SessionInv, ServedFromReportedQueue, vars
<1> QED BY <1>2, <1>3, <1>4, <1>5 DEF SessionInv

\* Every step of the launcher.
LEMMA SessionStep == ASSUME SessionInv, SessionNext PROVE SessionInv'
<1>1. CASE \E p \in Packets : FirstAuth(p)
  BY <1>1, FirstAuthKeeps
<1>2. CASE \E p \in Packets : ReceiveVideoPacket(p)
  BY <1>2, ReceiveVideoPacketKeeps
<1>3. CASE ReceiveTimesOut
  <2>1. "ReceiveTimedOut" \in StopReason
    BY DEF StopReason
  <2> QED BY <1>3, <2>1, SnapshotEndsStage DEF ReceiveTimesOut
<1>4. CASE MaxVideoPacketsReached
  <2>1. "MaxVideoPacketsReached" \in StopReason
    BY DEF StopReason
  <2> QED BY <1>4, <2>1, SnapshotEndsStage DEF MaxVideoPacketsReached
<1>5. CASE \E p \in Packets : VideoPacketFails(p)
  BY <1>5, VideoPacketFailsKeeps
<1>6. CASE ReceiveFails
  BY <1>6, ReceiveFailsKeeps
<1>7. CASE \E c \in Clients, r \in Runs, mode \in ReadMode : ServeOne(c, r, mode)
  BY <1>7, ServeOneKeeps
<1>8. CASE MaxRequestsReached
  BY <1>8, ServeLoopEnds DEF MaxRequestsReached
<1>9. CASE \E reason \in IoFailures : AcceptFails(reason)
  <2>1. PICK reason \in IoFailures : AcceptFails(reason)
    BY <1>9
  <2> DEFINE h == Counted(handoff, IF reason = "DecodeRequest" THEN "parse_error_count"
                                                              ELSE "io_error_count")
  <2>2. h = Counted(handoff, "io_error_count") \/ h = Counted(handoff, "parse_error_count")
    OBVIOUS
  <2>3. pc = "Serve" /\ UNCHANGED vars /\ ServeEnds(h, reason)
        /\ reason \in {"CreatePipe", "Connect", "ReadRequest", "DecodeRequest"}
    BY <2>1 DEF AcceptFails
  <2> HIDE DEF h
  <2> QED BY <2>2, <2>3, ServeLoopEnds
<1>10. CASE Done
  BY <1>10, SessionStutters DEF Done
<1> QED BY <1>1, <1>2, <1>3, <1>4, <1>5, <1>6, <1>7, <1>8, <1>9, <1>10 DEF SessionNext, ReceiveStep

\* What a staged launcher reports agrees with what it did: in every reachable
\* state the counters account for what was queued, reassembled and rejected,
\* the receive loop has not gone on past a threshold or the packet limit, and
\* the queue holds what was reported, less what switchers were given.
THEOREM SessionReportsAgree == SessionSpec => []SessionInvariant
<1>1. SessionInit => SessionInv
  BY SessionInvInit
<1>2. SessionInv /\ [SessionNext]_sessionVars => SessionInv'
  BY SessionStep, SessionStutters
<1>3. SessionInv => SessionInvariant
  BY SessionInvImplies
<1> QED BY <1>1, <1>2, <1>3, PTL DEF SessionSpec

---------------------------------------------------------------------------
(***************************************************************************)
(* The client that sends, and what arrives of it.  The invariant has one   *)
(* part for each end: what the client has still to send and has reported   *)
(* is what is on the wire, and what the server accepted has been queued or *)
(* waits in the reassembly for the rest of its frame.                      *)
(***************************************************************************)

(***************************************************************************)
(* A frame goes out in one datagram, or cut into fragments.                *)
(***************************************************************************)
Direct(f) == f.size > 0 /\ SendsDirect(f)
Fragmented(f) == f.size > 0 /\ ~SendsDirect(f) /\ Fits(f)

\* The captures of a client have different stamps.
DistinctCaptures ==
  \A i, j \in DOMAIN Frames :
    Frames[i].client = Frames[j].client /\ Frames[i].stamp = Frames[j].stamp => i = j

\* No two frames that are cut share a client, run and frame id.
DistinctIds ==
  \A i, j \in DOMAIN Frames :
    /\ Fragmented(Frames[i]) /\ Fragmented(Frames[j])
    /\ Frames[i].client = Frames[j].client /\ Frames[i].run = Frames[j].run
    /\ Frames[i].id = Frames[j].id
    => i = j

\* What the client makes of its frames is among the packets there are.
DatagramsArePackets ==
  \A i \in DOMAIN Frames :
    /\ Direct(Frames[i]) => encode_handoff(Frames[i]) \in Packets
    /\ Fragmented(Frames[i]) =>
         \A j \in 1 .. chunk_count(Frames[i]) : fragment(Frames[i])[j] \in Packets

FrameRecords == [client : Clients, run : Runs, id : FrameIds, stamp : Stamps,
                 key : BOOLEAN, size : Nat]
ReportKinds == {"EmptyPayload", "FragmentPayloadCapacityTooSmall", "DirectSent", "Send",
                "FragmentedSent"}
ReportRecords == [frame : FrameRecords, kind : ReportKinds, attempted : Nat, sent : Nat,
                  failed : SUBSET Nat, slept : Nat]

Sleeps(n, slept) == DelayEvery # 0 => slept = n \div DelayEvery

\* The fragments of frame i that have left.
SentOf(i) == IF i <= Len(reports) THEN reports[i].sent ELSE progress.sent

ClientTypes ==
  /\ next \in 0 .. Len(Frames)
  /\ fragments \in Seq(Packets)
  /\ progress \in [sent : Nat, slept : Nat]
  /\ reports \in Seq(ReportRecords)
  /\ Len(reports) + (IF fragments = <<>> THEN 0 ELSE 1) = next

\* What is still to send of the current frame.
CutInv ==
  fragments # <<>> =>
    /\ Fragmented(Frames[next])
    /\ progress.sent + Len(fragments) = chunk_count(Frames[next])
    /\ \A j \in 1 .. Len(fragments) : fragments[j] = fragment(Frames[next])[progress.sent + j]
    /\ Sleeps(progress.sent, progress.slept)

\* What is reported of a frame.
ReportOf(r, f) ==
  /\ r.frame = f
  /\ r.attempted = r.sent + Cardinality(r.failed)
  /\ r.failed \subseteq {r.sent}
  /\ Sleeps(r.sent, r.slept)
  /\ r.sent > 0 => Fragmented(f)
  /\ r.kind = "DirectSent" => Direct(f)
  /\ r.kind = "FragmentedSent" => Fragmented(f)
  /\ Fragmented(f) => /\ r.sent <= chunk_count(f)
                      /\ r.kind = "FragmentedSent" <=> r.sent = chunk_count(f)

ReportInv == \A i \in 1 .. Len(reports) : ReportOf(reports[i], Frames[i])

\* On the wire are the requests that were there, and what was reported as sent.
WireInv ==
  /\ \A p \in wire :
       \/ p \in Packets /\ p.type = "AuthRequest"
       \/ \E i \in 1 .. Len(reports) :
            reports[i].kind = "DirectSent" /\ p = encode_handoff(Frames[i])
       \/ \E i \in 1 .. next : \E j \in 1 .. SentOf(i) : p = fragment(Frames[i])[j]
  /\ \A i \in 1 .. Len(reports) :
       reports[i].kind = "DirectSent" => encode_handoff(Frames[i]) \in wire
  /\ \A i \in 1 .. next : \A j \in 1 .. SentOf(i) : fragment(Frames[i])[j] \in wire

ClientInv == ClientTypes /\ CutInv /\ ReportInv /\ WireInv

\* An entry of the reassembly waits for the fragments of one frame; those it has
\* were accepted, and one is missing.
KeyOf(f) == <<f.client, f.run, f.id>>
Collected(f, chunks) ==
  [stamp |-> f.stamp, key |-> f.key, total |-> f.size, count |-> chunk_count(f), chunks |-> chunks]
ChunksOf(chunks, f) ==
  /\ DOMAIN chunks \subseteq 0 .. chunk_count(f) - 1
  /\ chunks = [x \in DOMAIN chunks |-> fragment(f)[x + 1].chunk]
  /\ \A x \in DOMAIN chunks : fragment(f)[x + 1] \in accepted
EntryOf(e, k, f) ==
  /\ Fragmented(f) /\ k = KeyOf(f)
  /\ e = Collected(f, e.chunks) /\ ChunksOf(e.chunks, f)
  /\ DOMAIN e.chunks # 0 .. chunk_count(f) - 1

EntryInv ==
  \A k \in DOMAIN reassembly : \E i \in DOMAIN Frames : EntryOf(reassembly[k], k, Frames[i])

\* Every datagram of the frame was accepted.
AllAccepted(f) ==
  \/ Direct(f) /\ encode_handoff(f) \in accepted
  \/ Fragmented(f) /\ \A j \in 1 .. chunk_count(f) : fragment(f)[j] \in accepted

StoredInv ==
  /\ queue \in [Clients -> Seq(stored)]
  /\ \A q \in stored : \E i \in DOMAIN Frames : AllAccepted(Frames[i]) /\ CapturedAs(q, Frames[i])

Arrived(f) == \E q \in stored : CapturedAs(q, f)

WaitsIn(f, j) ==
  KeyOf(f) \in DOMAIN reassembly /\ j - 1 \in DOMAIN reassembly[KeyOf(f)].chunks

\* What was accepted has been queued, or waits for the rest of its frame.
AcceptedInv ==
  /\ accepted \subseteq wire
  /\ \A i \in DOMAIN Frames :
       /\ Direct(Frames[i]) /\ encode_handoff(Frames[i]) \in accepted => Arrived(Frames[i])
       /\ Fragmented(Frames[i]) =>
            \A j \in 1 .. chunk_count(Frames[i]) :
              fragment(Frames[i])[j] \in accepted => Arrived(Frames[i]) \/ WaitsIn(Frames[i], j)

ServerInv == EntryInv /\ StoredInv /\ AcceptedInv

SendInv == ClientInv /\ ServerInv

---------------------------------------------------------------------------
(* Arithmetic.                                                             *)

LEMMA DivBounds ==
  ASSUME NEW a \in Nat, NEW n \in Nat \ {0}
  PROVE  a \div n \in Nat /\ (a \div n) * n <= a /\ a < (a \div n) * n + n
BY Z3

LEMMA TimesMonotone ==
  ASSUME NEW a \in Nat, NEW b \in Nat, a <= b, NEW n \in Nat
  PROVE  a * n <= b * n
BY Z3

LEMMA TimesNext ==
  ASSUME NEW a \in Nat, NEW n \in Nat
  PROVE  (a + 1) * n = a * n + n /\ a * n \in Nat
BY Z3

LEMMA DivNext ==
  ASSUME NEW s \in Nat, NEW d \in Nat \ {0}
  PROVE  (s + 1) \div d = (s \div d) + (IF (s + 1) % d = 0 THEN 1 ELSE 0)
BY Z3

\* A payload cut into k pieces of n bytes, the last one shorter, counted from a.
PiecesOf(c, a, n, size, k) ==
  /\ n \in Nat \ {0} /\ size \in Nat /\ k \in Nat \ {0} /\ a \in Nat
  /\ (k - 1) * n < size /\ size <= k * n
  /\ DOMAIN c = a .. a + k - 1
  /\ \A x \in DOMAIN c : c[x].len = SmallerOf(n, size - (x - a) * n)

\* The lengths of the pieces of a payload add up to its size (payload.chunks(n),
\* total_payload_len).
LEMMA PiecesAddUp ==
  ASSUME NEW c, NEW a, NEW n, NEW size, NEW k, PiecesOf(c, a, n, size, k)
  PROVE  payload_len(c) = size
<1>0. /\ n \in Nat \ {0} /\ size \in Nat /\ k \in Nat \ {0} /\ a \in Nat
      /\ (k - 1) * n < size /\ size <= k * n
      /\ DOMAIN c = a .. a + k - 1
      /\ \A x \in DOMAIN c : c[x].len = SmallerOf(n, size - (x - a) * n)
  BY DEF PiecesOf
<1> USE <1>0
<1> DEFINE D == DOMAIN c
           f == [x \in D |-> c[x].len]
           Sums(iter) ==
             iter = [s \in SUBSET D |->
                       IF s = {} THEN 0 ELSE c[Picked(s)].len + iter[s \ {Picked(s)}]]
           g == CHOOSE iter : Sums(iter)
<1>1. IsFiniteSet(D)
  <2>1. a \in Int /\ a + k - 1 \in Int
    OBVIOUS
  <2> QED BY <2>1, FS_Interval
<1>2. PartialSums(f, D, g)
  <2>1. \A s \in SUBSET D : s # {} => f[Picked(s)] = c[Picked(s)].len
    BY PickedIsElement
  <2>2. \A iter : PartialSums(f, D, iter) <=> Sums(iter)
    <3>1. \A iter : [s \in SUBSET D |-> Adds(f, iter, s)]
                  = [s \in SUBSET D |->
                       IF s = {} THEN 0 ELSE c[Picked(s)].len + iter[s \ {Picked(s)}]]
      <4> HIDE DEF f
      <4> QED BY <2>1 DEF Adds
    <3> QED BY <3>1 DEF PartialSums
  <2>3. \E iter : PartialSums(f, D, iter)
    BY <1>1, PartialSumsExist
  <2> HIDE DEF f, Sums
  <2> QED BY <2>2, <2>3
<1>3. payload_len(c) = g[D]
  BY DEF payload_len, MapThenSumSet, MapThenFoldSet, Picked
<1>4. ASSUME NEW x \in D
      PROVE  /\ f[x] \in Nat /\ f[x] = SmallerOf(n, size - (x - a) * n)
             /\ x - a \in Nat /\ (x - a) * n \in Nat /\ (x - a) * n <= size
  <2>1. x - a \in Nat /\ x - a <= k - 1 /\ k - 1 \in Nat
    OBVIOUS
  <2>2. (x - a) * n \in Nat /\ (x - a) * n <= (k - 1) * n /\ (k - 1) * n \in Nat
    BY <2>1, TimesMonotone, TimesNext
  <2>3. f[x] = SmallerOf(n, size - (x - a) * n)
    OBVIOUS
  <2> QED BY <2>1, <2>2, <2>3 DEF SmallerOf
<1> HIDE DEF f, g
<1>5. \A s \in SUBSET D : g[s] \in Nat /\ \A x \in s : g[s] = f[x] + g[s \ {x}]
  <2>1. \A x \in D : f[x] \in Nat
    BY <1>4
  <2> HIDE DEF D
  <2> HIDE <1>0
  <2>2. ASSUME NEW s \in SUBSET D PROVE g[s] \in Nat
    BY <1>1, <1>2, <2>1, PartialSumRemoves
  <2>3. ASSUME NEW s \in SUBSET D, NEW x \in s PROVE g[s] = f[x] + g[s \ {x}]
    BY <1>1, <1>2, <2>1, PartialSumRemoves
  <2> QED BY <2>2, <2>3
<1> DEFINE T == { m \in Nat : m <= k => g[a .. a + m - 1] = SmallerOf(m * n, size) }
<1>6. 0 \in T
  <2>1. a .. a + 0 - 1 = {}
    OBVIOUS
  <2>2. g[{}] = 0
    BY <1>2 DEF PartialSums, Adds
  <2>3. SmallerOf(0 * n, size) = 0
    BY DEF SmallerOf
  <2> QED BY <2>1, <2>2, <2>3
<1>7. ASSUME NEW m \in Nat, m \in T PROVE m + 1 \in T
  <2> SUFFICES ASSUME m + 1 <= k
               PROVE  g[a .. a + (m + 1) - 1] = SmallerOf((m + 1) * n, size)
    OBVIOUS
  <2> DEFINE s == a .. a + m
  <2>1. a .. a + (m + 1) - 1 = s
    OBVIOUS
  <2>2. s \in SUBSET D /\ a + m \in s /\ s \ {a + m} = a .. a + m - 1
    <3>1. s \subseteq a .. a + k - 1
      OBVIOUS
    <3>2. \A x : x \in s \ {a + m} <=> x \in a .. a + m - 1
      OBVIOUS
    <3> QED BY <3>1, <3>2
  <2> HIDE DEF s
  <2>3. g[s] = f[a + m] + g[a .. a + m - 1]
    BY <1>5, <2>2
  <2>4. g[a .. a + m - 1] = SmallerOf(m * n, size)
    BY <1>7
  <2>5. f[a + m] = SmallerOf(n, size - m * n) /\ m * n \in Nat /\ m * n <= size
    <3>1. a + m \in D /\ (a + m) - a = m
      BY <2>2
    <3> QED BY <1>4, <3>1
  <2>6. (m + 1) * n = m * n + n
    BY TimesNext
  <2> DEFINE P == m * n
             Q == (m + 1) * n
  <2>7. P \in Nat /\ P <= size /\ Q = P + n
    BY <2>5, <2>6
  <2>8. g[a .. a + m - 1] = SmallerOf(P, size) /\ f[a + m] = SmallerOf(n, size - P)
    BY <2>4, <2>5
  <2> HIDE DEF P, Q
  <2>9. g[s] = SmallerOf(n, size - P) + SmallerOf(P, size)
    BY <2>3, <2>8
  <2>10. g[s] = SmallerOf(Q, size)
    BY <2>7, <2>9 DEF SmallerOf
  <2> QED BY <2>1, <2>10 DEF Q
<1>8. k \in T
  <2>1. Nat \subseteq T
    <3> HIDE DEF T
    <3> QED BY <1>6, <1>7, NatInductive
  <2> QED BY <2>1
<1>9. g[D] = SmallerOf(k * n, size)
  BY <1>8
<1>10. k * n \in Nat
  BY TimesNext
<1> QED BY <1>3, <1>9, <1>10 DEF SmallerOf

\* A payload of one piece.
LEMMA OnePiece ==
  ASSUME NEW piece, piece.len \in Nat \ {0}
  PROVE  payload_len(<<piece>>) = piece.len
<1> DEFINE n == piece.len
           c == <<piece>>
<1>1. DOMAIN c = 1 .. 1 + 1 - 1
  OBVIOUS
<1>2. (1 - 1) * n < n /\ n <= 1 * n
  OBVIOUS
<1>3. \A x \in DOMAIN c : c[x].len = SmallerOf(n, n - (x - 1) * n)
  BY <1>1 DEF SmallerOf
<1> HIDE DEF n, c
<1>4. n \in Nat \ {0}
  BY DEF n
<1>5. payload_len(c) = n
  <2>1. PiecesOf(c, 1, n, n, 1)
    BY <1>1, <1>2, <1>3, <1>4 DEF PiecesOf
  <2> QED BY <2>1, PiecesAddUp
<1> QED BY <1>5 DEF n, c

---------------------------------------------------------------------------
(* How a frame is cut.                                                     *)

\* The frames are records, and their identifiers have lengths.
LEMMA FrameType ==
  ASSUME FragmentSendAssumption, NEW i \in DOMAIN Frames
  PROVE  /\ Frames[i] \in FrameRecords
         /\ IdLen[Frames[i].client] \in Nat /\ IdLen[Frames[i].run] \in Nat
         /\ DOMAIN Frames = 1 .. Len(Frames) /\ Len(Frames) \in Nat
<1>1. Frames \in Seq(FrameRecords)
  BY DEF FragmentSendAssumption, FrameRecords
<1>2. Frames[i] \in FrameRecords
  BY <1>1
<1>3. Frames[i].client \in Clients /\ Frames[i].run \in Runs
  BY <1>2 DEF FrameRecords
<1>4. IdLen \in [Clients \cup Runs -> Nat]
  BY DEF FragmentSendAssumption
<1> QED BY <1>1, <1>2, <1>3, <1>4

\* The length of a chunk, and how many there are (max_chunk_payload_len,
\* chunk_count).
LEMMA CutSizes ==
  ASSUME FragmentSendAssumption, NEW i \in DOMAIN Frames, Fragmented(Frames[i])
  PROVE  LET f == Frames[i]
             n == max_chunk_payload_len(f)
             k == chunk_count(f)
         IN  /\ n \in Nat \ {0} /\ n <= SafeMax - fragment_overhead_len(f)
             /\ k \in Nat \ {0} /\ (k - 1) * n < f.size /\ f.size <= k * n
             /\ f.size \in Nat \ {0} /\ fragment_overhead_len(f) \in Nat
<1> DEFINE f == Frames[i]
           n == max_chunk_payload_len(f)
           k == chunk_count(f)
<1>1. f \in FrameRecords /\ IdLen[f.client] \in Nat /\ IdLen[f.run] \in Nat
  BY FrameType
<1>2. fragment_overhead_len(f) \in Nat
  BY <1>1 DEF fragment_overhead_len, HeaderLen
<1>3. SafeMax \in Nat /\ TargetChunk \in Nat \ {0}
  BY DEF FragmentSendAssumption
<1>4. n \in Nat \ {0} /\ n <= SafeMax - fragment_overhead_len(f)
  BY <1>2, <1>3 DEF max_chunk_payload_len, SmallerOf, Fragmented, Fits
<1>5. f.size \in Nat \ {0}
  BY <1>1 DEF FrameRecords, Fragmented
<1>6. k = (f.size + n - 1) \div n
  BY DEF chunk_count
<1> HIDE DEF f, n, k
<1> DEFINE a == f.size + n - 1
<1>7. a \in Nat /\ k = a \div n
  BY <1>4, <1>5, <1>6
<1> HIDE DEF a
<1>8. k \in Nat /\ k * n <= a /\ a < k * n + n
  BY <1>4, <1>7, DivBounds
<1>9. a = f.size + n - 1
  BY DEF a
<1>10. k # 0
  <2>1. k = 0 => k * n = 0
    BY <1>4
  <2> QED BY <1>4, <1>5, <1>8, <1>9, <2>1
<1>11. k * n = (k - 1) * n + n /\ (k - 1) * n \in Nat
  <2>1. k - 1 \in Nat /\ (k - 1) + 1 = k
    BY <1>8, <1>10
  <2> QED BY <1>4, <2>1, TimesNext
<1>12. (k - 1) * n < f.size /\ f.size <= k * n
  <2> DEFINE P == (k - 1) * n
             Q == k * n
  <2>1. P \in Nat /\ Q = P + n /\ Q <= a /\ a < Q + n
    BY <1>8, <1>11
  <2> HIDE DEF P, Q
  <2>2. P < f.size /\ f.size <= Q
    BY <1>4, <1>5, <1>9, <2>1
  <2> QED BY <2>2 DEF P, Q
<1> QED BY <1>2, <1>4, <1>5, <1>8, <1>10, <1>12 DEF f, n, k

PieceLen(f, x) == SmallerOf(max_chunk_payload_len(f), f.size - x * max_chunk_payload_len(f))

\* The fragments of a frame (fragment).
LEMMA FragmentFields ==
  ASSUME NEW f
  PROVE  /\ DOMAIN fragment(f) = 1 .. chunk_count(f)
         /\ \A j \in 1 .. chunk_count(f) :
              fragment(f)[j] =
                [type |-> "VideoFrameFragment", source |-> Endpoint, client |-> f.client,
                 run |-> f.run, id |-> f.id, stamp |-> f.stamp, key |-> f.key, total |-> f.size,
                 count |-> chunk_count(f), index |-> j - 1,
                 chunk_payload_len |-> PieceLen(f, j - 1),
                 chunk |-> Piece(f, j - 1, PieceLen(f, j - 1))]
BY DEF fragment, chunk_count, PieceLen

LEMMA FragmentOf ==
  ASSUME NEW f, NEW j \in 1 .. chunk_count(f)
  PROVE  LET p == fragment(f)[j]
         IN  /\ p.type = "VideoFrameFragment" /\ p.source = Endpoint
             /\ p.client = f.client /\ p.run = f.run /\ p.id = f.id
             /\ p.stamp = f.stamp /\ p.key = f.key /\ p.total = f.size
             /\ p.count = chunk_count(f) /\ p.index = j - 1
             /\ p.chunk_payload_len = p.chunk.len
             /\ p.chunk.len = PieceLen(f, j - 1)
             /\ p.chunk.stamp = f.stamp /\ p.chunk.index = j - 1
<1> DEFINE p == fragment(f)[j]
<1>1. p = [type |-> "VideoFrameFragment", source |-> Endpoint, client |-> f.client,
           run |-> f.run, id |-> f.id, stamp |-> f.stamp, key |-> f.key, total |-> f.size,
           count |-> chunk_count(f), index |-> j - 1,
           chunk_payload_len |-> PieceLen(f, j - 1),
           chunk |-> Piece(f, j - 1, PieceLen(f, j - 1))]
  BY FragmentFields
<1> HIDE DEF p
<1>2. /\ p.type = "VideoFrameFragment" /\ p.source = Endpoint
      /\ p.client = f.client /\ p.run = f.run /\ p.id = f.id
      /\ p.stamp = f.stamp /\ p.key = f.key /\ p.total = f.size
      /\ p.count = chunk_count(f) /\ p.index = j - 1
      /\ p.chunk_payload_len = PieceLen(f, j - 1)
      /\ p.chunk = Piece(f, j - 1, PieceLen(f, j - 1))
  BY <1>1
<1> QED BY <1>2 DEF p, Piece

\* A chunk is at least a byte and at most the planned length, so its datagram fits.
LEMMA FragmentFits ==
  ASSUME FragmentSendAssumption, NEW i \in DOMAIN Frames, Fragmented(Frames[i]),
         NEW j \in 1 .. chunk_count(Frames[i])
  PROVE  /\ PieceLen(Frames[i], j - 1) \in Nat
         /\ EncodedLen(fragment(Frames[i])[j]) <= SafeMax
<1> DEFINE f == Frames[i]
           n == max_chunk_payload_len(f)
           k == chunk_count(f)
           p == fragment(f)[j]
<1>1. /\ n \in Nat \ {0} /\ n <= SafeMax - fragment_overhead_len(f)
      /\ k \in Nat \ {0} /\ (k - 1) * n < f.size /\ f.size \in Nat
      /\ fragment_overhead_len(f) \in Nat
  BY CutSizes
<1>2. (j - 1) * n \in Nat /\ (j - 1) * n < f.size
  <2>1. j - 1 \in Nat /\ j - 1 <= k - 1 /\ k - 1 \in Nat
    BY <1>1
  <2> HIDE DEF f, n, k
  <2>2. (j - 1) * n <= (k - 1) * n /\ (j - 1) * n \in Nat /\ (k - 1) * n \in Nat
    BY <1>1, <2>1, TimesMonotone, TimesNext
  <2> QED BY <1>1, <2>2
<1>3. PieceLen(f, j - 1) \in Nat /\ PieceLen(f, j - 1) <= n
  <2> DEFINE P == (j - 1) * n
  <2>1. PieceLen(f, j - 1) = SmallerOf(n, f.size - P)
    BY DEF PieceLen
  <2> HIDE DEF P, n, f
  <2>2. P \in Nat /\ P < f.size
    BY <1>2 DEF P
  <2> QED BY <1>1, <2>1, <2>2 DEF SmallerOf
<1>4. /\ p.type = "VideoFrameFragment" /\ p.client = f.client /\ p.run = f.run
      /\ p.chunk.len = PieceLen(f, j - 1)
  BY FragmentOf
<1>5. EncodedLen(p) = fragment_overhead_len(f) + PieceLen(f, j - 1)
  <2>1. EncodedLen(p) = HeaderLen + (2 + IdLen[f.client] + 2 + IdLen[f.run]) + 45 + PieceLen(f, j - 1)
    BY <1>4 DEF EncodedLen, FragmentLen, IdsLen
  <2>2. IdLen[f.client] \in Nat /\ IdLen[f.run] \in Nat
    BY FrameType
  <2> HIDE DEF f, p
  <2> QED BY <1>3, <2>1, <2>2 DEF fragment_overhead_len, HeaderLen
<1>6. SafeMax \in Nat
  BY DEF FragmentSendAssumption
<1> QED BY <1>1, <1>3, <1>5, <1>6

\* A fragment is of one frame and has one place in it.
LEMMA FragmentsDiffer ==
  ASSUME FragmentSendAssumption, DistinctCaptures, NEW i \in DOMAIN Frames, NEW m \in DOMAIN Frames,
         NEW j \in 1 .. chunk_count(Frames[i]), NEW l \in 1 .. chunk_count(Frames[m]),
         chunk_count(Frames[i]) \in Nat, chunk_count(Frames[m]) \in Nat,
         fragment(Frames[i])[j] = fragment(Frames[m])[l]
  PROVE  i = m /\ j = l
<1>1. /\ fragment(Frames[i])[j].client = Frames[i].client
      /\ fragment(Frames[i])[j].stamp = Frames[i].stamp
      /\ fragment(Frames[i])[j].index = j - 1
  BY FragmentOf
<1>2. /\ fragment(Frames[m])[l].client = Frames[m].client
      /\ fragment(Frames[m])[l].stamp = Frames[m].stamp
      /\ fragment(Frames[m])[l].index = l - 1
  BY FragmentOf
<1>3. i = m
  BY <1>1, <1>2 DEF DistinctCaptures
<1>4. j - 1 = l - 1 /\ j \in Int /\ l \in Int
  BY <1>1, <1>2
<1> QED BY <1>3, <1>4

\* A frame that is sent whole fits as well.
LEMMA DirectFits ==
  ASSUME FragmentSendAssumption, NEW i \in DOMAIN Frames, Direct(Frames[i])
  PROVE  /\ EncodedLen(encode_handoff(Frames[i])) <= SafeMax
         /\ encode_handoff(Frames[i]).type = "VideoFrame"
<1> DEFINE p == encode_handoff(Frames[i])
<1>1. /\ p.type = "VideoFrame" /\ p.client = Frames[i].client /\ p.run = Frames[i].run
      /\ p.chunk.len = Frames[i].size
  BY DEF encode_handoff, Piece
<1>2. EncodedLen(p) = VideoFrameLen(Frames[i])
  BY <1>1 DEF EncodedLen, VideoFrameLen, IdsLen
<1> QED BY <1>1, <1>2 DEF Direct, SendsDirect

---------------------------------------------------------------------------
(* The client.                                                             *)

\* What is on the wire grows with what is reported.
LEMMA WireGrows ==
  ASSUME ClientTypes, ClientTypes', WireInv, NEW new, wire' = wire \cup new,
         next <= next', Len(reports) <= Len(reports'),
         \A i \in 1 .. Len(reports) : reports'[i] = reports[i],
         \A i \in 1 .. next : SentOf(i) \in Nat /\ SentOf(i)' \in Nat /\ SentOf(i) <= SentOf(i)',
         \A p \in new :
           \/ \E i \in 1 .. Len(reports') :
                reports'[i].kind = "DirectSent" /\ p = encode_handoff(Frames[i])
           \/ \E i \in 1 .. next' : \E j \in 1 .. SentOf(i)' : p = fragment(Frames[i])[j],
         \A i \in 1 .. Len(reports') :
           reports'[i].kind = "DirectSent" =>
             i <= Len(reports) \/ encode_handoff(Frames[i]) \in new,
         \A i \in 1 .. next' : \A j \in 1 .. SentOf(i)' :
           (i <= next /\ j <= SentOf(i)) \/ fragment(Frames[i])[j] \in new
  PROVE  WireInv'
<1>1. /\ Len(reports) \in Nat /\ Len(reports') \in Nat /\ next \in Nat /\ next' \in Nat
  BY DEF ClientTypes
<1>2. ASSUME NEW p \in wire'
      PROVE  \/ p \in Packets /\ p.type = "AuthRequest"
             \/ \E i \in 1 .. Len(reports') :
                  reports'[i].kind = "DirectSent" /\ p = encode_handoff(Frames[i])
             \/ \E i \in 1 .. next' : \E j \in 1 .. SentOf(i)' : p = fragment(Frames[i])[j]
  <2>1. CASE p \in new
    BY <2>1
  <2>2. CASE p \in wire /\ p \in Packets /\ p.type = "AuthRequest"
    BY <2>2
  <2>3. ASSUME NEW i \in 1 .. Len(reports), reports[i].kind = "DirectSent", p = encode_handoff(Frames[i])
        PROVE  i \in 1 .. Len(reports') /\ reports'[i].kind = "DirectSent"
    BY <1>1, <2>3
  <2>4. ASSUME NEW i \in 1 .. next, NEW j \in 1 .. SentOf(i), p = fragment(Frames[i])[j]
        PROVE  i \in 1 .. next' /\ j \in 1 .. SentOf(i)'
    <3>1. SentOf(i) \in Nat /\ SentOf(i)' \in Nat /\ SentOf(i) <= SentOf(i)'
      OBVIOUS
    <3> QED BY <1>1, <3>1
  <2>5. p \in wire \/ p \in new
    OBVIOUS
  <2> QED BY <2>1, <2>2, <2>3, <2>4, <2>5 DEF WireInv
<1>3. ASSUME NEW i \in 1 .. Len(reports'), reports'[i].kind = "DirectSent"
      PROVE  encode_handoff(Frames[i]) \in wire'
  <2>1. CASE i <= Len(reports)
    <3>1. i \in 1 .. Len(reports) /\ reports[i].kind = "DirectSent"
      BY <1>1, <1>3, <2>1
    <3> QED BY <3>1 DEF WireInv
  <2> QED BY <1>3, <2>1
<1>4. ASSUME NEW i \in 1 .. next', NEW j \in 1 .. SentOf(i)'
      PROVE  fragment(Frames[i])[j] \in wire'
  <2>1. CASE i <= next /\ j <= SentOf(i)
    <3>1. i \in 1 .. next
      BY <1>1, <2>1
    <3>2. j \in 1 .. SentOf(i)
      <4>1. SentOf(i) \in Nat /\ SentOf(i)' \in Nat
        BY <3>1
      <4> QED BY <2>1, <4>1
    <3> QED BY <3>1, <3>2 DEF WireInv
  <2> QED BY <2>1
<1> QED BY <1>2, <1>3, <1>4 DEF WireInv

\* A report is added (send_one returns).
LEMMA ReportAdds ==
  ASSUME ClientTypes, NEW r \in ReportRecords, reports' = Append(reports, r)
  PROVE  /\ reports' \in Seq(ReportRecords)
         /\ Len(reports) \in Nat /\ Len(reports') = Len(reports) + 1
         /\ \A i \in 1 .. Len(reports) : reports'[i] = reports[i]
         /\ reports'[Len(reports) + 1] = r
BY DEF ClientTypes

LEMMA SentTypes ==
  ASSUME ClientTypes, NEW i \in 1 .. next
  PROVE  SentOf(i) \in Nat
<1>1. CASE i <= Len(reports)
  <2>1. i \in 1 .. Len(reports)
    BY <1>1 DEF ClientTypes
  <2>2. reports[i] \in ReportRecords
    BY <2>1 DEF ClientTypes
  <2> QED BY <1>1, <2>2 DEF SentOf, ReportRecords
<1>2. CASE ~(i <= Len(reports))
  BY <1>2 DEF SentOf, ClientTypes
<1> QED BY <1>1, <1>2

\* The current frame is done with, and r is what is said of it.
LEMMA FrameDone ==
  ASSUME ClientTypes, ReportInv, NEW r \in ReportRecords, reports' = Append(reports, r),
         next' = Len(reports) + 1, next' \in 1 .. Len(Frames), fragments' = <<>>,
         progress' \in [sent : Nat, slept : Nat], ReportOf(r, Frames[next'])
  PROVE  /\ ClientTypes' /\ CutInv' /\ ReportInv'
         /\ \A i \in 1 .. Len(reports) : SentOf(i)' = SentOf(i)
         /\ \A i \in 1 .. Len(Frames) : i = next' => SentOf(i)' = r.sent
<1>1. /\ reports' \in Seq(ReportRecords)
      /\ Len(reports) \in Nat /\ Len(reports') = Len(reports) + 1
      /\ \A i \in 1 .. Len(reports) : reports'[i] = reports[i]
      /\ reports'[Len(reports) + 1] = r
  BY ReportAdds
<1>2. ClientTypes'
  <2>1. next' \in 0 .. Len(Frames) /\ Len(reports') + 0 = next'
    BY <1>1
  <2> QED BY <1>1, <2>1 DEF ClientTypes
<1>3. CutInv'
  BY DEF CutInv
<1>4. ReportInv'
  <2>1. ASSUME NEW i \in 1 .. Len(reports') PROVE ReportOf(reports'[i], Frames[i])
    <3>1. CASE i <= Len(reports)
      <4>1. i \in 1 .. Len(reports)
        BY <1>1, <3>1
      <4> QED BY <1>1, <4>1 DEF ReportInv
    <3>2. CASE ~(i <= Len(reports))
      <4>1. i = Len(reports) + 1
        BY <1>1, <3>2
      <4> QED BY <1>1, <4>1
    <3> QED BY <3>1, <3>2
  <2> QED BY <2>1 DEF ReportInv, ReportOf, Sleeps
<1>5. \A i \in 1 .. Len(reports) : SentOf(i)' = SentOf(i)
  BY <1>1 DEF SentOf
<1>6. \A i \in 1 .. Len(Frames) : i = next' => SentOf(i)' = r.sent
  BY <1>1 DEF SentOf
<1> QED BY <1>2, <1>3, <1>4, <1>5, <1>6

\* A frame that is refused, or goes out in one datagram.
LEMMA WholeFrameStep ==
  ASSUME FragmentSendAssumption, ClientInv, RefuseFrame \/ SendDirect
  PROVE  ClientInv' /\ wire \subseteq wire'
<1> DEFINE f == Frames[next']
<1>1. Idle /\ next' = next + 1 /\ UNCHANGED <<fragments, progress>>
  BY DEF RefuseFrame, SendDirect
<1>2. ClientTypes /\ CutInv /\ ReportInv /\ WireInv
  BY DEF ClientInv
<1>3. /\ Len(reports) \in Nat /\ next = Len(reports) /\ next' \in 1 .. Len(Frames)
      /\ fragments' = <<>> /\ progress' \in [sent : Nat, slept : Nat]
      /\ next' = Len(reports) + 1 /\ Len(Frames) \in Nat
  BY <1>1, <1>2 DEF ClientTypes, Idle
<1>4. f \in FrameRecords
  <2>1. next' \in DOMAIN Frames
    BY <1>3 DEF FragmentSendAssumption
  <2> QED BY <2>1, FrameType
<1>5. PICK kind \in {"EmptyPayload", "FragmentPayloadCapacityTooSmall", "DirectSent", "Send"} :
        /\ Report(f, kind, 0, 0, {}, 0) /\ ~Fragmented(f)
        /\ wire' = wire \cup (IF kind = "DirectSent" THEN {encode_handoff(f)} ELSE {})
        /\ kind = "DirectSent" => Direct(f)
  <2>1. CASE RefuseFrame
    <3>1. wire' = wire
      BY <2>1 DEF RefuseFrame, linkVars
    <3>2. CASE f.size = 0 /\ Report(f, "EmptyPayload", 0, 0, {}, 0)
      BY <3>1, <3>2 DEF Fragmented
    <3>3. CASE ~Fits(f) /\ Report(f, "FragmentPayloadCapacityTooSmall", 0, 0, {}, 0)
      BY <3>1, <3>3 DEF Fragmented
    <3> QED BY <2>1, <3>2, <3>3 DEF RefuseFrame
  <2>2. CASE SendDirect
    <3>1. Direct(f) /\ ~Fragmented(f)
      BY <2>2 DEF SendDirect, Direct, Fragmented
    <3>2. CASE wire' = wire \cup {encode_handoff(f)} /\ Report(f, "DirectSent", 0, 0, {}, 0)
      BY <3>1, <3>2
    <3>3. CASE Report(f, "Send", 0, 0, {}, 0) /\ UNCHANGED wire
      BY <3>1, <3>3
    <3> QED BY <2>2, <3>2, <3>3 DEF SendDirect
  <2> QED BY <2>1, <2>2
<1> DEFINE r == [frame |-> f, kind |-> kind, attempted |-> 0, sent |-> 0, failed |-> {},
                 slept |-> 0]
<1>6. r \in ReportRecords
  BY <1>4 DEF ReportRecords, ReportKinds
<1>7. reports' = Append(reports, r)
  BY <1>5 DEF Report
<1>8. ReportOf(r, f)
  <2>1. Sleeps(0, 0)
    BY DEF Sleeps, FragmentSendAssumption
  <2>2. Cardinality({}) = 0
    BY FS_EmptySet
  <2> QED BY <1>5, <2>1, <2>2 DEF ReportOf
<1>9. /\ ClientTypes' /\ CutInv' /\ ReportInv'
      /\ \A i \in 1 .. Len(reports) : SentOf(i)' = SentOf(i)
      /\ \A i \in 1 .. Len(Frames) : i = next' => SentOf(i)' = 0
  <2> HIDE DEF r
  <2>1. r.sent = 0
    BY DEF r
  <2> QED BY <1>2, <1>3, <1>6, <1>7, <1>8, <2>1, FrameDone
<1>10. WireInv'
  <2> DEFINE new == IF kind = "DirectSent" THEN {encode_handoff(f)} ELSE {}
  <2>1. /\ Len(reports') = Len(reports) + 1
        /\ \A i \in 1 .. Len(reports) : reports'[i] = reports[i]
        /\ reports'[Len(reports) + 1] = r
    BY <1>2, <1>6, <1>7, ReportAdds
  <2>2. wire' = wire \cup new /\ next <= next' /\ Len(reports) <= Len(reports')
    BY <1>3, <1>5, <2>1
  <2>3. \A i \in 1 .. next : SentOf(i) \in Nat /\ SentOf(i)' \in Nat /\ SentOf(i) <= SentOf(i)'
    BY <1>2, <1>3, <1>9, SentTypes
  <2>4. reports'[next'].kind = kind /\ next' \in 1 .. Len(reports')
    BY <1>3, <2>1
  <2>5. \A p \in new : \E i \in 1 .. Len(reports') :
          reports'[i].kind = "DirectSent" /\ p = encode_handoff(Frames[i])
    BY <2>4
  <2>6. \A i \in 1 .. Len(reports') :
          reports'[i].kind = "DirectSent" => i <= Len(reports) \/ encode_handoff(Frames[i]) \in new
    <3>1. ASSUME NEW i \in 1 .. Len(reports'), reports'[i].kind = "DirectSent", ~(i <= Len(reports))
          PROVE  encode_handoff(Frames[i]) \in new
      <4>1. i = next'
        BY <1>3, <2>1, <3>1
      <4> QED BY <2>4, <3>1, <4>1
    <3> QED BY <3>1
  <2>7. \A i \in 1 .. next' : \A j \in 1 .. SentOf(i)' :
          (i <= next /\ j <= SentOf(i)) \/ fragment(Frames[i])[j] \in new
    <3>1. ASSUME NEW i \in 1 .. next', NEW j \in 1 .. SentOf(i)'
          PROVE  i <= next /\ j <= SentOf(i)
      <4>1. CASE i = next'
        <5>1. SentOf(i)' = 0
          BY <1>3, <1>9, <4>1
        <5> QED BY <5>1
      <4>2. CASE i # next'
        <5>1. i \in 1 .. Len(reports) /\ i \in 1 .. next
          BY <1>3, <4>2
        <5>2. SentOf(i)' = SentOf(i) /\ SentOf(i) \in Nat
          BY <1>9, <2>3, <5>1
        <5> QED BY <1>3, <5>1, <5>2
      <4> QED BY <4>1, <4>2
    <3> QED BY <3>1
  <2> HIDE DEF new, f, r
  <2> QED BY <1>2, <1>9, <2>1, <2>2, <2>3, <2>5, <2>6, <2>7, WireGrows
<1> QED BY <1>5, <1>9, <1>10 DEF ClientInv

\* The current frame is cut (fragment).
LEMMA StartStep ==
  ASSUME FragmentSendAssumption, DatagramsArePackets, ClientInv, StartFragments
  PROVE  ClientInv' /\ wire \subseteq wire'
<1> DEFINE f == Frames[next']
<1>1. /\ Idle /\ next' = next + 1 /\ fragments' = fragment(f) /\ progress' = NoProgress
      /\ Fragmented(f) /\ reports' = reports /\ wire' = wire
  BY DEF StartFragments, Fragmented, linkVars
<1>2. ClientTypes /\ CutInv /\ ReportInv /\ WireInv
  BY DEF ClientInv
<1>3. /\ Len(reports) \in Nat /\ next = Len(reports) /\ next' \in 1 .. Len(Frames)
      /\ next' = Len(reports) + 1 /\ Len(Frames) \in Nat
  BY <1>1, <1>2 DEF ClientTypes, Idle
<1>4. next' \in DOMAIN Frames
  BY <1>3 DEF FragmentSendAssumption
<1>5. chunk_count(f) \in Nat \ {0}
  BY <1>1, <1>4, CutSizes
<1>6. /\ fragments' \in Seq(Packets) /\ fragments' # <<>> /\ Len(fragments') = chunk_count(f)
  <2> DEFINE s == fragment(f)
             k == chunk_count(f)
  <2>1. \A j \in 1 .. k : s[j] \in Packets
    BY <1>1, <1>4 DEF DatagramsArePackets
  <2>2. s = [j \in 1 .. k |-> s[j]]
    BY DEF fragment, chunk_count
  <2> HIDE DEF s, k
  <2>3. s \in [1 .. k -> Packets]
    BY <2>1, <2>2
  <2>4. k \in Nat \ {0}
    BY <1>5 DEF k
  <2>5. s \in Seq(Packets) /\ Len(s) = k /\ s # <<>>
    BY <2>3, <2>4
  <2> QED BY <1>1, <2>5 DEF s, k
<1>7. ClientTypes'
  BY <1>1, <1>2, <1>3, <1>6 DEF ClientTypes, NoProgress
<1>8. CutInv'
  <2>1. Sleeps(0, 0)
    BY DEF Sleeps, FragmentSendAssumption
  <2>2. \A j \in 1 .. Len(fragments') : fragments'[j] = fragment(f)[0 + j]
    BY <1>1, <1>6, <1>5
  <2>3. progress'.sent = 0 /\ progress'.slept = 0
    BY <1>1 DEF NoProgress
  <2> HIDE DEF f
  <2>4. 0 + Len(fragments') = chunk_count(f)
    BY <1>5, <1>6
  <2>5. /\ Fragmented(f) /\ progress'.sent + Len(fragments') = chunk_count(f)
        /\ \A j \in 1 .. Len(fragments') : fragments'[j] = fragment(f)[progress'.sent + j]
        /\ Sleeps(progress'.sent, progress'.slept)
    BY <1>1, <2>1, <2>2, <2>3, <2>4
  <2> QED BY <2>5 DEF CutInv, f, Sleeps
<1>9. ReportInv'
  BY <1>1, <1>2 DEF ReportInv, ReportOf, Sleeps
<1>10. WireInv'
  <2>1. \A i \in 1 .. next : SentOf(i)' = SentOf(i) /\ SentOf(i) \in Nat
    BY <1>1, <1>2, <1>3, SentTypes DEF SentOf
  <2>2. \A i \in 1 .. Len(Frames) : i = next' => SentOf(i)' = 0
    BY <1>1, <1>3 DEF SentOf, NoProgress
  <2>3. \A i \in 1 .. next' : \A j \in 1 .. SentOf(i)' : i <= next /\ j <= SentOf(i)
    <3>1. ASSUME NEW i \in 1 .. next', NEW j \in 1 .. SentOf(i)' PROVE i <= next /\ j <= SentOf(i)
      <4>1. CASE i = next'
        <5>1. SentOf(i)' = 0
          BY <1>3, <2>2, <4>1
        <5> QED BY <5>1
      <4>2. CASE i # next'
        <5>1. i \in 1 .. next
          BY <1>3, <4>2
        <5>2. SentOf(i)' = SentOf(i) /\ SentOf(i) \in Nat
          BY <2>1, <5>1
        <5> QED BY <1>3, <5>1, <5>2
      <4> QED BY <4>1, <4>2
    <3> QED BY <3>1
  <2> DEFINE new == {}
  <2>4. wire' = wire \cup new /\ \A p \in new : FALSE
    BY <1>1
  <2>5. next <= next' /\ Len(reports) <= Len(reports')
    BY <1>1, <1>3
  <2>6. /\ \A i \in 1 .. Len(reports) : reports'[i] = reports[i]
        /\ \A i \in 1 .. Len(reports') : i <= Len(reports)
        /\ \A i \in 1 .. next : SentOf(i) \in Nat /\ SentOf(i)' \in Nat /\ SentOf(i) <= SentOf(i)'
    BY <1>1, <1>3, <2>1
  <2> HIDE DEF new
  <2> QED BY <1>2, <1>7, <2>3, <2>4, <2>5, <2>6, WireGrows
<1> QED BY <1>1, <1>7, <1>8, <1>9, <1>10 DEF ClientInv

\* What is next to send of a frame that is being sent.
LEMMA NextFragment ==
  ASSUME FragmentSendAssumption, ClientInv, fragments # <<>>
  PROVE  /\ next \in DOMAIN Frames /\ next \in 1 .. Len(Frames) /\ Fragmented(Frames[next])
         /\ Len(reports) \in Nat /\ next = Len(reports) + 1
         /\ progress.sent \in Nat /\ progress.slept \in Nat
         /\ chunk_count(Frames[next]) \in Nat
         /\ progress.sent + 1 \in 1 .. chunk_count(Frames[next])
         /\ Head(fragments) = fragment(Frames[next])[progress.sent + 1]
         /\ Head(fragments).index = progress.sent
         /\ EncodedLen(Head(fragments)) <= SafeMax
         /\ Sleeps(progress.sent, progress.slept)
<1> DEFINE f == Frames[next]
           s == progress.sent
<1>1. ClientTypes /\ CutInv
  BY DEF ClientInv
<1>2. /\ Len(reports) \in Nat /\ next = Len(reports) + 1 /\ next \in 1 .. Len(Frames)
      /\ progress.sent \in Nat /\ progress.slept \in Nat /\ Len(Frames) \in Nat
  BY <1>1 DEF ClientTypes
<1>3. next \in DOMAIN Frames
  BY <1>2 DEF FragmentSendAssumption
<1>4. /\ Fragmented(f) /\ s + Len(fragments) = chunk_count(f)
      /\ \A j \in 1 .. Len(fragments) : fragments[j] = fragment(f)[s + j]
      /\ Sleeps(progress.sent, progress.slept)
  BY <1>1 DEF CutInv
<1>5. fragments \in Seq(Packets) /\ Len(fragments) \in Nat \ {0} /\ Head(fragments) = fragments[1]
  BY <1>1 DEF ClientTypes
<1>6. chunk_count(f) \in Nat
  BY <1>3, <1>4, CutSizes
<1> HIDE DEF f, s
<1>7. s + 1 \in 1 .. chunk_count(f) /\ Head(fragments) = fragment(f)[s + 1]
  BY <1>2, <1>4, <1>5, <1>6 DEF s
<1>8. Head(fragments).index = (s + 1) - 1
  BY <1>7, FragmentOf
<1>9. Head(fragments).index = s
  BY <1>2, <1>8 DEF s
<1>10. EncodedLen(Head(fragments)) <= SafeMax
  BY <1>3, <1>4, <1>7, FragmentFits DEF f
<1> QED BY <1>2, <1>3, <1>4, <1>6, <1>7, <1>9, <1>10 DEF f, s

\* A fragment is sent (send_fragments).
LEMMA SendStep ==
  ASSUME FragmentSendAssumption, ClientInv, SendFragment
  PROVE  ClientInv' /\ wire \subseteq wire'
<1> DEFINE f == Frames[next]
           s == progress.sent
           k == chunk_count(f)
           p == Head(fragments)
<1>1. /\ fragments # <<>> /\ wire' = wire \cup {p} /\ fragments' = Tail(fragments) /\ next' = next
      /\ progress' = [sent |-> s + 1,
                      slept |-> progress.slept + maybe_sleep_after_fragment_send(s + 1)]
  BY DEF SendFragment
<1>2. ClientTypes /\ CutInv /\ ReportInv /\ WireInv
  BY DEF ClientInv
<1>3. /\ next \in DOMAIN Frames /\ next \in 1 .. Len(Frames) /\ Fragmented(f)
      /\ Len(reports) \in Nat /\ next = Len(reports) + 1
      /\ s \in Nat /\ progress.slept \in Nat /\ k \in Nat /\ s + 1 \in 1 .. k
      /\ p = fragment(f)[s + 1] /\ Sleeps(s, progress.slept)
  BY <1>1, NextFragment
<1>4. /\ fragments \in Seq(Packets) /\ Len(fragments) \in Nat \ {0}
      /\ fragments' \in Seq(Packets) /\ Len(fragments') = Len(fragments) - 1
      /\ \A j \in 1 .. Len(fragments') : fragments'[j] = fragments[j + 1]
  BY <1>1, <1>2 DEF ClientTypes
<1>5. /\ progress' \in [sent : Nat, slept : Nat] /\ progress'.sent = s + 1
      /\ Sleeps(s + 1, progress'.slept)
  <2>1. progress'.sent = s + 1
        /\ progress'.slept = progress.slept + maybe_sleep_after_fragment_send(s + 1)
    BY <1>1
  <2>2. maybe_sleep_after_fragment_send(s + 1) \in Nat
    BY DEF maybe_sleep_after_fragment_send
  <2>3. DelayEvery \in Nat
    BY DEF FragmentSendAssumption
  <2>4. CASE DelayEvery # 0
    <3>1. (s + 1) \div DelayEvery = (s \div DelayEvery) + maybe_sleep_after_fragment_send(s + 1)
      BY <1>3, <2>3, <2>4, DivNext DEF maybe_sleep_after_fragment_send
    <3> QED BY <1>1, <1>3, <2>1, <2>2, <2>4, <3>1 DEF Sleeps
  <2>5. CASE DelayEvery = 0
    BY <1>1, <1>3, <2>1, <2>2, <2>5 DEF Sleeps
  <2> QED BY <2>3, <2>4, <2>5
<1>6. /\ s + Len(fragments) = k
      /\ \A j \in 1 .. Len(fragments) : fragments[j] = fragment(f)[s + j]
  BY <1>1, <1>2 DEF CutInv
<1> DEFINE Kept == /\ \A i \in 1 .. Len(reports) : SentOf(i)' = SentOf(i)
                   /\ \A i \in 1 .. Len(Frames) : i = next => SentOf(i)' = s + 1
                   /\ Len(reports) <= Len(reports')
                   /\ \A i \in 1 .. Len(reports) : reports'[i] = reports[i]
                   /\ \A i \in 1 .. Len(reports') :
                        reports'[i].kind = "DirectSent" => i <= Len(reports)
<1>7. ClientTypes' /\ CutInv' /\ ReportInv' /\ Kept
  <2>1. CASE fragments' = <<>>
    <3> DEFINE r == [frame |-> f, kind |-> "FragmentedSent", attempted |-> s + 1, sent |-> s + 1,
                     failed |-> {}, slept |-> progress'.slept]
    <3>1. Report(f, "FragmentedSent", s + 1, s + 1, {}, progress'.slept)
      BY <1>1, <1>5, <2>1 DEF SendFragment
    <3>2. reports' = Append(reports, r)
      BY <3>1 DEF Report
    <3>3. f \in FrameRecords
      BY <1>3, FrameType
    <3>4. r \in ReportRecords
      BY <1>3, <1>5, <3>3 DEF ReportRecords, ReportKinds
    <3>5. s + 1 = k
      <4>1. Len(fragments') = 0
        BY <2>1
      <4>2. Len(fragments) = 1
        BY <1>4, <4>1
      <4> QED BY <1>6, <4>2
    <3>6. ReportOf(r, f)
      <4>1. /\ r.frame = f /\ r.kind = "FragmentedSent" /\ r.attempted = s + 1 /\ r.sent = s + 1
            /\ r.failed = {} /\ r.slept = progress'.slept
        OBVIOUS
      <4>2. Cardinality({}) = 0
        BY FS_EmptySet
      <4> HIDE DEF r, f, s, k
      <4>3. r.sent <= chunk_count(f) /\ r.sent = chunk_count(f)
        BY <1>3, <3>5, <4>1 DEF k
      <4>4. r.attempted = r.sent + Cardinality(r.failed)
        BY <1>3, <4>1, <4>2 DEF s
      <4> QED BY <1>3, <1>5, <4>1, <4>3, <4>4 DEF ReportOf
    <3> HIDE DEF r
    <3>7. /\ ClientTypes' /\ CutInv' /\ ReportInv'
          /\ \A i \in 1 .. Len(reports) : SentOf(i)' = SentOf(i)
          /\ \A i \in 1 .. Len(Frames) : i = next' => SentOf(i)' = r.sent
      <4>1. next' = Len(reports) + 1 /\ next' \in 1 .. Len(Frames)
        BY <1>1, <1>3
      <4>2. ReportOf(r, Frames[next'])
        BY <1>1, <3>6
      <4> QED BY <1>2, <1>5, <2>1, <3>2, <3>4, <4>1, <4>2, FrameDone
    <3>8. r.sent = s + 1 /\ r.kind # "DirectSent"
      BY DEF r
    <3>9. /\ Len(reports') = Len(reports) + 1
          /\ \A i \in 1 .. Len(reports) : reports'[i] = reports[i]
          /\ reports'[Len(reports) + 1] = r
      BY <1>2, <3>2, <3>4, ReportAdds
    <3>10. \A i \in 1 .. Len(reports') : reports'[i].kind = "DirectSent" => i <= Len(reports)
      <4>1. \A i \in 1 .. Len(reports') : i <= Len(reports) \/ i = Len(reports) + 1
        BY <1>3, <3>9
      <4> QED BY <3>8, <3>9, <4>1
    <3> QED BY <1>1, <1>3, <3>7, <3>8, <3>9, <3>10
  <2>2. CASE fragments' # <<>>
    <3>1. reports' = reports
      BY <2>2 DEF SendFragment
    <3>2. ClientTypes'
      BY <1>1, <1>2, <1>3, <1>4, <1>5, <2>2, <3>1 DEF ClientTypes
    <3>3. CutInv'
      <4>1. (s + 1) + Len(fragments') = k
        BY <1>3, <1>4, <1>6
      <4>2. ASSUME NEW j \in 1 .. Len(fragments') PROVE fragments'[j] = fragment(f)[(s + 1) + j]
        <5>0. j \in Nat \ {0} /\ j <= Len(fragments) - 1
          <6>1. Len(fragments) - 1 \in Nat
            BY <1>4
          <6> QED BY <1>4, <6>1
        <5>1. j + 1 \in 1 .. Len(fragments) /\ s + (j + 1) = (s + 1) + j
          <6> DEFINE n == Len(fragments)
          <6>1. n \in Nat /\ j <= n - 1 /\ s \in Nat
            BY <1>3, <1>4, <5>0
          <6> HIDE DEF n, s
          <6>2. j + 1 \in 1 .. n /\ s + (j + 1) = (s + 1) + j
            BY <5>0, <6>1
          <6> QED BY <6>2 DEF n
        <5>2. fragments'[j] = fragments[j + 1]
          BY <1>4
        <5>3. fragments[j + 1] = fragment(f)[s + (j + 1)]
          BY <1>6, <5>1
        <5> QED BY <5>1, <5>2, <5>3
      <4>3. /\ progress'.sent + Len(fragments') = k
            /\ \A j \in 1 .. Len(fragments') : fragments'[j] = fragment(f)[progress'.sent + j]
            /\ Sleeps(progress'.sent, progress'.slept)
        BY <1>5, <4>1, <4>2
      <4> QED BY <1>1, <1>3, <4>3 DEF CutInv, Sleeps
    <3>4. ReportInv'
      BY <1>2, <3>1 DEF ReportInv, ReportOf, Sleeps
    <3>5. Kept
      BY <1>3, <1>5, <3>1 DEF SentOf
    <3> QED BY <3>2, <3>3, <3>4, <3>5
  <2> QED BY <2>1, <2>2
<1>8. WireInv'
  <2> DEFINE new == {p}
  <2>1. \A i \in 1 .. next : SentOf(i) \in Nat /\ SentOf(i)' \in Nat /\ SentOf(i) <= SentOf(i)'
    <3>1. ASSUME NEW i \in 1 .. next
          PROVE  SentOf(i) \in Nat /\ SentOf(i)' \in Nat /\ SentOf(i) <= SentOf(i)'
      <4>1. SentOf(i) \in Nat
        BY <1>2, SentTypes
      <4>2. CASE i = next
        <5>1. SentOf(i) = s
          BY <1>3, <4>2 DEF SentOf
        <5>2. SentOf(i)' = s + 1
          BY <1>3, <1>7, <4>2
        <5> QED BY <1>3, <5>1, <5>2
      <4>3. CASE i # next
        <5>1. i \in 1 .. Len(reports)
          BY <1>3, <4>3
        <5> QED BY <1>7, <4>1, <5>1
      <4> QED BY <4>2, <4>3
    <3> QED BY <3>1
  <2>2. ASSUME NEW i \in 1 .. next, NEW j \in 1 .. SentOf(i)'
        PROVE  (i <= next /\ j <= SentOf(i)) \/ fragment(Frames[i])[j] \in new
    <3>1. CASE i = next
      <4>1. SentOf(i)' = s + 1 /\ SentOf(i) = s
        BY <1>3, <1>7, <3>1 DEF SentOf
      <4>2. j <= s \/ j = s + 1
        BY <1>3, <4>1
      <4> QED BY <1>3, <3>1, <4>1, <4>2
    <3>2. CASE i # next
      <4>1. i \in 1 .. Len(reports) /\ i <= next
        BY <1>3, <3>2
      <4>2. SentOf(i)' = SentOf(i) /\ SentOf(i) \in Nat
        BY <1>7, <2>1, <4>1
      <4> QED BY <4>1, <4>2
    <3> QED BY <3>1, <3>2
  <2>3. ASSUME NEW q \in new
        PROVE  \E i \in 1 .. next' : \E j \in 1 .. SentOf(i)' : q = fragment(Frames[i])[j]
    <3>1. next \in 1 .. next' /\ s + 1 \in 1 .. (s + 1)
      BY <1>1, <1>3
    <3>2. q = fragment(Frames[next])[s + 1]
      BY <1>3
    <3>3. PICK i \in 1 .. next' : i = next
      BY <3>1
    <3>4. SentOf(i)' = s + 1
      BY <1>3, <1>7, <3>3
    <3>5. s + 1 \in 1 .. SentOf(i)' /\ q = fragment(Frames[i])[s + 1]
      BY <3>1, <3>2, <3>3, <3>4
    <3> QED BY <3>5
  <2>4. wire' = wire \cup new /\ next <= next'
    BY <1>1, <1>3
  <2>5. \A i \in 1 .. next' : \A j \in 1 .. SentOf(i)' :
          (i <= next /\ j <= SentOf(i)) \/ fragment(Frames[i])[j] \in new
    BY <1>1, <2>2
  <2> HIDE DEF new, f, s, k, p
  <2> QED BY <1>2, <1>7, <2>1, <2>3, <2>4, <2>5, WireGrows
<1> QED BY <1>1, <1>7, <1>8 DEF ClientInv

\* A fragment cannot be sent, and the rest of the frame is given up.
LEMMA FailStep ==
  ASSUME FragmentSendAssumption, ClientInv, FragmentFails
  PROVE  ClientInv' /\ wire \subseteq wire'
<1> DEFINE f == Frames[next]
           s == progress.sent
           k == chunk_count(f)
           r == [frame |-> f, kind |-> "Send", attempted |-> s + 1, sent |-> s,
                 failed |-> {s}, slept |-> progress.slept]
<1>1. /\ fragments # <<>> /\ fragments' = <<>> /\ next' = next /\ progress' = progress
      /\ wire' = wire
  BY DEF FragmentFails, linkVars
<1>2. ClientTypes /\ CutInv /\ ReportInv /\ WireInv
  BY DEF ClientInv
<1>3. /\ next \in DOMAIN Frames /\ next \in 1 .. Len(Frames) /\ Fragmented(f)
      /\ Len(reports) \in Nat /\ next = Len(reports) + 1
      /\ s \in Nat /\ progress.slept \in Nat /\ k \in Nat /\ s + 1 \in 1 .. k
      /\ Head(fragments).index = s /\ EncodedLen(Head(fragments)) <= SafeMax
      /\ Sleeps(s, progress.slept)
  BY <1>1, NextFragment
<1>4. ~(EncodedLen(Head(fragments)) > SafeMax)
  <2>1. SafeMax \in Nat
    BY DEF FragmentSendAssumption
  <2>2. EncodedLen(Head(fragments)) \in Int
    <3>1. /\ PieceLen(f, (s + 1) - 1) \in Nat
          /\ Head(fragments) = fragment(f)[s + 1]
      BY <1>1, <1>3, FragmentFits, NextFragment
    <3>2. /\ Head(fragments).type = "VideoFrameFragment" /\ Head(fragments).client = f.client
          /\ Head(fragments).run = f.run /\ Head(fragments).chunk.len = PieceLen(f, (s + 1) - 1)
      BY <1>3, <3>1, FragmentOf
    <3>3. IdLen[f.client] \in Nat /\ IdLen[f.run] \in Nat
      BY <1>3, FrameType
    <3> HIDE DEF f, s
    <3> QED BY <3>1, <3>2, <3>3 DEF EncodedLen, FragmentLen, IdsLen, HeaderLen
  <2> QED BY <1>3, <2>1, <2>2
<1>5. reports' = Append(reports, r)
  BY <1>3, <1>4 DEF FragmentFails, Report
<1>6. r \in ReportRecords
  <2>1. f \in FrameRecords
    BY <1>3, FrameType
  <2> QED BY <1>3, <2>1 DEF ReportRecords, ReportKinds
<1>7. /\ r.frame = f /\ r.kind = "Send" /\ r.attempted = s + 1 /\ r.sent = s
      /\ r.failed = {s} /\ r.slept = progress.slept
  OBVIOUS
<1>8. ReportOf(r, f)
  <2>1. Cardinality({s}) = 1
    BY FS_Singleton
  <2> HIDE DEF r, f, s
  <2>2. r.sent <= k /\ r.sent # k
    BY <1>3, <1>7 DEF s
  <2> QED BY <1>3, <1>7, <2>1, <2>2 DEF ReportOf
<1> HIDE DEF r
<1>9. /\ ClientTypes' /\ CutInv' /\ ReportInv'
      /\ \A i \in 1 .. Len(reports) : SentOf(i)' = SentOf(i)
      /\ \A i \in 1 .. Len(Frames) : i = next' => SentOf(i)' = r.sent
  <2>1. next' = Len(reports) + 1 /\ next' \in 1 .. Len(Frames) /\ ReportOf(r, Frames[next'])
    BY <1>1, <1>3, <1>8
  <2>2. progress' \in [sent : Nat, slept : Nat]
    BY <1>1, <1>2 DEF ClientTypes
  <2> QED BY <1>1, <1>2, <1>5, <1>6, <2>1, <2>2, FrameDone
<1>10. /\ Len(reports') = Len(reports) + 1
       /\ \A i \in 1 .. Len(reports) : reports'[i] = reports[i]
       /\ reports'[Len(reports) + 1] = r
  BY <1>2, <1>5, <1>6, ReportAdds
<1>11. \A i \in 1 .. next : SentOf(i)' = SentOf(i) /\ SentOf(i) \in Nat
  <2>1. ASSUME NEW i \in 1 .. next PROVE SentOf(i)' = SentOf(i) /\ SentOf(i) \in Nat
    <3>1. SentOf(i) \in Nat
      BY <1>2, SentTypes
    <3>2. CASE i = next
      <4>1. SentOf(i)' = s
        BY <1>1, <1>3, <1>7, <1>9, <3>2
      <4>2. SentOf(i) = s
        BY <1>3, <3>2 DEF SentOf
      <4> QED BY <3>1, <4>1, <4>2
    <3>3. CASE i # next
      <4>1. i \in 1 .. Len(reports)
        BY <1>3, <3>3
      <4> QED BY <1>9, <3>1, <4>1
    <3> QED BY <3>2, <3>3
  <2> QED BY <2>1
<1>12. WireInv'
  <2> DEFINE new == {}
  <2>1. wire' = wire \cup new /\ \A p \in new : FALSE
    BY <1>1
  <2>2. next <= next' /\ Len(reports) <= Len(reports')
    BY <1>1, <1>3, <1>10
  <2>3. \A i \in 1 .. next : SentOf(i) \in Nat /\ SentOf(i)' \in Nat /\ SentOf(i) <= SentOf(i)'
    BY <1>11
  <2>4. \A i \in 1 .. Len(reports') : reports'[i].kind = "DirectSent" => i <= Len(reports)
    <3>1. \A i \in 1 .. Len(reports') : i <= Len(reports) \/ i = Len(reports) + 1
      BY <1>3, <1>10
    <3> QED BY <1>7, <1>10, <3>1
  <2>5. \A i \in 1 .. next' : \A j \in 1 .. SentOf(i)' : i <= next /\ j <= SentOf(i)
    <3>1. ASSUME NEW i \in 1 .. next, NEW j \in 1 .. SentOf(i)' PROVE i <= next /\ j <= SentOf(i)
      <4>1. SentOf(i)' = SentOf(i) /\ SentOf(i) \in Nat
        BY <1>11
      <4> QED BY <1>3, <4>1
    <3> QED BY <1>1, <3>1
  <2> HIDE DEF new
  <2> QED BY <1>2, <1>9, <1>10, <2>1, <2>2, <2>3, <2>4, <2>5, WireGrows
<1> QED BY <1>1, <1>9, <1>12 DEF ClientInv

---------------------------------------------------------------------------
(* The server.                                                             *)

\* Storing a frame adds it, and nothing else, to what was ever queued
\* (store_frame).
LEMMA StoreAdds ==
  ASSUME MaxFrames \in Nat \ {0}, queue \in [Clients -> Seq(stored)], NEW q, q.client \in Clients,
         store_frame(q), stored' = stored \cup QueuedFrames'
  PROVE  stored' = stored \cup {q} /\ queue' \in [Clients -> Seq(stored')]
<1> DEFINE c == q.client
           kept == IF Len(queue[c]) >= MaxFrames THEN Tail(queue[c]) ELSE queue[c]
           all == stored \cup {q}
<1>1. queue' = [queue EXCEPT ![c] = Append(kept, q)]
  BY DEF store_frame
<1>2. queue[c] \in Seq(stored) /\ Len(queue[c]) \in Nat
  OBVIOUS
<1>3. kept \in Seq(stored)
  <2>1. CASE Len(queue[c]) >= MaxFrames
    <3>1. queue[c] # <<>>
      BY <1>2, <2>1
    <3> QED BY <1>2, <2>1, <3>1
  <2>2. CASE ~(Len(queue[c]) >= MaxFrames)
    BY <1>2, <2>2
  <2> QED BY <2>1, <2>2
<1> HIDE DEF kept
<1>4. /\ Append(kept, q) \in Seq(all) /\ Len(Append(kept, q)) = Len(kept) + 1 /\ Len(kept) \in Nat
      /\ Append(kept, q)[Len(kept) + 1] = q
  <2>1. kept \in Seq(all)
    BY <1>3
  <2>2. q \in all
    OBVIOUS
  <2> HIDE DEF all
  <2> QED BY <2>1, <2>2
<1>5. queue' \in [Clients -> Seq(all)]
  <2>1. \A d \in Clients : queue[d] \in Seq(all)
    OBVIOUS
  <2> HIDE DEF all, c
  <2> QED BY <1>1, <1>4, <2>1
<1>6. QueuedFrames' \subseteq all
  <2> HIDE DEF all
  <2> QED BY <1>5 DEF QueuedFrames
<1>7. q \in QueuedFrames'
  <2>1. queue'[c] = Append(kept, q) /\ c \in Clients
    BY <1>1
  <2>2. Len(kept) + 1 \in 1 .. Len(queue'[c]) /\ queue'[c][Len(kept) + 1] = q
    BY <1>4, <2>1
  <2> HIDE DEF c
  <2> QED BY <2>1, <2>2 DEF QueuedFrames
<1>8. stored' = all
  BY <1>6, <1>7
<1> QED BY <1>5, <1>8

LEMMA NothingStored ==
  ASSUME queue \in [Clients -> Seq(stored)], queue' = queue, stored' = stored \cup QueuedFrames'
  PROVE  stored' = stored /\ queue' \in [Clients -> Seq(stored')]
<1>1. QueuedFrames' \subseteq stored
  BY DEF QueuedFrames
<1>2. stored' = stored
  BY <1>1
<1> QED BY <1>2

\* Datagrams that are accepted and change neither queue nor reassembly.
LEMMA QuietServer ==
  ASSUME ServerInv, UNCHANGED <<queue, reassembly>>, wire \subseteq wire',
         NEW new, new \subseteq wire', \A p \in new : p.type = "AuthRequest",
         accepted' = accepted \cup new, stored' = stored \cup QueuedFrames'
  PROVE  ServerInv'
<1>1. EntryInv /\ StoredInv /\ AcceptedInv
  BY DEF ServerInv
<1>2. stored' = stored /\ queue' \in [Clients -> Seq(stored')]
  BY <1>1, NothingStored DEF StoredInv
<1>3. accepted \subseteq accepted'
  OBVIOUS
<1>4. EntryInv'
  BY <1>1, <1>3 DEF EntryInv, EntryOf, ChunksOf
<1>5. StoredInv'
  BY <1>1, <1>2, <1>3 DEF StoredInv, AllAccepted
<1>6. AcceptedInv'
  <2>1. ASSUME NEW i \in DOMAIN Frames
        PROVE  /\ encode_handoff(Frames[i]) \notin new
               /\ \A j \in 1 .. chunk_count(Frames[i]) : fragment(Frames[i])[j] \notin new
    <3>1. encode_handoff(Frames[i]).type = "VideoFrame"
      BY DEF encode_handoff
    <3>2. \A j \in 1 .. chunk_count(Frames[i]) : fragment(Frames[i])[j].type = "VideoFrameFragment"
      BY FragmentOf
    <3> QED BY <3>1, <3>2
  <2> QED BY <1>1, <1>2, <2>1 DEF AcceptedInv, Arrived, WaitsIn
<1> QED BY <1>4, <1>5, <1>6 DEF ServerInv

\* A whole frame in one datagram is queued as it was captured.
LEMMA WholeFrameArrives ==
  ASSUME FragmentSendAssumption, MaxFrames \in Nat \ {0}, ServerInv,
         NEW i \in DOMAIN Frames, Direct(Frames[i]),
         encode_handoff(Frames[i]) \in wire, UNCHANGED wire,
         store_frame(DirectFrame(encode_handoff(Frames[i]))), UNCHANGED reassembly,
         accepted' = accepted \cup {encode_handoff(Frames[i])}, stored' = stored \cup QueuedFrames'
  PROVE  ServerInv'
<1> DEFINE f == Frames[i]
           p == encode_handoff(f)
           q == DirectFrame(p)
<1>1. EntryInv /\ StoredInv /\ AcceptedInv
  BY DEF ServerInv
<1>2. f \in FrameRecords
  BY FrameType
<1>3. /\ p.type = "VideoFrame" /\ p.client = f.client /\ p.run = f.run /\ p.id = f.id
      /\ p.stamp = f.stamp /\ p.key = f.key /\ p.chunk = Piece(f, 0, f.size)
  BY DEF encode_handoff
<1>4. /\ q.client = f.client /\ q.run = f.run /\ q.id = f.id /\ q.stamp = f.stamp /\ q.key = f.key
      /\ q.payload = <<Piece(f, 0, f.size)>>
  <2> HIDE DEF p, f
  <2> QED BY <1>3 DEF DirectFrame
<1>5. CapturedAs(q, f)
  <2> DEFINE piece == Piece(f, 0, f.size)
  <2>1. piece.len = f.size /\ piece.stamp = f.stamp /\ piece.index = 0
    BY DEF Piece
  <2> HIDE DEF piece
  <2>2. f.size \in Nat \ {0}
    BY <1>2 DEF FrameRecords, Direct
  <2>3. payload_len(<<piece>>) = f.size
    BY <2>1, <2>2, OnePiece
  <2>4. \A j \in DOMAIN <<piece>> : <<piece>>[j].stamp = f.stamp /\ <<piece>>[j].index = j - 1
    BY <2>1
  <2>5. q.payload = <<piece>>
    BY <1>4 DEF piece
  <2> HIDE DEF q
  <2> QED BY <1>4, <2>3, <2>4, <2>5 DEF CapturedAs
<1>6. stored' = stored \cup {q} /\ queue' \in [Clients -> Seq(stored')]
  <2>1. q.client \in Clients
    BY <1>2, <1>4 DEF FrameRecords
  <2> HIDE DEF q
  <2>2. store_frame(q)
    BY DEF q
  <2> QED BY <1>1, <2>1, <2>2, StoreAdds DEF StoredInv
<1> HIDE DEF q
<1>7. accepted \subseteq accepted' /\ p \in accepted'
  OBVIOUS
<1>8. EntryInv'
  BY <1>1, <1>7 DEF EntryInv, EntryOf, ChunksOf
<1>9. StoredInv'
  <2>1. ASSUME NEW r \in stored'
        PROVE  \E m \in DOMAIN Frames : AllAccepted(Frames[m])' /\ CapturedAs(r, Frames[m])
    <3>1. CASE r = q
      BY <1>5, <1>7, <3>1 DEF AllAccepted
    <3>2. CASE r # q
      <4>1. PICK m \in DOMAIN Frames : AllAccepted(Frames[m]) /\ CapturedAs(r, Frames[m])
        BY <1>1, <1>6, <3>2 DEF StoredInv
      <4>2. AllAccepted(Frames[m])'
        BY <1>7, <4>1 DEF AllAccepted
      <4> QED BY <4>1, <4>2
    <3> QED BY <3>1, <3>2
  <2> QED BY <1>6, <2>1 DEF StoredInv
<1>10. AcceptedInv'
  <2>1. accepted' \subseteq wire'
    BY <1>1 DEF AcceptedInv
  <2>2. ASSUME NEW m \in DOMAIN Frames, Direct(Frames[m]), encode_handoff(Frames[m]) \in accepted'
        PROVE  Arrived(Frames[m])'
    <3>1. CASE encode_handoff(Frames[m]) \in accepted
      BY <1>1, <1>6, <2>2, <3>1 DEF AcceptedInv, Arrived
    <3>2. CASE encode_handoff(Frames[m]) = p
      <4>1. CapturedAs(q, Frames[m])
        <5> DEFINE g == Frames[m]
        <5>1. /\ g.client = f.client /\ g.run = f.run /\ g.id = f.id /\ g.stamp = f.stamp
              /\ g.key = f.key /\ g.size = f.size
          <6>1. /\ encode_handoff(g).client = g.client /\ encode_handoff(g).run = g.run
                /\ encode_handoff(g).id = g.id /\ encode_handoff(g).stamp = g.stamp
                /\ encode_handoff(g).key = g.key /\ encode_handoff(g).chunk.len = g.size
            BY DEF encode_handoff, Piece
          <6>2. p.chunk.len = f.size
            BY <1>3 DEF Piece
          <6> HIDE DEF g, f, p
          <6>3. encode_handoff(g) = p
            BY <3>2 DEF g
          <6> QED BY <1>3, <6>1, <6>2, <6>3
        <5> QED BY <1>5, <5>1 DEF CapturedAs
      <4> QED BY <1>6, <4>1 DEF Arrived
    <3> QED BY <2>2, <3>1, <3>2
  <2>3. ASSUME NEW m \in DOMAIN Frames, Fragmented(Frames[m]),
               NEW j \in 1 .. chunk_count(Frames[m]), fragment(Frames[m])[j] \in accepted'
        PROVE  Arrived(Frames[m])' \/ WaitsIn(Frames[m], j)'
    <3>1. fragment(Frames[m])[j] # p
      <4>1. fragment(Frames[m])[j].type = "VideoFrameFragment"
        BY FragmentOf
      <4> QED BY <1>3, <4>1
    <3>2. fragment(Frames[m])[j] \in accepted
      BY <2>3, <3>1
    <3>3. Arrived(Frames[m]) \/ WaitsIn(Frames[m], j)
      BY <1>1, <2>3, <3>2 DEF AcceptedInv
    <3> QED BY <1>6, <3>3 DEF Arrived, WaitsIn
  <2> QED BY <2>1, <2>2, <2>3 DEF AcceptedInv
<1> QED BY <1>8, <1>9, <1>10 DEF ServerInv

\* The entry a fragment is applied to is of the fragment's frame, and takes the
\* chunk where it belongs (apply_fragment_and_queue_if_complete).
LEMMA FragmentMatches ==
  ASSUME FragmentSendAssumption, DistinctIds, EntryInv, NEW i \in DOMAIN Frames,
         Fragmented(Frames[i]), NEW j \in 1 .. chunk_count(Frames[i])
  PROVE  LET f == Frames[i]
             p == fragment(f)[j]
             e == EntryFor(p)
         IN  /\ from_fragment(p) = KeyOf(f) /\ validate_fragment_shape(p) /\ metadata_matches(e, p)
             /\ \A m \in DOMAIN Frames : Fragmented(Frames[m]) /\ KeyOf(Frames[m]) = KeyOf(f) => m = i
             /\ e = Collected(f, e.chunks) /\ ChunksOf(e.chunks, f)
             /\ WithChunk(e, p) = Collected(f, MapInsert(e.chunks, j - 1, p.chunk))
             /\ KeyOf(f) \in DOMAIN reassembly => e = reassembly[KeyOf(f)]
             /\ KeyOf(f) \notin DOMAIN reassembly => DOMAIN e.chunks = {}
<1> DEFINE f == Frames[i]
           p == fragment(f)[j]
           e == EntryFor(p)
           k == chunk_count(f)
<1>1. k \in Nat \ {0}
  BY CutSizes
<1>2. /\ p.client = f.client /\ p.run = f.run /\ p.id = f.id
      /\ p.stamp = f.stamp /\ p.key = f.key /\ p.total = f.size
      /\ p.count = k /\ p.index = j - 1 /\ p.chunk_payload_len = p.chunk.len
  BY FragmentOf
<1>3. from_fragment(p) = KeyOf(f)
  BY <1>2 DEF from_fragment, KeyOf
<1>4. validate_fragment_shape(p)
  <2>1. p.count # 0 /\ p.index < p.count
    BY <1>1, <1>2
  <2> QED BY <1>2, <2>1 DEF validate_fragment_shape
<1>5. ASSUME NEW m \in DOMAIN Frames, Fragmented(Frames[m]), KeyOf(Frames[m]) = KeyOf(f)
      PROVE  m = i
  <2>1. Frames[m].client = f.client /\ Frames[m].run = f.run /\ Frames[m].id = f.id
    BY <1>5 DEF KeyOf
  <2> QED BY <1>5, <2>1 DEF DistinctIds
<1> HIDE DEF p
<1>8. /\ e = Collected(f, e.chunks) /\ ChunksOf(e.chunks, f)
      /\ KeyOf(f) \in DOMAIN reassembly => e = reassembly[KeyOf(f)]
      /\ KeyOf(f) \notin DOMAIN reassembly => DOMAIN e.chunks = {}
  <2>1. CASE KeyOf(f) \in DOMAIN reassembly
    <3>1. e = reassembly[KeyOf(f)]
      BY <1>3, <2>1 DEF EntryFor
    <3>2. PICK m \in DOMAIN Frames : EntryOf(e, KeyOf(f), Frames[m])
      BY <2>1, <3>1 DEF EntryInv
    <3>3. m = i
      BY <1>5, <3>2 DEF EntryOf
    <3> HIDE DEF e
    <3>4. e = Collected(f, e.chunks) /\ ChunksOf(e.chunks, f)
      BY <3>2, <3>3 DEF EntryOf
    <3> QED BY <2>1, <3>1, <3>4
  <2>2. CASE KeyOf(f) \notin DOMAIN reassembly
    <3>1. e = [stamp |-> p.stamp, key |-> p.key, total |-> p.total, count |-> p.count,
               chunks |-> EmptyMap]
      BY <1>3, <2>2 DEF EntryFor
    <3>2. e = Collected(f, EmptyMap) /\ e.chunks = EmptyMap
      BY <1>2, <3>1 DEF Collected
    <3>3. DOMAIN EmptyMap = {} /\ ChunksOf(EmptyMap, f)
      BY DEF EmptyMap, ChunksOf
    <3> HIDE DEF e
    <3> QED BY <2>2, <3>2, <3>3
  <2> QED BY <2>1, <2>2
<1> HIDE DEF e
<1> DEFINE c == e.chunks
<1>9. e = Collected(f, c)
  BY <1>8
<1> HIDE DEF c
<1>10. metadata_matches(e, p)
  BY <1>2, <1>9 DEF metadata_matches, Collected
<1>11. WithChunk(e, p) = Collected(f, MapInsert(c, j - 1, p.chunk))
  BY <1>2, <1>9 DEF WithChunk, Collected
<1> QED BY <1>3, <1>4, <1>5, <1>8, <1>10, <1>11 DEF p, e, c

\* The chunks of an entry with the one that arrived.
LEMMA ChunkJoins ==
  ASSUME FragmentSendAssumption, NEW i \in DOMAIN Frames, Fragmented(Frames[i]),
         NEW j \in 1 .. chunk_count(Frames[i]), NEW chunks, ChunksOf(chunks, Frames[i]),
         accepted' = accepted \cup {fragment(Frames[i])[j]}
  PROVE  LET c == MapInsert(chunks, j - 1, fragment(Frames[i])[j].chunk)
         IN  ChunksOf(c, Frames[i])' /\ DOMAIN c = DOMAIN chunks \cup {j - 1}
<1> DEFINE f == Frames[i]
           k == chunk_count(f)
           c == MapInsert(chunks, j - 1, fragment(f)[j].chunk)
<1>1. k \in Nat \ {0}
  BY CutSizes
<1>2. DOMAIN c = DOMAIN chunks \cup {j - 1}
  BY DEF MapInsert
<1>3. j - 1 \in 0 .. k - 1 /\ (j - 1) + 1 = j
  BY <1>1
<1>4. /\ DOMAIN chunks \subseteq 0 .. k - 1
      /\ \A x \in DOMAIN chunks : chunks[x] = fragment(f)[x + 1].chunk
      /\ \A x \in DOMAIN chunks : fragment(f)[x + 1] \in accepted
  BY DEF ChunksOf
<1>5. \A x \in DOMAIN c : c[x] = fragment(f)[x + 1].chunk
  BY <1>3, <1>4 DEF MapInsert
<1>6. c = [x \in DOMAIN c |-> fragment(f)[x + 1].chunk]
  <2>1. c = [x \in DOMAIN c |-> c[x]]
    BY DEF MapInsert
  <2> HIDE DEF c
  <2> QED BY <1>5, <2>1
<1>7. \A x \in DOMAIN c : fragment(f)[x + 1] \in accepted'
  BY <1>2, <1>3, <1>4
<1> HIDE DEF c
<1>8. ChunksOf(c, f)'
  <2>1. DOMAIN c \subseteq 0 .. k - 1
    BY <1>2, <1>3, <1>4
  <2> QED BY <1>6, <1>7, <2>1 DEF ChunksOf
<1> QED BY <1>2, <1>8 DEF c

\* All the chunks of a frame are as long as the frame (reassemble_payload).
LEMMA WholePayload ==
  ASSUME FragmentSendAssumption, NEW i \in DOMAIN Frames, Fragmented(Frames[i]),
         NEW a \in {0, 1}, NEW c, DOMAIN c = a .. a + chunk_count(Frames[i]) - 1,
         \A x \in DOMAIN c : c[x] = fragment(Frames[i])[x - a + 1].chunk
  PROVE  payload_len(c) = Frames[i].size
<1> DEFINE f == Frames[i]
           n == max_chunk_payload_len(f)
           k == chunk_count(f)
           size == f.size
<1>1. /\ n \in Nat \ {0} /\ k \in Nat \ {0} /\ size \in Nat
      /\ (k - 1) * n < size /\ size <= k * n
  BY CutSizes
<1>2. ASSUME NEW x \in DOMAIN c PROVE c[x].len = SmallerOf(n, size - (x - a) * n)
  <2>1. x - a + 1 \in 1 .. k /\ (x - a + 1) - 1 = x - a
    BY <1>1
  <2>2. fragment(f)[x - a + 1].chunk.len = PieceLen(f, (x - a + 1) - 1)
    BY <2>1, FragmentOf
  <2>3. c[x].len = PieceLen(f, x - a)
    BY <2>1, <2>2
  <2> QED BY <2>3 DEF PieceLen
<1>3. DOMAIN c = a .. a + k - 1 /\ a \in Nat
  OBVIOUS
<1> HIDE DEF f, n, k, size
<1>4. payload_len(c) = size
  <2>1. PiecesOf(c, a, n, size, k)
    BY <1>1, <1>2, <1>3 DEF PiecesOf
  <2> QED BY <2>1, PiecesAddUp
<1> QED BY <1>4 DEF size, f

\* What a fragment does to the entry of its frame disturbs no other frame: what
\* was accepted of them still waits, or has been queued.
LEMMA OthersWait ==
  ASSUME FragmentSendAssumption, DistinctCaptures, DistinctIds, AcceptedInv,
         NEW i \in DOMAIN Frames, Fragmented(Frames[i]), NEW j \in 1 .. chunk_count(Frames[i]),
         fragment(Frames[i])[j] \in wire, UNCHANGED wire,
         accepted' = accepted \cup {fragment(Frames[i])[j]}, stored \subseteq stored',
         \A k \in DOMAIN reassembly :
           k # KeyOf(Frames[i]) => k \in DOMAIN reassembly' /\ reassembly'[k] = reassembly[k],
         \/ Arrived(Frames[i])'
         \/ \A l \in 1 .. chunk_count(Frames[i]) :
              l = j \/ WaitsIn(Frames[i], l) => WaitsIn(Frames[i], l)'
  PROVE  AcceptedInv'
<1> DEFINE f == Frames[i]
           p == fragment(f)[j]
<1>1. p.type = "VideoFrameFragment"
  BY FragmentOf
<1>2. \A g : Arrived(g) => Arrived(g)'
  BY DEF Arrived
<1>3. accepted' \subseteq wire'
  BY DEF AcceptedInv
<1>4. ASSUME NEW m \in DOMAIN Frames, Direct(Frames[m]), encode_handoff(Frames[m]) \in accepted'
      PROVE  Arrived(Frames[m])'
  <2>1. encode_handoff(Frames[m]) # p
    BY <1>1 DEF encode_handoff
  <2>2. encode_handoff(Frames[m]) \in accepted
    BY <1>4, <2>1
  <2> QED BY <1>2, <1>4, <2>2 DEF AcceptedInv
<1>5. ASSUME NEW m \in DOMAIN Frames, Fragmented(Frames[m]),
             NEW l \in 1 .. chunk_count(Frames[m]), fragment(Frames[m])[l] \in accepted'
      PROVE  Arrived(Frames[m])' \/ WaitsIn(Frames[m], l)'
  <2>1. chunk_count(Frames[m]) \in Nat /\ chunk_count(f) \in Nat
    BY <1>5, CutSizes
  <2>2. fragment(Frames[m])[l] = p => m = i /\ l = j
    BY <1>5, <2>1, FragmentsDiffer
  <2>3. CASE m = i
    <3>1. l = j \/ fragment(f)[l] \in accepted
      BY <1>5, <2>2, <2>3
    <3>2. l = j \/ Arrived(f) \/ WaitsIn(f, l)
      BY <1>5, <2>3, <3>1 DEF AcceptedInv
    <3> QED BY <1>2, <1>5, <2>3, <3>2
  <2>4. CASE m # i
    <3>1. Arrived(Frames[m]) \/ WaitsIn(Frames[m], l)
      BY <1>5, <2>2, <2>4 DEF AcceptedInv
    <3>2. KeyOf(Frames[m]) # KeyOf(f)
      <4>1. ASSUME KeyOf(Frames[m]) = KeyOf(f) PROVE FALSE
        <5>1. /\ Frames[m].client = f.client /\ Frames[m].run = f.run /\ Frames[m].id = f.id
          BY <4>1 DEF KeyOf
        <5> QED BY <1>5, <2>4, <5>1 DEF DistinctIds
      <4> QED BY <4>1
    <3>3. WaitsIn(Frames[m], l) => WaitsIn(Frames[m], l)'
      BY <3>2 DEF WaitsIn
    <3> QED BY <1>2, <3>1, <3>3
  <2> QED BY <2>3, <2>4
<1> QED BY <1>3, <1>4, <1>5 DEF AcceptedInv

\* A fragment that leaves its frame incomplete is kept (KeepChunk).
LEMMA FragmentKept ==
  ASSUME FragmentSendAssumption, DistinctCaptures, DistinctIds, ServerInv,
         NEW i \in DOMAIN Frames, Fragmented(Frames[i]), NEW j \in 1 .. chunk_count(Frames[i]),
         fragment(Frames[i])[j] \in wire, UNCHANGED wire,
         accepted' = accepted \cup {fragment(Frames[i])[j]}, stored' = stored \cup QueuedFrames',
         NEW c, ChunksOf(c, Frames[i])', DOMAIN c # 0 .. chunk_count(Frames[i]) - 1,
         j - 1 \in DOMAIN c,
         \A l \in 1 .. chunk_count(Frames[i]) : WaitsIn(Frames[i], l) => l - 1 \in DOMAIN c,
         reassembly' = MapInsert(reassembly, KeyOf(Frames[i]), Collected(Frames[i], c)),
         UNCHANGED queue
  PROVE  ServerInv'
<1> DEFINE f == Frames[i]
           w == Collected(f, c)
<1>1. EntryInv /\ StoredInv /\ AcceptedInv
  BY DEF ServerInv
<1>2. stored' = stored /\ queue' \in [Clients -> Seq(stored')]
  BY <1>1, NothingStored DEF StoredInv
<1>3. accepted \subseteq accepted'
  OBVIOUS
<1>4. w.chunks = c
  BY DEF Collected
<1>5. EntryOf(w, KeyOf(f), f)'
  <2> HIDE DEF w
  <2>1. w = Collected(f, w.chunks)
    BY <1>4 DEF w
  <2> QED BY <1>4, <2>1 DEF EntryOf
<1>6. /\ DOMAIN reassembly' = DOMAIN reassembly \cup {KeyOf(f)} /\ reassembly'[KeyOf(f)] = w
      /\ \A k \in DOMAIN reassembly : k # KeyOf(f) => reassembly'[k] = reassembly[k]
  <2> HIDE DEF w
  <2>1. reassembly' = MapInsert(reassembly, KeyOf(f), w)
    BY DEF w
  <2> QED BY <2>1 DEF MapInsert
<1> HIDE DEF w
<1>7. EntryInv'
  <2>1. ASSUME NEW k \in DOMAIN reassembly', NEW e, e = reassembly'[k]
        PROVE  \E m \in DOMAIN Frames : EntryOf(e, k, Frames[m])'
    <3>1. CASE k = KeyOf(f)
      <4>1. e = w
        BY <1>6, <2>1, <3>1
      <4>2. EntryOf(e, k, f)'
        BY <1>5, <3>1, <4>1 DEF EntryOf, ChunksOf
      <4> QED BY <4>2
    <3>2. CASE k # KeyOf(f)
      <4>1. k \in DOMAIN reassembly /\ reassembly'[k] = reassembly[k]
        BY <1>6, <3>2
      <4>2. PICK m \in DOMAIN Frames : EntryOf(e, k, Frames[m])
        BY <1>1, <2>1, <4>1 DEF EntryInv
      <4>3. EntryOf(e, k, Frames[m])'
        BY <1>3, <4>2 DEF EntryOf, ChunksOf
      <4> QED BY <4>3
    <3> QED BY <3>1, <3>2
  <2>2. ASSUME NEW k \in DOMAIN reassembly'
        PROVE  \E m \in DOMAIN Frames : EntryOf(reassembly[k], k, Frames[m])'
    <3>1. PICK e : e = reassembly'[k]
      OBVIOUS
    <3>2. PICK m \in DOMAIN Frames : EntryOf(e, k, Frames[m])'
      BY <2>1, <3>1
    <3>3. EntryOf(reassembly[k], k, Frames[m])'
      BY <3>1, <3>2 DEF EntryOf, ChunksOf
    <3> QED BY <3>3
  <2> QED BY <2>2 DEF EntryInv
<1>8. StoredInv'
  BY <1>1, <1>2, <1>3 DEF StoredInv, AllAccepted
<1>9. AcceptedInv'
  <2>1. \A l \in 1 .. chunk_count(f) : l = j \/ WaitsIn(f, l) => WaitsIn(f, l)'
    BY <1>4, <1>6 DEF WaitsIn
  <2> QED BY <1>1, <1>2, <1>6, <2>1, OthersWait
<1> QED BY <1>7, <1>8, <1>9 DEF ServerInv

\* The last fragment of a frame: the frame is queued as it was captured, and its
\* entry is removed (CompleteFrame).
LEMMA FrameCompleted ==
  ASSUME FragmentSendAssumption, MaxFrames \in Nat \ {0}, DistinctCaptures, DistinctIds, ServerInv,
         NEW i \in DOMAIN Frames, Fragmented(Frames[i]), NEW j \in 1 .. chunk_count(Frames[i]),
         fragment(Frames[i])[j] \in wire, UNCHANGED wire,
         accepted' = accepted \cup {fragment(Frames[i])[j]}, stored' = stored \cup QueuedFrames',
         NEW c, ChunksOf(c, Frames[i])', DOMAIN c = 0 .. chunk_count(Frames[i]) - 1,
         NEW q, q.client \in Clients,
         q.client = Frames[i].client, q.run = Frames[i].run, q.id = Frames[i].id,
         q.stamp = Frames[i].stamp, q.key = Frames[i].key,
         q.payload = [l \in 1 .. chunk_count(Frames[i]) |-> c[l - 1]],
         store_frame(q), reassembly' = MapRemove(reassembly, KeyOf(Frames[i]))
  PROVE  ServerInv'
<1> DEFINE f == Frames[i]
           k == chunk_count(f)
<1>1. EntryInv /\ StoredInv /\ AcceptedInv
  BY DEF ServerInv
<1>2. k \in Nat \ {0}
  BY CutSizes
<1>3. accepted \subseteq accepted'
  OBVIOUS
<1>4. \A x \in 0 .. k - 1 : c[x] = fragment(f)[x + 1].chunk /\ fragment(f)[x + 1] \in accepted'
  BY DEF ChunksOf
<1>5. \A l \in 1 .. k : c[l - 1] = fragment(f)[l].chunk /\ fragment(f)[l] \in accepted'
  <2>1. \A l \in 1 .. k : l - 1 \in 0 .. k - 1 /\ (l - 1) + 1 = l
    BY <1>2
  <2> QED BY <1>4, <2>1
<1>6. CapturedAs(q, f)
  <2>1. DOMAIN q.payload = 1 .. k
    OBVIOUS
  <2>2. \A l \in 1 .. k : q.payload[l] = fragment(f)[l].chunk
    BY <1>5
  <2>3. payload_len(q.payload) = f.size
    <3> DEFINE d == q.payload
    <3>1. DOMAIN d = 1 .. 1 + k - 1
      BY <1>2, <2>1
    <3>2. \A x \in DOMAIN d : d[x] = fragment(f)[x - 1 + 1].chunk
      <4>1. \A x \in 1 .. k : x - 1 + 1 = x
        BY <1>2
      <4> QED BY <2>1, <2>2, <4>1
    <3> HIDE DEF d
    <3>3. payload_len(d) = f.size
      BY <3>1, <3>2, WholePayload
    <3> QED BY <3>3 DEF d
  <2>4. \A l \in 1 .. k : q.payload[l].stamp = f.stamp /\ q.payload[l].index = l - 1
    BY <2>2, FragmentOf
  <2> QED BY <2>1, <2>3, <2>4 DEF CapturedAs
<1>7. stored' = stored \cup {q} /\ queue' \in [Clients -> Seq(stored')]
  BY <1>1, StoreAdds DEF StoredInv
<1>8. /\ DOMAIN reassembly' = DOMAIN reassembly \ {KeyOf(f)}
      /\ \A x \in DOMAIN reassembly' : reassembly'[x] = reassembly[x]
  BY DEF MapRemove
<1>9. EntryInv'
  <2>1. ASSUME NEW x \in DOMAIN reassembly', NEW e, e = reassembly'[x]
        PROVE  \E m \in DOMAIN Frames : EntryOf(e, x, Frames[m])'
    <3>1. PICK m \in DOMAIN Frames : EntryOf(e, x, Frames[m])
      BY <1>1, <1>8, <2>1 DEF EntryInv
    <3>2. EntryOf(e, x, Frames[m])'
      BY <1>3, <3>1 DEF EntryOf, ChunksOf
    <3> QED BY <3>2
  <2>2. ASSUME NEW x \in DOMAIN reassembly'
        PROVE  \E m \in DOMAIN Frames : EntryOf(reassembly[x], x, Frames[m])'
    <3>1. PICK e : e = reassembly'[x]
      OBVIOUS
    <3>2. PICK m \in DOMAIN Frames : EntryOf(e, x, Frames[m])'
      BY <2>1, <3>1
    <3>3. EntryOf(reassembly[x], x, Frames[m])'
      BY <3>1, <3>2 DEF EntryOf, ChunksOf
    <3> QED BY <3>3
  <2> QED BY <2>2 DEF EntryInv
<1>10. StoredInv'
  <2>1. ASSUME NEW r \in stored'
        PROVE  \E m \in DOMAIN Frames : AllAccepted(Frames[m])' /\ CapturedAs(r, Frames[m])
    <3>1. CASE r = q
      <4>1. AllAccepted(f)'
        BY <1>5 DEF AllAccepted
      <4> QED BY <1>6, <3>1, <4>1
    <3>2. CASE r # q
      <4>1. PICK m \in DOMAIN Frames : AllAccepted(Frames[m]) /\ CapturedAs(r, Frames[m])
        BY <1>1, <1>7, <3>2 DEF StoredInv
      <4>2. AllAccepted(Frames[m])'
        BY <1>3, <4>1 DEF AllAccepted
      <4> QED BY <4>1, <4>2
    <3> QED BY <3>1, <3>2
  <2> QED BY <1>7, <2>1 DEF StoredInv
<1>11. AcceptedInv'
  <2>1. Arrived(f)'
    BY <1>6, <1>7 DEF Arrived
  <2> QED BY <1>1, <1>7, <1>8, <2>1, OthersWait
<1> QED BY <1>9, <1>10, <1>11 DEF ServerInv

\* A fragment that passed the gate is repeated, kept, or completes its frame
\* (apply_fragment_and_queue_if_complete).
LEMMA FragmentArrives ==
  ASSUME FragmentSendAssumption, MaxFrames \in Nat \ {0}, DistinctCaptures, DistinctIds, ServerInv,
         NEW i \in DOMAIN Frames, Fragmented(Frames[i]), NEW j \in 1 .. chunk_count(Frames[i]),
         fragment(Frames[i])[j] \in wire, UNCHANGED wire,
         apply_fragment_and_queue_if_complete(fragment(Frames[i])[j]),
         accepted' = accepted \cup {fragment(Frames[i])[j]}, stored' = stored \cup QueuedFrames'
  PROVE  ServerInv'
<1> DEFINE f == Frames[i]
           k == chunk_count(f)
           p == fragment(f)[j]
           e == EntryFor(p)
           w == WithChunk(e, p)
<1>0. PICK held : held = e.chunks
  OBVIOUS
<1> DEFINE c == MapInsert(held, j - 1, p.chunk)
<1>1. EntryInv /\ StoredInv /\ AcceptedInv
  BY DEF ServerInv
<1>2. k \in Nat \ {0} /\ j - 1 \in 0 .. k - 1
  BY CutSizes
<1>3. /\ from_fragment(p) = KeyOf(f) /\ validate_fragment_shape(p) /\ metadata_matches(e, p)
      /\ e = Collected(f, held) /\ ChunksOf(held, f) /\ w = Collected(f, c)
      /\ KeyOf(f) \in DOMAIN reassembly => e = reassembly[KeyOf(f)]
      /\ KeyOf(f) \notin DOMAIN reassembly => DOMAIN held = {}
  BY <1>0, <1>1, FragmentMatches
<1>4. p.client = f.client /\ p.run = f.run /\ p.id = f.id /\ p.index = j - 1
  BY FragmentOf
<1>5. ChunksOf(c, f)' /\ DOMAIN c = DOMAIN held \cup {j - 1}
  BY <1>3, ChunkJoins
<1>6. w.chunks = c /\ w.total = f.size /\ w.count = k /\ w.stamp = f.stamp /\ w.key = f.key
  BY <1>3 DEF Collected
<1>7. \A l \in 1 .. k : WaitsIn(f, l) => l - 1 \in DOMAIN held
  BY <1>0, <1>3 DEF WaitsIn
<1> HIDE DEF p, e, c, w
<1>8. FragmentResult(p) =
        IF p.index \in DOMAIN held THEN "DuplicateFragmentIgnored"
        ELSE IF ~is_complete(w) THEN "FragmentStored"
        ELSE IF payload_len(w.chunks) # w.total THEN "ReassembledPayloadLenMismatch"
        ELSE "FrameComplete"
  BY <1>0, <1>3 DEF FragmentResult, e, w
<1>9. is_complete(w) <=> DOMAIN c = 0 .. k - 1
  BY <1>6 DEF is_complete
<1>10. CASE j - 1 \in DOMAIN held
  <2>1. FragmentResult(p) = "DuplicateFragmentIgnored"
    BY <1>4, <1>8, <1>10
  <2>2. UNCHANGED <<queue, reassembly>>
    BY <2>1 DEF apply_fragment_and_queue_if_complete, KeepChunk, CompleteFrame, IgnoreFragment,
                queueVars, p
  <2>3. stored' = stored /\ queue' \in [Clients -> Seq(stored')]
    BY <1>1, <2>2, NothingStored DEF StoredInv
  <2>4. accepted \subseteq accepted'
    OBVIOUS
  <2>5. EntryInv'
    BY <1>1, <2>2, <2>4 DEF EntryInv, EntryOf, ChunksOf
  <2>6. StoredInv'
    BY <1>1, <2>3, <2>4 DEF StoredInv, AllAccepted
  <2>7. AcceptedInv'
    <3>1. \A l \in 1 .. k : l = j \/ WaitsIn(f, l) => WaitsIn(f, l)'
      BY <1>0, <1>3, <1>10, <2>2 DEF WaitsIn
    <3> QED BY <1>1, <2>2, <2>3, <3>1, OthersWait
  <2> QED BY <2>5, <2>6, <2>7 DEF ServerInv
<1>11. CASE j - 1 \notin DOMAIN held /\ DOMAIN c # 0 .. k - 1
  <2>1. FragmentResult(p) = "FragmentStored"
    BY <1>4, <1>8, <1>9, <1>11
  <2>2. /\ reassembly' = MapInsert(reassembly, from_fragment(p), w)
        /\ UNCHANGED queue
    BY <2>1 DEF apply_fragment_and_queue_if_complete, KeepChunk, CompleteFrame, IgnoreFragment,
                queueVars, p, e, w
  <2>3. reassembly' = MapInsert(reassembly, KeyOf(f), Collected(f, c))
    BY <1>3, <2>2
  <2>4. j - 1 \in DOMAIN c /\ \A l \in 1 .. k : WaitsIn(f, l) => l - 1 \in DOMAIN c
    BY <1>5, <1>7
  <2> QED BY <1>5, <1>11, <2>2, <2>3, <2>4, FragmentKept
<1>12. CASE j - 1 \notin DOMAIN held /\ DOMAIN c = 0 .. k - 1
  <2> DEFINE q == ReassembledFrame(p)
  <2>1. payload_len(c) = f.size
    <3>1. DOMAIN c = 0 .. 0 + k - 1
      BY <1>2, <1>12
    <3>2. \A x \in DOMAIN c : c[x] = fragment(f)[x - 0 + 1].chunk
      <4>1. \A x \in 0 .. k - 1 : x - 0 + 1 = x + 1
        BY <1>2
      <4>2. \A x \in DOMAIN c : c[x] = fragment(f)[x + 1].chunk
        <5>1. \A x \in DOMAIN c : c[x] = [y \in DOMAIN c |-> fragment(f)[y + 1].chunk][x]
          BY <1>5 DEF ChunksOf
        <5> QED BY <5>1
      <4> QED BY <1>12, <4>1, <4>2
    <3> QED BY <3>1, <3>2, WholePayload
  <2>2. FragmentResult(p) = "FrameComplete"
    BY <1>4, <1>6, <1>8, <1>9, <1>12, <2>1
  <2>3. reassembly' = MapRemove(reassembly, from_fragment(p)) /\ store_frame(q)
    BY <2>2 DEF apply_fragment_and_queue_if_complete, KeepChunk, CompleteFrame, IgnoreFragment, p
  <2>4. q = [client |-> p.client, run |-> p.run, id |-> p.id, stamp |-> w.stamp,
             key |-> w.key, source |-> p.source, payload |-> reassemble_payload(w)]
    BY DEF ReassembledFrame, w, e
  <2>5. reassemble_payload(w) = [l \in 1 .. k |-> c[l - 1]]
    BY <1>6 DEF reassemble_payload
  <2> HIDE DEF q
  <2>6. /\ q.client = f.client /\ q.run = f.run /\ q.id = f.id /\ q.stamp = f.stamp
        /\ q.key = f.key /\ q.payload = [l \in 1 .. k |-> c[l - 1]]
    BY <1>4, <1>6, <2>4, <2>5
  <2>7. f.client \in Clients
    <3>1. f \in FrameRecords
      BY FrameType
    <3> QED BY <3>1 DEF FrameRecords
  <2>8. q.client \in Clients /\ reassembly' = MapRemove(reassembly, KeyOf(f))
    BY <1>3, <2>3, <2>6, <2>7
  <2>9. ChunksOf(c, f)' /\ DOMAIN c = 0 .. k - 1 /\ store_frame(q)
    BY <1>5, <1>12, <2>3
  <2> QED BY <2>6, <2>8, <2>9, FrameCompleted
<1> QED BY <1>10, <1>11, <1>12

\* How far the client is.
LEMMA ClientCounts ==
  ASSUME FragmentSendAssumption, ClientTypes
  PROVE  /\ Len(Frames) \in Nat /\ DOMAIN Frames = 1 .. Len(Frames)
         /\ Len(reports) \in Nat /\ DOMAIN reports = 1 .. Len(reports)
         /\ next \in Nat /\ next <= Len(Frames) /\ Len(reports) <= next
         /\ fragments = <<>> => Len(reports) = next
<1>1. Len(reports) + (IF fragments = <<>> THEN 0 ELSE 1) = next
  BY DEF ClientTypes
<1>2. Len(Frames) \in Nat /\ DOMAIN Frames = 1 .. Len(Frames)
  BY DEF FragmentSendAssumption
<1>3. Len(reports) \in Nat /\ DOMAIN reports = 1 .. Len(reports) /\ next \in 0 .. Len(Frames)
  BY DEF ClientTypes
<1>4. next \in Nat /\ next <= Len(Frames)
  BY <1>2, <1>3
<1>5. Len(reports) <= next /\ (fragments = <<>> => Len(reports) = next)
  <2> DEFINE n == Len(reports)
  <2>1. n \in Nat /\ (n = next \/ (n + 1 = next /\ fragments # <<>>))
    <3> HIDE DEF n
    <3>1. n + (IF fragments = <<>> THEN 0 ELSE 1) = next /\ n \in Nat
      BY <1>1, <1>3 DEF n
    <3>2. CASE fragments = <<>>
      BY <3>1, <3>2
    <3>3. CASE fragments # <<>>
      BY <3>1, <3>3
    <3> QED BY <3>1, <3>2, <3>3
  <2> HIDE DEF n
  <2>2. n <= next
    BY <1>4, <2>1
  <2> QED BY <2>1, <2>2 DEF n
<1> QED BY <1>2, <1>3, <1>4, <1>5

\* Fragments have been sent only of a frame that is cut, and all of them only
\* when that is reported.
LEMMA SentFragments ==
  ASSUME FragmentSendAssumption, ClientInv, NEW i \in 1 .. next, NEW j \in 1 .. SentOf(i)
  PROVE  /\ i \in DOMAIN Frames /\ Fragmented(Frames[i])
         /\ j \in 1 .. chunk_count(Frames[i])
         /\ j = chunk_count(Frames[i]) =>
              i \in 1 .. Len(reports) /\ reports[i].kind = "FragmentedSent"
<1> DEFINE k == chunk_count(Frames[i])
<1>1. ClientTypes /\ CutInv /\ ReportInv /\ WireInv
  BY DEF ClientInv
<1>2. /\ Len(Frames) \in Nat /\ DOMAIN Frames = 1 .. Len(Frames)
      /\ Len(reports) \in Nat /\ next \in Nat /\ next <= Len(Frames) /\ Len(reports) <= next
      /\ fragments = <<>> => Len(reports) = next
  BY <1>1, ClientCounts
<1>3. SentOf(i) \in Nat /\ SentOf(i) > 0
  <2>1. SentOf(i) \in Nat
    BY <1>1, SentTypes
  <2> QED BY <2>1
<1>4. i \in DOMAIN Frames
  BY <1>2
<1>5. CASE i <= Len(reports)
  <2>1. ReportOf(reports[i], Frames[i]) /\ SentOf(i) = reports[i].sent
    BY <1>1, <1>2, <1>5 DEF ReportInv, SentOf
  <2>2. /\ Fragmented(Frames[i]) /\ reports[i].sent <= k
        /\ reports[i].sent = k => reports[i].kind = "FragmentedSent"
    BY <1>3, <2>1 DEF ReportOf
  <2>3. k \in Nat
    BY <1>4, <2>2, CutSizes
  <2> HIDE DEF k
  <2>4. j \in 1 .. k /\ (j = k => reports[i].sent = k)
    BY <1>3, <2>1, <2>2, <2>3
  <2>5. i \in 1 .. Len(reports)
    BY <1>2, <1>5
  <2> QED BY <1>4, <2>2, <2>4, <2>5 DEF k
<1>6. CASE ~(i <= Len(reports))
  <2>1. fragments # <<>>
    BY <1>2, <1>6
  <2>2. i = next
    BY <1>2, <1>6, <2>1, NextFragment
  <2>3. /\ Fragmented(Frames[next]) /\ chunk_count(Frames[next]) \in Nat
        /\ progress.sent + 1 \in 1 .. chunk_count(Frames[next]) /\ progress.sent \in Nat
    BY <2>1, NextFragment
  <2>4. SentOf(i) = progress.sent
    BY <1>6 DEF SentOf
  <2>5. j \in 1 .. k /\ j # k
    BY <1>3, <2>2, <2>3, <2>4
  <2> QED BY <1>4, <2>2, <2>3, <2>5
<1> QED BY <1>5, <1>6

\* The datagrams on the wire: requests, whole frames, and pieces of cut ones.
LEMMA WireForms ==
  ASSUME FragmentSendAssumption, ClientInv, NEW p \in wire
  PROVE  \/ p.type = "AuthRequest" /\ p \in Packets
         \/ \E i \in DOMAIN Frames : Direct(Frames[i]) /\ p = encode_handoff(Frames[i])
         \/ \E i \in DOMAIN Frames :
              /\ Fragmented(Frames[i])
              /\ \E j \in 1 .. chunk_count(Frames[i]) : p = fragment(Frames[i])[j]
<1>1. ClientTypes /\ ReportInv /\ WireInv
  BY DEF ClientInv
<1>2. ASSUME NEW i \in 1 .. Len(reports), reports[i].kind = "DirectSent"
      PROVE  i \in DOMAIN Frames /\ Direct(Frames[i])
  <2>1. ReportOf(reports[i], Frames[i])
    BY <1>1 DEF ReportInv
  <2>2. i \in DOMAIN Frames
    BY <1>1, ClientCounts
  <2> QED BY <1>2, <2>1, <2>2 DEF ReportOf
<1>3. ASSUME NEW i \in 1 .. next, NEW j \in 1 .. SentOf(i)
      PROVE  /\ i \in DOMAIN Frames /\ Fragmented(Frames[i])
             /\ j \in 1 .. chunk_count(Frames[i])
  BY SentFragments
<1> QED BY <1>1, <1>2, <1>3 DEF WireInv

\* A datagram arrives, once more or for the first time.
LEMMA DeliverStep ==
  ASSUME FragmentSendAssumption, MaxFrames \in Nat \ {0}, DistinctCaptures, DistinctIds,
         SendInv, Deliver
  PROVE  SendInv'
<1>1. ClientInv /\ ServerInv
  BY DEF SendInv
<1>2. PICK p \in wire :
        /\ ProcessPacket(p)
        /\ accepted' = IF GateOutcome(p) = "Accepted" THEN accepted \cup {p} ELSE accepted
  BY DEF Deliver
<1>3. /\ stored' = stored \cup QueuedFrames' /\ wire' = wire
      /\ UNCHANGED <<next, fragments, progress, reports>>
  BY DEF Deliver, clientVars
<1>4. ClientInv'
  BY <1>1, <1>3 DEF ClientInv, ClientTypes, CutInv, ReportInv, WireInv, SentOf, ReportOf, Sleeps
<1>5. ServerInv'
  <2>1. CASE GateOutcome(p) # "Accepted"
    <3>1. UNCHANGED <<queue, reassembly>> /\ accepted' = accepted
      BY <1>2, <2>1 DEF ProcessPacket, vars, queueVars
    <3>2. PICK new : new = {}
      OBVIOUS
    <3>3. /\ accepted' = accepted \cup new /\ new \subseteq wire'
          /\ \A x \in new : x.type = "AuthRequest"
      BY <3>1, <3>2
    <3> QED BY <1>1, <1>3, <3>1, <3>3, QuietServer
  <2>2. CASE GateOutcome(p) = "Accepted"
    <3>1. /\ accepted' = accepted \cup {p}
          /\ ReceiveAuthRequest(p) \/ ReceiveVideoFrame(p) \/ ReceiveVideoFrameFragment(p)
             \/ ReceiveOther(p)
      BY <1>2, <2>2 DEF ProcessPacket
    <3>2. CASE p.type = "AuthRequest"
      <4>1. UNCHANGED <<queue, reassembly>>
        BY <3>1, <3>2 DEF ReceiveAuthRequest, ReceiveVideoFrame, ReceiveVideoFrameFragment,
                          ReceiveOther, queueVars
      <4>2. PICK new : new = {p}
        OBVIOUS
      <4>3. /\ accepted' = accepted \cup new /\ new \subseteq wire'
            /\ \A x \in new : x.type = "AuthRequest"
        BY <1>3, <3>1, <3>2, <4>2
      <4> QED BY <1>1, <1>3, <4>1, <4>3, QuietServer
    <3>3. ASSUME NEW i \in DOMAIN Frames, Direct(Frames[i]), p = encode_handoff(Frames[i])
          PROVE  ServerInv'
      <4>1. p.type = "VideoFrame"
        BY <3>3 DEF encode_handoff
      <4>2. store_frame(DirectFrame(p)) /\ UNCHANGED reassembly
        BY <3>1, <4>1 DEF ReceiveAuthRequest, HandleAuthRequest, ReceiveVideoFrame,
                          ReceiveVideoFrameFragment, ReceiveOther
      <4>3. store_frame(DirectFrame(encode_handoff(Frames[i])))
        BY <3>3, <4>2 DEF store_frame
      <4> QED BY <1>1, <1>3, <3>1, <3>3, <4>2, <4>3, WholeFrameArrives
    <3>4. ASSUME NEW i \in DOMAIN Frames, Fragmented(Frames[i]),
                 NEW j \in 1 .. chunk_count(Frames[i]), p = fragment(Frames[i])[j]
          PROVE  ServerInv'
      <4>1. p.type = "VideoFrameFragment"
        BY <3>4, FragmentOf
      <4>2. apply_fragment_and_queue_if_complete(p)
        BY <3>1, <4>1 DEF ReceiveAuthRequest, HandleAuthRequest, ReceiveVideoFrame,
                          ReceiveVideoFrameFragment, ReceiveOther
      <4>3. apply_fragment_and_queue_if_complete(fragment(Frames[i])[j])
        BY <3>4, <4>2 DEF apply_fragment_and_queue_if_complete, KeepChunk, CompleteFrame,
                          IgnoreFragment, store_frame
      <4> QED BY <1>1, <1>3, <3>1, <3>4, <4>3, FragmentArrives
    <3> QED BY <1>1, <3>2, <3>3, <3>4, WireForms
  <2> QED BY <2>1, <2>2
<1> QED BY <1>4, <1>5 DEF SendInv

---------------------------------------------------------------------------
(* The steps together.                                                     *)

LEMMA SendStarts ==
  ASSUME FragmentSendAssumption, SendInit
  PROVE  SendInv
<1>1. /\ next = 0 /\ fragments = <<>> /\ progress = NoProgress /\ reports = <<>>
      /\ wire = { p \in Packets : p.type = "AuthRequest" } /\ accepted = {} /\ stored = {}
      /\ reassembly = EmptyMap /\ queue = [c \in Clients |-> <<>>]
  BY DEF SendInit, Init, QueueInit, ReassemblyInit
<1>2. ClientInv
  <2>1. Len(Frames) \in Nat
    BY DEF FragmentSendAssumption
  <2>2. ClientTypes
    BY <1>1, <2>1 DEF ClientTypes, NoProgress
  <2>3. 1 .. Len(reports) = {} /\ 1 .. next = {}
    BY <1>1
  <2>4. CutInv /\ ReportInv
    BY <1>1, <2>3 DEF CutInv, ReportInv
  <2>5. WireInv
    BY <1>1, <2>3 DEF WireInv
  <2> QED BY <2>2, <2>4, <2>5 DEF ClientInv
<1>3. ServerInv
  <2>1. EntryInv
    BY <1>1 DEF EntryInv, EmptyMap
  <2>2. StoredInv
    BY <1>1 DEF StoredInv
  <2>3. AcceptedInv
    BY <1>1 DEF AcceptedInv
  <2> QED BY <2>1, <2>2, <2>3 DEF ServerInv
<1> QED BY <1>2, <1>3 DEF SendInv

\* What the client does leaves the server alone.
LEMMA ServerUntouched ==
  ASSUME ServerInv, UNCHANGED <<queue, reassembly, accepted, stored>>, wire \subseteq wire'
  PROVE  ServerInv'
BY DEF ServerInv, EntryInv, EntryOf, ChunksOf, StoredInv, AllAccepted, AcceptedInv, Arrived, WaitsIn

LEMMA SendKept ==
  ASSUME FragmentSendAssumption, MaxFrames \in Nat \ {0}, DistinctCaptures, DistinctIds,
         DatagramsArePackets, SendInv, [SendNext]_allVars
  PROVE  SendInv'
<1>1. ClientInv /\ ServerInv
  BY DEF SendInv
<1>2. CASE RefuseFrame \/ SendDirect
  <2>1. UNCHANGED <<queue, reassembly, accepted, stored>>
    BY <1>2 DEF RefuseFrame, SendDirect, vars, linkVars
  <2> QED BY <1>1, <1>2, <2>1, WholeFrameStep, ServerUntouched DEF SendInv
<1>3. CASE StartFragments
  <2>1. UNCHANGED <<queue, reassembly, accepted, stored>>
    BY <1>3 DEF StartFragments, vars, linkVars
  <2> QED BY <1>1, <1>3, <2>1, StartStep, ServerUntouched DEF SendInv
<1>4. CASE SendFragment
  <2>1. UNCHANGED <<queue, reassembly, accepted, stored>>
    BY <1>4 DEF SendFragment, vars
  <2> QED BY <1>1, <1>4, <2>1, SendStep, ServerUntouched DEF SendInv
<1>5. CASE FragmentFails
  <2>1. UNCHANGED <<queue, reassembly, accepted, stored>>
    BY <1>5 DEF FragmentFails, vars, linkVars
  <2> QED BY <1>1, <1>5, <2>1, FailStep, ServerUntouched DEF SendInv
<1>6. CASE Deliver
  BY <1>6, DeliverStep
<1>7. CASE UNCHANGED allVars
  <2>1. UNCHANGED <<queue, reassembly, accepted, stored, wire, next, fragments, progress, reports>>
    BY <1>7 DEF allVars, vars, clientVars, linkVars
  <2>2. ClientInv'
    BY <1>1, <2>1 DEF ClientInv, ClientTypes, CutInv, ReportInv, WireInv, SentOf, ReportOf, Sleeps
  <2> QED BY <1>1, <2>1, <2>2, ServerUntouched DEF SendInv
<1> QED BY <1>2, <1>3, <1>4, <1>5, <1>6, <1>7 DEF SendNext, ClientSends

---------------------------------------------------------------------------
(* What the invariant says of the two ends.                                *)

LEMMA WirePackets ==
  ASSUME FragmentSendAssumption, DatagramsArePackets, SendInv
  PROVE  SendTypeOK /\ DatagramsFit /\ NeverTooLarge
<1>1. ClientInv /\ ServerInv
  BY DEF SendInv
<1>2. ASSUME NEW p \in wire
      PROVE  p \in Packets /\ (p.type \in MediaTypes => EncodedLen(p) <= SafeMax)
  <2>1. CASE p.type = "AuthRequest" /\ p \in Packets
    BY <2>1 DEF MediaTypes
  <2>2. ASSUME NEW i \in DOMAIN Frames, Direct(Frames[i]), p = encode_handoff(Frames[i])
        PROVE  p \in Packets /\ EncodedLen(p) <= SafeMax
    BY <2>2, DirectFits DEF DatagramsArePackets
  <2>3. ASSUME NEW i \in DOMAIN Frames, Fragmented(Frames[i]), NEW j \in 1 .. chunk_count(Frames[i]),
               p = fragment(Frames[i])[j]
        PROVE  p \in Packets /\ EncodedLen(p) <= SafeMax
    BY <2>3, FragmentFits DEF DatagramsArePackets
  <2> QED BY <1>1, <2>1, <2>2, <2>3, WireForms
<1>3. SendTypeOK
  <2>1. ClientTypes /\ AcceptedInv
    BY <1>1 DEF ClientInv, ServerInv
  <2>2. Range(fragments) \subseteq Packets
    BY <2>1 DEF ClientTypes, Range
  <2> QED BY <1>2, <2>1, <2>2 DEF SendTypeOK, ClientTypes, AcceptedInv
<1>4. DatagramsFit
  BY <1>2 DEF DatagramsFit
<1>5. NeverTooLarge
  <2>1. \A i \in DOMAIN reports : reports[i] \in ReportRecords
    BY <1>1 DEF ClientInv, ClientTypes
  <2> QED BY <2>1 DEF NeverTooLarge, ReportRecords, ReportKinds
<1> QED BY <1>3, <1>4, <1>5

LEMMA QueuedIsWhole ==
  ASSUME FragmentSendAssumption, DistinctCaptures, SendInv
  PROVE  QueuedWasSentWhole
<1>1. ClientInv /\ StoredInv /\ AcceptedInv
  BY DEF SendInv, ServerInv
<1>2. ClientTypes /\ ReportInv /\ WireInv
  BY <1>1 DEF ClientInv
<1>3. /\ DOMAIN Frames = 1 .. Len(Frames) /\ DOMAIN reports = 1 .. Len(reports)
      /\ \A i \in 1 .. Len(reports) : i \in DOMAIN Frames /\ reports[i].frame = Frames[i]
      /\ \A i \in 1 .. next : i \in DOMAIN Frames
  <2>1. \A i \in 1 .. Len(reports) : reports[i].frame = Frames[i]
    BY <1>2 DEF ReportInv, ReportOf
  <2> QED BY <1>2, <2>1, ClientCounts
<1>4. ASSUME NEW q \in stored
      PROVE  \E m \in DOMAIN reports :
               /\ reports[m].kind \in {"DirectSent", "FragmentedSent"}
               /\ CapturedAs(q, reports[m].frame)
  <2>1. PICK i \in DOMAIN Frames : AllAccepted(Frames[i]) /\ CapturedAs(q, Frames[i])
    BY <1>1 DEF StoredInv
  <2> DEFINE f == Frames[i]
             k == chunk_count(f)
  <2>2. CASE Direct(f) /\ encode_handoff(f) \in accepted
    <3>1. encode_handoff(f) \in wire /\ encode_handoff(f).type = "VideoFrame"
      BY <1>1, <2>2 DEF AcceptedInv, encode_handoff
    <3>2. \A m \in 1 .. next : \A j \in 1 .. SentOf(m) : fragment(Frames[m])[j].type # "VideoFrame"
      <4>1. ASSUME NEW m \in 1 .. next, NEW j \in 1 .. SentOf(m)
            PROVE  fragment(Frames[m])[j].type # "VideoFrame"
        <5>1. j \in 1 .. chunk_count(Frames[m])
          BY <1>1, SentFragments
        <5>2. fragment(Frames[m])[j].type = "VideoFrameFragment"
          BY <5>1, FragmentOf
        <5> QED BY <5>2
      <4> QED BY <4>1
    <3>3. PICK m \in 1 .. Len(reports) :
            reports[m].kind = "DirectSent" /\ encode_handoff(f) = encode_handoff(Frames[m])
      BY <1>2, <3>1, <3>2 DEF WireInv
    <3>4. m = i
      <4>1. encode_handoff(f).client = f.client /\ encode_handoff(f).stamp = f.stamp
        BY DEF encode_handoff
      <4>2. /\ encode_handoff(Frames[m]).client = Frames[m].client
            /\ encode_handoff(Frames[m]).stamp = Frames[m].stamp
        BY DEF encode_handoff
      <4>3. m \in DOMAIN Frames /\ f.client = Frames[m].client /\ f.stamp = Frames[m].stamp
        BY <1>3, <3>3, <4>1, <4>2
      <4> QED BY <4>3 DEF DistinctCaptures
    <3> QED BY <1>3, <2>1, <3>3, <3>4
  <2>3. CASE Fragmented(f) /\ \A j \in 1 .. k : fragment(f)[j] \in accepted
    <3>1. k \in Nat \ {0} /\ k \in 1 .. k
      BY <2>3, CutSizes
    <3>2. fragment(f)[k] \in wire /\ fragment(f)[k].type = "VideoFrameFragment"
      BY <1>1, <2>3, <3>1, FragmentOf DEF AcceptedInv
    <3>3. PICK m \in 1 .. next : \E j \in 1 .. SentOf(m) : fragment(f)[k] = fragment(Frames[m])[j]
      <4>1. \A m \in 1 .. Len(reports) : encode_handoff(Frames[m]).type # "VideoFrameFragment"
        BY DEF encode_handoff
      <4> QED BY <1>2, <3>2, <4>1 DEF WireInv
    <3>4. PICK j \in 1 .. SentOf(m) : fragment(f)[k] = fragment(Frames[m])[j]
      BY <3>3
    <3>5. /\ m \in DOMAIN Frames /\ Fragmented(Frames[m]) /\ j \in 1 .. chunk_count(Frames[m])
          /\ j = chunk_count(Frames[m]) =>
               m \in 1 .. Len(reports) /\ reports[m].kind = "FragmentedSent"
      BY <1>1, SentFragments
    <3>6. m = i /\ j = k
      <4>1. chunk_count(Frames[m]) \in Nat
        BY <3>5, CutSizes
      <4> QED BY <3>1, <3>4, <3>5, <4>1, FragmentsDiffer
    <3> QED BY <1>3, <2>1, <3>5, <3>6
  <2> QED BY <2>1, <2>2, <2>3 DEF AllAccepted
<1> QED BY <1>4 DEF QueuedWasSentWhole

LEMMA AcceptedAreQueued ==
  ASSUME FragmentSendAssumption, DistinctIds, SendInv
  PROVE  AcceptedIsQueued
<1>1. ClientInv /\ EntryInv /\ AcceptedInv
  BY DEF SendInv, ServerInv
<1>2. ClientTypes /\ ReportInv /\ WireInv
  BY <1>1 DEF ClientInv
<1>3. ASSUME NEW i \in DOMAIN reports,
             reports[i].kind \in {"DirectSent", "FragmentedSent"},
             \A p \in wire : /\ p.type \in MediaTypes /\ p.client = Frames[i].client
                             /\ p.stamp = Frames[i].stamp
                             => p \in accepted
      PROVE  Arrived(Frames[i])
  <2> DEFINE f == Frames[i]
             k == chunk_count(f)
  <2>1. /\ i \in 1 .. Len(reports) /\ i \in 1 .. next /\ i \in DOMAIN Frames
        /\ ReportOf(reports[i], f) /\ i <= Len(reports)
    <3>1. i \in 1 .. Len(reports) /\ i \in 1 .. next /\ i \in DOMAIN Frames /\ i <= Len(reports)
      BY <1>2, ClientCounts
    <3> QED BY <1>2, <3>1 DEF ReportInv
  <2>2. CASE reports[i].kind = "DirectSent"
    <3>1. Direct(f) /\ encode_handoff(f) \in wire
      BY <1>2, <2>1, <2>2 DEF ReportOf, WireInv
    <3>2. /\ encode_handoff(f).type \in MediaTypes /\ encode_handoff(f).client = f.client
          /\ encode_handoff(f).stamp = f.stamp
      BY DEF encode_handoff, MediaTypes
    <3>3. encode_handoff(f) \in accepted
      BY <1>3, <3>1, <3>2
    <3> QED BY <1>1, <2>1, <3>1, <3>3 DEF AcceptedInv
  <2>3. CASE reports[i].kind = "FragmentedSent"
    <3>1. Fragmented(f) /\ reports[i].sent = k /\ SentOf(i) = k
      BY <2>1, <2>3 DEF ReportOf, SentOf
    <3>2. k \in Nat \ {0}
      BY <2>1, <3>1, CutSizes
    <3>3. ASSUME NEW j \in 1 .. k PROVE fragment(f)[j] \in accepted
      <4>1. fragment(f)[j] \in wire
        BY <1>2, <2>1, <3>1 DEF WireInv
      <4>2. /\ fragment(f)[j].type \in MediaTypes /\ fragment(f)[j].client = f.client
            /\ fragment(f)[j].stamp = f.stamp
        BY FragmentOf DEF MediaTypes
      <4> QED BY <1>3, <4>1, <4>2
    <3>4. Arrived(f) \/ \A j \in 1 .. k : WaitsIn(f, j)
      BY <1>1, <2>1, <3>1, <3>3 DEF AcceptedInv
    <3>5. ASSUME \A j \in 1 .. k : WaitsIn(f, j)
          PROVE  FALSE
      <4> DEFINE e == reassembly[KeyOf(f)]
      <4>1. KeyOf(f) \in DOMAIN reassembly /\ \A j \in 1 .. k : j - 1 \in DOMAIN e.chunks
        <5>1. 1 \in 1 .. k
          BY <3>2
        <5> QED BY <3>5, <5>1 DEF WaitsIn
      <4>2. PICK m \in DOMAIN Frames : EntryOf(e, KeyOf(f), Frames[m])
        BY <1>1, <4>1 DEF EntryInv
      <4>3. m = i
        <5>1. /\ Fragmented(Frames[m]) /\ Frames[m].client = f.client
              /\ Frames[m].run = f.run /\ Frames[m].id = f.id
          BY <4>2 DEF EntryOf, KeyOf
        <5> QED BY <2>1, <3>1, <5>1 DEF DistinctIds
      <4>4. DOMAIN e.chunks \subseteq 0 .. k - 1 /\ DOMAIN e.chunks # 0 .. k - 1
        BY <4>2, <4>3 DEF EntryOf, ChunksOf
      <4>5. \A x \in 0 .. k - 1 : x \in DOMAIN e.chunks
        <5> HIDE DEF k, e
        <5>1. \A x \in 0 .. k - 1 : x + 1 \in 1 .. k /\ (x + 1) - 1 = x
          BY <3>2
        <5> QED BY <4>1, <5>1
      <4> QED BY <4>4, <4>5
    <3> QED BY <3>4, <3>5
  <2> QED BY <1>3, <2>2, <2>3
<1>4. ASSUME NEW i \in DOMAIN reports PROVE reports[i].frame = Frames[i]
  BY <1>2, ClientCounts DEF ReportInv, ReportOf
<1> QED BY <1>3, <1>4 DEF AcceptedIsQueued, Arrived

\* The fragments on the wire of a frame are those its report counts.
LEMMA ReportsAreTrue ==
  ASSUME FragmentSendAssumption, DistinctCaptures, SendInv
  PROVE  ReportsMatchWire
<1>1. ClientInv
  BY DEF SendInv
<1>2. ClientTypes /\ ReportInv /\ WireInv
  BY <1>1 DEF ClientInv
<1>3. ASSUME NEW i \in DOMAIN reports
      PROVE  LET r == reports[i]
                 own == { p \in wire : p.type = "VideoFrameFragment" /\ p.client = r.frame.client
                                       /\ p.stamp = r.frame.stamp }
             IN  /\ Cardinality(own) = r.sent
                 /\ { p.index : p \in own } = 0 .. r.sent - 1
                 /\ r.attempted = r.sent + Cardinality(r.failed)
                 /\ r.failed \subseteq {r.sent}
                 /\ DelayEvery # 0 => r.slept = r.sent \div DelayEvery
  <2> DEFINE r == reports[i]
             f == Frames[i]
             s == r.sent
             own == { p \in wire : p.type = "VideoFrameFragment" /\ p.client = r.frame.client
                                   /\ p.stamp = r.frame.stamp }
             piece == [j \in 1 .. s |-> fragment(f)[j]]
  <2>1. /\ i \in 1 .. Len(reports) /\ i \in 1 .. next /\ i \in DOMAIN Frames
        /\ i <= Len(reports) /\ ReportOf(r, f) /\ s \in Nat
    <3>1. i \in 1 .. Len(reports) /\ i \in 1 .. next /\ i \in DOMAIN Frames /\ i <= Len(reports)
      BY <1>2, ClientCounts
    <3>2. r \in ReportRecords
      BY <1>2, <3>1 DEF ClientTypes
    <3> QED BY <1>2, <3>1, <3>2 DEF ReportInv, ReportRecords
  <2>2. r.frame = f
    BY <2>1 DEF ReportOf
  <2>3. SentOf(i) = s
    BY <2>1 DEF SentOf
  <2>4. ASSUME NEW j \in 1 .. s
        PROVE  fragment(f)[j] \in own /\ fragment(f)[j].index = j - 1
    <3>1. j \in 1 .. SentOf(i)
      BY <2>3
    <3>2. j \in 1 .. chunk_count(f)
      BY <1>1, <2>1, <3>1, SentFragments
    <3>3. fragment(f)[j] \in wire
      BY <1>2, <2>1, <3>1 DEF WireInv
    <3> QED BY <2>2, <3>2, <3>3, FragmentOf
  <2>5. ASSUME NEW p \in own
        PROVE  \E j \in 1 .. s : p = fragment(f)[j]
    <3>1. /\ p \in wire /\ p.type = "VideoFrameFragment" /\ p.client = f.client
          /\ p.stamp = f.stamp
      BY <2>2
    <3>2. \A m \in 1 .. Len(reports) : p # encode_handoff(Frames[m])
      BY <3>1 DEF encode_handoff
    <3>3. PICK m \in 1 .. next : \E j \in 1 .. SentOf(m) : p = fragment(Frames[m])[j]
      BY <1>2, <3>1, <3>2 DEF WireInv
    <3>4. PICK j \in 1 .. SentOf(m) : p = fragment(Frames[m])[j]
      BY <3>3
    <3>5. m \in DOMAIN Frames /\ j \in 1 .. chunk_count(Frames[m])
      BY <1>1, SentFragments
    <3>6. Frames[m].client = f.client /\ Frames[m].stamp = f.stamp
      BY <3>1, <3>4, <3>5, FragmentOf
    <3>7. m = i
      BY <2>1, <3>5, <3>6 DEF DistinctCaptures
    <3> QED BY <2>3, <3>4, <3>7
  <2> HIDE DEF own, s, r, f
  <2>6. piece \in Bijection(1 .. s, own)
    <3>1. piece \in [1 .. s -> own]
      BY <2>4
    <3>2. \A a, b \in 1 .. s : piece[a] = piece[b] => a = b
      <4>1. ASSUME NEW a \in 1 .. s, NEW b \in 1 .. s, piece[a] = piece[b] PROVE a = b
        <5>1. fragment(f)[a].index = a - 1 /\ fragment(f)[b].index = b - 1
          BY <2>4
        <5>2. fragment(f)[a] = fragment(f)[b]
          BY <4>1
        <5>3. a - 1 = b - 1
          BY <5>1, <5>2
        <5> QED BY <5>3
      <4> QED BY <4>1
    <3>3. \A p \in own : \E a \in 1 .. s : piece[a] = p
      BY <2>5
    <3> HIDE DEF piece
    <3> QED BY <3>1, <3>2, <3>3 DEF Bijection, Injection, Surjection, IsInjective
  <2>7. Cardinality(own) = s
    <3>1. ExistsBijection(1 .. s, own)
      BY <2>6 DEF ExistsBijection
    <3> QED BY <2>1, <3>1, FS_CountingElements
  <2>8. { p.index : p \in own } = 0 .. s - 1
    <3>1. ASSUME NEW p \in own PROVE p.index \in 0 .. s - 1
      <4>1. PICK j \in 1 .. s : p = fragment(f)[j]
        BY <2>5
      <4>2. p.index = j - 1
        BY <2>4, <4>1
      <4> QED BY <2>1, <4>2
    <3>2. ASSUME NEW x \in 0 .. s - 1 PROVE \E p \in own : p.index = x
      <4>1. x + 1 \in 1 .. s /\ (x + 1) - 1 = x
        BY <2>1
      <4>2. fragment(f)[x + 1] \in own /\ fragment(f)[x + 1].index = x
        BY <2>4, <4>1
      <4> QED BY <4>2
    <3> QED BY <3>1, <3>2
  <2>9. /\ r.attempted = s + Cardinality(r.failed) /\ r.failed \subseteq {s}
        /\ DelayEvery # 0 => r.slept = s \div DelayEvery
    BY <2>1 DEF ReportOf, Sleeps, s
  <2> QED BY <2>7, <2>8, <2>9 DEF own, s, r
<1> QED BY <1>3 DEF ReportsMatchWire

\* For every sequence of frames, every length of identifier and datagram, and
\* every order, loss and repetition on the way, client and server agree on what
\* was sent: no datagram is longer than the policy allows, what the client
\* reports is what is on the wire, every frame the server queues was sent to its
\* end, and a frame all of whose datagrams were accepted has been queued.
THEOREM FragmentSendIsSound ==
  ASSUME FragmentSendAssumption, DistinctCaptures, DistinctIds, DatagramsArePackets,
         MaxFrames \in Nat \ {0}
  PROVE  SendSpec => []FragmentSendInvariant
<1>1. SendInit => SendInv
  BY SendStarts
<1>2. SendInv /\ [SendNext]_allVars => SendInv'
  BY SendKept
<1>3. SendInv => FragmentSendInvariant
  BY WirePackets, QueuedIsWhole, AcceptedAreQueued, ReportsAreTrue DEF FragmentSendInvariant
<1> QED BY <1>1, <1>2, <1>3, PTL DEF SendSpec
===========================================================================
