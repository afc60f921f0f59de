-------------------------- MODULE ServiceSession --------------------------
(***************************************************************************)
(* The staged launchers.  --receive-auth-video-queue-once waits for one    *)
(* AuthRequest, then receives packets until a threshold, a timeout or the  *)
(* packet limit ends the loop.  The service session runs the same receive  *)
(* stage and afterwards serves up to max_requests switcher requests from   *)
(* what was queued.  MaxRequests = 0 is the first launcher alone.          *)
(***************************************************************************)
EXTENDS ReceiveSummary

CONSTANTS
    MaxRequests,    \* max_requests of serve_many
    IoFailures      \* the operations that may fail in this instance

ASSUME ServiceSessionAssumption == MaxRequests \in Nat

VARIABLES
    pc,         \* the stage the launcher is in
    result,     \* how the receive stage ended
    handoff     \* ServerSwitcherNamedPipeManyRequestRuntimeOutput

sessionVars == << vars, summary, pc, result, handoff >>

HandoffCounter ==
    {"handoff_errors", "frame_read_count", "no_frame_count", "parse_error_count", "io_error_count"}

SessionTypeOK ==
    /\ TypeOK
    /\ summary \in Summary
    /\ pc \in {"FirstAuth", "Video", "Serve", "Done"}
    /\ result \in {"None", "Err", "NotReceivedAuthRejected", "Received"}
    /\ handoff \in [count : [HandoffCounter -> Nat], served : Nat,
                    stop_reason : {"None", "MaxRequestsReached", "CreatePipe", "Connect",
                                   "ReadRequest", "DecodeRequest", "WriteResponse"}]

SessionInit ==
    /\ Init
    /\ SummaryInit
    /\ pc = "FirstAuth"
    /\ result = "None"
    /\ handoff = [count |-> [n \in HandoffCounter |-> 0], served |-> 0, stop_reason |-> "None"]

ReceiveStageEnds(r) ==
    /\ pc' = IF r = "Err" THEN "Done" ELSE "Serve"
    /\ result' = r

---------------------------------------------------------------------------
\* run_one: there is no read timeout yet.  Anything but an AuthRequest is an
\* error; so is an AuthResponse that cannot be sent.
FirstAuth(p) ==
    /\ pc = "FirstAuth"
    /\ ProcessPacket(p)
    /\ UNCHANGED << summary, handoff >>
    /\ \/ /\ p.type = "AuthRequest"
          /\ IF decide_resolved(p.client, p.token) = "Ok"
             THEN pc' = "Video" /\ UNCHANGED result
             ELSE ReceiveStageEnds("NotReceivedAuthRejected")
       \/ /\ p.type # "AuthRequest" \/ "AuthSend" \in IoFailures
          /\ ReceiveStageEnds("Err")

\* One turn of receive_video_packets_until_queued.
ReceiveVideoPacket(p) ==
    /\ pc = "Video"
    /\ summary.count["packets_received"] < MaxVideoPackets
    /\ process_received_packet_for_video_queue(p, "None")
    /\ IF summary'.stop_reason = "None" THEN UNCHANGED << pc, result >> ELSE ReceiveStageEnds("Received")
    /\ UNCHANGED handoff

VideoPacketFails(p) ==
    /\ pc = "Video"
    /\ summary.count["packets_received"] < MaxVideoPackets
    /\ "AuthSend" \in IoFailures
    /\ AuthResponseSendFails(p)
    /\ ReceiveStageEnds("Err")
    /\ UNCHANGED handoff

\* Nothing arrives within receive_timeout.
ReceiveTimesOut ==
    /\ pc = "Video"
    /\ summary.count["packets_received"] < MaxVideoPackets
    /\ summary' = Finalized(summary, "ReceiveTimedOut", reassembly, queue)
    /\ ReceiveStageEnds("Received")
    /\ UNCHANGED << vars, handoff >>

ReceiveFails ==
    /\ pc \in {"FirstAuth", "Video"}
    /\ "Receive" \in IoFailures
    /\ ReceiveStageEnds("Err")
    /\ UNCHANGED << vars, summary, handoff >>

MaxVideoPacketsReached_OffByOne ==
    /\ pc = "Video"
    /\ summary.count["packets_received"] > MaxVideoPackets
    /\ summary' = Finalized(summary, "MaxVideoPacketsReached", reassembly, queue)
    /\ ReceiveStageEnds("Received")
    /\ UNCHANGED << vars, handoff >>

MaxVideoPacketsReached ==
    /\ pc = "Video"
    /\ summary.count["packets_received"] >= MaxVideoPackets
    /\ summary' = Finalized(summary, "MaxVideoPacketsReached", reassembly, queue)
    /\ ReceiveStageEnds("Received")
    /\ UNCHANGED << vars, handoff >>

---------------------------------------------------------------------------
Counted(h, n) == [h EXCEPT !.count[n] = @ + 1]

ServeEnds(h, reason) ==
    /\ pc' = "Done"
    /\ handoff' = [h EXCEPT !.stop_reason = reason]
    /\ UNCHANGED << summary, result >>

KindCounter(kind) ==
    CASE kind = "FrameRead" -> "frame_read_count"
      [] kind = "NoFrame" -> "no_frame_count"
      [] kind = "HandoffError" -> "handoff_errors"

\* One request is accepted, answered from the queue and the answer is written;
\* it counts once it is written.
ServeOne(c, r, mode) ==
    /\ pc = "Serve"
    /\ handoff.served < MaxRequests
    /\ handle_request(c, r, mode)
    /\ \/ /\ handoff' = [Counted(handoff, KindCounter(HandoffResponse(c, r, mode).kind))
                            EXCEPT !.served = @ + 1]
          /\ UNCHANGED << summary, pc, result >>
       \/ /\ "WriteResponse" \in IoFailures
          /\ ServeEnds(Counted(handoff, "io_error_count"), "WriteResponse")

\* No request comes out of the pipe.
AcceptFails(reason) ==
    /\ pc = "Serve"
    /\ handoff.served < MaxRequests
    /\ reason \in IoFailures \cap {"CreatePipe", "Connect", "ReadRequest", "DecodeRequest"}
    /\ ServeEnds(Counted(handoff, IF reason = "DecodeRequest" THEN "parse_error_count"
                                                              ELSE "io_error_count"), reason)
    /\ UNCHANGED vars

MaxRequestsReached ==
    /\ pc = "Serve"
    /\ handoff.served >= MaxRequests
    /\ ServeEnds(handoff, "MaxRequestsReached")
    /\ UNCHANGED vars

Done == pc = "Done" /\ UNCHANGED sessionVars

ReceiveStep == (\E p \in Packets : ReceiveVideoPacket(p)) \/ ReceiveTimesOut \/ MaxVideoPacketsReached

SessionNext ==
    \/ \E p \in Packets : FirstAuth(p)
    \/ ReceiveStep
    \/ \E p \in Packets : VideoPacketFails(p)
    \/ ReceiveFails
    \/ \E c \in Clients, r \in Runs, mode \in ReadMode : ServeOne(c, r, mode)
    \/ MaxRequestsReached
    \/ \E reason \in IoFailures : AcceptFails(reason)
    \/ Done

\* A blocking receive returns with a packet or when its timeout expires, and a
\* loop that has reached its bound is left.  Switchers need not ask.
SessionSpec ==
    /\ SessionInit
    /\ [][SessionNext]_sessionVars
    /\ WF_sessionVars(ReceiveStep)
    /\ WF_sessionVars(MaxRequestsReached)

---------------------------------------------------------------------------
\* The loop stops with the packet that meets a threshold: no packet is taken
\* in, and no frame queued, once evaluate_reassembled_stop_reason has a reason
\* to stop, and a limit of MaxVideoPackets is never exceeded.
StopsAtThreshold ==
    /\ pc = "Video" => evaluate_reassembled_stop_reason(summary) = "None"
    /\ summary.count["packets_received"] <= MaxVideoPackets

\* The switcher stage works on what the receive stage reported: until the
\* first request is served the queue holds exactly the queue_len of the
\* summary, and afterwards less by at most one frame per FrameRead answer
\* (and one for an answer that could not be written).
ServedFromReportedQueue ==
    (pc \in {"Serve", "Done"} /\ result = "Received") =>
        LET lost == summary.count["queue_len"] - total_len(queue)
        IN  /\ lost >= 0
            /\ lost <= handoff.count["frame_read_count"]
                        + (IF handoff.stop_reason = "WriteResponse" THEN 1 ELSE 0)

\* What a staged launcher reports agrees with what it did, at every point of it.
SessionInvariant ==
    SessionTypeOK /\ CountersAccountForState /\ StopsAtThreshold /\ ServedFromReportedQueue

\* A session whose first client was accepted ends or waits for a switcher's
\* next request, however the packets arrive: every receive has a timeout and
\* both loops are bounded.
SessionEnds ==
    (pc # "FirstAuth") ~> (pc = "Done" \/ (pc = "Serve" /\ handoff.served < MaxRequests))

===========================================================================
