-------------------------- MODULE HandoffRuntime --------------------------
(***************************************************************************)
(* The concurrent runtime: a receive thread that takes in UDP packets and  *)
(* a handoff thread that answers switchers over a named pipe, one client   *)
(* connection per request.  They share the video core behind one mutex and *)
(* a stop flag.  The handoff thread blocks in ConnectNamedPipe without a   *)
(* timeout, so a receive thread that stops first sets the flag and then    *)
(* connects to the pipe itself to wake it.                                 *)
(*                                                                         *)
(* A critical section under the mutex is one step.  The named pipe belongs *)
(* to the operating system and is modelled from its use: a single instance *)
(* that lives from CreateNamedPipeW to the end of the request.             *)
(***************************************************************************)
EXTENDS ReceiveSummary

CONSTANTS
    HasDuration,        \* whether max_runtime_duration is set
    MaxHandoffRequests, \* effective_max_handoff_requests
    WakeAttempts,       \* attempts of wake_named_pipe_server_connection (101)
    Requests,           \* what switchers ask: [client, run, mode]
    IoFailures          \* the operations that may fail in this instance

ASSUME HandoffRuntimeAssumption ==
    /\ HasDuration \in BOOLEAN
    /\ MaxHandoffRequests \in Nat
    /\ WakeAttempts \in Nat \ {0}
    /\ Requests \subseteq [client : Clients, run : Runs, mode : ReadMode]

VARIABLES
    stop,       \* stop_requested
    expired,    \* max_runtime_duration has elapsed
    rpc,        \* receive thread: control point
    received,   \* receive thread: its result
    wakes,      \* receive thread: attempts left to wake the handoff thread
    hpc,        \* handoff thread: control point
    request,    \* handoff thread: the request being answered, a set
    served,     \* handoff thread: requests_served
    ended,      \* handoff thread: its stop reason
    pipe,       \* the pipe instance: "None", "Listening", "Client", "Woken"
    handoff,    \* handoff_summary
    verdict     \* the runtime's stop_reason

receiveVars == << rpc, received, wakes >>
handoffVars == << hpc, request, served, ended, handoff >>
runtimeVars == << vars, summary, stop, expired, receiveVars, handoffVars, pipe, verdict >>

HandoffCounter ==
    {"handoff_requests", "frame_read_count", "no_frame_count", "None", "Queue",
     "RetainedKeyframe", "io_error_count"}

RuntimeTypeOK ==
    /\ TypeOK
    /\ summary \in Summary
    /\ stop \in BOOLEAN
    /\ expired \in BOOLEAN
    /\ rpc \in {"Top", "CheckDuration", "SetTimeout", "Receive", "Shutdown", "Wake", "Done"}
    /\ received \in {"None", "Err", "StopRequested", "MaxRuntimeDurationReached"} \cup
                    {"ReceiveTimedOut", "MaxVideoPacketsReached", "ClientAwareThresholdReached",
                     "ReassembledFramesThresholdReached",
                     "ReassembledFramesAndClientAwareThresholdReached"}
    /\ wakes \in 0 .. WakeAttempts
    /\ hpc \in {"Top", "Create", "Connect", "CheckStop", "Read", "Handle", "Write", "Stop", "Join", "Done"}
    /\ request \in SUBSET Requests
    /\ served \in Nat
    /\ ended \in {"None", "MaxRequestsReached", "StopRequested", "CreatePipe", "Connect",
                  "ReadRequest", "DecodeRequest", "WriteResponse"}
    /\ pipe \in {"None", "Listening", "Client", "Woken"}
    /\ handoff \in [HandoffCounter -> Nat]
    /\ verdict \in {"None", "Err", "MaxHandoffRequestsReached", "ReceiveStopped", "HandoffStopped"}

RuntimeInit ==
    /\ Init
    /\ SummaryInit
    /\ stop = FALSE
    /\ expired = FALSE
    /\ rpc = "Top"
    /\ received = "None"
    /\ wakes = WakeAttempts
    /\ hpc = "Top"
    /\ request = {}
    /\ served = 0
    /\ ended = "None"
    /\ pipe = "None"
    /\ handoff = [n \in HandoffCounter |-> 0]
    /\ verdict = "None"

---------------------------------------------------------------------------
\* Time passes.
Expire ==
    /\ HasDuration
    /\ ~expired
    /\ expired' = TRUE
    /\ UNCHANGED << vars, summary, stop, receiveVars, handoffVars, pipe, verdict >>

(***************************************************************************)
(* The receive thread: run_receive_loop_until_stopped.                     *)
(***************************************************************************)
ReceiveGoes(from, to) ==
    /\ rpc = from
    /\ rpc' = to
    /\ UNCHANGED << expired, wakes, handoffVars, pipe, verdict >>

\* The loop is left with result r; unless the stop was requested by the other
\* thread, that thread must now be told.
ReceiveEnds(from, r) ==
    /\ ReceiveGoes(from, IF r = "StopRequested" THEN "Done" ELSE "Shutdown")
    /\ received' = r
    /\ UNCHANGED stop

FinalizeSummary(reason) ==
    /\ summary' = Finalized(summary, reason, reassembly, queue)
    /\ UNCHANGED vars

RCheckStop_NoFinalize ==
    IF stop
    THEN ReceiveEnds("Top", "StopRequested") /\ UNCHANGED << vars, summary >>
    ELSE ReceiveGoes("Top", "CheckDuration") /\ UNCHANGED << vars, summary, stop, received >>

RCheckStop ==
    IF stop
    THEN ReceiveEnds("Top", "StopRequested") /\ FinalizeSummary(summary.stop_reason)
    ELSE ReceiveGoes("Top", "CheckDuration") /\ UNCHANGED << vars, summary, stop, received >>

RCheckDuration ==
    IF expired
    THEN /\ ReceiveEnds("CheckDuration", "MaxRuntimeDurationReached")
         /\ FinalizeSummary(summary.stop_reason)
    ELSE ReceiveGoes("CheckDuration", "SetTimeout") /\ UNCHANGED << vars, summary, stop, received >>

\* The read timeout is clamped to what is left of the runtime duration; a
\* timeout of zero is refused by set_read_timeout.
RSetTimeout ==
    IF expired
    THEN ReceiveEnds("SetTimeout", "Err") /\ UNCHANGED << vars, summary >>
    ELSE ReceiveGoes("SetTimeout", "Receive") /\ UNCHANGED << vars, summary, stop, received >>

\* Received packets count against the limit whatever they carry; the one being
\* processed is counted already.
PacketLimit ==
    IF summary.count["packets_received"] + 1 >= MaxVideoPackets
    THEN "MaxVideoPacketsReached" ELSE "None"

RReceive(p) ==
    /\ rpc = "Receive"
    /\ process_received_packet_for_video_queue(p, PacketLimit)
    /\ IF summary'.stop_reason = "None"
       THEN ReceiveGoes("Receive", "Top") /\ UNCHANGED << stop, received >>
       ELSE ReceiveEnds("Receive", summary'.stop_reason)

RProcessingFails_ForgetsTheSender(p) ==
    /\ rpc = "Receive"
    /\ "AuthSend" \in IoFailures
    /\ p.type = "AuthRequest"
    /\ registry' = MapRemove(registry, p.client)
    /\ summary' = Tally(p)
    /\ ReceiveEnds("Receive", "Err")
    /\ UNCHANGED << granted, queueVars, reassembly >>

RProcessingFails(p) ==
    /\ rpc = "Receive"
    /\ "AuthSend" \in IoFailures
    /\ AuthResponseSendFails(p)
    /\ ReceiveEnds("Receive", "Err")

RTimeout ==
    IF expired
    THEN /\ ReceiveEnds("Receive", "MaxRuntimeDurationReached")
         /\ FinalizeSummary(summary.stop_reason)
    ELSE /\ ReceiveEnds("Receive", "ReceiveTimedOut")
         /\ FinalizeSummary("ReceiveTimedOut")

RReceiveFails ==
    /\ "Receive" \in IoFailures
    /\ ReceiveEnds("Receive", "Err")
    /\ UNCHANGED << vars, summary >>

RShutdown_NoWake ==
    /\ ReceiveGoes("Shutdown", "Done")
    /\ stop' = TRUE
    /\ UNCHANGED << vars, summary, received >>

\* request_concurrent_handoff_shutdown: first the flag, then the wake-up.
RShutdown ==
    /\ ReceiveGoes("Shutdown", "Wake")
    /\ stop' = TRUE
    /\ UNCHANGED << vars, summary, received >>

RWakeAs(again) ==
    /\ rpc = "Wake"
    /\ rpc' = IF pipe = "Listening" \/ ~again THEN "Done" ELSE "Wake"
    /\ pipe' = IF pipe = "Listening" THEN "Woken" ELSE pipe
    /\ UNCHANGED << vars, summary, stop, expired, received, wakes, handoffVars, verdict >>

RWake_NoRetry == RWakeAs(FALSE)

\* wake_named_pipe_server_connection: opening the pipe works while it exists
\* and no client has it; the handle is closed again at once.
RWake ==
    /\ rpc = "Wake"
    /\ IF pipe = "Listening"
       THEN pipe' = "Woken" /\ rpc' = "Done" /\ UNCHANGED wakes
       ELSE /\ wakes' = wakes - 1
            /\ rpc' = IF wakes = 1 THEN "Done" ELSE "Wake"
            /\ UNCHANGED pipe
    /\ UNCHANGED << vars, summary, stop, expired, received, handoffVars, verdict >>

ReceiveThread ==
    \/ RCheckStop
    \/ RCheckDuration
    \/ RSetTimeout
    \/ \E p \in Packets : RReceive(p) \/ RProcessingFails(p)
    \/ RTimeout
    \/ RReceiveFails
    \/ RShutdown
    \/ RWake

(***************************************************************************)
(* The handoff thread: serve_many_shared_state, then the join in           *)
(* run_with_policy_and_ready.                                              *)
(***************************************************************************)
HandoffGoes(from, to) ==
    /\ hpc = from
    /\ hpc' = to
    /\ UNCHANGED << expired, receiveVars, verdict >>

\* summarize_named_pipe_many_stop_reason: the failures that count as I/O errors.
IoErrorReason == {"CreatePipe", "Connect", "ReadRequest", "WriteResponse"}

\* The serve loop is left; the pipe instance is closed.
HandoffEnds(from, reason) ==
    /\ HandoffGoes(from, "Stop")
    /\ ended' = reason
    /\ pipe' = "None"
    /\ request' = {}
    /\ handoff' = IF reason \in IoErrorReason
                  THEN [handoff EXCEPT !["io_error_count"] = @ + 1] ELSE handoff
    /\ UNCHANGED << vars, summary, stop, served >>

HCheckStop_LimitIsAStopRequest ==
    IF stop \/ served >= MaxHandoffRequests THEN HandoffEnds("Top", "StopRequested")
    ELSE /\ HandoffGoes("Top", "Create")
         /\ UNCHANGED << vars, summary, stop, request, served, ended, handoff, pipe >>

HCheckStop ==
    IF stop THEN HandoffEnds("Top", "StopRequested")
    ELSE IF served >= MaxHandoffRequests THEN HandoffEnds("Top", "MaxRequestsReached")
    ELSE /\ HandoffGoes("Top", "Create")
         /\ UNCHANGED << vars, summary, stop, request, served, ended, handoff, pipe >>

HCreatePipe ==
    \/ /\ HandoffGoes("Create", "Connect")
       /\ pipe' = "Listening"
       /\ UNCHANGED << vars, summary, stop, request, served, ended, handoff >>
    \/ /\ "CreatePipe" \in IoFailures
       /\ HandoffEnds("Create", "CreatePipe")

\* A switcher opens the pipe.
ClientConnects ==
    /\ pipe = "Listening"
    /\ pipe' = "Client"
    /\ UNCHANGED << vars, summary, stop, expired, receiveVars, handoffVars, verdict >>

\* ConnectNamedPipe returns when somebody has opened the pipe; it reports an
\* error when that somebody has closed it before the call.
HConnect ==
    /\ pipe \in {"Client", "Woken"}
    /\ \/ /\ HandoffGoes("Connect", "CheckStop")
          /\ UNCHANGED << vars, summary, stop, request, served, ended, handoff, pipe >>
       \/ /\ pipe = "Woken" \/ "Connect" \in IoFailures
          /\ HandoffEnds("Connect", "Connect")

HCheckStopConnected ==
    IF stop THEN HandoffEnds("CheckStop", "StopRequested")
    ELSE /\ HandoffGoes("CheckStop", "Read")
         /\ UNCHANGED << vars, summary, stop, request, served, ended, handoff, pipe >>

\* read_length_prefixed_frame and decode_request_frame.
HRead ==
    \/ \E q \in Requests :
         /\ pipe = "Client"
         /\ HandoffGoes("Read", "Handle")
         /\ request' = {q}
         /\ UNCHANGED << vars, summary, stop, served, ended, handoff, pipe >>
    \/ \E reason \in IoFailures \cap {"ReadRequest", "DecodeRequest"} : HandoffEnds("Read", reason)

Recorded_ErrorsUncounted(h, response) ==
    IF response.kind = "HandoffError" THEN h
    ELSE [h EXCEPT !["handoff_requests"] = @ + 1,
                   ![IF response.kind = "FrameRead" THEN "frame_read_count"
                                                    ELSE "no_frame_count"] = @ + 1,
                   ![response.source] = @ + 1]

\* record_concurrent_handoff_response_progress
Recorded(h, response) ==
    LET one == [h EXCEPT !["handoff_requests"] = @ + 1]
    IN  IF response.kind = "HandoffError" THEN one
        ELSE [one EXCEPT ![IF response.kind = "FrameRead" THEN "frame_read_count"
                                                          ELSE "no_frame_count"] = @ + 1,
                         ![response.source] = @ + 1]

\* The request is answered under the lock and counted there.
HHandle ==
    /\ HandoffGoes("Handle", "Write")
    /\ \E q \in request :
         /\ handle_request(q.client, q.run, q.mode)
         /\ handoff' = Recorded(handoff, HandoffResponse(q.client, q.run, q.mode))
    /\ request' = {}
    /\ UNCHANGED << summary, stop, served, ended, pipe >>

\* The response is written outside the lock.  Encoding it cannot fail, its names
\* and payload came in under the same limits, and flushing a file does nothing.
HWrite ==
    \/ /\ HandoffGoes("Write", "Top")
       /\ served' = served + 1
       /\ pipe' = "None"
       /\ UNCHANGED << vars, summary, stop, request, ended, handoff >>
    \/ /\ "WriteResponse" \in IoFailures
       /\ HandoffEnds("Write", "WriteResponse")

\* stop_requested.store(true)
HRequestStop ==
    /\ HandoffGoes("Stop", "Join")
    /\ stop' = TRUE
    /\ UNCHANGED << vars, summary, request, served, ended, handoff, pipe >>

\* receive_thread.join() and the verdict on the whole run.
HJoin ==
    /\ hpc = "Join"
    /\ rpc = "Done"
    /\ hpc' = "Done"
    /\ verdict' = IF received = "Err" THEN "Err"
                  ELSE IF ended = "MaxRequestsReached" THEN "MaxHandoffRequestsReached"
                  ELSE IF received # "StopRequested" THEN "ReceiveStopped"
                  ELSE "HandoffStopped"
    /\ UNCHANGED << vars, summary, stop, expired, receiveVars, request, served, ended, handoff,
                    pipe >>

HandoffThread ==
    \/ HCheckStop
    \/ HCreatePipe
    \/ HConnect
    \/ HCheckStopConnected
    \/ HRead
    \/ HHandle
    \/ HWrite
    \/ HRequestStop
    \/ HJoin

Finished == hpc = "Done" /\ UNCHANGED runtimeVars

RuntimeNext == Expire \/ ReceiveThread \/ HandoffThread \/ ClientConnects \/ Finished

\* Both threads are scheduled, a receive returns at the latest when its timeout
\* expires, and a switcher that has connected sends its request or closes the
\* pipe.  Switchers need not connect.
RuntimeSpec ==
    /\ RuntimeInit
    /\ [][RuntimeNext]_runtimeVars
    /\ WF_runtimeVars(ReceiveThread)
    /\ WF_runtimeVars(HandoffThread)

---------------------------------------------------------------------------
\* Whatever the two threads do to the shared state, in whatever order, is what
\* the video core of VideoIngest may do: all that is shown of the core holds
\* here.
ImplementsVideoIngest == Spec

\* The wake-up is not lost: the handoff thread is left waiting for a client
\* while the receive thread is gone only if every wake-up attempt failed.
NoLostWakeup ==
    (rpc = "Done" /\ received # "StopRequested" /\ hpc \in {"Create", "Connect"}
        /\ pipe \in {"None", "Listening"}) => wakes = 0

\* When the receive thread ends, with a result or an error, the runtime ends,
\* provided the wake-up did not run out of attempts.
ReceiveEndEndsRuntime == (rpc = "Done" /\ wakes > 0) ~> (hpc = "Done")

\* When the handoff thread ends, the runtime ends: the receive thread notices
\* the flag after its current receive.
HandoffEndEndsRuntime == (hpc = "Join") ~> (hpc = "Done")

\* Whichever thread ends first, the stop reaches the other one.
StopReachesOtherThread == ReceiveEndEndsRuntime /\ HandoffEndEndsRuntime

\* The two threads never both stop because the other one asked for it: a run
\* that ends has a cause, and HandoffStopped is reported only for an error of
\* the pipe.
VerdictNamesACause ==
    /\ ~(received = "StopRequested" /\ ended = "StopRequested")
    /\ verdict = "HandoffStopped" =>
         ended \in {"CreatePipe", "Connect", "ReadRequest", "DecodeRequest", "WriteResponse"}

\* The receive summary of a finished run never understates the queue it is
\* printed with, and is exact when the handoff thread stopped first; a request
\* that is answered after the snapshot may still take frames away.
SummaryCoversQueue ==
    (hpc = "Done" /\ verdict # "Err") =>
        /\ summary.count["queue_len"] >= total_len(queue)
        /\ received = "StopRequested" => summary.count["queue_len"] = total_len(queue)

\* The shared state is well formed while both threads use it, and the summary
\* of a finished run covers the queue.
RuntimeInvariant == RuntimeTypeOK /\ SummaryCoversQueue

\* Requests are counted under the lock before their answer is written: the
\* counters are ahead of the written answers by the one in flight only.
RequestsAccountedFor ==
    /\ handoff["handoff_requests"] - served
         = (IF hpc = "Write" \/ ended = "WriteResponse" THEN 1 ELSE 0)
    /\ handoff["None"] + handoff["Queue"] + handoff["RetainedKeyframe"]
         = handoff["frame_read_count"] + handoff["no_frame_count"]
    /\ served <= MaxHandoffRequests

\* A run that nothing fails in ends with a summary, also when it ends because
\* its maximum duration has passed.
DurationEndsWithSummary == IoFailures = {} => verdict # "Err"

===========================================================================
