-------------------------- MODULE Handoff_proofs --------------------------
(***************************************************************************)
(* Proofs about the two threads of the concurrent runtime, for every set   *)
(* of packets and requests, every limit and every number of wake-up        *)
(* attempts: what they do to the shared state is what the video core may   *)
(* do, the wake-up is not lost, every verdict has a cause, and every       *)
(* request is accounted for.                                               *)
(***************************************************************************)
EXTENDS HandoffRuntime, ReceiveSummary_proofs

(***************************************************************************)
(* The runtime implements the video core.                                  *)
(***************************************************************************)

LEMMA ReceiveThreadIsIngest ==
    ASSUME ReceiveThread
    PROVE  [Next]_vars
<1>1. CASE \E p \in Packets : RReceive(p) \/ RProcessingFails(p)
  <2>1. PICK p \in Packets : RReceive(p) \/ RProcessingFails(p)
    BY <1>1
  <2>2. ProcessPacket(p)
    BY <2>1 DEF RReceive, RProcessingFails, process_received_packet_for_video_queue,
                AuthResponseSendFails
  <2> QED BY <2>2 DEF Next
<1>2. CASE \/ RCheckStop \/ RCheckDuration \/ RSetTimeout \/ RTimeout \/ RReceiveFails
           \/ RShutdown \/ RWake
  BY <1>2 DEF RCheckStop, RCheckDuration, RSetTimeout, RTimeout, RReceiveFails, RShutdown,
              RWake, FinalizeSummary
<1> QED BY <1>1, <1>2 DEF ReceiveThread

LEMMA HandoffThreadIsIngest ==
    ASSUME HandoffThread, request \subseteq Requests
    PROVE  [Next]_vars
<1>1. CASE HHandle
  <2>1. PICK q \in request : handle_request(q.client, q.run, q.mode)
    BY <1>1 DEF HHandle
  <2>2. q.client \in Clients /\ q.run \in Runs /\ q.mode \in ReadMode
    BY HandoffRuntimeAssumption
  <2> QED BY <2>1, <2>2 DEF Next
<1>2. CASE \/ HCheckStop \/ HCreatePipe \/ HConnect \/ HCheckStopConnected \/ HRead \/ HWrite
           \/ HRequestStop \/ HJoin
  BY <1>2 DEF HCheckStop, HCreatePipe, HConnect, HCheckStopConnected, HRead, HWrite,
              HRequestStop, HJoin, HandoffEnds
<1> QED BY <1>1, <1>2 DEF HandoffThread

\* The requests the handoff thread works on are switchers' requests.
LEMMA RequestsAreRequests == RuntimeSpec => [](request \subseteq Requests)
<1>1. RuntimeInit => request \subseteq Requests
  BY DEF RuntimeInit
<1>2. request \subseteq Requests /\ [RuntimeNext]_runtimeVars => (request \subseteq Requests)'
  <2>1. SUFFICES ASSUME request \subseteq Requests, [RuntimeNext]_runtimeVars
                 PROVE  request' \subseteq Requests
    OBVIOUS
  <2>2. CASE ReceiveThread
    <3>1. UNCHANGED handoffVars
      BY <2>2 DEF ReceiveThread, RCheckStop, RCheckDuration, RSetTimeout, RReceive,
                  RProcessingFails, RTimeout, RReceiveFails, RShutdown, RWake, ReceiveEnds,
                  ReceiveGoes
    <3> QED BY <2>1, <3>1 DEF handoffVars
  <2>3. CASE HandoffThread
    BY <2>1, <2>3 DEF HandoffThread, HCheckStop, HCreatePipe, HConnect, HCheckStopConnected,
                      HRead, HHandle, HWrite, HRequestStop, HJoin, HandoffEnds, HandoffGoes
  <2>4. CASE Expire \/ ClientConnects \/ Finished \/ UNCHANGED runtimeVars
    BY <2>1, <2>4 DEF Expire, ClientConnects, Finished, runtimeVars, handoffVars
  <2> QED BY <2>1, <2>2, <2>3, <2>4 DEF RuntimeNext
<1> QED BY <1>1, <1>2, PTL DEF RuntimeSpec

\* Every behaviour of the two threads is one of the video core.
THEOREM RuntimeImplementsIngest == RuntimeSpec => ImplementsVideoIngest
<1>1. RuntimeInit => Init
  BY DEF RuntimeInit
<1>2. request \subseteq Requests /\ [RuntimeNext]_runtimeVars => [Next]_vars
  <2>1. SUFFICES ASSUME request \subseteq Requests, [RuntimeNext]_runtimeVars
                 PROVE  [Next]_vars
    OBVIOUS
  <2>2. CASE Expire \/ ClientConnects \/ Finished \/ UNCHANGED runtimeVars
    BY <2>2 DEF Expire, ClientConnects, Finished, runtimeVars
  <2> QED BY <2>1, <2>2, ReceiveThreadIsIngest, HandoffThreadIsIngest DEF RuntimeNext
<1> QED BY <1>1, <1>2, RequestsAreRequests, PTL DEF RuntimeSpec, Spec, ImplementsVideoIngest

---------------------------------------------------------------------------
(***************************************************************************)
(* The summary the receive thread keeps under the lock.  Its counters      *)
(* account for the shared state whatever the other thread takes from the   *)
(* queue meanwhile, and while the receive loop runs it names no reason to  *)
(* stop.                                                                   *)
(***************************************************************************)
LoopPoint == {"Top", "CheckDuration", "SetTimeout", "Receive"}

CountingInv ==
    /\ ReceiveInv
    /\ rpc \in LoopPoint => summary.stop_reason = "None"

LEMMA NothingCounted ==
    ASSUME ReceiveInv, UNCHANGED << vars, summary >>
    PROVE  ReceiveInv'
<1>1. SameCounts(summary, summary')
  BY DEF SameCounts, ReceiveInv
<1> QED BY <1>1, SnapshotKeepsReceiveInv

\* What finalize_receive_summary writes is exact when it is written.
LEMMA SnapshotCounts ==
    ASSUME ReceiveInv, NEW reason \in StopReason, FinalizeSummary(reason)
    PROVE  /\ ReceiveInv'
           /\ summary'.count["queue_len"] = total_len(queue')
           /\ summary'.stop_reason = reason
<1>1. summary \in Summary /\ IsFiniteSet(DOMAIN reassembly) /\ queue \in [Clients -> Seq(Frame)]
  BY DEF ReceiveInv, TypeOK, QueueTypeOK
<1>2. summary' = Finalized(summary, reason, reassembly, queue) /\ UNCHANGED vars
  BY DEF FinalizeSummary
<1>3. /\ SameCounts(summary, summary')
      /\ summary'.stop_reason = reason
      /\ summary'.count["queue_len"] = total_len(queue)
  BY <1>1, <1>2, SnapshotIsExact
<1>4. ReceiveInv'
  BY <1>2, <1>3, SnapshotKeepsReceiveInv
<1> QED BY <1>2, <1>3, <1>4 DEF vars

\* The receive loop is left with a result and a summary that tells the length
\* of the queue.
LeavesWithReport ==
    (rpc \in LoopPoint /\ rpc' \notin LoopPoint /\ received' # "Err") =>
        summary'.count["queue_len"] = total_len(queue')

LEMMA ReceiveThreadCounts ==
    ASSUME CountingInv, ReceiveThread
    PROVE  /\ CountingInv'
           /\ LeavesWithReport
           /\ rpc \notin LoopPoint => rpc' \notin LoopPoint /\ UNCHANGED << vars, summary, received >>
<1>0. ReceiveInv /\ summary \in Summary /\ summary.stop_reason \in StopReason
  BY SummaryFields DEF CountingInv, ReceiveInv, StopReason
<1>1. ASSUME NEW from \in LoopPoint, NEW to \in LoopPoint, ReceiveGoes(from, to),
             UNCHANGED << vars, summary >>
      PROVE  rpc \in LoopPoint /\ rpc' \in LoopPoint /\ CountingInv'
  BY <1>0, <1>1, NothingCounted DEF CountingInv, ReceiveGoes
<1>2. ASSUME NEW from \in LoopPoint, NEW r, ReceiveEnds(from, r)
      PROVE  rpc \in LoopPoint /\ rpc' \notin LoopPoint /\ received' = r
  BY <1>2 DEF ReceiveEnds, ReceiveGoes, LoopPoint
<1>3. ASSUME NEW reason \in StopReason, FinalizeSummary(reason), rpc' \notin LoopPoint
      PROVE  CountingInv' /\ LeavesWithReport
  BY <1>0, <1>3, SnapshotCounts DEF CountingInv, LeavesWithReport
<1>4. ASSUME UNCHANGED << vars, summary >>, received' = "Err" \/ rpc \notin LoopPoint,
             rpc' \notin LoopPoint
      PROVE  CountingInv' /\ LeavesWithReport
  BY <1>0, <1>4, NothingCounted DEF CountingInv, LeavesWithReport
<1>5. CASE RCheckStop
  <2>1. CASE stop
    BY <1>0, <1>2, <1>3, <1>5, <2>1 DEF RCheckStop, LoopPoint
  <2>2. CASE ~stop
    BY <1>1, <1>5, <2>2 DEF RCheckStop, LoopPoint, LeavesWithReport
  <2> QED BY <2>1, <2>2
<1>6. CASE RCheckDuration
  <2>1. CASE expired
    BY <1>0, <1>2, <1>3, <1>6, <2>1 DEF RCheckDuration, LoopPoint
  <2>2. CASE ~expired
    BY <1>1, <1>6, <2>2 DEF RCheckDuration, LoopPoint, LeavesWithReport
  <2> QED BY <2>1, <2>2
<1>7. CASE RSetTimeout
  <2>1. CASE expired
    BY <1>2, <1>4, <1>7, <2>1 DEF RSetTimeout, LoopPoint
  <2>2. CASE ~expired
    BY <1>1, <1>7, <2>2 DEF RSetTimeout, LoopPoint, LeavesWithReport
  <2> QED BY <2>1, <2>2
<1>8. CASE \E p \in Packets : RReceive(p)
  <2>1. PICK p \in Packets : RReceive(p)
    BY <1>8
  <2>2. /\ rpc = "Receive" /\ process_received_packet_for_video_queue(p, PacketLimit)
        /\ IF summary'.stop_reason = "None"
           THEN ReceiveGoes("Receive", "Top") ELSE ReceiveEnds("Receive", summary'.stop_reason)
    BY <2>1 DEF RReceive
  <2>3. rpc \in LoopPoint /\ summary.stop_reason = "None"
    BY <2>2 DEF CountingInv, LoopPoint
  <2>4. PacketLimit \in StopReason
    BY DEF PacketLimit, StopReason
  <2>5. ReceivedPacket(PacketLimit)
    BY <1>0, <2>2, <2>3, <2>4, PacketLeavesSummary
  <2>6. ReceiveInv' /\ summary'.count["queue_len"] = total_len(queue')
    BY <2>5 DEF ReceivedPacket
  <2>7. rpc' \in LoopPoint => summary'.stop_reason = "None"
    BY <1>2, <2>2 DEF LoopPoint
  <2> QED BY <2>3, <2>6, <2>7 DEF CountingInv, LeavesWithReport
<1>9. CASE \E p \in Packets : RProcessingFails(p)
  <2>1. PICK p \in Packets : RProcessingFails(p)
    BY <1>9
  <2>2. AuthResponseSendFails(p) /\ ReceiveEnds("Receive", "Err") /\ rpc = "Receive"
    BY <2>1 DEF RProcessingFails
  <2>3. ReceiveInv'
    BY <1>0, <2>2, LostAnswerLeavesSummary
  <2>4. rpc \in LoopPoint /\ rpc' \notin LoopPoint /\ received' = "Err"
    BY <1>2, <2>2 DEF LoopPoint
  <2> QED BY <2>3, <2>4 DEF CountingInv, LeavesWithReport
<1>10. CASE RTimeout
  <2>1. "ReceiveTimedOut" \in StopReason
    BY DEF StopReason
  <2>2. CASE expired
    BY <1>0, <1>2, <1>3, <1>10, <2>2 DEF RTimeout, LoopPoint
  <2>3. CASE ~expired
    BY <1>2, <1>3, <1>10, <2>1, <2>3 DEF RTimeout, LoopPoint
  <2> QED BY <2>2, <2>3
<1>11. CASE RReceiveFails
  BY <1>2, <1>4, <1>11 DEF RReceiveFails, LoopPoint
<1>12. CASE RShutdown \/ RWake
  <2>1. rpc \notin LoopPoint /\ rpc' \notin LoopPoint /\ UNCHANGED << vars, summary, received >>
    BY <1>12 DEF RShutdown, RWake, ReceiveGoes, LoopPoint
  <2> QED BY <1>4, <2>1
<1> QED BY <1>5, <1>6, <1>7, <1>8, <1>9, <1>10, <1>11, <1>12 DEF ReceiveThread

LEMMA HandoffThreadCounts ==
    ASSUME CountingInv, HandoffThread, request \subseteq Requests
    PROVE  /\ CountingInv'
           /\ UNCHANGED << summary, rpc, received >>
           /\ total_len(queue') <= total_len(queue)
           /\ hpc # "Handle" => queue' = queue
<1>0. ReceiveInv /\ queue \in [Clients -> Seq(Frame)] /\ QueueTypeOK
  BY DEF CountingInv, ReceiveInv, TypeOK, QueueTypeOK
<1>1. UNCHANGED << summary, rpc, received >>
  BY DEF HandoffThread, HCheckStop, HCreatePipe, HConnect, HCheckStopConnected, HRead, HHandle,
         HWrite, HRequestStop, HJoin, HandoffEnds, HandoffGoes, receiveVars
<1>2. CASE HHandle
  <2>1. PICK q \in request : handle_request(q.client, q.run, q.mode)
    BY <1>2 DEF HHandle
  <2>2. q.client \in Clients /\ q.run \in Runs /\ q.mode \in ReadMode
    BY HandoffRuntimeAssumption
  <2>3. ReceiveInv'
    BY <1>0, <1>1, <2>1, <2>2, RequestKeepsReceiveInv
  <2>4. total_len(queue') <= total_len(queue)
    BY <1>0, <2>1, <2>2, RequestTakes
  <2>5. hpc = "Handle"
    BY <1>2 DEF HHandle, HandoffGoes
  <2> QED BY <1>1, <2>3, <2>4, <2>5 DEF CountingInv
<1>3. CASE ~HHandle
  <2>1. UNCHANGED vars
    BY <1>3 DEF HandoffThread, HCheckStop, HCreatePipe, HConnect, HCheckStopConnected, HRead,
                HWrite, HRequestStop, HJoin, HandoffEnds
  <2>2. ReceiveInv' /\ queue' = queue
    BY <1>0, <1>1, <2>1, NothingCounted DEF vars
  <2>3. total_len(queue) \in Nat
    BY <1>0, TotalLenType
  <2> QED BY <1>1, <2>2, <2>3 DEF CountingInv
<1> QED BY <1>2, <1>3

LEMMA CountingInvariant == RuntimeSpec => []CountingInv
<1>1. RuntimeInit => CountingInv
  <2>1. RuntimeInit => ReceiveInv
    BY CountersStart DEF RuntimeInit
  <2> QED BY <2>1 DEF RuntimeInit, SummaryInit, CountingInv
<1>2. CountingInv /\ request \subseteq Requests /\ [RuntimeNext]_runtimeVars => CountingInv'
  <2>1. SUFFICES ASSUME CountingInv, request \subseteq Requests, [RuntimeNext]_runtimeVars
                 PROVE  CountingInv'
    OBVIOUS
  <2>2. CASE Expire \/ ClientConnects \/ Finished \/ UNCHANGED runtimeVars
    <3>1. UNCHANGED << vars, summary, rpc >>
      BY <2>2 DEF Expire, ClientConnects, Finished, runtimeVars, receiveVars
    <3> QED BY <2>1, <3>1, NothingCounted DEF CountingInv
  <2> QED BY <2>1, <2>2, ReceiveThreadCounts, HandoffThreadCounts DEF RuntimeNext
<1> QED BY <1>1, <1>2, RequestsAreRequests, PTL DEF RuntimeSpec

---------------------------------------------------------------------------
(***************************************************************************)
(* Who stops whom.  The flag alone does not tell who set it; the invariant *)
(* says that it always has an author who stopped for a reason of its own,  *)
(* that a thread that follows the flag follows the other thread, and that  *)
(* the pipe exists only while a request is being waited for or served.     *)
(***************************************************************************)
\* The receive thread has set the flag, for a reason of its own.
StoppedByReceive == rpc \in {"Wake", "Done"} /\ received \notin {"None", "StopRequested"}

\* The handoff thread has.
StoppedByHandoff == hpc \in {"Join", "Done"} /\ ended \notin {"None", "StopRequested"}

PipeError == {"CreatePipe", "Connect", "ReadRequest", "DecodeRequest", "WriteResponse"}

FlagInv ==
    /\ received = "None" <=> rpc \in LoopPoint
    /\ rpc \in {"Wake", "Done"} => stop
    /\ ended \in {"None", "MaxRequestsReached", "StopRequested"} \cup PipeError
    /\ ended = "None" <=> hpc \notin {"Stop", "Join", "Done"}
    /\ stop => StoppedByReceive \/ StoppedByHandoff
    /\ received = "StopRequested" => StoppedByHandoff
    /\ ended = "StopRequested" => StoppedByReceive

WakeInv ==
    /\ wakes \in Nat
    /\ rpc # "Done" => wakes >= 1
    /\ hpc \in {"Top", "Create", "Stop", "Join", "Done"} => pipe = "None"

ThreadInv ==
    /\ FlagInv
    /\ WakeInv
    /\ NoLostWakeup
    /\ verdict = "HandoffStopped" => hpc = "Done" /\ ended \in PipeError

LEMMA ThreadInvInit ==
    ASSUME RuntimeInit
    PROVE  ThreadInv
  BY HandoffRuntimeAssumption
     DEF RuntimeInit, SummaryInit, ThreadInv, FlagInv, WakeInv, NoLostWakeup,
         LoopPoint, StoppedByReceive, StoppedByHandoff

\* A step of the receive loop that stays in it.
LEMMA ReceiveGoesOn ==
    ASSUME ThreadInv, NEW from \in LoopPoint, NEW to \in LoopPoint, ReceiveGoes(from, to),
           UNCHANGED << stop, received >>
    PROVE  ThreadInv'
<1>1. rpc = from /\ rpc' = to /\ UNCHANGED << stop, received, hpc, ended, wakes, pipe, verdict >>
  BY DEF ReceiveGoes, handoffVars
<1>2. FlagInv'
  BY <1>1 DEF ThreadInv, FlagInv, LoopPoint, StoppedByReceive, StoppedByHandoff
<1>3. WakeInv'
  BY <1>1 DEF ThreadInv, WakeInv, LoopPoint
<1>4. NoLostWakeup'
  BY <1>1 DEF NoLostWakeup, LoopPoint
<1>5. (verdict = "HandoffStopped" => hpc = "Done" /\ ended \in PipeError)'
  BY <1>1 DEF ThreadInv, PipeError
<1> QED BY <1>2, <1>3, <1>4, <1>5 DEF ThreadInv

\* The receive loop is left; for the other thread's sake only if that asked for it.
LEMMA ReceiveLoopEnds ==
    ASSUME ThreadInv, NEW from \in LoopPoint, NEW r, r # "None", ReceiveEnds(from, r),
           r = "StopRequested" => stop
    PROVE  ThreadInv'
<1>1. /\ rpc = from /\ received' = r
      /\ rpc' = IF r = "StopRequested" THEN "Done" ELSE "Shutdown"
      /\ UNCHANGED << stop, hpc, ended, wakes, pipe, verdict >>
  BY DEF ReceiveEnds, ReceiveGoes, handoffVars
<1>2. r = "StopRequested" => StoppedByHandoff
  BY <1>1 DEF ThreadInv, FlagInv, LoopPoint, StoppedByReceive
<1>3. ended # "StopRequested" /\ (stop => StoppedByHandoff)
  BY <1>1 DEF ThreadInv, FlagInv, LoopPoint, StoppedByReceive
<1>4. FlagInv'
  BY <1>1, <1>2, <1>3 DEF ThreadInv, FlagInv, LoopPoint, StoppedByReceive, StoppedByHandoff
<1>5. WakeInv'
  BY <1>1 DEF ThreadInv, WakeInv, LoopPoint
<1>6. NoLostWakeup'
  BY <1>1 DEF NoLostWakeup
<1>7. (verdict = "HandoffStopped" => hpc = "Done" /\ ended \in PipeError)'
  BY <1>1 DEF ThreadInv, PipeError
<1> QED BY <1>4, <1>5, <1>6, <1>7 DEF ThreadInv

LEMMA ReceiveThreadKeepsThreadInv ==
    ASSUME ThreadInv, ReceiveThread, summary' \in Summary
    PROVE  ThreadInv'
<1>1. CASE RCheckStop
  BY <1>1, ReceiveLoopEnds, ReceiveGoesOn DEF RCheckStop, LoopPoint
<1>2. CASE RCheckDuration
  BY <1>2, ReceiveLoopEnds, ReceiveGoesOn DEF RCheckDuration, LoopPoint
<1>3. CASE RSetTimeout
  BY <1>3, ReceiveLoopEnds, ReceiveGoesOn DEF RSetTimeout, LoopPoint
<1>4. CASE \E p \in Packets : RReceive(p)
  <2>1. summary'.stop_reason # "StopRequested"
    BY SummaryFields
  <2> QED BY <1>4, <2>1, ReceiveLoopEnds, ReceiveGoesOn DEF RReceive, LoopPoint
<1>5. CASE \E p \in Packets : RProcessingFails(p)
  BY <1>5, ReceiveLoopEnds DEF RProcessingFails, LoopPoint
<1>6. CASE RTimeout
  BY <1>6, ReceiveLoopEnds DEF RTimeout, LoopPoint
<1>7. CASE RReceiveFails
  BY <1>7, ReceiveLoopEnds DEF RReceiveFails, LoopPoint
<1>8. CASE RShutdown
  <2>1. /\ rpc = "Shutdown" /\ rpc' = "Wake" /\ stop' = TRUE
        /\ UNCHANGED << summary, received, hpc, ended, wakes, pipe, verdict >>
    BY <1>8 DEF RShutdown, ReceiveGoes, handoffVars
  <2>2. FlagInv'
    BY <2>1 DEF ThreadInv, FlagInv, LoopPoint, StoppedByReceive, StoppedByHandoff
  <2> QED BY <2>1, <2>2 DEF ThreadInv, WakeInv, NoLostWakeup, PipeError
<1>9. CASE RWake
  <2>1. /\ rpc = "Wake" /\ rpc' \in {"Wake", "Done"}
        /\ UNCHANGED << summary, stop, received, hpc, ended, verdict >>
    BY <1>9 DEF RWake, handoffVars
  <2>2. FlagInv'
    BY <2>1 DEF ThreadInv, FlagInv, LoopPoint, StoppedByReceive, StoppedByHandoff
  <2>3. WakeInv'
    BY <1>9, <2>1 DEF RWake, ThreadInv, WakeInv
  <2>4. NoLostWakeup'
    BY <1>9, <2>1 DEF RWake, ThreadInv, WakeInv, NoLostWakeup
  <2> QED BY <2>1, <2>2, <2>3, <2>4 DEF ThreadInv, PipeError
<1> QED BY <1>1, <1>2, <1>3, <1>4, <1>5, <1>6, <1>7, <1>8, <1>9 DEF ReceiveThread

\* The serve loop is left; for the other thread's sake only if that asked for it.
LEMMA HandoffLoopEnds ==
    ASSUME ThreadInv, NEW from \in {"Top", "Create", "Connect", "CheckStop", "Read", "Write"},
           NEW reason \in {"MaxRequestsReached", "StopRequested"} \cup PipeError,
           HandoffEnds(from, reason), reason = "StopRequested" => stop
    PROVE  ThreadInv'
<1>1. /\ hpc = from /\ hpc' = "Stop" /\ ended' = reason /\ pipe' = "None"
      /\ UNCHANGED << summary, stop, rpc, received, wakes, verdict >>
  BY DEF HandoffEnds, HandoffGoes, receiveVars
<1>2. reason = "StopRequested" => StoppedByReceive
  BY <1>1 DEF ThreadInv, FlagInv, StoppedByHandoff
<1>3. received # "StopRequested" /\ (stop => StoppedByReceive)
  BY <1>1 DEF ThreadInv, FlagInv, StoppedByHandoff
<1>4. FlagInv'
  BY <1>1, <1>2, <1>3 DEF ThreadInv, FlagInv, StoppedByReceive, StoppedByHandoff, PipeError
<1>5. WakeInv'
  BY <1>1 DEF ThreadInv, WakeInv
<1>6. NoLostWakeup'
  BY <1>1 DEF NoLostWakeup
<1>7. (verdict = "HandoffStopped" => hpc = "Done" /\ ended \in PipeError)'
  BY <1>1 DEF ThreadInv
<1> QED BY <1>1, <1>4, <1>5, <1>6, <1>7 DEF ThreadInv

\* A step of the serve loop that stays in it, the creation of the pipe aside.
LEMMA HandoffGoesOn ==
    ASSUME ThreadInv, NEW from \in {"Connect", "CheckStop", "Read", "Handle", "Write"},
           NEW to \in {"CheckStop", "Read", "Handle", "Write", "Top"}, HandoffGoes(from, to),
           UNCHANGED << summary, stop, ended >>, to = "Top" => pipe' = "None"
    PROVE  ThreadInv'
<1>1. /\ hpc = from /\ hpc' = to
      /\ UNCHANGED << summary, stop, ended, rpc, received, wakes, verdict >>
  BY DEF HandoffGoes, receiveVars
<1>2. FlagInv'
  BY <1>1 DEF ThreadInv, FlagInv, StoppedByReceive, StoppedByHandoff
<1>3. WakeInv'
  BY <1>1 DEF ThreadInv, WakeInv
<1>4. NoLostWakeup'
  BY <1>1 DEF NoLostWakeup
<1>5. (verdict = "HandoffStopped" => hpc = "Done" /\ ended \in PipeError)'
  BY <1>1 DEF ThreadInv
<1> QED BY <1>1, <1>2, <1>3, <1>4, <1>5 DEF ThreadInv

LEMMA HandoffThreadKeepsThreadInv ==
    ASSUME ThreadInv, HandoffThread
    PROVE  ThreadInv'
<1>1. CASE HCheckStop
  <2>1. CASE stop \/ served >= MaxHandoffRequests
    BY <1>1, <2>1, HandoffLoopEnds DEF HCheckStop
  <2>2. CASE ~(stop \/ served >= MaxHandoffRequests)
    <3>1. /\ ~stop /\ hpc = "Top" /\ hpc' = "Create"
          /\ UNCHANGED << summary, stop, ended, rpc, received, wakes, pipe, verdict >>
      BY <1>1, <2>2 DEF HCheckStop, HandoffGoes, receiveVars
    <3>2. FlagInv'
      BY <3>1 DEF ThreadInv, FlagInv, StoppedByReceive, StoppedByHandoff
    <3>3. WakeInv' /\ NoLostWakeup'
      BY <3>1 DEF ThreadInv, WakeInv, FlagInv, NoLostWakeup
    <3> QED BY <3>1, <3>2, <3>3 DEF ThreadInv
  <2> QED BY <2>1, <2>2
<1>2. CASE HCreatePipe
  <2>1. CASE HandoffEnds("Create", "CreatePipe")
    BY <2>1, HandoffLoopEnds DEF PipeError
  <2>2. CASE HandoffGoes("Create", "Connect") /\ ~HandoffEnds("Create", "CreatePipe")
    <3>1. /\ hpc = "Create" /\ hpc' = "Connect" /\ pipe' = "Listening"
          /\ UNCHANGED << summary, stop, ended, rpc, received, wakes, verdict >>
      BY <1>2, <2>2 DEF HCreatePipe, HandoffGoes, receiveVars
    <3>2. FlagInv'
      BY <3>1 DEF ThreadInv, FlagInv, StoppedByReceive, StoppedByHandoff
    <3>3. WakeInv' /\ NoLostWakeup'
      BY <3>1 DEF ThreadInv, WakeInv, NoLostWakeup
    <3> QED BY <3>1, <3>2, <3>3 DEF ThreadInv
  <2> QED BY <1>2, <2>1, <2>2 DEF HCreatePipe
<1>3. CASE HConnect
  <2>1. CASE HandoffEnds("Connect", "Connect")
    BY <2>1, HandoffLoopEnds DEF PipeError
  <2>2. CASE ~HandoffEnds("Connect", "Connect")
    BY <1>3, <2>2, HandoffGoesOn DEF HConnect
  <2> QED BY <2>1, <2>2
<1>4. CASE HCheckStopConnected
  <2>1. CASE stop
    BY <1>4, <2>1, HandoffLoopEnds DEF HCheckStopConnected
  <2>2. CASE ~stop
    BY <1>4, <2>2, HandoffGoesOn DEF HCheckStopConnected
  <2> QED BY <2>1, <2>2
<1>5. CASE HRead
  <2>1. CASE \E reason \in IoFailures \cap {"ReadRequest", "DecodeRequest"} :
               HandoffEnds("Read", reason)
    BY <2>1, HandoffLoopEnds DEF PipeError
  <2>2. CASE \E q \in Requests :
               /\ HandoffGoes("Read", "Handle")
               /\ UNCHANGED << summary, stop, ended >>
    BY <2>2, HandoffGoesOn
  <2> QED BY <1>5, <2>1, <2>2 DEF HRead
<1>6. CASE HHandle
  BY <1>6, HandoffGoesOn DEF HHandle
<1>7. CASE HWrite
  <2>1. CASE HandoffEnds("Write", "WriteResponse")
    BY <2>1, HandoffLoopEnds DEF PipeError
  <2>2. CASE ~HandoffEnds("Write", "WriteResponse")
    BY <1>7, <2>2, HandoffGoesOn DEF HWrite
  <2> QED BY <2>1, <2>2
<1>8. CASE HRequestStop
  <2>1. /\ hpc = "Stop" /\ hpc' = "Join" /\ stop' = TRUE
        /\ UNCHANGED << summary, ended, rpc, received, wakes, pipe, verdict >>
    BY <1>8 DEF HRequestStop, HandoffGoes, receiveVars
  <2>2. FlagInv'
    BY <2>1 DEF ThreadInv, FlagInv, StoppedByReceive, StoppedByHandoff
  <2>3. WakeInv' /\ NoLostWakeup'
    BY <2>1 DEF ThreadInv, WakeInv, NoLostWakeup
  <2> QED BY <2>1, <2>2, <2>3 DEF ThreadInv
<1>9. CASE HJoin
  <2>1. /\ hpc = "Join" /\ rpc = "Done" /\ hpc' = "Done"
        /\ UNCHANGED << summary, stop, ended, rpc, received, wakes, pipe >>
        /\ verdict' = "HandoffStopped" =>
             ended # "MaxRequestsReached" /\ received = "StopRequested"
    BY <1>9 DEF HJoin, receiveVars
  <2>2. FlagInv'
    BY <2>1 DEF ThreadInv, FlagInv, StoppedByReceive, StoppedByHandoff
  <2>3. WakeInv' /\ NoLostWakeup'
    BY <2>1 DEF ThreadInv, WakeInv, NoLostWakeup
  <2>4. verdict' = "HandoffStopped" => ended' \in PipeError
    BY <2>1 DEF ThreadInv, FlagInv, StoppedByHandoff
  <2> QED BY <2>1, <2>2, <2>3, <2>4 DEF ThreadInv
<1> QED BY <1>1, <1>2, <1>3, <1>4, <1>5, <1>6, <1>7, <1>8, <1>9 DEF HandoffThread

LEMMA ThreadInvariant == RuntimeSpec => []ThreadInv
<1>1. RuntimeInit => ThreadInv
  BY ThreadInvInit
<1>2. ThreadInv /\ CountingInv' /\ [RuntimeNext]_runtimeVars => ThreadInv'
  <2>1. SUFFICES ASSUME ThreadInv, summary' \in Summary, [RuntimeNext]_runtimeVars
                 PROVE  ThreadInv'
    BY DEF CountingInv, ReceiveInv
  <2>2. CASE Expire \/ Finished \/ UNCHANGED runtimeVars
    <3>1. UNCHANGED << summary, stop, rpc, received, wakes, hpc, ended, pipe, verdict >>
      BY <2>2 DEF Expire, Finished, runtimeVars, receiveVars, handoffVars
    <3> QED BY <2>1, <3>1 DEF ThreadInv, FlagInv, WakeInv, NoLostWakeup,
                              StoppedByReceive, StoppedByHandoff
  <2>3. CASE ClientConnects
    <3>1. /\ pipe = "Listening" /\ pipe' = "Client"
          /\ UNCHANGED << summary, stop, rpc, received, wakes, hpc, ended, verdict >>
      BY <2>3 DEF ClientConnects, receiveVars, handoffVars
    <3> QED BY <2>1, <3>1 DEF ThreadInv, FlagInv, WakeInv, NoLostWakeup,
                              StoppedByReceive, StoppedByHandoff
  <2> QED BY <2>1, <2>2, <2>3, ReceiveThreadKeepsThreadInv, HandoffThreadKeepsThreadInv
          DEF RuntimeNext
<1> QED BY <1>1, <1>2, CountingInvariant, PTL DEF RuntimeSpec

\* The handoff thread is left waiting by a receive thread that is gone only if
\* every attempt to wake it failed, for every number of attempts.
THEOREM WakeupNotLost == RuntimeSpec => []NoLostWakeup
<1>1. ThreadInv => NoLostWakeup
  BY DEF ThreadInv
<1> QED BY <1>1, ThreadInvariant, PTL

\* The two threads never both stop because the other one asked for it, and
\* HandoffStopped is reported for an error of the pipe only.
THEOREM VerdictsHaveCauses == RuntimeSpec => []VerdictNamesACause
<1>1. ThreadInv => VerdictNamesACause
  BY DEF ThreadInv, FlagInv, VerdictNamesACause, StoppedByHandoff, PipeError
<1> QED BY <1>1, ThreadInvariant, PTL

---------------------------------------------------------------------------
(***************************************************************************)
(* Requests and their answers.                                             *)
(***************************************************************************)
InRequest == {"Create", "Connect", "CheckStop", "Read", "Handle", "Write"}

RequestInv ==
    /\ handoff \in [HandoffCounter -> Nat]
    /\ served \in Nat
    /\ hpc \in InRequest => served < MaxHandoffRequests
    /\ RequestsAccountedFor

\* What an answer adds to the counters.
LEMMA RecordedCounts ==
    ASSUME NEW h \in [HandoffCounter -> Nat], NEW c, NEW r, NEW mode
    PROVE  LET h2 == Recorded(h, HandoffResponse(c, r, mode))
           IN  /\ h2 \in [HandoffCounter -> Nat]
               /\ h2["handoff_requests"] = h["handoff_requests"] + 1
               /\ (h2["None"] + h2["Queue"] + h2["RetainedKeyframe"])
                    - (h2["frame_read_count"] + h2["no_frame_count"])
                  = (h["None"] + h["Queue"] + h["RetainedKeyframe"])
                    - (h["frame_read_count"] + h["no_frame_count"])
<1> DEFINE resp == HandoffResponse(c, r, mode)
<1>1. /\ resp.kind \in {"HandoffError", "FrameRead", "NoFrame"}
      /\ resp.source \in {"None", "Queue", "RetainedKeyframe"}
  BY DEF HandoffResponse, decodable_source
<1> HIDE DEF resp
<1>2. CASE resp.kind = "HandoffError"
  <2>1. Recorded(h, resp) = [h EXCEPT !["handoff_requests"] = @ + 1]
    BY <1>2 DEF Recorded
  <2> QED BY <2>1 DEF HandoffCounter, resp
<1>3. CASE resp.kind # "HandoffError"
  <2> DEFINE kind == IF resp.kind = "FrameRead" THEN "frame_read_count" ELSE "no_frame_count"
             one == [h EXCEPT !["handoff_requests"] = @ + 1]
             h2 == [one EXCEPT ![kind] = @ + 1, ![resp.source] = @ + 1]
  <2>1. Recorded(h, resp) = h2
    BY <1>3 DEF Recorded
  <2>2. /\ one \in [HandoffCounter -> Nat]
        /\ one["handoff_requests"] = h["handoff_requests"] + 1
        /\ \A n \in HandoffCounter \ {"handoff_requests"} : one[n] = h[n]
    BY DEF HandoffCounter
  <2> HIDE DEF one
  <2>3. kind \in {"frame_read_count", "no_frame_count"}
    OBVIOUS
  <2> HIDE DEF kind
  <2>4. /\ h2 \in [HandoffCounter -> Nat]
        /\ h2[kind] = one[kind] + 1
        /\ h2[resp.source] = one[resp.source] + 1
        /\ \A n \in HandoffCounter \ {kind, resp.source} : h2[n] = one[n]
    BY <1>1, <2>2, <2>3 DEF HandoffCounter
  <2> HIDE DEF h2
  <2>5. h2["handoff_requests"] = h["handoff_requests"] + 1
    BY <1>1, <2>2, <2>3, <2>4 DEF HandoffCounter
  <2>6. h2["frame_read_count"] + h2["no_frame_count"]
          = h["frame_read_count"] + h["no_frame_count"] + 1
    BY <1>1, <2>2, <2>3, <2>4 DEF HandoffCounter
  <2>7. h2["None"] + h2["Queue"] + h2["RetainedKeyframe"]
          = h["None"] + h["Queue"] + h["RetainedKeyframe"] + 1
    BY <1>1, <2>2, <2>3, <2>4 DEF HandoffCounter
  <2> QED BY <2>1, <2>4, <2>5, <2>6, <2>7 DEF HandoffCounter, resp
<1> QED BY <1>2, <1>3

\* The serve loop is left; only after an answer was counted is one in flight.
LEMMA HandoffEndKeepsRequestInv ==
    ASSUME RequestInv, FlagInv, NEW from \in InRequest \cup {"Top"}, NEW reason,
           HandoffEnds(from, reason), reason = "WriteResponse" <=> from = "Write"
    PROVE  RequestInv'
<1>1. /\ hpc = from /\ hpc' = "Stop" /\ ended' = reason /\ served' = served
      /\ handoff' = IF reason \in IoErrorReason
                    THEN [handoff EXCEPT !["io_error_count"] = @ + 1] ELSE handoff
  BY DEF HandoffEnds, HandoffGoes
<1>2. ended = "None"
  BY <1>1 DEF FlagInv, InRequest
<1>3. /\ handoff' \in [HandoffCounter -> Nat]
      /\ \A n \in HandoffCounter \ {"io_error_count"} : handoff'[n] = handoff[n]
  BY <1>1 DEF RequestInv, HandoffCounter
<1>4. RequestsAccountedFor'
  BY <1>1, <1>2, <1>3 DEF RequestInv, RequestsAccountedFor, HandoffCounter
<1> QED BY <1>1, <1>3, <1>4 DEF RequestInv, InRequest

LEMMA HandoffThreadKeepsRequestInv ==
    ASSUME RequestInv, FlagInv, HandoffThread
    PROVE  RequestInv'
<1>1. ASSUME NEW from, NEW to, HandoffGoes(from, to), from # "Write", to # "Write",
             UNCHANGED << served, ended, handoff >>,
             to \in InRequest => from \in InRequest \/ served < MaxHandoffRequests
      PROVE  RequestInv'
  BY <1>1 DEF RequestInv, RequestsAccountedFor, HandoffGoes
<1>2. CASE HCheckStop
  <2>1. CASE stop \/ served >= MaxHandoffRequests
    BY <1>2, <2>1, HandoffEndKeepsRequestInv DEF HCheckStop
  <2>2. CASE ~(stop \/ served >= MaxHandoffRequests)
    <3>1. served < MaxHandoffRequests
      BY <2>2, HandoffRuntimeAssumption DEF RequestInv
    <3> QED BY <1>1, <1>2, <2>2, <3>1 DEF HCheckStop
  <2> QED BY <2>1, <2>2
<1>3. CASE HCreatePipe
  BY <1>1, <1>3, HandoffEndKeepsRequestInv DEF HCreatePipe, InRequest
<1>4. CASE HConnect
  BY <1>1, <1>4, HandoffEndKeepsRequestInv DEF HConnect, InRequest
<1>5. CASE HCheckStopConnected
  BY <1>1, <1>5, HandoffEndKeepsRequestInv DEF HCheckStopConnected, InRequest
<1>6. CASE HRead
  BY <1>1, <1>6, HandoffEndKeepsRequestInv DEF HRead, InRequest
<1>7. CASE HHandle
  <2>1. PICK q \in request :
          handoff' = Recorded(handoff, HandoffResponse(q.client, q.run, q.mode))
    BY <1>7 DEF HHandle
  <2>2. hpc = "Handle" /\ hpc' = "Write" /\ UNCHANGED << served, ended >>
    BY <1>7 DEF HHandle, HandoffGoes
  <2>3. ended = "None"
    BY <2>2 DEF FlagInv
  <2>4. /\ handoff' \in [HandoffCounter -> Nat]
        /\ handoff'["handoff_requests"] = handoff["handoff_requests"] + 1
        /\ (handoff'["None"] + handoff'["Queue"] + handoff'["RetainedKeyframe"])
             - (handoff'["frame_read_count"] + handoff'["no_frame_count"])
           = (handoff["None"] + handoff["Queue"] + handoff["RetainedKeyframe"])
             - (handoff["frame_read_count"] + handoff["no_frame_count"])
    BY <2>1, RecordedCounts DEF RequestInv
  <2>5. RequestsAccountedFor'
    <3>1. /\ \A n \in HandoffCounter : handoff[n] \in Nat
          /\ \A n \in HandoffCounter : handoff'[n] \in Nat
      BY <2>4 DEF RequestInv
    <3>2. handoff["handoff_requests"] - served = 0
      BY <2>2, <2>3 DEF RequestInv, RequestsAccountedFor
    <3>3. handoff'["handoff_requests"] - served' = 1
      BY <2>2, <2>4, <3>1, <3>2 DEF RequestInv, HandoffCounter
    <3>4. handoff["None"] + handoff["Queue"] + handoff["RetainedKeyframe"]
            = handoff["frame_read_count"] + handoff["no_frame_count"]
      BY DEF RequestInv, RequestsAccountedFor
    <3>5. handoff'["None"] + handoff'["Queue"] + handoff'["RetainedKeyframe"]
            = handoff'["frame_read_count"] + handoff'["no_frame_count"]
      BY <2>4, <3>1, <3>4 DEF HandoffCounter
    <3> QED BY <2>2, <3>3, <3>5 DEF RequestInv, RequestsAccountedFor
  <2> QED BY <2>2, <2>4, <2>5 DEF RequestInv, InRequest
<1>8. CASE HWrite
  <2>1. CASE HandoffEnds("Write", "WriteResponse")
    BY <2>1, HandoffEndKeepsRequestInv DEF InRequest
  <2>2. CASE ~HandoffEnds("Write", "WriteResponse")
    <3>1. hpc = "Write" /\ hpc' = "Top" /\ served' = served + 1 /\ UNCHANGED << ended, handoff >>
      BY <1>8, <2>2 DEF HWrite, HandoffGoes
    <3>2. ended = "None" /\ served < MaxHandoffRequests
      BY <3>1 DEF FlagInv, RequestInv, InRequest
    <3> QED BY <3>1, <3>2, HandoffRuntimeAssumption
            DEF RequestInv, RequestsAccountedFor, InRequest, HandoffCounter
  <2> QED BY <2>1, <2>2
<1>9. CASE HRequestStop
  BY <1>1, <1>9 DEF HRequestStop, InRequest
<1>10. CASE HJoin
  BY <1>10 DEF HJoin, RequestInv, RequestsAccountedFor, InRequest
<1> QED BY <1>2, <1>3, <1>4, <1>5, <1>6, <1>7, <1>8, <1>9, <1>10 DEF HandoffThread

LEMMA RequestInvariant == RuntimeSpec => []RequestInv
<1>1. RuntimeInit => RequestInv
  BY HandoffRuntimeAssumption
     DEF RuntimeInit, RequestInv, RequestsAccountedFor, InRequest, HandoffCounter
<1>2. RequestInv /\ ThreadInv /\ [RuntimeNext]_runtimeVars => RequestInv'
  <2>1. SUFFICES ASSUME RequestInv, FlagInv, [RuntimeNext]_runtimeVars
                 PROVE  RequestInv'
    BY DEF ThreadInv
  <2>2. CASE ReceiveThread \/ Expire \/ ClientConnects \/ Finished \/ UNCHANGED runtimeVars
    <3>1. UNCHANGED handoffVars
      BY <2>2 DEF ReceiveThread, RCheckStop, RCheckDuration, RSetTimeout, RReceive,
                  RProcessingFails, RTimeout, RReceiveFails, RShutdown, RWake, ReceiveEnds,
                  ReceiveGoes, Expire, ClientConnects, Finished, runtimeVars
    <3> QED BY <2>1, <3>1 DEF handoffVars, RequestInv, RequestsAccountedFor
  <2> QED BY <2>1, <2>2, HandoffThreadKeepsRequestInv DEF RuntimeNext
<1> QED BY <1>1, <1>2, ThreadInvariant, PTL DEF RuntimeSpec

\* Every request the handoff thread counts is answered, in flight or lost to a
\* failed write, has one source per frame answer, and stays within the limit.
THEOREM RequestsAddUp == RuntimeSpec => []RequestsAccountedFor
<1>1. RequestInv => RequestsAccountedFor
  BY DEF RequestInv
<1> QED BY <1>1, RequestInvariant, PTL

---------------------------------------------------------------------------
(***************************************************************************)
(* The shared state and the summary of a finished run.                     *)
(***************************************************************************)

\* What the threads' own variables hold, the two flags apart.
ThreadTypeOK ==
    /\ rpc \in {"Top", "CheckDuration", "SetTimeout", "Receive", "Shutdown", "Wake", "Done"}
    /\ received \in {"None", "Err", "StopRequested", "MaxRuntimeDurationReached"} \cup
                    {"ReceiveTimedOut", "MaxVideoPacketsReached", "ClientAwareThresholdReached",
                     "ReassembledFramesThresholdReached",
                     "ReassembledFramesAndClientAwareThresholdReached"}
    /\ wakes \in 0 .. WakeAttempts
    /\ hpc \in {"Top", "Create", "Connect", "CheckStop", "Read", "Handle", "Write", "Stop", "Join", "Done"}
    /\ request \in SUBSET Requests
    /\ served \in Nat
    /\ ended \in {"None", "MaxRequestsReached", "StopRequested", "CreatePipe", "Connect",
                  "ReadRequest", "DecodeRequest", "WriteResponse"}
    /\ pipe \in {"None", "Listening", "Client", "Woken"}
    /\ handoff \in [HandoffCounter -> Nat]
    /\ verdict \in {"None", "Err", "MaxHandoffRequestsReached", "ReceiveStopped", "HandoffStopped"}

FlagTypeOK == stop \in BOOLEAN /\ expired \in BOOLEAN

LEMMA RuntimeTypeParts ==
    ASSUME TypeOK, summary \in Summary
    PROVE  RuntimeTypeOK <=> ThreadTypeOK /\ FlagTypeOK
BY DEF RuntimeTypeOK, ThreadTypeOK, FlagTypeOK

LEMMA FlagsAreFlags ==
    ASSUME FlagTypeOK, RuntimeNext \/ UNCHANGED runtimeVars
    PROVE  FlagTypeOK'
<1>1. /\ stop' = stop \/ stop' = TRUE
      /\ expired' = expired \/ expired' = TRUE
  BY DEF RuntimeNext, Expire, ClientConnects, Finished, runtimeVars, receiveVars, handoffVars,
         ReceiveThread, RCheckStop, RCheckDuration, RSetTimeout, RReceive, RProcessingFails,
         RTimeout, RReceiveFails, RShutdown, RWake, ReceiveEnds, ReceiveGoes,
         HandoffThread, HCheckStop, HCreatePipe, HConnect, HCheckStopConnected, HRead, HHandle,
         HWrite, HRequestStop, HJoin, HandoffEnds, HandoffGoes
<1> QED BY <1>1 DEF FlagTypeOK

LEMMA ReceiveThreadKeepsTypes ==
    ASSUME ThreadTypeOK, WakeInv, ReceiveThread, summary' \in Summary
    PROVE  ThreadTypeOK'
<1>1. UNCHANGED << hpc, request, served, ended, handoff, verdict >>
  BY DEF ReceiveThread, RCheckStop, RCheckDuration, RSetTimeout, RReceive, RProcessingFails,
         RTimeout, RReceiveFails, RShutdown, RWake, ReceiveEnds, ReceiveGoes, handoffVars
<1>2. CASE RWake
  <2>1. /\ rpc = "Wake" /\ rpc' \in {"Wake", "Done"} /\ received' = received
        /\ pipe' \in {pipe, "Woken"} /\ wakes' \in {wakes, wakes - 1}
    BY <1>2 DEF RWake
  <2>2. wakes' \in 0 .. WakeAttempts
    BY <2>1, HandoffRuntimeAssumption DEF WakeInv, ThreadTypeOK
  <2>3. pipe' \in {"None", "Listening", "Client", "Woken"}
    BY <2>1 DEF ThreadTypeOK
  <2> HIDE <1>2
  <2> QED BY <1>1, <2>1, <2>2, <2>3 DEF ThreadTypeOK
<1>3. CASE ~RWake
  <2>1. UNCHANGED << wakes, pipe >>
    BY <1>3 DEF ReceiveThread, RCheckStop, RCheckDuration, RSetTimeout, RReceive,
                RProcessingFails, RTimeout, RReceiveFails, RShutdown, ReceiveEnds, ReceiveGoes
  <2>2. rpc' \in {"Top", "CheckDuration", "SetTimeout", "Receive", "Shutdown", "Wake", "Done"}
    BY <1>3 DEF ReceiveThread, RCheckStop, RCheckDuration, RSetTimeout, RReceive,
                RProcessingFails, RTimeout, RReceiveFails, RShutdown, ReceiveEnds, ReceiveGoes
  <2>3. summary'.stop_reason \in StopReason
    BY SummaryFields DEF StopReason
  <2>4. received' \in {received, "Err", "StopRequested", "MaxRuntimeDurationReached",
                       "ReceiveTimedOut", summary'.stop_reason}
    BY <1>3 DEF ReceiveThread, RCheckStop, RCheckDuration, RSetTimeout, RReceive,
                RProcessingFails, RTimeout, RReceiveFails, RShutdown, ReceiveEnds
  <2>5. received' \in {"None", "Err", "StopRequested", "MaxRuntimeDurationReached"} \cup
                    {"ReceiveTimedOut", "MaxVideoPacketsReached", "ClientAwareThresholdReached",
                     "ReassembledFramesThresholdReached",
                     "ReassembledFramesAndClientAwareThresholdReached"}
    BY <2>3, <2>4 DEF ThreadTypeOK, StopReason
  <2> QED BY <1>1, <2>1, <2>2, <2>5 DEF ThreadTypeOK
<1> QED BY <1>2, <1>3

LEMMA HandoffThreadKeepsTypes ==
    ASSUME ThreadTypeOK, HandoffThread, RequestInv', FlagInv'
    PROVE  ThreadTypeOK'
<1>1. UNCHANGED << rpc, received, wakes >>
  BY DEF HandoffThread, HCheckStop, HCreatePipe, HConnect, HCheckStopConnected, HRead, HHandle,
         HWrite, HRequestStop, HJoin, HandoffEnds, HandoffGoes, receiveVars
<1>2. hpc' \in {"Top", "Create", "Connect", "CheckStop", "Read", "Handle", "Write", "Stop",
                "Join", "Done"}
  BY DEF HandoffThread, HCheckStop, HCreatePipe, HConnect, HCheckStopConnected, HRead, HHandle,
         HWrite, HRequestStop, HJoin, HandoffEnds, HandoffGoes
<1>3. request' \in SUBSET Requests
  BY DEF ThreadTypeOK, HandoffThread, HCheckStop, HCreatePipe, HConnect, HCheckStopConnected,
         HRead, HHandle, HWrite, HRequestStop, HJoin, HandoffEnds
<1>4. pipe' \in {"None", "Listening", "Client", "Woken"}
  BY DEF ThreadTypeOK, HandoffThread, HCheckStop, HCreatePipe, HConnect, HCheckStopConnected,
         HRead, HHandle, HWrite, HRequestStop, HJoin, HandoffEnds
<1>5. verdict' \in {"None", "Err", "MaxHandoffRequestsReached", "ReceiveStopped", "HandoffStopped"}
  BY DEF ThreadTypeOK, HandoffThread, HCheckStop, HCreatePipe, HConnect, HCheckStopConnected,
         HRead, HHandle, HWrite, HRequestStop, HJoin, HandoffEnds, HandoffGoes
<1>6. served' \in Nat /\ handoff' \in [HandoffCounter -> Nat]
  BY DEF RequestInv
<1>7. ended' \in {"None", "MaxRequestsReached", "StopRequested", "CreatePipe", "Connect",
                  "ReadRequest", "DecodeRequest", "WriteResponse"}
  BY DEF FlagInv, PipeError
<1> QED BY <1>1, <1>2, <1>3, <1>4, <1>5, <1>6, <1>7 DEF ThreadTypeOK

\* Once the receive thread has a result, its summary covers the queue: nothing
\* is queued any more.  It is exact when the other thread asked for the stop,
\* because that one has answered its last request by then.
ReportInv ==
    /\ received \notin {"None", "Err"} => summary.count["queue_len"] >= total_len(queue)
    /\ received = "StopRequested" => summary.count["queue_len"] = total_len(queue)
    /\ hpc = "Done" => rpc = "Done" /\ (received = "Err" => verdict = "Err")

LEMMA QueueLengths ==
    ASSUME ReceiveInv
    PROVE  summary.count["queue_len"] \in Nat /\ total_len(queue) \in Nat
BY SummaryFields, TotalLenType DEF ReceiveInv, TypeOK, QueueTypeOK, Counter

LEMMA ReceiveThreadKeepsReport ==
    ASSUME ReportInv, CountingInv, FlagInv, FlagInv', ReceiveThread
    PROVE  ReportInv'
<1>1. /\ CountingInv' /\ LeavesWithReport
      /\ rpc \notin LoopPoint => rpc' \notin LoopPoint /\ UNCHANGED << vars, summary, received >>
  BY ReceiveThreadCounts
<1>2. summary'.count["queue_len"] \in Nat /\ total_len(queue') \in Nat
  <2>1. summary' \in Summary /\ queue' \in [Clients -> Seq(Frame)]
    BY <1>1 DEF CountingInv, ReceiveInv, TypeOK, QueueTypeOK
  <2> QED BY <2>1, SummaryFields, TotalLenType DEF Counter
<1>3. rpc # "Done" /\ UNCHANGED << hpc, verdict >>
  BY DEF ReceiveThread, RCheckStop, RCheckDuration, RSetTimeout, RReceive, RProcessingFails,
         RTimeout, RReceiveFails, RShutdown, RWake, ReceiveEnds, ReceiveGoes, handoffVars
<1>4. hpc' # "Done"
  BY <1>3 DEF ReportInv
<1>5. CASE rpc \notin LoopPoint
  BY <1>1, <1>4, <1>5 DEF ReportInv, vars
<1>6. CASE rpc \in LoopPoint /\ rpc' \in LoopPoint
  BY <1>4, <1>6 DEF ReportInv, FlagInv
<1>7. CASE rpc \in LoopPoint /\ rpc' \notin LoopPoint
  <2>1. received' # "Err" => summary'.count["queue_len"] = total_len(queue')
    BY <1>1, <1>7 DEF LeavesWithReport
  <2>2. received' # "Err" => summary'.count["queue_len"] >= total_len(queue')
    BY <1>2, <2>1
  <2> QED BY <1>4, <2>1, <2>2 DEF ReportInv
<1> QED BY <1>5, <1>6, <1>7

LEMMA HandoffThreadKeepsReport ==
    ASSUME ReportInv, CountingInv, FlagInv, request \subseteq Requests, HandoffThread
    PROVE  ReportInv'
<1>1. /\ CountingInv' /\ UNCHANGED << summary, rpc, received >>
      /\ total_len(queue') <= total_len(queue)
      /\ hpc # "Handle" => queue' = queue
  BY HandoffThreadCounts
<1>2. /\ summary.count["queue_len"] \in Nat /\ total_len(queue) \in Nat
      /\ total_len(queue') \in Nat
  <2>1. queue' \in [Clients -> Seq(Frame)]
    BY <1>1 DEF CountingInv, ReceiveInv, TypeOK, QueueTypeOK
  <2> QED BY <2>1, QueueLengths, TotalLenType DEF CountingInv
<1>3. received' \notin {"None", "Err"} => summary'.count["queue_len"] >= total_len(queue')
  BY <1>1, <1>2 DEF ReportInv
<1>4. received' = "StopRequested" => summary'.count["queue_len"] = total_len(queue')
  <2>1. received = "StopRequested" => hpc # "Handle"
    BY DEF FlagInv, StoppedByHandoff
  <2> QED BY <1>1, <2>1 DEF ReportInv
<1>5. hpc' = "Done" => rpc' = "Done" /\ (received' = "Err" => verdict' = "Err")
  BY <1>1 DEF HandoffThread, HCheckStop, HCreatePipe, HConnect, HCheckStopConnected, HRead,
              HHandle, HWrite, HRequestStop, HJoin, HandoffEnds, HandoffGoes
<1> QED BY <1>3, <1>4, <1>5 DEF ReportInv

LEMMA RuntimeInvariants == RuntimeSpec => [](ThreadTypeOK /\ FlagTypeOK /\ ReportInv)
<1> DEFINE Inv == ThreadTypeOK /\ FlagTypeOK /\ ReportInv
           Known == CountingInv /\ ThreadInv /\ RequestInv /\ request \subseteq Requests
<1>1. RuntimeInit => Inv
  <2>1. SUFFICES ASSUME RuntimeInit PROVE Inv
    OBVIOUS
  <2>2. ThreadTypeOK
    BY <2>1, HandoffRuntimeAssumption DEF RuntimeInit, ThreadTypeOK, HandoffCounter
  <2>3. FlagTypeOK
    BY <2>1 DEF RuntimeInit, FlagTypeOK
  <2>4. ReportInv
    BY <2>1 DEF RuntimeInit, ReportInv
  <2> QED BY <2>2, <2>3, <2>4
<1>2. Inv /\ Known /\ Known' /\ [RuntimeNext]_runtimeVars => Inv'
  <2>1. SUFFICES ASSUME ThreadTypeOK, FlagTypeOK, ReportInv, Known, Known', [RuntimeNext]_runtimeVars
                 PROVE  Inv'
    OBVIOUS
  <2>2. /\ CountingInv /\ FlagInv /\ WakeInv /\ request \subseteq Requests
        /\ summary' \in Summary /\ FlagInv' /\ RequestInv'
    BY <2>1 DEF ThreadInv, CountingInv, ReceiveInv
  <2>3. FlagTypeOK'
    BY <2>1, FlagsAreFlags
  <2>4. CASE ReceiveThread
    BY <2>1, <2>2, <2>3, <2>4, ReceiveThreadKeepsTypes, ReceiveThreadKeepsReport
  <2>5. CASE HandoffThread
    BY <2>1, <2>2, <2>3, <2>5, HandoffThreadKeepsTypes, HandoffThreadKeepsReport
  <2>6. CASE Expire \/ ClientConnects \/ Finished \/ UNCHANGED runtimeVars
    <3>1. /\ UNCHANGED << vars, summary, rpc, received, wakes, hpc, request, served, ended,
                          handoff, verdict >>
          /\ pipe' \in {pipe, "Client"}
      BY <2>6 DEF Expire, ClientConnects, Finished, runtimeVars, receiveVars, handoffVars
    <3>2. ThreadTypeOK'
      BY <2>1, <3>1 DEF ThreadTypeOK
    <3> QED BY <2>1, <2>3, <3>1, <3>2 DEF ReportInv, vars
  <2> QED BY <2>1, <2>4, <2>5, <2>6 DEF RuntimeNext
<1>3. RuntimeSpec => []Known
  BY CountingInvariant, ThreadInvariant, RequestInvariant, RequestsAreRequests, PTL
<1> HIDE DEF Inv, Known
<1>4. RuntimeSpec => []Inv
  BY <1>1, <1>2, <1>3, PTL DEF RuntimeSpec
<1> QED BY <1>4, PTL DEF Inv

\* The shared state is well formed while both threads use it, and the summary a
\* finished run prints never understates the queue; it is exact when the
\* handoff thread stopped first.
THEOREM RuntimeReportsAgree == RuntimeSpec => []RuntimeInvariant
<1>1. CountingInv /\ ThreadTypeOK /\ FlagTypeOK => RuntimeTypeOK
  BY RuntimeTypeParts DEF CountingInv, ReceiveInv
<1>2. ReportInv /\ ThreadInv => SummaryCoversQueue
  <2>1. SUFFICES ASSUME ReportInv, ThreadInv PROVE SummaryCoversQueue
    OBVIOUS
  <2>2. (hpc = "Done" /\ verdict # "Err") => received \notin {"None", "Err"}
    BY <2>1 DEF ReportInv, ThreadInv, FlagInv, LoopPoint
  <2> QED BY <2>1, <2>2 DEF SummaryCoversQueue, ReportInv
<1> QED BY <1>1, <1>2, RuntimeInvariants, CountingInvariant, ThreadInvariant, PTL DEF RuntimeInvariant

===========================================================================
