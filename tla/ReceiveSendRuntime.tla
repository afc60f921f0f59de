------------------------ MODULE ReceiveSendRuntime ------------------------
(***************************************************************************)
(* The continuous receive/send runtime: one thread that receives a packet, *)
(* answers it and commits its effects, over and over.  The first receive   *)
(* of a drain cycle blocks up to ReceiveTimeout; the following ones take   *)
(* what the socket holds already.  Silence for ReceiveTimeout ends the     *)
(* run.                                                                    *)
(*                                                                         *)
(* Time passes while the thread is blocked in a receive; processing takes  *)
(* none.  The clock of every client is the server's plus Skew.  UDP may    *)
(* delay, lose and repeat heartbeats, their acks and the statistics that   *)
(* return what an ack said.                                                *)
(***************************************************************************)
EXTENDS VideoIngest, HeartbeatState, FiniteSets

CONSTANTS
    ReceiveTimeout,          \* policy.receive_timeout
    MaxIterations,           \* policy.max_iterations, an Option
    MaxPacketsPerDrainCycle, \* policy.max_packets_per_drain_cycle
    MaxItems,                \* capacity of the outbound queue (64)
    Senders,                 \* who sends heartbeats and statistics: [source, client, run]
    Epoch,                   \* the server's clock when the runtime starts
    Skew,                    \* a client's clock minus the server's
    MaxClock,                \* bound: the latest time the model looks at
    Failures                 \* the operations that may fail in this instance

ASSUME ReceiveSendAssumption ==
    /\ ReceiveTimeout \in Nat \ {0}
    /\ MaxIterations \subseteq Nat
    /\ MaxPacketsPerDrainCycle \in Nat
    /\ MaxItems \in Nat \ {0}
    /\ Senders \subseteq [source : Sources, client : Clients, run : Runs]
    /\ Epoch \in Nat
    /\ Skew \in Int
    /\ Epoch + Skew >= 0
    /\ MaxClock \in Nat
    /\ \A p \in Packets : p.type \notin {"Heartbeat", "ClientStats"}

VARIABLES
    clock,       \* the server's clock
    stamp,       \* the timestamp of the iteration, read before its receive
    pc,          \* control point
    drain,       \* drain_index
    nonblocking, \* the mode of the socket
    index,       \* iteration_index
    outbound,    \* ServerOutboundQueueCollection
    count,       \* the counters of the summary
    report,      \* last_heartbeat_timeout_summary, an Option
    result,      \* stop reason of the run, "Err" or "None"
    acks,        \* history: the HeartbeatAcks sent
    heard,       \* history: client -> when its last heartbeat was taken in
    last_packet  \* history: when the last datagram was received

loopVars == << clock, stamp, pc, drain, nonblocking, index, outbound, count, report, result >>
historyVars == << acks, heard, last_packet >>
allVars == << vars, heartbeatVars, loopVars, historyVars >>

Counter ==
    {"iterations_attempted", "iterations_completed", "receive_would_block_count",
     "packets_received", "accepted_packets", "rejected_packets", "auth_requests_received",
     "auth_responses_sent", "heartbeats_received", "heartbeat_acks_sent",
     "client_stats_received", "heartbeat_observations_committed", "frames_queued"}

DrainLimit == IF MaxPacketsPerDrainCycle > 1 THEN MaxPacketsPerDrainCycle ELSE 1

AuthResponse == [type : {"AuthResponse"}, client : Clients, run : Runs]

HeartbeatAck ==
    [type : {"HeartbeatAck"}, client : Clients, run : Runs, echoed : Int, received : Int,
     sent : Int]

SentAck ==
    [client : Clients, run : Runs, echoed : Int, received : Int, sent : Int, at : Int]

HeartbeatReport == [at : Int, now : Int, evaluated : SUBSET Clients, timed_out : SUBSET Clients]

ReceiveSendTypeOK ==
    /\ TypeOK
    /\ HeartbeatTypeOK
    /\ clock \in Nat
    /\ stamp \in Nat
    /\ pc \in {"Top", "Drain", "Receive", "EndCycle", "Done"}
    /\ drain \in 0 .. DrainLimit
    /\ nonblocking \in BOOLEAN
    /\ index \in Nat
    /\ outbound \in Seq(AuthResponse \cup HeartbeatAck)
    /\ count \in [Counter -> Nat]
    /\ Cardinality(report) <= 1 /\ \A r \in report : r \in HeartbeatReport
    /\ result \in {"None", "Err", "MaxIterationsReached", "ReceiveTimedOut", "SocketReceiveFailed"}
    /\ \A a \in acks : a \in SentAck
    /\ DOMAIN heard \subseteq Clients
    /\ last_packet \in Nat

ReceiveSendInit ==
    /\ Init
    /\ HeartbeatInit
    /\ clock = Epoch
    /\ stamp = Epoch
    /\ pc = "Top"
    /\ drain = 0
    /\ nonblocking = FALSE
    /\ index = 0
    /\ outbound = << >>
    /\ count = [n \in Counter |-> 0]
    /\ report = {}
    /\ result = "None"
    /\ acks = {}
    /\ heard = EmptyMap
    /\ last_packet = Epoch

---------------------------------------------------------------------------
(***************************************************************************)
(* The loop around the iterations.                                         *)
(***************************************************************************)
Bump(names) == [n \in Counter |-> IF n \in names THEN count[n] + 1 ELSE count[n]]

LimitReached == \E n \in MaxIterations : index >= n

\* The for loop over drain_index is exhausted.
CycleOver == drain >= DrainLimit

\* The run is left.
Ends(reason) == pc' = "Done" /\ result' = reason

\* Everything but the control point and what an action names.
LeavesState == UNCHANGED << vars, heartbeatVars, outbound, historyVars >>

BeginCycle ==
    /\ pc = "Top"
    /\ IF LimitReached
       THEN Ends("MaxIterationsReached") /\ UNCHANGED drain
       ELSE pc' = "Drain" /\ drain' = 0 /\ UNCHANGED result
    /\ UNCHANGED << clock, stamp, nonblocking, index, count, report >>
    /\ LeavesState

\* The socket becomes non-blocking for the second receive of a cycle; the
\* timestamp of the iteration is read before the receive.
BeginIteration ==
    /\ pc = "Drain"
    /\ ~CycleOver
    /\ ~LimitReached
    /\ \/ /\ pc' = "Receive"
          /\ nonblocking' = (nonblocking \/ drain = 1)
          /\ count' = Bump({"iterations_attempted"})
          /\ stamp' = clock
          /\ UNCHANGED result
       \/ /\ drain = 1
          /\ "SetNonblocking" \in Failures
          /\ Ends("Err")
          /\ UNCHANGED << nonblocking, count, stamp >>
    /\ UNCHANGED << clock, drain, index, report >>
    /\ LeavesState

StopAtLimit ==
    /\ pc = "Drain"
    /\ ~CycleOver
    /\ LimitReached
    /\ pc' = "EndCycle"
    /\ result' = "MaxIterationsReached"
    /\ UNCHANGED << clock, stamp, drain, nonblocking, index, count, report >>
    /\ LeavesState

\* The end of a cycle: the socket blocks again.
EndCycle ==
    /\ \/ pc = "Drain" /\ CycleOver
       \/ pc = "EndCycle"
    /\ \/ /\ pc' = IF result = "None" THEN "Top" ELSE "Done"
          /\ nonblocking' = (MaxPacketsPerDrainCycle <= 1 /\ nonblocking)
          /\ UNCHANGED result
       \/ /\ MaxPacketsPerDrainCycle > 1
          /\ "SetNonblocking" \in Failures
          /\ Ends("Err")
          /\ UNCHANGED nonblocking
    /\ UNCHANGED << clock, stamp, drain, index, count, report >>
    /\ LeavesState

---------------------------------------------------------------------------
(***************************************************************************)
(* A receive that brings no packet.                                        *)
(***************************************************************************)

\* summarize_heartbeat_timeouts: every registered client is evaluated at the
\* timestamp of the iteration.  "now" is history: when that happened.
summarize_heartbeat_timeouts(reg, entries) ==
    { [at |-> stamp, now |-> clock, evaluated |-> DOMAIN reg,
       timed_out |-> { c \in DOMAIN reg :
                         evaluate_timeout(entries, c, stamp, timeout) = "TimedOut" }] :
      timeout \in HeartbeatTimeout }

\* The receive of this iteration has waited as long as it may.
NothingArrived == nonblocking \/ clock >= stamp + ReceiveTimeout

\* observe_continuous_iteration of a failed receive: the run ends.
FailedIteration(reason) ==
    /\ pc' = "EndCycle"
    /\ result' = reason
    /\ index' = index + 1
    /\ count' = Bump({"iterations_completed"})
    /\ report' = summarize_heartbeat_timeouts(registry, liveness)

ReceiveTimesOut_AlwaysContinues ==
    /\ pc = "Receive"
    /\ NothingArrived
    /\ pc' = "EndCycle"
    /\ count' = Bump({"iterations_completed", "receive_would_block_count"})
    /\ UNCHANGED << result, index, report >>
    /\ UNCHANGED << clock, stamp, drain, nonblocking >>
    /\ LeavesState

\* After the first packet of a cycle an empty socket ends the cycle only.
ReceiveTimesOut ==
    /\ pc = "Receive"
    /\ NothingArrived
    /\ IF drain > 0
       THEN /\ pc' = "EndCycle"
            /\ count' = Bump({"iterations_completed", "receive_would_block_count"})
            /\ UNCHANGED << result, index, report >>
       ELSE FailedIteration("ReceiveTimedOut")
    /\ UNCHANGED << clock, stamp, drain, nonblocking >>
    /\ LeavesState

ReceiveFails ==
    /\ pc = "Receive"
    /\ "Receive" \in Failures
    /\ FailedIteration("SocketReceiveFailed")
    /\ UNCHANGED << clock, stamp, drain, nonblocking >>
    /\ LeavesState

---------------------------------------------------------------------------
(***************************************************************************)
(* A packet.                                                               *)
(***************************************************************************)

\* The packet reaches its handler: body dispatch after the gate.
Handled(p, type) == GateOutcome(p) = "Accepted" /\ p.type = type

\* The response to p, an Option: an accepted AuthRequest and every heartbeat
\* have one.  Both timestamps of an ack are the iteration's.
answer(p) ==
    IF Handled(p, "AuthRequest") /\ decide_resolved(p.client, p.token) = "Ok"
    THEN {[type |-> "AuthResponse", client |-> p.client, run |-> p.run]}
    ELSE IF Handled(p, "Heartbeat")
    THEN {[type |-> "HeartbeatAck", client |-> p.client, run |-> p.run, echoed |-> p.sent,
           received |-> stamp, sent |-> stamp]}
    ELSE {}

\* evaluate_storage_push: both answers are control messages, which are dropped
\* when the queue is full.
accepts_candidate == Len(outbound) < MaxItems

push_from_output_apply_AuthOnly(p) ==
    IF accepts_candidate /\ \E item \in answer(p) : item.type = "AuthResponse"
    THEN Append(outbound, CHOOSE item \in answer(p) : TRUE)
    ELSE outbound

\* The queue after the answer to p, if there is one, was offered to it.
push_from_output_apply(p) ==
    IF accepts_candidate /\ answer(p) # {}
    THEN Append(outbound, CHOOSE item \in answer(p) : TRUE)
    ELSE outbound

\* What dequeue_one takes for this iteration's send, an Option.
Dequeued(p) == { push_from_output_apply(p)[i] : i \in {1} \cap DOMAIN push_from_output_apply(p) }

\* The queue is left without the item taken.
Dequeue(p) ==
    outbound' = IF push_from_output_apply(p) = << >> THEN << >>
                ELSE Tail(push_from_output_apply(p))

\* send_queued: an ack that leaves is remembered with the time it left at.
Sends(p) ==
    acks' = acks \cup
        { [client |-> item.client, run |-> item.run, echoed |-> item.echoed,
           received |-> item.received, sent |-> item.sent, at |-> clock] :
          item \in { x \in Dequeued(p) : x.type = "HeartbeatAck" } }

\* The heartbeat state is committed after the send, from the same timestamp.
CommitHeartbeat(p) ==
    IF Handled(p, "Heartbeat")
    THEN /\ handoffs' = MapInsert(handoffs, << p.client, p.run >>,
                [client_sent |-> p.sent, server_received |-> stamp, server_sent |-> stamp])
         /\ liveness' = commit_liveness(p, stamp)
         /\ heard' = MapInsert(heard, p.client, clock)
    ELSE UNCHANGED << handoffs, liveness, heard >>

\* The estimate that p returns to the server, an Option.
Returned(p) ==
    IF Handled(p, "ClientStats") THEN Candidate(p.client, p.run, p.observation) ELSE {}

CommitOffset(p) ==
    IF Returned(p) # {}
    THEN offsets' = commit_offset(p.client, p.run, CHOOSE e \in Returned(p) : TRUE)
    ELSE UNCHANGED offsets

\* A frame is handed to the queue and stored.
FrameQueued(p) ==
    /\ MaxFrames # 0
    /\ \/ Handled(p, "VideoFrame")
       \/ Handled(p, "VideoFrameFragment") /\ FragmentResult(p) = "FrameComplete"

\* The counters that observe_continuous_iteration bumps for p.
CountedFor(p) ==
    {"iterations_completed", "packets_received"}
    \cup (IF GateOutcome(p) = "Accepted" THEN {"accepted_packets"} ELSE {"rejected_packets"})
    \cup { pair[2] : pair \in { x \in
             { << "AuthRequest", "auth_requests_received" >>,
               << "Heartbeat", "heartbeats_received" >>,
               << "ClientStats", "client_stats_received" >> } : Handled(p, x[1]) } }
    \cup (IF Returned(p) # {} THEN {"heartbeat_observations_committed"} ELSE {})
    \cup (IF FrameQueued(p) THEN {"frames_queued"} ELSE {})
    \cup { IF item.type = "AuthResponse" THEN "auth_responses_sent" ELSE "heartbeat_acks_sent" :
           item \in Dequeued(p) }

\* One iteration that received p and completes.
CompleteIteration(p) ==
    /\ ProcessPacket(p)
    /\ Dequeue(p)
    /\ Sends(p)
    /\ CommitHeartbeat(p)
    /\ CommitOffset(p)
    /\ count' = Bump(CountedFor(p))
    /\ report' = summarize_heartbeat_timeouts(registry', liveness')
    /\ pc' = "Drain"
    /\ drain' = drain + 1
    /\ index' = index + 1
    /\ UNCHANGED result

Registers_RolledBack(p) ==
    IF Handled(p, "AuthRequest")
    THEN registry' = MapRemove(registry, p.client) /\ UNCHANGED << granted, queueVars, reassembly >>
    ELSE UNCHANGED vars

\* The part of the packet's effect that precedes the answer.
Registers(p) == IF Handled(p, "AuthRequest") THEN ReceiveAuthRequest(p) ELSE UNCHANGED vars

\* An iteration that fails on the way ends the run; what happened before the
\* failure stays: a registration precedes the log and the send, a dequeue the
\* send.  Nothing is committed or counted after it.
FailIteration(p) ==
    /\ \/ /\ "ReceiveLog" \in Failures
          /\ UNCHANGED << vars, outbound, acks >>
       \/ /\ "AuthLog" \in Failures
          /\ Handled(p, "AuthRequest")
          /\ Registers(p)
          /\ UNCHANGED << outbound, acks >>
       \/ /\ "Send" \in Failures
          /\ Dequeued(p) # {}
          /\ Registers(p)
          /\ Dequeue(p)
          /\ UNCHANGED acks
       \/ /\ "SendLog" \in Failures
          /\ Dequeued(p) # {}
          /\ Registers(p)
          /\ Dequeue(p)
          /\ Sends(p)
    /\ Ends("Err")
    /\ UNCHANGED << heartbeatVars, heard, drain, index, count, report >>

Receive(p) ==
    /\ pc = "Receive"
    /\ CompleteIteration(p) \/ FailIteration(p)
    /\ last_packet' = clock
    /\ UNCHANGED << clock, stamp, nonblocking >>

\* A heartbeat sent at some time up to now, possibly a repeated one.
ReceiveHeartbeat ==
    \E s \in Senders, t \in Epoch .. clock :
        Receive([type |-> "Heartbeat", source |-> s.source, client |-> s.client, run |-> s.run,
                 sent |-> t + Skew])

\* Statistics of a client, with what some earlier ack told it and the time it
\* received that ack, or without.
Observation(c, r) ==
    {{}} \cup
    UNION { { {[echoed |-> a.echoed, received |-> a.received, sent |-> a.sent,
                client_received |-> t + Skew]} : t \in a.at .. clock } :
            a \in { x \in acks : x.client = c /\ x.run = r } }

ReceiveClientStats ==
    \E s \in Senders : \E o \in Observation(s.client, s.run) :
        Receive([type |-> "ClientStats", source |-> s.source, client |-> s.client, run |-> s.run,
                 observation |-> o])

ReceivePacket == \E p \in Packets : Receive(p)

\* Time passes while the receive is blocked.
Tick ==
    /\ pc = "Receive"
    /\ ~NothingArrived
    /\ clock < MaxClock
    /\ clock' = clock + 1
    /\ UNCHANGED << stamp, pc, drain, nonblocking, index, count, report, result >>
    /\ LeavesState

Stopped == pc = "Done" /\ UNCHANGED allVars

ServerStep ==
    \/ BeginCycle
    \/ BeginIteration
    \/ StopAtLimit
    \/ EndCycle
    \/ ReceiveTimesOut

ReceiveSendNext ==
    \/ ServerStep
    \/ ReceiveFails
    \/ ReceivePacket
    \/ ReceiveHeartbeat
    \/ ReceiveClientStats
    \/ Tick
    \/ Stopped

\* The thread runs, time passes, and a blocked receive returns at its timeout.
\* Packets need not arrive.
ReceiveSendSpec ==
    /\ ReceiveSendInit
    /\ [][ReceiveSendNext]_allVars
    /\ WF_allVars(ServerStep)
    /\ WF_allVars(Tick)

---------------------------------------------------------------------------
(***************************************************************************)
(* Properties.                                                             *)
(***************************************************************************)

\* What the runtime does to the registry, the reassembly and the queue, failed
\* iterations included, is what the video core of VideoIngest may do: all that
\* is shown of the core holds here.
ImplementsVideoIngest == Spec

\* Whoever the server believes alive, and whoever it keeps an exchange or an
\* estimate of, has authenticated with that very run, and the heartbeat came
\* from the endpoint of such an authentication: neither an unauthenticated
\* heartbeat nor one of another endpoint leaves a trace.
OnlyAuthenticatedHeartbeats ==
    /\ \A c \in DOMAIN liveness :
         \E g \in granted : /\ g.client = c
                            /\ g.run = liveness[c].run
                            /\ g.source = liveness[c].source
    /\ \A k \in DOMAIN handoffs : \E g \in granted : g.client = k[1] /\ g.run = k[2]
    /\ \A c \in DOMAIN offsets : \E g \in granted : g.client = c /\ g.run = offsets[c].run

\* The bounds of an estimate's error, doubled: the true offset is -Skew; half
\* the round trip is lost to asymmetry, a rounding to the division, and up to
\* ReceiveTimeout to a timestamp that was read before the receive blocked.
ErrorWithinBounds(e) ==
    /\ 2 * (e.offset + Skew) <= e.rtt + 1
    /\ -(e.rtt + 2 * ReceiveTimeout + 1) <= 2 * (e.offset + Skew)

\* The latest offset of a client is wrong by no more than that, although
\* heartbeats, acks and statistics are delayed, repeated and reordered: an
\* observation is only used with the timestamps of its own exchange.
OffsetErrorBounded == \A c \in DOMAIN offsets : ErrorWithinBounds(offsets[c].latest)

Between(x, a, b) == (a <= x /\ x <= b) \/ (b <= x /\ x <= a)

\* A smoothed estimate moves from where it was toward the new sample and never
\* past it, and starts at the sample when the run is a new one: nothing of an
\* earlier run's estimate survives.
SmoothingStaysBetween ==
    [][\A c \in DOMAIN offsets' :
         LET new == offsets'[c]
         IN  \/ c \in DOMAIN offsets /\ offsets[c] = new
             \/ /\ SameRun(c, new.run)
                /\ Between(new.smoothed.rtt, offsets[c].smoothed.rtt, new.latest.rtt)
                /\ Between(new.smoothed.offset, offsets[c].smoothed.offset, new.latest.offset)
             \/ ~SameRun(c, new.run) /\ new.smoothed = new.latest
      ]_allVars

\* A client that is reported as timed out was silent for the heartbeat timeout
\* less one receive timeout, and one that was silent for the heartbeat timeout
\* plus a receive timeout is reported, by the iteration that looks.
TimeoutReportIsAccurate ==
    \A r \in report, timeout \in HeartbeatTimeout :
        /\ \A c \in r.timed_out : r.now - heard[c] >= timeout - ReceiveTimeout
        /\ \A c \in r.evaluated \cap DOMAIN heard :
             r.now - heard[c] >= timeout + ReceiveTimeout => c \in r.timed_out

\* The run gives up only after a whole receive timeout without a datagram,
\* whatever mode the previous cycles left the socket in.
StopsOnlyAfterSilence ==
    result = "ReceiveTimedOut" => clock - last_packet >= ReceiveTimeout

\* Every heartbeat taken in is acknowledged, and every client that is let in
\* is told, in the iteration that received the packet: nothing is ever left in
\* the outbound queue for a later iteration to send.
AnsweredInItsIteration ==
    /\ outbound = << >>
    /\ count["heartbeats_received"] = count["heartbeat_acks_sent"]
    /\ result # "Err" => Cardinality(DOMAIN registry) <= count["auth_responses_sent"]

\* The summary's counters account for each other: every attempt but the
\* current or failed one is completed, and is a counted iteration or an empty
\* receive; every packet is accepted or rejected.
CountersAddUp ==
    /\ count["iterations_completed"] = index + count["receive_would_block_count"]
    /\ count["iterations_attempted"] - count["iterations_completed"] \in
            (IF pc = "Receive" THEN {1} ELSE IF result = "Err" THEN {0, 1} ELSE {0})
    /\ count["packets_received"] = count["accepted_packets"] + count["rejected_packets"]
    /\ result # "Err" => count["packets_received"] =
            index - (IF result \in {"ReceiveTimedOut", "SocketReceiveFailed"} THEN 1 ELSE 0)

\* What the loop reports is what it did: the timeouts it announces, the reason
\* it stops for, the answers it owes and the counters of its summary.
ReceiveSendInvariant ==
    /\ ReceiveSendTypeOK
    /\ TimeoutReportIsAccurate
    /\ StopsOnlyAfterSilence
    /\ AnsweredInItsIteration
    /\ CountersAddUp

\* With a limit on the iterations the run ends.
RuntimeEnds == MaxIterations # {} => <>(pc = "Done")

\* The server_received_at of an ack is when the server received the heartbeat
\* (docs/architecture/protocol.md), so it is not before the client sent it.
ReceivedAfterSent == \A a \in acks : a.received >= a.echoed - Skew

===========================================================================
