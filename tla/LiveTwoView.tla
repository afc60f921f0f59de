----------------------------- MODULE LiveTwoView -----------------------------
(***************************************************************************)
(* The switcher's direct two-view runtime: it authenticates clients on its  *)
(* own socket, then on every tick of a bounded schedule takes a bounded     *)
(* number of packets into a fresh queue, selects for each side the frame    *)
(* closest to one shared target time, decodes the two sides, composes them  *)
(* and draws the canvas.                                                    *)
(***************************************************************************)
EXTENDS Integers, Sequences, FiniteSets

CONSTANTS
  Left, Right, Other,   \* the two clients shown and one that is not
  Sources,              \* endpoints packets come from
  Stamps,               \* capture timestamps
  Offset,               \* clock offset of each client, 0 when none is configured
  Delay, MaxLate, MaxEarly, MinBuffer,
  QueueCapacity,        \* ServerVideoFrameQueuePolicy
  AuthPackets,          \* auth_setup_packets
  SourcePackets,        \* max_packets of the UDP source, over all ticks
  TickPackets,          \* max_packets of one tick
  MaxTicks, MaxRendered,
  StartTime, TickInterval

Clients == {Left, Right, Other}
Sides == {Left, Right}

LiveTwoViewAssumption ==
  /\ Stamps \subseteq Nat /\ Offset \in [Clients -> Int]
  /\ {Delay, MaxLate, MaxEarly, MinBuffer, QueueCapacity, AuthPackets, SourcePackets,
      TickPackets, MaxTicks, MaxRendered, StartTime, TickInterval} \subseteq Nat

VARIABLES
  phase,         \* "auth", "tick", "receive", "pipeline", "done"
  registry,      \* the endpoint each registered client is bound to
  auth,          \* packets_processed of the setup
  packets_read,  \* packets the source has read
  tick,
  items,         \* items this tick has taken from the source
  queue,         \* the tick's queue
  selection,     \* what the last pipeline pass selected, per side
  outcome,       \* of the last tick
  draws,         \* times the canvas was drawn
  summary,       \* SwitcherContinuousTwoViewSchedulingSummary
  stop_reason

vars == <<phase, registry, auth, packets_read, tick, items, queue, selection,
          outcome, draws, summary, stop_reason>>

Outcomes == {"rendered_both", "rendered_partial", "no_frames", "decode_failed",
             "render_not_completed"}
NoQueue == [c \in Clients |-> <<>>]
NoFrame == [stamp |-> 0, source |-> "none"]
Unselected(k) == [kind |-> k, frame |-> NoFrame]

Init ==
  /\ phase = (IF AuthPackets = 0 THEN "tick" ELSE "auth")   \* EndAuth(0)
  /\ registry = <<>>
  /\ auth = 0
  /\ packets_read = 0 /\ tick = 0 /\ items = 0
  /\ queue = NoQueue
  /\ selection = [s \in Sides |-> Unselected("none")]
  /\ outcome = "none" /\ draws = 0
  /\ summary = [k \in Outcomes |-> 0]
  /\ stop_reason = "none"

-----------------------------------------------------------------------------
(* Auth setup: run_one per packet; a receive failure ends the setup. *)

EndAuth(processed) == phase' = IF processed < AuthPackets THEN "auth" ELSE "tick"

bind(c, e) == [x \in DOMAIN registry \cup {c} |-> IF x = c THEN e ELSE registry[x]]

\* The sender is registered before the response is encoded and sent: when that
\* fails, the client is registered all the same.
AuthenticateClient ==
  /\ phase = "auth" /\ auth < AuthPackets
  /\ \E c \in Clients, e \in Sources : registry' = bind(c, e)
  /\ auth' = auth + 1
  /\ EndAuth(auth')
  /\ UNCHANGED <<packets_read, tick, items, queue, selection, outcome, draws,
                 summary, stop_reason>>

\* Refused by the auth decision, by the gate, or not an auth packet at all.
RefuseAuthPacket ==
  /\ phase = "auth" /\ auth < AuthPackets
  /\ auth' = auth + 1
  /\ EndAuth(auth')
  /\ UNCHANGED <<registry, packets_read, tick, items, queue, selection, outcome,
                 draws, summary, stop_reason>>

AuthReceiveFails ==
  /\ phase = "auth" /\ auth < AuthPackets
  /\ auth' = auth + 1
  /\ phase' = "tick"
  /\ UNCHANGED <<registry, packets_read, tick, items, queue, selection, outcome,
                 draws, summary, stop_reason>>

-----------------------------------------------------------------------------
(* The schedule. *)

counted_ticks ==
  summary["rendered_both"] + summary["rendered_partial"] + summary["no_frames"]
    + summary["decode_failed"] + summary["render_not_completed"]

rendered_frames == summary["rendered_both"] + summary["rendered_partial"]

BudgetSpent == rendered_frames >= MaxRendered

BeginTick ==
  /\ phase = "tick" /\ tick < MaxTicks /\ ~BudgetSpent
  /\ phase' = "receive" /\ items' = 0 /\ queue' = NoQueue
  /\ UNCHANGED <<registry, auth, packets_read, tick, selection, outcome, draws,
                 summary, stop_reason>>

StopTicking ==
  /\ phase = "tick" /\ (tick >= MaxTicks \/ BudgetSpent)
  /\ phase' = "done"
  /\ stop_reason' = IF BudgetSpent THEN "MaxRenderedFramesReached" ELSE "MaxTicksReached"
  /\ UNCHANGED <<registry, auth, packets_read, tick, items, queue, selection,
                 outcome, draws, summary>>

-----------------------------------------------------------------------------
(* One packet of the source. *)

\* The packet acceptance gate; an endpoint stands for endpoint and run.
GateAccepts(c, e) == c \in DOMAIN registry /\ registry[c] = e

Shown(c) == c \in Sides

\* packets_read counts timeouts, a failed receive is not counted.
Reads(kind) == IF kind = "receive_failed" THEN 0 ELSE 1

store_frame(c, f) ==
  IF QueueCapacity = 0 THEN queue[c]
  ELSE Append(IF Len(queue[c]) >= QueueCapacity THEN Tail(queue[c]) ELSE queue[c], f)

Observe(kind) ==
  /\ packets_read' = packets_read + Reads(kind)
  /\ items' = items + 1
  /\ UNCHANGED <<phase, registry, auth, tick, selection, outcome, draws, summary, stop_reason>>

MayReceive ==
  phase = "receive" /\ items < TickPackets /\ packets_read < SourcePackets

ReceiveVideoFrame ==
  /\ MayReceive
  /\ \E c \in Clients, e \in Sources, t \in Stamps :
       IF GateAccepts(c, e) /\ Shown(c)
       THEN /\ queue' = [queue EXCEPT ![c] = store_frame(c, [stamp |-> t, source |-> e])]
            /\ Observe("accepted")
       ELSE UNCHANGED queue /\ Observe("rejected")

\* A malformed packet; a fragment, a heartbeat or statistics; a timeout; an
\* error of the socket.
ReceiveSomethingElse ==
  /\ MayReceive
  /\ \E k \in {"decode_failed", "non_video", "timeout", "receive_failed"} : Observe(k)
  /\ UNCHANGED queue

\* The end of the source is only noticed by asking it for one more packet.
source_ended == items < TickPackets /\ packets_read >= SourcePackets

\* A slip: EndOfInput is passed over and the source is asked again.
InputEnded_GuardOnly == items >= TickPackets

\* The tick's guard, or EndOfInput.
InputEnded == items >= TickPackets \/ packets_read >= SourcePackets

EndReceive ==
  /\ phase = "receive" /\ InputEnded
  /\ phase' = "pipeline"
  /\ UNCHANGED <<registry, auth, packets_read, tick, items, queue, selection,
                 outcome, draws, summary, stop_reason>>

-----------------------------------------------------------------------------
(* Selection around a target time. *)

\* The schedule's clock: it advances by the interval, however long a tick takes.
now == StartTime + tick * TickInterval
Saturating(n) == IF n < 0 THEN 0 ELSE n
Distance(a, b) == IF a < b THEN b - a ELSE a - b

apply_offset_micros(t, c) == Saturating(t + Offset[c])

shared_target_time == Saturating(now - Delay)

\* The target time as select_frame computes it, with the client's offset.
target_time_of(c) == apply_offset_micros(shared_target_time, c)

Adjusted(c, i) == apply_offset_micros(queue[c][i].stamp, c)

\* A slip: the window is not limited on the early side.
InWindow_NoUpper(c, target) ==
  {i \in DOMAIN queue[c] : Adjusted(c, i) >= Saturating(target - MaxLate)}

InWindow(c, target) ==
  {i \in DOMAIN queue[c] : /\ Adjusted(c, i) >= Saturating(target - MaxLate)
                           /\ Adjusted(c, i) <= target + MaxEarly}

\* The stable sort by adjusted time, then the first of the closest.
Preferred(c, target, i, j) ==
  LET di == Distance(Adjusted(c, i), target)
      dj == Distance(Adjusted(c, j), target)
  IN \/ di < dj
     \/ di = dj /\ Adjusted(c, i) < Adjusted(c, j)
     \/ di = dj /\ Adjusted(c, i) = Adjusted(c, j) /\ i <= j

select_frame_at_target_time(c, target) ==
  LET best == {i \in InWindow(c, target) :
                 \A j \in InWindow(c, target) : Preferred(c, target, i, j)}
  IN IF queue[c] = <<>> THEN Unselected("no_frame")
     ELSE IF Len(queue[c]) < MinBuffer THEN Unselected("waiting_for_buffer")
     ELSE IF best # {} THEN [kind |-> "selected", frame |-> queue[c][CHOOSE i \in best : TRUE]]
     ELSE IF \A i \in DOMAIN queue[c] : Adjusted(c, i) > target + MaxEarly
     THEN Unselected("too_early")
     ELSE Unselected("too_late")

select_frame(c) == select_frame_at_target_time(c, target_time_of(c))
select_pair == [s \in Sides |-> select_frame_at_target_time(s, shared_target_time)]

-----------------------------------------------------------------------------
(* Decode, compose, draw. *)

Statuses == {"decoded", "deferred", "failed", "unavailable"}

\* What decode_live_side can make of a side.
SideStatus(picked) ==
  IF picked.kind = "selected" THEN Statuses \ {"unavailable"} ELSE {"unavailable"}

\* continuous_two_view_tick_outcome.  A canvas may not be composable
\* ("invalid"); drawing it may be deferred or fail ("not_drawn").
tick_outcome(status, drawn) ==
  LET decoded == {s \in Sides : status[s] = "decoded"}
  IN CASE \E s \in Sides : status[s] = "failed" -> "decode_failed"
       [] (\A s \in Sides : status[s] # "failed") /\ (decoded = {} \/ drawn = "invalid") ->
            "no_frames"
       [] (\A s \in Sides : status[s] # "failed") /\ decoded # {} /\ drawn = "not_drawn" ->
            "render_not_completed"
       [] (\A s \in Sides : status[s] # "failed") /\ decoded # {} /\ drawn = "drawn" ->
            IF decoded = Sides THEN "rendered_both" ELSE "rendered_partial"

NextTick(o) == tick + 1

RunPipeline ==
  /\ phase = "pipeline"
  /\ selection' = select_pair
  /\ \E status \in [Sides -> Statuses], drawn \in {"drawn", "not_drawn", "invalid"} :
       /\ \A s \in Sides : status[s] \in SideStatus(selection'[s])
       /\ draws' = draws + IF drawn = "drawn" /\ \E s \in Sides : status[s] = "decoded"
                           THEN 1 ELSE 0
       /\ outcome' = tick_outcome(status, drawn)
  /\ summary' = [summary EXCEPT ![outcome'] = @ + 1]
  /\ tick' = NextTick(outcome')
  /\ phase' = IF source_ended THEN "done" ELSE "tick"
  /\ stop_reason' = IF source_ended THEN "SourceEnded" ELSE stop_reason
  /\ UNCHANGED <<registry, auth, packets_read, items, queue>>

Done == phase = "done" /\ UNCHANGED vars

Works ==
  \/ AuthenticateClient \/ RefuseAuthPacket \/ AuthReceiveFails
  \/ BeginTick \/ StopTicking
  \/ ReceiveVideoFrame \/ ReceiveSomethingElse \/ EndReceive \/ RunPipeline
Next == Works \/ Done
Spec == Init /\ [][Next]_vars

\* The loop runs on one thread and every receive has a timeout.
FairSpec == Spec /\ WF_vars(Works)

-----------------------------------------------------------------------------
(* What the runtime promises. *)

Frame == [stamp : Stamps, source : Sources]

\* Types, and counters within their bounds (run_with_runtimes).
LiveTypeOK ==
  /\ phase \in {"auth", "tick", "receive", "pipeline", "done"}
  /\ DOMAIN registry \subseteq Clients /\ \A c \in DOMAIN registry : registry[c] \in Sources
  /\ auth \in 0..AuthPackets
  /\ packets_read \in 0..SourcePackets /\ tick \in 0..MaxTicks /\ items \in 0..TickPackets
  /\ \A c \in Clients : queue[c] \in Seq(Frame) /\ Len(queue[c]) <= QueueCapacity
  /\ \A s \in Sides : selection[s].kind = "selected" => selection[s].frame \in Frame
  /\ draws \in 0..MaxTicks
  /\ counted_ticks = tick

\* A step property, the reference for select_frame_at_target_time: with enough frames queued, the
\* side's frame is one inside the window around the server time the schedule
\* reached, less the delay, and no queued frame is closer; a side without one
\* has no frame in the window.
SelectsTheClosest ==
  RunPipeline =>
       \A s \in Sides :
         LET server(f) == f.stamp + Offset[s]
             frames == {queue[s][i] : i \in DOMAIN queue[s]}
             target == StartTime + tick * TickInterval - Delay
             window == {f \in frames : server(f) \in (target - MaxLate)..(target + MaxEarly)}
         IN IF Len(queue[s]) >= MinBuffer /\ window # {}
            THEN /\ selection'[s].kind = "selected" /\ selection'[s].frame \in window
                 /\ \A f \in window : Distance(server(selection'[s].frame), target)
                                        <= Distance(server(f), target)
            ELSE selection'[s].kind # "selected"

\* Two pictures shown side by side were captured at most the width of the window
\* apart, in server time, whatever the offsets of the clients (select_pair).
PairInSync ==
  (\A s \in Sides : selection[s].kind = "selected") =>
    Distance(selection[Left].frame.stamp + Offset[Left],
             selection[Right].frame.stamp + Offset[Right]) <= MaxLate + MaxEarly

\* A frame that is queued or selected came from the endpoint its client
\* authenticated from, and from one of the two clients shown (receive_next,
\* map_accepted_route).
ShownIsAuthenticated ==
  \A c \in Clients :
    /\ queue[c] # <<>> => c \in Sides
    /\ \A i \in DOMAIN queue[c] : c \in DOMAIN registry /\ queue[c][i].source = registry[c]
    /\ c \in Sides /\ selection[c].kind = "selected" =>
         c \in DOMAIN registry /\ selection[c].frame.source = registry[c]

\* The canvas is drawn at most MaxRendered times, plus once for every tick in
\* which one side failed to decode while the other was shown: such a tick is
\* drawn but not counted as rendered (continuous_two_view_tick_outcome).
DrawsAreBudgeted ==
  /\ rendered_frames <= draws
  /\ draws <= MaxRendered + summary["decode_failed"]
  /\ draws <= rendered_frames + summary["decode_failed"]

\* The stop reason tells what happened, and a source that was already empty when
\* a tick began ends the schedule with that tick (run_with_runtimes).
StopReasonIsTrue ==
  /\ stop_reason = "SourceEnded" => packets_read = SourcePackets /\ items < TickPackets
  /\ stop_reason = "MaxTicksReached" => tick = MaxTicks /\ rendered_frames < MaxRendered
  /\ stop_reason = "MaxRenderedFramesReached" => rendered_frames = MaxRendered
  /\ phase = "tick" /\ tick > 0 => items = TickPackets
  /\ phase = "done" <=> stop_reason # "none"

\* What a live two-view run shows, draws and reports agrees with what it received.
LiveTwoViewInvariant ==
  /\ LiveTypeOK /\ PairInSync /\ ShownIsAuthenticated
  /\ DrawsAreBudgeted /\ StopReasonIsTrue

\* SwitcherTargetTime (lib.rs:5036): the target time is in the switcher/server
\* time domain, so a frame selected for one client was captured, in server
\* time, inside the window around now less the delay.
TargetInServerTime ==
  phase = "pipeline" =>
    \A c \in Sides :
      select_frame(c).kind = "selected" =>
        select_frame(c).frame.stamp + Offset[c]
          \in (now - Delay - MaxLate)..(now - Delay + MaxEarly)

\* The schedule ends, whatever arrives or fails to arrive.
Finishes == <>(phase = "done")
=============================================================================
