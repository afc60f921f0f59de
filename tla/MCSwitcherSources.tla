------------------------- MODULE MCSwitcherSources --------------------------
(***************************************************************************)
(* Where the switcher gets its pictures from, each component explored on its *)
(* own: `running` names it, the variables of the others are off.           *)
(***************************************************************************)
EXTENDS Integers, Sequences

CONSTANTS Left, Right, Other, e1, e2   \* the clients of the live view, endpoints

P1 == <<"p1">>
P2 == <<"p2">>
R1 == <<"r1">>

\* What p1 and p2 send: one a microsecond behind the server, one ahead.
Captured(c, id) ==
  [client |-> c, run |-> R1, id |-> id, stamp |-> id, key |-> id = 1, source |-> "s",
   payload |-> <<[source |-> "s", stamp |-> id, index |-> 0, len |-> 1]>>]
ThreeAndTwo == { Captured(P1, id) : id \in 1 .. 3 } \cup { Captured(P2, id) : id \in 1 .. 2 }
TwoViews == << [client |-> P1, run |-> R1], [client |-> P2, run |-> R1] >>
TwoOffsets == [c \in {P1, P2} |-> IF c = P1 THEN 1 ELSE -1]

\* Key pictures and others, of the size asked for or not, and what is refused.
In(nals, width, size, scaled) == [nals |-> nals, width |-> width, size |-> size, scaled |-> scaled]
PersistentInputs ==
  {In(<<7, 8, 5>>, 1, 1, FALSE), In(<<1>>, 1, 1, FALSE), In(<<7, 8, 5>>, 1, 2, FALSE),
   In(<<9, 7, 8, 5>>, 2, 1, FALSE), In(<<>>, 1, 1, FALSE), In(<<5>>, 0, 1, FALSE), In(<<7, 8, 5>>, 1, 2, TRUE)}

\* The left client of the live view is a unit behind, the right one in step.
LiveOffset == [c \in {Left, Right, Other} |-> IF c = Left THEN 1 ELSE 0]

VARIABLES
  running,   \* the component explored
  queue, arrived, target, rt, cache, sess, ff, wr, rd, main, shown, hist,
  retained, job, results, taken, dropped, phase, registry, auth,
  packets_read, tick, items, selection, outcome, draws, summary,
  stop_reason, call, runtime, reader, reply, proc, faults, finished

allVars == <<running, queue, arrived, target, rt, cache, sess, ff, wr, rd,
             main, shown, hist, retained, job, results, taken, dropped,
             phase, registry, auth, packets_read, tick, items, selection,
             outcome, draws, summary, stop_reason, call, runtime, reader,
             reply, proc, faults, finished>>

\* Slot 0 alone: three frames through threads, channel and pipes.
Decoder == INSTANCE ContinuousDecoder WITH
  MaxFrame <- 3, MaxOther <- 0, KeyIds <- {1}, ServerBound <- 1,
  QueueBound <- 2, AllowedLag <- 1, FeedPerAttempt <- 2, PipeBound <- 1,
  MaxSkips <- 0, SuppressOneShot <- TRUE, ProgramFirst <- FALSE,
  RefreshBudget <- 0
\* The other slot's one-shot decodes under a preview budget.
Budget == INSTANCE ContinuousDecoder WITH
  MaxFrame <- 1, MaxOther <- 2, KeyIds <- {1}, ServerBound <- 1,
  QueueBound <- 1, AllowedLag <- 1, FeedPerAttempt <- 1, PipeBound <- 1,
  MaxSkips <- 0, SuppressOneShot <- FALSE, ProgramFirst <- TRUE,
  RefreshBudget <- 1
InProcess == INSTANCE TargetTimeSource WITH
  Clients <- {P1, P2}, Runs <- {R1}, Sources <- {"s"}, FrameIds <- 1 .. 3,
  Stamps <- 1 .. 3, MaxFrames <- 2, Views <- TwoViews, Offsets <- TwoOffsets,
  Targets <- {1, 2, 3, 5}, MaxLate <- 1, Handoff <- FALSE,
  Incoming <- ThreeAndTwo
Handoff == INSTANCE TargetTimeSource WITH
  Clients <- {P1, P2}, Runs <- {R1}, Sources <- {"s"}, FrameIds <- 1 .. 3,
  Stamps <- 1 .. 3, MaxFrames <- 2, Views <- TwoViews, Offsets <- TwoOffsets,
  Targets <- 1 .. 3, MaxLate <- 1, Handoff <- TRUE, Incoming <- ThreeAndTwo
Live == INSTANCE LiveTwoView WITH
  Sources <- {e1, e2}, Stamps <- 1 .. 4, Offset <- LiveOffset, Delay <- 1,
  MaxLate <- 1, MaxEarly <- 1, MinBuffer <- 1, QueueCapacity <- 2,
  AuthPackets <- 2, SourcePackets <- 3, TickPackets <- 2, MaxTicks <- 2,
  MaxRendered <- 1, StartTime <- 3, TickInterval <- 1
\* Three payloads through the persistent process; sizes may disagree.
Persistent == INSTANCE FfmpegDecode WITH
  ConfigEnabled <- TRUE, Inputs <- PersistentInputs, MaxCalls <- 3,
  Delay <- 0, Procs <- {1, 2}, Faults <- 1
OneShot == INSTANCE FfmpegDecode WITH
  ConfigEnabled <- FALSE, Inputs <- PersistentInputs, MaxCalls <- 2,
  Delay <- 1, Procs <- {1, 2}, Faults <- 1

\* The state of a component that is not explored.
Off == "off"

Init ==
  \/ /\ running = "decoder" /\ Decoder!Init
     /\ retained = Off /\ job = Off /\ results = Off /\ taken = Off
     /\ dropped = Off /\ phase = Off /\ registry = Off /\ auth = Off
     /\ packets_read = Off /\ tick = Off /\ items = Off /\ selection = Off
     /\ outcome = Off /\ draws = Off /\ summary = Off /\ stop_reason = Off
     /\ call = Off /\ runtime = Off /\ reader = Off /\ reply = Off
     /\ proc = Off /\ faults = Off /\ finished = Off
  \/ /\ running = "budget" /\ Budget!Init
     /\ retained = Off /\ job = Off /\ results = Off /\ taken = Off
     /\ dropped = Off /\ phase = Off /\ registry = Off /\ auth = Off
     /\ packets_read = Off /\ tick = Off /\ items = Off /\ selection = Off
     /\ outcome = Off /\ draws = Off /\ summary = Off /\ stop_reason = Off
     /\ call = Off /\ runtime = Off /\ reader = Off /\ reply = Off
     /\ proc = Off /\ faults = Off /\ finished = Off
  \/ /\ running = "in process" /\ InProcess!Init
     /\ target = Off /\ rt = Off /\ cache = Off /\ sess = Off /\ ff = Off
     /\ wr = Off /\ rd = Off /\ main = Off /\ shown = Off /\ hist = Off
     /\ phase = Off /\ registry = Off /\ auth = Off /\ packets_read = Off
     /\ tick = Off /\ items = Off /\ selection = Off /\ outcome = Off
     /\ draws = Off /\ summary = Off /\ stop_reason = Off /\ call = Off
     /\ runtime = Off /\ reader = Off /\ reply = Off /\ proc = Off
     /\ faults = Off /\ finished = Off
  \/ /\ running = "handoff" /\ Handoff!Init
     /\ target = Off /\ rt = Off /\ cache = Off /\ sess = Off /\ ff = Off
     /\ wr = Off /\ rd = Off /\ main = Off /\ shown = Off /\ hist = Off
     /\ phase = Off /\ registry = Off /\ auth = Off /\ packets_read = Off
     /\ tick = Off /\ items = Off /\ selection = Off /\ outcome = Off
     /\ draws = Off /\ summary = Off /\ stop_reason = Off /\ call = Off
     /\ runtime = Off /\ reader = Off /\ reply = Off /\ proc = Off
     /\ faults = Off /\ finished = Off
  \/ /\ running = "live" /\ Live!Init
     /\ arrived = Off /\ target = Off /\ rt = Off /\ cache = Off
     /\ sess = Off /\ ff = Off /\ wr = Off /\ rd = Off /\ main = Off
     /\ shown = Off /\ hist = Off /\ retained = Off /\ job = Off
     /\ results = Off /\ taken = Off /\ dropped = Off /\ call = Off
     /\ runtime = Off /\ reader = Off /\ reply = Off /\ proc = Off
     /\ faults = Off /\ finished = Off
  \/ /\ running = "persistent" /\ Persistent!Init
     /\ queue = Off /\ arrived = Off /\ target = Off /\ rt = Off
     /\ cache = Off /\ sess = Off /\ ff = Off /\ wr = Off /\ rd = Off
     /\ main = Off /\ shown = Off /\ hist = Off /\ retained = Off
     /\ job = Off /\ results = Off /\ taken = Off /\ dropped = Off
     /\ phase = Off /\ registry = Off /\ auth = Off /\ packets_read = Off
     /\ tick = Off /\ items = Off /\ selection = Off /\ outcome = Off
     /\ draws = Off /\ summary = Off /\ stop_reason = Off
  \/ /\ running = "one shot" /\ OneShot!Init
     /\ queue = Off /\ arrived = Off /\ target = Off /\ rt = Off
     /\ cache = Off /\ sess = Off /\ ff = Off /\ wr = Off /\ rd = Off
     /\ main = Off /\ shown = Off /\ hist = Off /\ retained = Off
     /\ job = Off /\ results = Off /\ taken = Off /\ dropped = Off
     /\ phase = Off /\ registry = Off /\ auth = Off /\ packets_read = Off
     /\ tick = Off /\ items = Off /\ selection = Off /\ outcome = Off
     /\ draws = Off /\ summary = Off /\ stop_reason = Off

Next ==
  \/ /\ running = "decoder" /\ Decoder!Next
     /\ UNCHANGED <<running, retained, job, results, taken, dropped,
                     phase, registry, auth, packets_read, tick, items,
                     selection, outcome, draws, summary, stop_reason,
                     call, runtime, reader, reply, proc, faults,
                     finished>>
  \/ /\ running = "budget" /\ Budget!Next
     /\ UNCHANGED <<running, retained, job, results, taken, dropped,
                     phase, registry, auth, packets_read, tick, items,
                     selection, outcome, draws, summary, stop_reason,
                     call, runtime, reader, reply, proc, faults,
                     finished>>
  \/ /\ running = "in process" /\ InProcess!Next
     /\ UNCHANGED <<running, target, rt, cache, sess, ff, wr, rd, main,
                     shown, hist, phase, registry, auth, packets_read,
                     tick, items, selection, outcome, draws, summary,
                     stop_reason, call, runtime, reader, reply, proc,
                     faults, finished>>
  \/ /\ running = "handoff" /\ Handoff!Next
     /\ UNCHANGED <<running, target, rt, cache, sess, ff, wr, rd, main,
                     shown, hist, phase, registry, auth, packets_read,
                     tick, items, selection, outcome, draws, summary,
                     stop_reason, call, runtime, reader, reply, proc,
                     faults, finished>>
  \/ /\ running = "live" /\ Live!Next
     /\ UNCHANGED <<running, arrived, target, rt, cache, sess, ff, wr,
                     rd, main, shown, hist, retained, job, results,
                     taken, dropped, call, runtime, reader, reply, proc,
                     faults, finished>>
  \/ /\ running = "persistent" /\ Persistent!Next
     /\ UNCHANGED <<running, queue, arrived, target, rt, cache, sess,
                     ff, wr, rd, main, shown, hist, retained, job,
                     results, taken, dropped, phase, registry, auth,
                     packets_read, tick, items, selection, outcome,
                     draws, summary, stop_reason>>
  \/ /\ running = "one shot" /\ OneShot!Next
     /\ UNCHANGED <<running, queue, arrived, target, rt, cache, sess,
                     ff, wr, rd, main, shown, hist, retained, job,
                     results, taken, dropped, phase, registry, auth,
                     packets_read, tick, items, selection, outcome,
                     draws, summary, stop_reason>>

Spec == Init /\ [][Next]_allVars

ASSUME InstancesAssumption ==
  /\ Decoder!DecoderAssumption /\ Budget!DecoderAssumption
  /\ InProcess!TargetTimeAssumption /\ Handoff!TargetTimeAssumption
  /\ Live!LiveTwoViewAssumption
  /\ Persistent!DecodeAssumption /\ OneShot!DecodeAssumption

-----------------------------------------------------------------------------
\* What the continuous decoder caches, queues, answers and counts agrees,
\* whichever of its threads is ahead; the other decoders answer a call with its
\* own picture, by one process, and leave nothing behind.
DecoderInvariant ==
  /\ running = "decoder" => Decoder!DecoderInvariant
  /\ running = "persistent" => Persistent!DecodeInvariant
  /\ running = "one shot" => OneShot!DecodeInvariant

\* A selection at a target time takes what is due, and only what it reports,
\* as far as the handoff lets it know.
SelectionInvariant ==
  /\ running = "in process" => InProcess!InProcessInvariant
  /\ running = "handoff" => Handoff!SelectionInvariant

\* What a live two-view run shows, draws and reports agrees with what it
\* received.
LiveTwoViewInvariant == running = "live" => Live!LiveTwoViewInvariant

\* Preview decodes stay within their budget, frames are consumed oldest first,
\* and the live view shows the frame closest to its target.
SourceSteps ==
  [][/\ running = "budget" => Budget!PreviewBudgetKept
     /\ running = "in process" => InProcess!OldestFirst
     /\ running = "live" => Live!SelectsTheClosest]_allVars
=============================================================================
