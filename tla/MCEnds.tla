------------------------------- MODULE MCEnds -------------------------------
(***************************************************************************)
(* Does what must happen happen?  Small instances of the components with   *)
(* loops, threads and processes, each explored on its own (`running` names *)
(* it, the variables of the others are off) under its own fairness.        *)
(***************************************************************************)
EXTENDS Naturals, Sequences

CONSTANTS r1, s1, Left, Right, Other, e1   \* runs, endpoints and clients

StatusLine == [name |-> "status", args |-> <<>>]
DecodeInputs == { [nals |-> nals, width |-> 1, size |-> size, scaled |-> FALSE] :
                  nals \in {<<7, 8, 5>>, <<1>>}, size \in {1, 2} }

VARIABLES
  running,   \* the component explored
  now, counters, carry, stop, pc, step, runner, metrics, cadence, flight,
  inbox, acked, streak, registry, liveness, notices, loop, tally, own,
  heard, auths, phase, attempts, count, wait, unit, sent, session, encoder,
  pipe, buffer, auth, packets_read, tick, items, queue, selection, outcome,
  draws, summary, stop_reason, arrived, target, rt, cache, sess, ff, wr,
  rd, main, shown, hist, view, totals, window, sender, guard, wrapper,
  faults, pressed, done, call, runtime, reader, reply, proc, finished

allVars == <<running, now, counters, carry, stop, pc, step, runner, metrics,
             cadence, flight, inbox, acked, streak, registry, liveness,
             notices, loop, tally, own, heard, auths, phase, attempts, count,
             wait, unit, sent, session, encoder, pipe, buffer, auth,
             packets_read, tick, items, queue, selection, outcome, draws,
             summary, stop_reason, arrived, target, rt, cache, sess, ff, wr,
             rd, main, shown, hist, view, totals, window, sender, guard,
             wrapper, faults, pressed, done, call, runtime, reader, reply,
             proc, finished>>

\* The stop flag may be set at any time; answers are lost or doubled.
Client == INSTANCE ClientHeartbeat WITH
  Interval <- 2, AckTimeout <- 0, SocketTimeout <- 1, MaxSleep <- 2,
  MaxAttempts <- 2, RetryDelay <- 1, MaxHeartbeats <- 2, MaxMissedAcks <- 0,
  StatsReturn <- FALSE, ExportInterval <- 2, MaxTurns <- 2,
  Copies <- {0, 1, 2}, InOrder <- TRUE, MaxNow <- 5, MaxStep <- 2,
  MaxSendFailures <- 1
\* Clients fall silent at 2; the log may fail whenever it is written.
Sweep == INSTANCE HeartbeatSweep WITH
  Clients <- {1, 2}, Runs <- {r1}, Sources <- {s1}, Timeout <- 2,
  TickInterval <- 2, ExportInterval <- 0, MaxTicks <- 0, MaxAttempts <- 2,
  RetryDelay <- 1, QueueCap <- 1, LogMayFail <- TRUE, MaxNow <- 6,
  QuietAfter <- 2, MaxAuths <- 2, MaxRejections <- 0
\* The pipe holds every picture of the run.
Encoder == INSTANCE EncodeSendLoop WITH
  Persistent <- TRUE, MaxFrames <- 2, MaxTicks <- 4, Interval <- 0,
  DeadlineMode <- FALSE, FrameWait <- 0, StopOnCaptureFailure <- TRUE,
  StopOnSendFailure <- TRUE, Faults <- TRUE, Delays <- {0}, Sizes <- {1, 2},
  ReadLen <- 2, PipeSize <- 8, Hold <- 0, Ahead <- 1
\* Whatever arrives, and when nothing does.
Live == INSTANCE LiveTwoView WITH
  Left <- Left, Right <- Right, Other <- Other, Sources <- {e1},
  Stamps <- {1, 4},
  Offset <- [c \in {Left, Right, Other} |-> IF c = Left THEN 1 ELSE 0],
  Delay <- 1, MaxLate <- 1, MaxEarly <- 1, MinBuffer <- 1,
  QueueCapacity <- 1, AuthPackets <- 2, SourcePackets <- 3, TickPackets <- 2,
  MaxTicks <- 3, MaxRendered <- 2, StartTime <- 3, TickInterval <- 1
\* The process may end at any time.
Decoder == INSTANCE ContinuousDecoder WITH
  MaxFrame <- 2, MaxOther <- 0, KeyIds <- {1}, ServerBound <- 1,
  QueueBound <- 1, AllowedLag <- 1, FeedPerAttempt <- 1, PipeBound <- 1,
  MaxSkips <- 0, SuppressOneShot <- FALSE, ProgramFirst <- FALSE,
  RefreshBudget <- 0
\* Two senders, of which one may be killed.
Control == INSTANCE ControlledPreview WITH
  Source <- "pipe", StartView <- {}, Script <- <<>>, Lines <- {StatusLine},
  Keys <- {StatusLine}, MaxInputs <- 1, Ticks <- 1,
  Reads <- {[s \in 0..3 |-> "none"]}, QuitWindow <- 1, MaxNow <- 0,
  Faults <- 1
\* The process may die at any time.
Persistent == INSTANCE FfmpegDecode WITH
  ConfigEnabled <- TRUE, Inputs <- DecodeInputs, MaxCalls <- 2, Delay <- 1,
  Procs <- {1, 2}, Faults <- 1

\* The state of a component that is not explored.
Off == "off"

Init ==
  \/ /\ running = "client" /\ Client!Init
     /\ registry = Off /\ liveness = Off /\ notices = Off /\ loop = Off
     /\ tally = Off /\ own = Off /\ heard = Off /\ auths = Off /\ phase = Off
     /\ attempts = Off /\ count = Off /\ wait = Off /\ unit = Off
     /\ sent = Off /\ session = Off /\ encoder = Off /\ pipe = Off
     /\ buffer = Off /\ auth = Off /\ packets_read = Off /\ tick = Off
     /\ items = Off /\ queue = Off /\ selection = Off /\ outcome = Off
     /\ draws = Off /\ summary = Off /\ stop_reason = Off /\ arrived = Off
     /\ target = Off /\ rt = Off /\ cache = Off /\ sess = Off /\ ff = Off
     /\ wr = Off /\ rd = Off /\ main = Off /\ shown = Off /\ hist = Off
     /\ view = Off /\ totals = Off /\ window = Off /\ sender = Off
     /\ guard = Off /\ wrapper = Off /\ faults = Off /\ pressed = Off
     /\ done = Off /\ call = Off /\ runtime = Off /\ reader = Off
     /\ reply = Off /\ proc = Off /\ finished = Off
  \/ /\ running = "sweep" /\ Sweep!Init
     /\ counters = Off /\ carry = Off /\ pc = Off /\ step = Off
     /\ runner = Off /\ cadence = Off /\ flight = Off /\ inbox = Off
     /\ acked = Off /\ streak = Off /\ phase = Off /\ attempts = Off
     /\ count = Off /\ wait = Off /\ unit = Off /\ sent = Off
     /\ session = Off /\ encoder = Off /\ pipe = Off /\ buffer = Off
     /\ auth = Off /\ packets_read = Off /\ tick = Off /\ items = Off
     /\ queue = Off /\ selection = Off /\ outcome = Off /\ draws = Off
     /\ summary = Off /\ stop_reason = Off /\ arrived = Off /\ target = Off
     /\ rt = Off /\ cache = Off /\ sess = Off /\ ff = Off /\ wr = Off
     /\ rd = Off /\ main = Off /\ shown = Off /\ hist = Off /\ view = Off
     /\ totals = Off /\ window = Off /\ sender = Off /\ guard = Off
     /\ wrapper = Off /\ faults = Off /\ pressed = Off /\ done = Off
     /\ call = Off /\ runtime = Off /\ reader = Off /\ reply = Off
     /\ proc = Off /\ finished = Off
  \/ /\ running = "encoder" /\ Encoder!Init
     /\ counters = Off /\ carry = Off /\ pc = Off /\ step = Off
     /\ runner = Off /\ metrics = Off /\ cadence = Off /\ flight = Off
     /\ inbox = Off /\ acked = Off /\ streak = Off /\ registry = Off
     /\ liveness = Off /\ notices = Off /\ loop = Off /\ tally = Off
     /\ own = Off /\ heard = Off /\ auths = Off /\ auth = Off
     /\ packets_read = Off /\ tick = Off /\ items = Off /\ queue = Off
     /\ selection = Off /\ outcome = Off /\ draws = Off /\ summary = Off
     /\ stop_reason = Off /\ arrived = Off /\ target = Off /\ rt = Off
     /\ cache = Off /\ sess = Off /\ ff = Off /\ wr = Off /\ rd = Off
     /\ main = Off /\ shown = Off /\ hist = Off /\ view = Off /\ totals = Off
     /\ window = Off /\ sender = Off /\ guard = Off /\ wrapper = Off
     /\ faults = Off /\ pressed = Off /\ done = Off /\ call = Off
     /\ runtime = Off /\ reader = Off /\ reply = Off /\ proc = Off
     /\ finished = Off
  \/ /\ running = "live" /\ Live!Init
     /\ now = Off /\ counters = Off /\ carry = Off /\ stop = Off /\ pc = Off
     /\ step = Off /\ runner = Off /\ metrics = Off /\ cadence = Off
     /\ flight = Off /\ inbox = Off /\ acked = Off /\ streak = Off
     /\ liveness = Off /\ notices = Off /\ loop = Off /\ tally = Off
     /\ own = Off /\ heard = Off /\ auths = Off /\ attempts = Off
     /\ count = Off /\ wait = Off /\ unit = Off /\ sent = Off
     /\ session = Off /\ encoder = Off /\ pipe = Off /\ buffer = Off
     /\ arrived = Off /\ target = Off /\ rt = Off /\ cache = Off
     /\ sess = Off /\ ff = Off /\ wr = Off /\ rd = Off /\ main = Off
     /\ shown = Off /\ hist = Off /\ view = Off /\ totals = Off
     /\ window = Off /\ sender = Off /\ guard = Off /\ wrapper = Off
     /\ faults = Off /\ pressed = Off /\ done = Off /\ call = Off
     /\ runtime = Off /\ reader = Off /\ reply = Off /\ proc = Off
     /\ finished = Off
  \/ /\ running = "decoder" /\ Decoder!Init
     /\ now = Off /\ counters = Off /\ carry = Off /\ stop = Off /\ pc = Off
     /\ step = Off /\ runner = Off /\ metrics = Off /\ cadence = Off
     /\ flight = Off /\ inbox = Off /\ acked = Off /\ streak = Off
     /\ registry = Off /\ liveness = Off /\ notices = Off /\ loop = Off
     /\ tally = Off /\ own = Off /\ heard = Off /\ auths = Off /\ phase = Off
     /\ attempts = Off /\ count = Off /\ wait = Off /\ unit = Off
     /\ sent = Off /\ session = Off /\ encoder = Off /\ pipe = Off
     /\ buffer = Off /\ auth = Off /\ packets_read = Off /\ tick = Off
     /\ items = Off /\ selection = Off /\ outcome = Off /\ draws = Off
     /\ summary = Off /\ stop_reason = Off /\ view = Off /\ totals = Off
     /\ window = Off /\ sender = Off /\ guard = Off /\ wrapper = Off
     /\ faults = Off /\ pressed = Off /\ done = Off /\ call = Off
     /\ runtime = Off /\ reader = Off /\ reply = Off /\ proc = Off
     /\ finished = Off
  \/ /\ running = "control" /\ Control!Init
     /\ counters = Off /\ carry = Off /\ stop = Off /\ pc = Off /\ step = Off
     /\ runner = Off /\ metrics = Off /\ cadence = Off /\ flight = Off
     /\ inbox = Off /\ acked = Off /\ streak = Off /\ registry = Off
     /\ liveness = Off /\ notices = Off /\ tally = Off /\ own = Off
     /\ heard = Off /\ auths = Off /\ phase = Off /\ attempts = Off
     /\ count = Off /\ wait = Off /\ unit = Off /\ sent = Off
     /\ session = Off /\ encoder = Off /\ buffer = Off /\ auth = Off
     /\ packets_read = Off /\ tick = Off /\ items = Off /\ queue = Off
     /\ selection = Off /\ outcome = Off /\ draws = Off /\ summary = Off
     /\ stop_reason = Off /\ arrived = Off /\ target = Off /\ rt = Off
     /\ cache = Off /\ sess = Off /\ ff = Off /\ wr = Off /\ rd = Off
     /\ main = Off /\ shown = Off /\ hist = Off /\ call = Off
     /\ runtime = Off /\ reader = Off /\ reply = Off /\ proc = Off
     /\ finished = Off
  \/ /\ running = "persistent" /\ Persistent!Init
     /\ now = Off /\ counters = Off /\ carry = Off /\ stop = Off /\ pc = Off
     /\ step = Off /\ runner = Off /\ metrics = Off /\ cadence = Off
     /\ flight = Off /\ inbox = Off /\ acked = Off /\ streak = Off
     /\ registry = Off /\ liveness = Off /\ notices = Off /\ loop = Off
     /\ tally = Off /\ own = Off /\ heard = Off /\ auths = Off /\ phase = Off
     /\ attempts = Off /\ count = Off /\ wait = Off /\ unit = Off
     /\ sent = Off /\ session = Off /\ encoder = Off /\ pipe = Off
     /\ buffer = Off /\ auth = Off /\ packets_read = Off /\ tick = Off
     /\ items = Off /\ queue = Off /\ selection = Off /\ outcome = Off
     /\ draws = Off /\ summary = Off /\ stop_reason = Off /\ arrived = Off
     /\ target = Off /\ rt = Off /\ cache = Off /\ sess = Off /\ ff = Off
     /\ wr = Off /\ rd = Off /\ main = Off /\ shown = Off /\ hist = Off
     /\ view = Off /\ totals = Off /\ window = Off /\ sender = Off
     /\ guard = Off /\ wrapper = Off /\ pressed = Off /\ done = Off

Next ==
  \/ /\ running = "client" /\ Client!Next
     /\ UNCHANGED <<running, registry, liveness, notices, loop, tally,
                     own, heard, auths, phase, attempts, count, wait,
                     unit, sent, session, encoder, pipe, buffer, auth,
                     packets_read, tick, items, queue, selection,
                     outcome, draws, summary, stop_reason, arrived,
                     target, rt, cache, sess, ff, wr, rd, main, shown,
                     hist, view, totals, window, sender, guard, wrapper,
                     faults, pressed, done, call, runtime, reader,
                     reply, proc, finished>>
  \/ /\ running = "sweep" /\ Sweep!Next
     /\ UNCHANGED <<running, counters, carry, pc, step, runner, cadence,
                     flight, inbox, acked, streak, phase, attempts,
                     count, wait, unit, sent, session, encoder, pipe,
                     buffer, auth, packets_read, tick, items, queue,
                     selection, outcome, draws, summary, stop_reason,
                     arrived, target, rt, cache, sess, ff, wr, rd, main,
                     shown, hist, view, totals, window, sender, guard,
                     wrapper, faults, pressed, done, call, runtime,
                     reader, reply, proc, finished>>
  \/ /\ running = "encoder" /\ Encoder!Next
     /\ UNCHANGED <<running, counters, carry, pc, step, runner, metrics,
                     cadence, flight, inbox, acked, streak, registry,
                     liveness, notices, loop, tally, own, heard, auths,
                     auth, packets_read, tick, items, queue, selection,
                     outcome, draws, summary, stop_reason, arrived,
                     target, rt, cache, sess, ff, wr, rd, main, shown,
                     hist, view, totals, window, sender, guard, wrapper,
                     faults, pressed, done, call, runtime, reader,
                     reply, proc, finished>>
  \/ /\ running = "live" /\ Live!Next
     /\ UNCHANGED <<running, now, counters, carry, stop, pc, step,
                     runner, metrics, cadence, flight, inbox, acked,
                     streak, liveness, notices, loop, tally, own, heard,
                     auths, attempts, count, wait, unit, sent, session,
                     encoder, pipe, buffer, arrived, target, rt, cache,
                     sess, ff, wr, rd, main, shown, hist, view, totals,
                     window, sender, guard, wrapper, faults, pressed,
                     done, call, runtime, reader, reply, proc,
                     finished>>
  \/ /\ running = "decoder" /\ Decoder!Next
     /\ UNCHANGED <<running, now, counters, carry, stop, pc, step,
                     runner, metrics, cadence, flight, inbox, acked,
                     streak, registry, liveness, notices, loop, tally,
                     own, heard, auths, phase, attempts, count, wait,
                     unit, sent, session, encoder, pipe, buffer, auth,
                     packets_read, tick, items, selection, outcome,
                     draws, summary, stop_reason, view, totals, window,
                     sender, guard, wrapper, faults, pressed, done,
                     call, runtime, reader, reply, proc, finished>>
  \/ /\ running = "control" /\ Control!Next
     /\ UNCHANGED <<running, counters, carry, stop, pc, step, runner,
                     metrics, cadence, flight, inbox, acked, streak,
                     registry, liveness, notices, tally, own, heard,
                     auths, phase, attempts, count, wait, unit, sent,
                     session, encoder, buffer, auth, packets_read, tick,
                     items, queue, selection, outcome, draws, summary,
                     stop_reason, arrived, target, rt, cache, sess, ff,
                     wr, rd, main, shown, hist, call, runtime, reader,
                     reply, proc, finished>>
  \/ /\ running = "persistent" /\ Persistent!Next
     /\ UNCHANGED <<running, now, counters, carry, stop, pc, step,
                     runner, metrics, cadence, flight, inbox, acked,
                     streak, registry, liveness, notices, loop, tally,
                     own, heard, auths, phase, attempts, count, wait,
                     unit, sent, session, encoder, pipe, buffer, auth,
                     packets_read, tick, items, queue, selection,
                     outcome, draws, summary, stop_reason, arrived,
                     target, rt, cache, sess, ff, wr, rd, main, shown,
                     hist, view, totals, window, sender, guard, wrapper,
                     pressed, done>>

Spec == Init /\ [][Next]_allVars

ASSUME InstancesAssumption ==
  /\ Client!LoopAssumption /\ Sweep!SweepAssumption /\ Encoder!LoopAssumption
  /\ Live!LiveTwoViewAssumption /\ Decoder!DecoderAssumption
  /\ Control!ControlledAssumption /\ Persistent!DecodeAssumption

\* The variables of the others.
ClientOff == <<registry, liveness, notices, loop, tally, own, heard, auths,
    phase, attempts, count, wait, unit, sent, session, encoder, pipe, buffer,
    auth, packets_read, tick, items, queue, selection, outcome, draws,
    summary, stop_reason, arrived, target, rt, cache, sess, ff, wr, rd, main,
    shown, hist, view, totals, window, sender, guard, wrapper, faults,
    pressed, done, call, runtime, reader, reply, proc, finished>>
SweepOff == <<counters, carry, pc, step, runner, cadence, flight, inbox,
    acked, streak, phase, attempts, count, wait, unit, sent, session,
    encoder, pipe, buffer, auth, packets_read, tick, items, queue, selection,
    outcome, draws, summary, stop_reason, arrived, target, rt, cache, sess,
    ff, wr, rd, main, shown, hist, view, totals, window, sender, guard,
    wrapper, faults, pressed, done, call, runtime, reader, reply, proc,
    finished>>
EncoderOff == <<counters, carry, pc, step, runner, metrics, cadence, flight,
    inbox, acked, streak, registry, liveness, notices, loop, tally, own,
    heard, auths, auth, packets_read, tick, items, queue, selection, outcome,
    draws, summary, stop_reason, arrived, target, rt, cache, sess, ff, wr,
    rd, main, shown, hist, view, totals, window, sender, guard, wrapper,
    faults, pressed, done, call, runtime, reader, reply, proc, finished>>
LiveOff == <<now, counters, carry, stop, pc, step, runner, metrics, cadence,
    flight, inbox, acked, streak, liveness, notices, loop, tally, own, heard,
    auths, attempts, count, wait, unit, sent, session, encoder, pipe, buffer,
    arrived, target, rt, cache, sess, ff, wr, rd, main, shown, hist, view,
    totals, window, sender, guard, wrapper, faults, pressed, done, call,
    runtime, reader, reply, proc, finished>>
DecoderOff == <<now, counters, carry, stop, pc, step, runner, metrics,
    cadence, flight, inbox, acked, streak, registry, liveness, notices, loop,
    tally, own, heard, auths, phase, attempts, count, wait, unit, sent,
    session, encoder, pipe, buffer, auth, packets_read, tick, items,
    selection, outcome, draws, summary, stop_reason, view, totals, window,
    sender, guard, wrapper, faults, pressed, done, call, runtime, reader,
    reply, proc, finished>>
ControlOff == <<counters, carry, stop, pc, step, runner, metrics, cadence,
    flight, inbox, acked, streak, registry, liveness, notices, tally, own,
    heard, auths, phase, attempts, count, wait, unit, sent, session, encoder,
    buffer, auth, packets_read, tick, items, queue, selection, outcome,
    draws, summary, stop_reason, arrived, target, rt, cache, sess, ff, wr,
    rd, main, shown, hist, call, runtime, reader, reply, proc, finished>>
PersistentOff == <<now, counters, carry, stop, pc, step, runner, metrics,
    cadence, flight, inbox, acked, streak, registry, liveness, notices, loop,
    tally, own, heard, auths, phase, attempts, count, wait, unit, sent,
    session, encoder, pipe, buffer, auth, packets_read, tick, items, queue,
    selection, outcome, draws, summary, stop_reason, arrived, target, rt,
    cache, sess, ff, wr, rd, main, shown, hist, view, totals, window, sender,
    guard, wrapper, pressed, done>>

\* Each component keeps moving, as its own specification assumes: the loops of
\* client, server and switcher run on a thread of their own, and so do the
\* threads and processes beside them.  `running` never changes, so fairness of a
\* disjunction is fairness of the component explored.
Loops ==
  \/ running = "client" /\ Client!LoopStep /\ UNCHANGED <<running, ClientOff>>
  \/ running = "sweep" /\ Sweep!LoopStep /\ UNCHANGED <<running, SweepOff>>
  \/ running = "encoder" /\ Encoder!Works /\ UNCHANGED <<running, EncoderOff>>
  \/ running = "live" /\ Live!Works /\ UNCHANGED <<running, LiveOff>>
  \/ running = "decoder" /\ Decoder!MainStep /\ UNCHANGED <<running, DecoderOff>>
  \/ running = "control" /\ Control!LoopSteps /\ UNCHANGED <<running, ControlOff>>
  \/ running = "persistent" /\ Persistent!CallSteps /\ UNCHANGED <<running, PersistentOff>>

Beside ==
  \/ running = "sweep" /\ Sweep!Tick /\ UNCHANGED <<running, SweepOff>>
  \/ running = "encoder" /\ Encoder!Encoder_Writes /\ UNCHANGED <<running, EncoderOff>>
  \/ running = "decoder" /\ Decoder!WriterStep /\ UNCHANGED <<running, DecoderOff>>
  \/ running = "control" /\ Control!SenderSteps("wrapper") /\ UNCHANGED <<running, ControlOff>>
  \/ running = "persistent" /\ Persistent!ProcessSteps /\ UNCHANGED <<running, PersistentOff>>

Readers ==
  \/ running = "decoder" /\ Decoder!ReaderStep /\ UNCHANGED <<running, DecoderOff>>
  \/ running = "control" /\ Control!SenderSteps("other") /\ UNCHANGED <<running, ControlOff>>
  \/ running = "persistent" /\ Persistent!ReaderSteps /\ UNCHANGED <<running, PersistentOff>>

Decodes ==
  \/ running = "decoder" /\ Decoder!FfmpegDecodes /\ UNCHANGED <<running, DecoderOff>>

Programs ==
  \/ running = "decoder" /\ Decoder!StartProgram /\ UNCHANGED <<running, DecoderOff>>

FairSpec ==
  /\ Spec
  /\ WF_allVars(Loops) /\ WF_allVars(Beside) /\ WF_allVars(Readers)
  /\ WF_allVars(Decodes) /\ SF_allVars(Programs)

-----------------------------------------------------------------------------
\* Whoever is told to stop does: a requested stop ends the client's heartbeat
\* loop after its cleanup, and disabling or stopping the decoder never leaves
\* the main thread waiting for a thread.
StopsWhenTold ==
  \/ running = "client" /\ stop
  \/ running = "decoder" /\ main.pc = "join"
  ~>
  \/ running = "client" /\ pc = "stopped" /\ runner.cleanup = Client!CleanupActions
  \/ running = "decoder" /\ main.pc # "join"

\* A bounded run ends, at its limits if nothing ends it before: the client's
\* capture/encode/send loop, the switcher's live two-view.
BoundedRunEnds == running \in {"encoder", "live"} ~> phase \in {"Done", "done"}

\* Nothing waits for ever: a registered client that is timed out is heard or
\* removed or the loop was told to stop (each failed pass has removed a client,
\* so as many retries as authentications are enough never to give up), what the
\* decoder accepted is decoded, or the decoder is disabled or stopped, whoever
\* sends the preview a command gets its answer or learns that there is none, and
\* every call of the other decoders returns.
NothingWaitsForEver ==
  \A c \in {1, 2} :
    \/ running = "sweep" /\ c \in Sweep!Expired
    \/ running = "decoder" /\ hist.decoded < Len(hist.fed)
    \/ running = "control" /\ sender[<<"wrapper", "other">>[c]].pc = "waiting"
    \/ running = "persistent" /\ call.pc # "idle"
    ~>
    \/ running = "sweep" /\ (c \notin Sweep!Expired \/ loop.pc = "stopped")
    \/ running = "decoder" /\ (hist.decoded >= Len(hist.fed) \/ rt.disabled \/ main.ret = "ended")
    \/ running = "control" /\ sender[<<"wrapper", "other">>[c]].pc
                               \in {"idle", "closing", "ended", "killed"}
    \/ running = "persistent" /\ call.pc = "idle"
=============================================================================
