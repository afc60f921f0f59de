---------------------------- MODULE EncodeSendLoop ----------------------------
(***************************************************************************)
(* The client's bounded capture, encode and send loop, in both encoder     *)
(* modes: one ffmpeg process per frame, or one for the whole run.  In the  *)
(* second a tick writes one raw frame to the encoder, reads its output     *)
(* once, and sends what that read completes, which is an earlier picture.  *)
(* A picture is named by the tick that captured it; the encoder's output   *)
(* is a sequence of blocks, each the name of the picture it belongs to.    *)
(***************************************************************************)
EXTENDS Integers, Sequences, SequencesExt, FiniteSets

CONSTANTS
  Persistent,             \* the encoder runtime: one process for the run
  MaxFrames, MaxTicks,    \* max_frames, max_ticks
  Interval,               \* frame_interval_micros
  DeadlineMode,           \* the cadence mode: deadline, or fixed
  FrameWait,              \* frame_wait_timeout_micros, 0 for none
  StopOnCaptureFailure, StopOnSendFailure,
  Faults,                 \* capture, encoder and network may fail
  Delays,                 \* how long capturing, and sending, may take
  Sizes,                  \* blocks of an encoded picture
  ReadLen,                \* blocks one read may return
  PipeSize,               \* blocks the stdout pipe holds
  Hold,                   \* frames the encoder keeps before it writes the first
  Ahead                   \* pictures that must have begun to end an earlier one

LoopAssumption ==
  /\ {Persistent, DeadlineMode, StopOnCaptureFailure, StopOnSendFailure, Faults} \subseteq BOOLEAN
  /\ {MaxFrames, MaxTicks, Interval, FrameWait, Hold} \subseteq Nat
  /\ {ReadLen, PipeSize, Ahead} \subseteq Nat \ {0}
  /\ Sizes \subseteq Nat \ {0} /\ Delays \subseteq Nat

VARIABLES
  phase,      \* where the loop is
  now,        \* the clock, from 1 so that 0 is no time
  attempts,   \* runtime_ticks, capture_attempts
  count,      \* the counters of the summary
  wait,       \* frame_wait_started_at, 0 for None
  stop,       \* stop_reason
  unit,       \* the access unit a read completed, or a finish
  sent,       \* what was sent: its frame_id, its picture, whether it was whole
  session,    \* the persistent session: "None", "Open" or "Closed"
  encoder,    \* frames held, blocks to write, whether it has exited
  pipe,       \* blocks in stdout
  buffer      \* blocks in the access-unit reader

loopVars == <<attempts, count, wait, stop, sent>>
pipeVars == <<encoder, pipe, buffer>>
vars == <<phase, now, loopVars, unit, session, pipeVars>>

NoUnit == [of |-> 0, whole |-> FALSE]

Init ==
  /\ phase = "Top" /\ now = 1 /\ attempts = 0 /\ wait = 0 /\ stop = "None"
  /\ count = [k \in {"noFrame", "captureFail", "encodeFail", "sendFail",
                     "captured", "encoded", "emitted", "noComplete", "missing", "starts"} |-> 0]
  /\ unit = NoUnit /\ sent = <<>> /\ session = "None"
  /\ encoder = [held |-> <<>>, out |-> <<>>, exited |-> FALSE]
  /\ pipe = <<>> /\ buffer = <<>>

Plus(c, keys) == [k \in DOMAIN c |-> IF k \in keys THEN c[k] + 1 ELSE c[k]]

Sends == Len(sent)
-----------------------------------------------------------------------------
(* The loop.                                                               *)

\* The two limits, then a new tick.
Top ==
  /\ phase = "Top"
  /\ IF Sends >= MaxFrames
     THEN stop' = "MaxFramesReached" /\ phase' = "Shutdown" /\ UNCHANGED attempts
     ELSE IF attempts >= MaxTicks
     THEN stop' = "MaxTicksReached" /\ phase' = "Shutdown" /\ UNCHANGED attempts
     ELSE attempts' = attempts + 1 /\ phase' = "Acquire" /\ UNCHANGED stop
  /\ UNCHANGED <<now, count, wait, unit, sent, session, pipeVars>>

\* The end of a tick whose result has been counted: `reason` is the stop reason
\* the result gives, and reaching max_frames comes before any.
AfterTick(n, reason) ==
  /\ stop' = IF n >= MaxFrames THEN "MaxFramesReached" ELSE reason
  /\ phase' = IF stop' = "None" THEN "Cadence" ELSE "Shutdown"

\* Every result but NoFrameAvailable ends a wait for frames.
Result(keys, reason) ==
  /\ count' = Plus(count, keys)
  /\ wait' = 0
  /\ AfterTick(Sends, reason)
  /\ UNCHANGED sent

Waited == FrameWait > 0 /\ now' - wait' >= FrameWait

\* acquire_one_frame_with_runtime has no frame.
NoFrameAvailable ==
  /\ phase = "Acquire"
  /\ \E d \in Delays : now' = now + d
  /\ wait' = IF wait = 0 THEN now' ELSE wait
  /\ count' = Plus(count, {"noFrame"})
  /\ AfterTick(Sends, IF Waited THEN "FrameWaitTimeout" ELSE "None")
  /\ UNCHANGED <<attempts, unit, sent, session, pipeVars>>

CaptureUnavailable ==
  /\ phase = "Acquire" /\ Faults
  /\ \E d \in Delays : now' = now + d
  /\ Result({"captureFail"}, IF StopOnCaptureFailure THEN "CaptureFailure" ELSE "None")
  /\ UNCHANGED <<attempts, unit, session, pipeVars>>

\* A frame: encoded by a process of its own, or written to the session, which
\* the first frame starts.
FrameAcquired ==
  /\ phase = "Acquire"
  /\ \E d \in Delays : now' = now + d
  /\ phase' = IF ~Persistent THEN "Encode" ELSE IF session = "None" THEN "Start" ELSE "Write"
  /\ UNCHANGED <<loopVars, unit, session, pipeVars>>
-----------------------------------------------------------------------------
(* A process per frame.                                                    *)

EncodeOnce ==
  /\ phase = "Encode"
  /\ unit' = [of |-> attempts, whole |-> TRUE]
  /\ phase' = "Send"
  /\ UNCHANGED <<now, loopVars, session, pipeVars>>

\* encode_once_with_runtime defers, for whatever reason; the loop goes on.
EncodeDeferred ==
  /\ phase = "Encode" /\ Faults
  /\ Result({"captured", "encodeFail"}, "None")
  /\ UNCHANGED <<now, attempts, unit, session, pipeVars>>
-----------------------------------------------------------------------------
(* The persistent session.                                                 *)

StartSession ==
  /\ phase = "Start"
  /\ session' = "Open" /\ count' = Plus(count, {"starts"}) /\ phase' = "Write"
  /\ UNCHANGED <<now, attempts, wait, stop, unit, sent, pipeVars>>

StartFails ==
  /\ phase = "Start" /\ Faults
  /\ Result({"captured", "encodeFail"}, "EncodeFailure")
  /\ UNCHANGED <<now, attempts, unit, session, pipeVars>>

Blocks(of, size) == [i \in 1 .. size |-> of]

\* write_bgra_frame_bytes: a raw frame is far larger than the stdin pipe, so the
\* write ends when the encoder, having written all it had, has taken the frame;
\* it then encodes the oldest frame it does not hold back.
FrameAccepted ==
  /\ phase = "Write" /\ ~encoder.exited
  /\ encoder.out = <<>>
  /\ LET held == Append(encoder.held, attempts) IN
     \E size \in Sizes :
       encoder' = IF Len(held) > Hold
                  THEN [encoder EXCEPT !.held = Tail(held), !.out = Blocks(Head(held), size)]
                  ELSE [encoder EXCEPT !.held = held]
  /\ phase' = "Read"
  /\ UNCHANGED <<now, loopVars, unit, session, pipe, buffer>>

\* The result that closes the session and ends the run.
SessionFails ==
  /\ session' = "Closed"
  /\ pipe' = <<>> /\ buffer' = <<>>
  /\ encoder' = [held |-> <<>>, out |-> <<>>, exited |-> TRUE]
  /\ Result({"captured", "encodeFail"}, "EncodeFailure")
  /\ UNCHANGED <<now, attempts, unit>>

\* InvalidFrameBytes (the captured size changed), or a write to a dead encoder.
WriteFails ==
  /\ phase = "Write" /\ (Faults \/ encoder.exited)
  /\ SessionFails

Encoder_Writes ==
  /\ encoder.out # <<>> /\ ~encoder.exited
  /\ Len(pipe) < PipeSize
  /\ pipe' = Append(pipe, Head(encoder.out))
  /\ encoder' = [encoder EXCEPT !.out = Tail(@)]
  /\ UNCHANGED <<phase, now, loopVars, unit, session, buffer>>

Encoder_Exits ==
  /\ Faults /\ session = "Open" /\ ~encoder.exited
  /\ encoder' = [encoder EXCEPT !.exited = TRUE]
  /\ UNCHANGED <<phase, now, loopVars, unit, session, pipe, buffer>>

\* poll_access_unit on abstract blocks: the oldest picture is complete when
\* enough later ones have begun.
Complete(b) == b # <<>> /\ Cardinality({b[i] : i \in DOMAIN b}) > Ahead
\* The blocks after those of the oldest picture.
Rest(b) ==
  LET next == CHOOSE i \in DOMAIN b : b[i] # b[1] /\ \A j \in 1 .. i - 1 : b[j] = b[1]
  IN SubSeq(b, next, Len(b))

\* poll_stdout_once: one blocking read, and at most one access unit.
ReadUnit_ReadsOn ==
  /\ phase = "Read"
  /\ \E n \in 1 .. ReadLen :
       /\ n <= Len(pipe)
       /\ pipe' = SubSeq(pipe, n + 1, Len(pipe))
       /\ LET b == buffer \o SubSeq(pipe, 1, n) IN
          IF Complete(b)
          THEN /\ unit' = [of |-> b[1], whole |-> TRUE]
               /\ buffer' = Rest(b)
               /\ phase' = "Prepare"
               /\ count' = Plus(count, {"emitted"})
          ELSE buffer' = b /\ UNCHANGED <<phase, count, unit>>
  /\ UNCHANGED <<now, attempts, wait, stop, sent, session, encoder>>

ReadUnit ==
  /\ phase = "Read"
  /\ \E n \in 1 .. ReadLen :
       /\ n <= Len(pipe)
       /\ pipe' = SubSeq(pipe, n + 1, Len(pipe))
       /\ LET b == buffer \o SubSeq(pipe, 1, n) IN
          IF Complete(b)
          THEN /\ unit' = [of |-> b[1], whole |-> TRUE]
               /\ buffer' = Rest(b)
               /\ phase' = "Prepare"
               /\ count' = Plus(count, {"emitted"})
               /\ UNCHANGED <<wait, stop, sent>>
          ELSE /\ buffer' = b
               /\ Result({"captured", "noComplete"}, "None")
               /\ UNCHANGED unit
  /\ UNCHANGED <<now, attempts, session, encoder>>

\* MalformedStream, a failed read.
ReadFails ==
  /\ phase = "Read" /\ Faults
  /\ SessionFails

\* finish_runtime_after_close at the end of stdout: the oldest picture left, which
\* may be cut, comes out; any other is lost with the session.
StreamEnded ==
  /\ phase = "Read" /\ encoder.exited /\ pipe = <<>>
  /\ session' = "Closed"
  /\ buffer' = <<>>
  /\ encoder' = [encoder EXCEPT !.held = <<>>, !.out = <<>>]
  /\ IF buffer = <<>>
     THEN Result({"captured", "encodeFail"}, "EncodeFailure") /\ UNCHANGED unit
     ELSE /\ unit' = [of |-> buffer[1],
                      whole |-> Complete(buffer) \/ ~Contains(encoder.out, buffer[1])]
          /\ count' = Plus(count, {"emitted"})
          /\ phase' = "Prepare"
          /\ stop' = "EncodeFailure"
          /\ UNCHANGED <<wait, sent>>
  /\ UNCHANGED <<now, attempts, pipe>>

\* prepare_payload: a picture whose parameter sets have not been seen waits for
\* nothing, it is dropped.
Prepare ==
  /\ phase = "Prepare"
  /\ \/ phase' = "Send" /\ UNCHANGED <<loopVars, unit>>
     \/ /\ Faults
        /\ unit' = NoUnit
        /\ Result({"captured", "missing"}, stop)
        /\ UNCHANGED attempts
  /\ UNCHANGED <<now, session, pipeVars>>
-----------------------------------------------------------------------------
(* Sending, in either mode.  The frame is numbered, and dated, by the tick *)
(* that sends it.  build_frame_from_encoded_source cannot refuse it: the   *)
(* payload is never empty and the codec always the same.                   *)

Sent ==
  /\ phase = "Send"
  /\ \E d \in Delays : now' = now + d
  /\ sent' = Append(sent, [id |-> attempts, of |-> unit.of, whole |-> unit.whole])
  /\ count' = Plus(count, {"captured", "encoded"})
  /\ wait' = 0 /\ unit' = NoUnit
  /\ AfterTick(Sends + 1, stop)
  /\ UNCHANGED <<attempts, session, pipeVars>>

SendFails ==
  /\ phase = "Send" /\ Faults
  /\ \E d \in Delays : now' = now + d
  /\ unit' = NoUnit
  /\ Result({"captured", "encoded", "sendFail"}, IF StopOnSendFailure THEN "SendFailure" ELSE stop)
  /\ UNCHANGED <<attempts, session, pipeVars>>

-----------------------------------------------------------------------------
(* Cadence.                                                                *)

Least(a, b) == IF a < b THEN a ELSE b

\* clamp_continuous_real_encoded_sleep_to_frame_wait_timeout
Clamped(s) ==
  IF wait = 0 \/ FrameWait = 0 THEN s
  ELSE IF now - wait >= FrameWait THEN 0
  ELSE Least(s, FrameWait - (now - wait))

\* apply_continuous_real_encoded_frame_cadence: the fixed mode sleeps an interval,
\* the deadline mode until the deadline of this tick, if that is not past.
SleepFor_FromLastTick(deadline) == Clamped(Interval)
SleepFor(deadline) ==
  IF DeadlineMode THEN (IF now >= deadline THEN 0 ELSE Clamped(deadline - now))
  ELSE Clamped(Interval)

Cadence ==
  /\ phase = "Cadence"
  /\ now' = now + SleepFor(1 + Interval * attempts)
  /\ phase' = "Top"
  /\ UNCHANGED <<loopVars, unit, session, pipeVars>>

\* The run ends: stdin is closed, the encoder's last blocks are drained, and what
\* finish makes of them is not sent.
Shutdown ==
  /\ phase = "Shutdown"
  /\ session' = IF session = "Open" THEN "Closed" ELSE session
  /\ pipe' = <<>> /\ buffer' = <<>>
  /\ encoder' = [encoder EXCEPT !.held = <<>>, !.out = <<>>]
  /\ phase' = "Done"
  /\ UNCHANGED <<now, loopVars, unit>>

Works ==
  \/ Top \/ NoFrameAvailable \/ FrameAcquired \/ EncodeOnce \/ StartSession
  \/ FrameAccepted \/ (encoder.exited /\ WriteFails) \/ ReadUnit \/ StreamEnded
  \/ Prepare \/ Sent \/ Cadence \/ Shutdown

Fails ==
  \/ CaptureUnavailable \/ EncodeDeferred \/ StartFails \/ WriteFails \/ ReadFails
  \/ SendFails \/ Encoder_Exits

Next == Works \/ Fails \/ Encoder_Writes

Spec == Init /\ [][Next]_vars

\* The loop goes on where it is not blocked on the encoder, and the encoder where
\* it is not blocked on the loop; nothing has to fail.
FairSpec == Spec /\ WF_vars(Works) /\ WF_vars(Encoder_Writes)
-----------------------------------------------------------------------------
(* Properties.                                                             *)

TypeOK ==
  /\ attempts \in 0 .. MaxTicks
  /\ \A k \in DOMAIN count : count[k] \in 0 .. MaxTicks
  /\ Len(sent) <= MaxFrames
  /\ \A s \in {sent[i] : i \in DOMAIN sent} : s.id \in 1 .. MaxTicks /\ s.of \in 1 .. MaxTicks
  /\ session \in {"None", "Open", "Closed"}
  /\ Len(pipe) <= PipeSize

\* Pictures leave in the order they were captured, each at most once and never
\* under an earlier frame id than its own; from a persistent encoder that is
\* alive, always under a later one.
PicturesInOrder ==
  /\ \A i, j \in DOMAIN sent : i < j => sent[i].id < sent[j].id /\ sent[i].of < sent[j].of
  /\ \A i \in DOMAIN sent :
       /\ sent[i].of <= sent[i].id
       /\ Persistent /\ session = "Open" => sent[i].of < sent[i].id

\* Whenever the encoder dies, no picture that it cut short is sent: a read that
\* finds no unit ends its tick, and the next write, not the next read, finds out.
NoCutPicture == \A i \in DOMAIN sent : sent[i].whole

\* Between ticks every attempt has exactly one outcome and every captured frame
\* one fate, and the taking back of a counted encode failure (no picture yet, no
\* parameter sets) leaves exactly the failures.
AttemptsAddUp ==
  phase \in {"Top", "Cadence", "Shutdown", "Done"} =>
    /\ attempts = count.noFrame + count.captureFail + count.captured
    /\ count.captured = count.encoded + count.encodeFail + count.noComplete + count.missing
    /\ count.encoded = Sends + count.sendFail
    /\ Persistent => count.emitted = count.encoded + count.missing

\* A persistent run has one encoder process; its first failure is the last tick.
OneEncoderProcess ==
  Persistent =>
    /\ count.starts <= 1 /\ count.encodeFail <= 1
    /\ count.encodeFail = 1 /\ phase \in {"Top", "Acquire", "Cadence", "Shutdown", "Done"}
         => stop = "EncodeFailure" /\ phase \in {"Shutdown", "Done"}

\* The reason a run reports is one that happened, and the frame limit wins.
StopReasonIsTrue ==
  /\ phase = "Done" => stop # "None" /\ (stop = "MaxFramesReached" <=> Sends >= MaxFrames)
  /\ stop = "MaxTicksReached" => attempts = MaxTicks
  /\ stop = "FrameWaitTimeout" => count.noFrame > 0 /\ now - wait >= FrameWait
  /\ stop = "CaptureFailure" => count.captureFail > 0 /\ StopOnCaptureFailure
  /\ stop = "SendFailure" => count.sendFail > 0 /\ StopOnSendFailure
  /\ phase = "Top" => (StopOnSendFailure => count.sendFail = 0)
                      /\ (StopOnCaptureFailure => count.captureFail = 0)

\* What a run sends and reports is what its encoder gave it.
EncodeLoopInvariant ==
  /\ TypeOK /\ PicturesInOrder /\ NoCutPicture
  /\ AttemptsAddUp /\ OneEncoderProcess /\ StopReasonIsTrue

\* A sleep never carries a run past the end of its wait for a frame: the tick
\* that must notice the timeout starts no later than the timeout.
WaitNotOverslept ==
  Cadence /\ wait # 0 /\ FrameWait > 0 /\ now - wait < FrameWait
    => now' <= wait + FrameWait

\* In deadline mode a slow tick is made up for: a tick starts at its deadline or
\* when the one before is over, whichever is later, unless a frame wait ends.
KeepsDeadlines ==
  DeadlineMode /\ Cadence =>
    \/ now' = IF now > 1 + Interval * attempts THEN now ELSE 1 + Interval * attempts
    \/ wait # 0 /\ FrameWait > 0 /\ now' - wait >= FrameWait

\* A frame is dated by the capture of the picture it carries.
CaptureTimeIsThePictures == \A i \in DOMAIN sent : sent[i].of = sent[i].id

\* The run ends, at its limits if nothing else ends it.
RunEnds == <>(phase = "Done")
=============================================================================
