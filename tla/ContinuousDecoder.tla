------------------------- MODULE ContinuousDecoder -------------------------
(***************************************************************************)
(* The switcher's continuous decoder of slot 0: the main thread feeds      *)
(* access units to one long-lived ffmpeg process and looks up decoded      *)
(* pictures; a writer thread and a reader thread sit between it and the    *)
(* process.  An output is given the identity of the oldest input that has  *)
(* no output yet (the correspondence queue), never one of its own.         *)
(*                                                                         *)
(* A frame is [src, id]; its capture timestamp is its id, and its picture  *)
(* is named by the frame itself.                                           *)
(***************************************************************************)
EXTENDS Naturals, Sequences, FiniteSets, SequencesExt

CONSTANTS MaxFrame,        \* frames of slot 0 are 1 .. MaxFrame
          MaxOther,        \* frames of slot 1 are 1 .. MaxOther
          KeyIds,          \* ids of the frames that carry SPS, PPS and IDR
          ServerBound,     \* the server's backlog of slot 0
          QueueBound,      \* TWO_REAL_CONTINUOUS_DECODE_QUEUE_BOUND
          AllowedLag,      \* bounded_lookup_allowed_lag_frames
          FeedPerAttempt,  \* TWO_REAL_CONTINUOUS_FEED_MAX_FRAMES_PER_ATTEMPT
          PipeBound,       \* access units or pictures an ffmpeg pipe holds
          MaxSkips,        \* access units ffmpeg may swallow without a picture
          SuppressOneShot, \* slot0_one_shot_suppression_enabled
          ProgramFirst,    \* program_first_decode_suppression is configured and active
          RefreshBudget    \* operator preview decode budget of one loop frame

DecoderAssumption ==
    /\ {MaxFrame, MaxOther, AllowedLag, MaxSkips, RefreshBudget} \subseteq Nat
    /\ {ServerBound, QueueBound, FeedPerAttempt, PipeBound} \subseteq Nat \ {0}
    /\ KeyIds \subseteq Nat
    /\ {SuppressOneShot, ProgramFirst} \subseteq BOOLEAN

Slot0(i) == [src |-> "slot0", id |-> i]
Frames == {Slot0(i) : i \in 1..MaxFrame}
            \cup {[src |-> "slot1", id |-> i] : i \in 1..MaxOther}
NoFrame == [src |-> "none", id |-> 0]

VARIABLES
  queue,    \* the server's backlog of slot 0, oldest first
  arrived,  \* number of slot 0 frames the server has stored
  target,   \* the current target time
  rt,       \* TwoRealContinuousDecodeRuntime
  cache,    \* decoded_cache: key -> picture
  sess,     \* what the threads of the session share
  ff,       \* the ffmpeg process and its two pipes
  wr,       \* the writer thread
  rd,       \* the reader thread
  main,     \* the main thread: what it does, with which frame
  shown,    \* the last answer of a decode request
  hist      \* history: frames taken from the server, mismatches, feed order, skips

vars == <<queue, arrived, target, rt, cache, sess, ff, wr, rd, main, shown, hist>>

NoShown == [how |-> "none", req |-> NoFrame, pic |-> NoFrame, key |-> NoFrame]
Idle == [pc |-> "idle", frame |-> NoFrame, origin |-> "none", purpose |-> "none",
         ret |-> "none", reuse |-> FALSE, n |-> 0, result |-> "none", running |-> FALSE, budget |-> 0]
NoSession == [open |-> FALSE, chan |-> <<>>, qlen |-> 0, corr |-> <<>>, events |-> <<>>]

Init == /\ queue = <<>> /\ arrived = 0 /\ target = 0
        /\ rt = [disabled |-> FALSE, session |-> FALSE, enqueued |-> {}, order |-> <<>>, latest |-> 0]
        /\ cache = [k \in {} |-> NoFrame]
        /\ sess = NoSession
        /\ ff = [state |-> "none", in |-> <<>>, out |-> <<>>]
        /\ wr = [pc |-> "none", key |-> NoFrame]
        /\ rd = [pc |-> "none", pic |-> NoFrame, key |-> NoFrame]
        /\ main = Idle
        /\ shown = NoShown
        /\ hist = [consumed |-> {}, mismatch |-> 0, fed |-> <<>>, skips |-> 0, late |-> {}, decoded |-> 0]

----------------------------------------------------------------------------
(* The server stores frames of slot 0 and evicts the oldest; time passes.  *)

ServerStores == /\ arrived < MaxFrame
                /\ arrived' = arrived + 1
                /\ LET q == Append(queue, Slot0(arrived + 1))
                   IN queue' = IF Len(q) > ServerBound THEN Tail(q) ELSE q
                /\ UNCHANGED <<target, rt, cache, sess, ff, wr, rd, main, shown, hist>>

TargetAdvances == /\ main.pc = "idle"
                  /\ target < MaxFrame
                  /\ target' = target + 1
                  /\ UNCHANGED <<queue, arrived, rt, cache, sess, ff, wr, rd, main, shown, hist>>

----------------------------------------------------------------------------
(* enqueue, in the two steps that the writer thread can come between.      *)

\* the reservation is given back when the input was not taken
QueueLenAfter(ok) == IF ok THEN sess.qlen ELSE sess.qlen - 1

\* stop(): the channel is closed and the child killed before the threads are
\* joined (Joined); a killed process fails the writer and ends the reader.
StopChild_WaitsOnly(state) == state
StopChild(state) == "killed"

\* disable, after a writer that is gone
disable == /\ rt' = [rt EXCEPT !.disabled = TRUE]
           /\ sess' = [sess EXCEPT !.open = FALSE, !.qlen = QueueLenAfter(FALSE)]
           /\ ff' = [ff EXCEPT !.state = StopChild(@)]

has_sps_pps_idr(f) == f.id \in KeyIds

\* ensure_started: a session is started only at a frame a decoder can start from.
StartsAt(f) == ~rt.session /\ has_sps_pps_idr(f)

Reserve ==
  /\ main.pc = "reserve"
  /\ LET f == main.frame
         skip(r) == /\ main' = [main EXCEPT !.pc = "drain", !.result = r]
                    /\ UNCHANGED <<rt, sess, ff, wr, rd>>
     IN \/ rt.disabled /\ skip("SkippedRuntimeDisabled")
        \/ ~rt.disabled /\ f \in rt.enqueued /\ skip("SkippedDuplicate")
        \/ /\ ~rt.disabled /\ f \notin rt.enqueued
           /\ \/ ~rt.session /\ ~has_sps_pps_idr(f) /\ skip("SkippedStartupNotReady")
              \/ /\ rt.session
                 /\ sess' = [sess EXCEPT !.qlen = @ + 1]
                 /\ main' = [main EXCEPT !.pc = "send"]
                 /\ UNCHANGED <<rt, ff, wr, rd>>
              \/ /\ StartsAt(f)
                 /\ rt' = [rt EXCEPT !.session = TRUE]
                 /\ sess' = [NoSession EXCEPT !.open = TRUE, !.qlen = 1]
                 /\ ff' = [state |-> "running", in |-> <<>>, out |-> <<>>]
                 /\ wr' = [pc |-> "recv", key |-> NoFrame]
                 /\ rd' = [pc |-> "read", pic |-> NoFrame, key |-> NoFrame]
                 /\ main' = [main EXCEPT !.pc = "send"]
              \/ /\ StartsAt(f)   \* the process cannot be spawned
                 /\ rt' = [rt EXCEPT !.disabled = TRUE]
                 /\ main' = [main EXCEPT !.pc = "drain", !.result = "SkippedStartupNotReady"]
                 /\ UNCHANGED <<sess, ff, wr, rd>>
  /\ UNCHANGED <<queue, arrived, target, cache, shown, hist>>

\* try_send: the key is remembered only when the channel took the input.
RememberOnSend(f, ok) == IF ok THEN rt.enqueued \cup {f} ELSE rt.enqueued

\* sync_channel(QueueBound)
HasRoom == Len(sess.chan) < QueueBound

TrySend ==
  /\ main.pc = "send"
  /\ LET f == main.frame
         alive == wr.pc # "done"
         ok == alive /\ HasRoom
     IN /\ \/ /\ alive
              /\ rt' = [rt EXCEPT !.enqueued = RememberOnSend(f, ok)]
              /\ sess' = [sess EXCEPT !.chan = IF ok THEN Append(@, f) ELSE @,
                                      !.qlen = QueueLenAfter(ok)]
              /\ main' = [main EXCEPT !.pc = "drain",
                                      !.result = IF ok THEN "Enqueued" ELSE "DroppedInputQueueFull"]
              /\ hist' = [hist EXCEPT !.fed = IF ok THEN Append(@, f) ELSE @]
              /\ UNCHANGED ff
           \/ /\ ~alive
              /\ disable
              /\ main' = [main EXCEPT !.pc = "join", !.ret = "after", !.result = "Disconnected"]
              /\ UNCHANGED hist
  /\ UNCHANGED <<queue, arrived, target, cache, wr, rd, shown>>

----------------------------------------------------------------------------
(* drain_outputs                                                           *)

\* One Decoded event: cache the picture, append the key, forget the oldest
\* keys beyond the bound together with their pictures.
EvictFrom(order) == IF Len(order) > QueueBound THEN Tail(order) ELSE order
ApplyDecoded(acc, e) ==
    LET order == Append(acc.order, e.key)
        kept  == EvictFrom(order)
        gone  == ToSet(order) \ ToSet(kept)
        c     == [k \in DOMAIN acc.cache \cup {e.key} |->
                     IF k = e.key THEN e.pic ELSE acc.cache[k]]
    IN [order |-> kept, latest |-> e.key.id, cache |-> [k \in DOMAIN c \ gone |-> c[k]]]

\* All waiting events are taken first, so pictures that arrived behind an
\* error are still kept.
Drained(evs) ==
  LET after[n \in 0..Len(evs)] ==
        IF n = 0 THEN [order |-> rt.order, latest |-> rt.latest, cache |-> cache]
        ELSE IF evs[n].kind = "Decoded" THEN ApplyDecoded(after[n - 1], evs[n])
        ELSE after[n - 1]
  IN after[Len(evs)]

\* The pictures among the first n events.
DecodedIn(evs, n) == Cardinality({i \in 1..n : evs[i].kind = "Decoded"})

ProcessRunning == rt.session /\ ff.state = "running"

Drain(then) ==
  LET d == Drained(sess.events)
      failed == \E e \in ToSet(sess.events) : e.kind = "RuntimeError"
  IN /\ cache' = d.cache
     /\ rt' = [rt EXCEPT !.order = d.order, !.latest = d.latest, !.disabled = @ \/ failed]
     /\ sess' = [sess EXCEPT !.events = <<>>, !.open = @ /\ ~failed]
     /\ ff' = [ff EXCEPT !.state = IF failed THEN StopChild(@) ELSE @]
     /\ main' = [then EXCEPT !.pc = IF failed THEN "join" ELSE then.ret,
                             !.running = ProcessRunning /\ ~failed]
     /\ hist' = [hist EXCEPT !.decoded = @ + DecodedIn(sess.events, Len(sess.events))]

DrainAfterEnqueue == /\ main.pc = "drain"
                     /\ Drain([main EXCEPT !.ret = "after"])
                     /\ UNCHANGED <<queue, arrived, target, wr, rd, shown>>

\* TwoRealContinuousDecodeSession::stop returns when both threads have ended.
Joined == /\ main.pc = "join"
          /\ wr.pc = "done" /\ rd.pc = "done"
          /\ rt' = [rt EXCEPT !.session = FALSE]
          /\ sess' = NoSession
          /\ ff' = [state |-> "none", in |-> <<>>, out |-> <<>>]
          /\ wr' = [pc |-> "none", key |-> NoFrame]
          /\ rd' = [pc |-> "none", pic |-> NoFrame, key |-> NoFrame]
          /\ main' = [main EXCEPT !.pc = main.ret]
          /\ UNCHANGED <<queue, arrived, target, cache, shown, hist>>

\* stop, when the loop ends or the runtime is dropped
StopRuntime == /\ main.pc = "idle"
               /\ main' = [Idle EXCEPT !.pc = IF rt.session THEN "join" ELSE "ended", !.ret = "ended"]
               /\ sess' = [sess EXCEPT !.open = FALSE]
               /\ ff' = [ff EXCEPT !.state = IF rt.session THEN StopChild(@) ELSE @]
               /\ UNCHANGED <<queue, arrived, target, rt, cache, wr, rd, shown, hist>>

----------------------------------------------------------------------------
(* run_slot0_continuous_bounded_feed: preview, feed, consume, at most      *)
(* FeedPerAttempt times.                                                   *)

StartFeed == /\ main.pc = "idle"
             /\ main' = [Idle EXCEPT !.pc = "preview", !.origin = "Feeder"]
             /\ shown' = NoShown
             /\ UNCHANGED <<queue, arrived, target, rt, cache, sess, ff, wr, rd, hist>>

\* a frame of the future, no frame and a handoff error all end the attempt
FeedPreview ==
  /\ main.pc = "preview"
  /\ \/ main' = Idle
     \/ /\ queue # <<>> /\ Head(queue).id <= target
        /\ main' = [main EXCEPT !.pc = "reserve", !.frame = Head(queue), !.result = "none"]
  /\ UNCHANGED <<queue, arrived, target, rt, cache, sess, ff, wr, rd, shown, hist>>

FeedAfter ==
  /\ main.pc = "after" /\ main.origin = "Feeder"
  /\ main' = IF main.result = "Enqueued" THEN [main EXCEPT !.pc = "consume"] ELSE Idle
  /\ UNCHANGED <<queue, arrived, target, rt, cache, sess, ff, wr, rd, shown, hist>>

\* The server answers with whatever is at its head now.
FeedConsume ==
  /\ main.pc = "consume"
  /\ \/ /\ main' = Idle     \* handoff error, or the server has nothing left
        /\ UNCHANGED <<queue, hist>>
     \/ /\ queue # <<>>
        /\ queue' = Tail(queue)
        /\ LET same == Head(queue) = main.frame
           IN /\ hist' = [hist EXCEPT !.consumed = @ \cup {Head(queue)},
                                      !.mismatch = IF same THEN @ ELSE @ + 1,
                                      !.late = IF Head(queue).id > target THEN @ \cup {Head(queue)} ELSE @]
              /\ main' = IF same /\ main.n + 1 < FeedPerAttempt
                         THEN [main EXCEPT !.pc = "preview", !.n = @ + 1, !.frame = NoFrame]
                         ELSE Idle
  /\ UNCHANGED <<arrived, target, rt, cache, sess, ff, wr, rd, shown>>

----------------------------------------------------------------------------
(* decode_annex_b_h264_with_diagnostics_for_purpose                        *)

\* Slot 0 frames are requested as the handoff shows them; the preview of a
\* tick asks with a fresh refresh budget, or continues the tick's budget.
StartRender ==
  /\ main.pc = "idle"
  /\ \E f \in ToSet(queue) \cup (Frames \ {Slot0(i) : i \in 1..MaxFrame}),
        p \in {"PreviewFallback", "ProgramStartupBootstrap"},
        b \in {RefreshBudget, main.budget}, r \in {FALSE, ProgramFirst} :
       LET m == [Idle EXCEPT !.frame = f, !.origin = "RenderDemand", !.purpose = p, !.budget = b,
                             !.reuse = r, !.pc = "exact", !.ret = "exact"]
       IN IF f.src = "slot0" THEN Drain(m) ELSE main' = m /\ UNCHANGED <<rt, cache, sess, ff, hist>>
  /\ shown' = NoShown
  /\ UNCHANGED <<queue, arrived, target, wr, rd>>

Answer(how, key, pic) ==
  /\ shown' = [how |-> how, req |-> main.frame, key |-> key, pic |-> pic]
  /\ main' = [Idle EXCEPT !.budget = main.budget]

ExactLookup ==
  /\ main.pc = "exact"
  /\ LET f == main.frame
     IN IF f \in DOMAIN cache
        THEN Answer("exact", f, cache[f])
        ELSE /\ main' = [main EXCEPT !.pc = IF f.src = "slot0" THEN "reserve" ELSE "oneshot"]
             /\ UNCHANGED shown
  /\ UNCHANGED <<queue, arrived, target, rt, cache, sess, ff, wr, rd, hist>>

\* bounded_lag_lookup_candidate: newest decoded first, the first key that
\* is not later than the requested frame, and only within the allowed lag.
NotAfter(f) == {i \in DOMAIN rt.order : rt.order[i].id <= f.id}
bounded_lag_lookup_candidate(f) ==
    IF rt.disabled \/ NotAfter(f) = {} THEN NoFrame
    ELSE LET k == rt.order[CHOOSE i \in NotAfter(f) : \A j \in NotAfter(f) : j <= i]
         IN IF f.id - k.id > AllowedLag THEN NoFrame ELSE k

RenderAfterEnqueue ==
  /\ main.pc = "after" /\ main.origin = "RenderDemand"
  /\ LET f == main.frame
         k == bounded_lag_lookup_candidate(f)
     IN CASE f \in DOMAIN cache -> Answer("exact", f, cache[f])
          [] f \notin DOMAIN cache /\ k \in DOMAIN cache -> Answer("bounded", k, cache[k])
          [] OTHER ->
               IF SuppressOneShot /\ main.running /\ main.purpose = "PreviewFallback"
               THEN Answer("deferred", NoFrame, NoFrame)
               ELSE main' = [main EXCEPT !.pc = "oneshot"] /\ UNCHANGED shown
  /\ UNCHANGED <<queue, arrived, target, rt, cache, sess, ff, wr, rd, hist>>

\* maybe_suppress_program_first_preview_one_shot: slot 0 is the program
\* source, suppressed when its continuous picture is reused instead; the
\* other source spends the refresh budget.
SuppressPreview_IgnoresBudget(f) == /\ ProgramFirst /\ main.purpose = "PreviewFallback"
                                    /\ f.src = "slot0" /\ main.reuse
SuppressPreview(f) == /\ ProgramFirst /\ main.purpose = "PreviewFallback"
                      /\ IF f.src = "slot0" THEN main.reuse ELSE main.budget = 0

OneShot ==
  /\ main.pc = "oneshot"
  /\ LET f == main.frame
         spent == IF ProgramFirst /\ main.purpose = "PreviewFallback" /\ f.src # "slot0" /\ main.budget > 0
                  THEN main.budget - 1 ELSE main.budget
         done(how, pic) == /\ shown' = [how |-> how, req |-> f, key |-> f, pic |-> pic]
                           /\ main' = [Idle EXCEPT !.budget = spent]
     IN \/ SuppressPreview(f) /\ Answer("deferred", NoFrame, NoFrame) /\ UNCHANGED cache
        \/ /\ ~SuppressPreview(f)
           /\ \/ done("failed", NoFrame) /\ UNCHANGED cache
              \/ /\ done("oneshot", f)
                 /\ cache' = [k \in DOMAIN cache \cup {f} |-> IF k = f THEN f ELSE cache[k]]
  /\ UNCHANGED <<queue, arrived, target, rt, sess, ff, wr, rd, hist>>

----------------------------------------------------------------------------
(* latest_continuous_program_frame: drain, then the newest decoded key.    *)

StartProgram == /\ main.pc = "idle"
                /\ Drain([Idle EXCEPT !.pc = "latest", !.ret = "latest", !.budget = main.budget])
                /\ shown' = NoShown
                /\ UNCHANGED <<queue, arrived, target, wr, rd>>

ProgramLatest ==
  /\ main.pc = "latest"
  /\ IF rt.order # <<>> /\ Last(rt.order) \in DOMAIN cache
     THEN Answer("latest", Last(rt.order), cache[Last(rt.order)])
     ELSE main' = [Idle EXCEPT !.budget = main.budget] /\ UNCHANGED shown
  /\ UNCHANGED <<queue, arrived, target, rt, cache, sess, ff, wr, rd, hist>>

----------------------------------------------------------------------------
(* two_real_continuous_ffmpeg_writer_loop                                  *)

\* recv, and with it the fetch_sub of the diagnostic queue length that is the
\* writer's next statement: between the two the code's counter is one higher.
WriterRecv ==
  /\ wr.pc = "recv"
  /\ \/ /\ sess.chan # <<>>
        /\ wr' = [pc |-> "push", key |-> Head(sess.chan)]
        /\ sess' = [sess EXCEPT !.chan = Tail(@), !.qlen = @ - 1]
     \/ /\ sess.chan = <<>> /\ ~sess.open
        /\ wr' = [wr EXCEPT !.pc = "done"]
        /\ UNCHANGED sess
  /\ UNCHANGED <<queue, arrived, target, rt, cache, ff, rd, main, shown, hist>>

\* the identity is queued before the bytes are written
WriterPush ==
  /\ wr.pc = "push"
  /\ sess' = [sess EXCEPT !.corr = Append(@, wr.key)]
  /\ wr' = [wr EXCEPT !.pc = "write"]
  /\ UNCHANGED <<queue, arrived, target, rt, cache, ff, rd, main, shown, hist>>

Error(why) == [kind |-> "RuntimeError", why |-> why, key |-> NoFrame, pic |-> NoFrame]
WriterWrite ==
  /\ wr.pc = "write"
  /\ \/ /\ ff.state = "running" /\ Len(ff.in) < PipeBound
        /\ ff' = [ff EXCEPT !.in = Append(@, wr.key)]
        /\ wr' = [pc |-> "recv", key |-> NoFrame]
        /\ UNCHANGED sess
     \/ /\ ff.state # "running"
        /\ sess' = [sess EXCEPT !.events = Append(@, Error("stdin_write_failed"))]
        /\ wr' = [pc |-> "done", key |-> NoFrame]
        /\ UNCHANGED ff
  /\ UNCHANGED <<queue, arrived, target, rt, cache, rd, main, shown, hist>>

(* two_real_continuous_ffmpeg_reader_loop                                  *)

\* the end of the output is not reported
ReaderRead ==
  /\ rd.pc = "read"
  /\ \/ /\ ff.out # <<>>
        /\ rd' = [rd EXCEPT !.pc = "pop", !.pic = Head(ff.out)]
        /\ ff' = [ff EXCEPT !.out = Tail(@)]
        /\ UNCHANGED sess
     \/ /\ ff.out = <<>> /\ ff.state # "running"
        /\ rd' = [rd EXCEPT !.pc = "done"]
        /\ sess' = [sess EXCEPT !.events = Append(@, Error("stdout_read_failed"))]
        /\ UNCHANGED ff
  /\ UNCHANGED <<queue, arrived, target, rt, cache, wr, main, shown, hist>>

PopCorrespondence_Newest(c) == [key |-> Last(c), rest |-> Front(c)]
PopCorrespondence(c) == [key |-> Head(c), rest |-> Tail(c)]
ReaderPop ==
  /\ rd.pc = "pop"
  /\ IF sess.corr = <<>>
     THEN /\ sess' = [sess EXCEPT !.events = Append(@, Error("output_without_input"))]
          /\ rd' = [rd EXCEPT !.pc = "done", !.pic = NoFrame]
     ELSE LET p == PopCorrespondence(sess.corr)
          IN /\ sess' = [sess EXCEPT !.corr = p.rest]
             /\ rd' = [rd EXCEPT !.pc = "emit", !.key = p.key]
  /\ UNCHANGED <<queue, arrived, target, rt, cache, ff, wr, main, shown, hist>>

ReaderEmit ==
  /\ rd.pc = "emit"
  /\ sess' = [sess EXCEPT !.events = Append(@, [kind |-> "Decoded", why |-> "", key |-> rd.key, pic |-> rd.pic])]
  /\ rd' = [pc |-> "read", pic |-> NoFrame, key |-> NoFrame]
  /\ UNCHANGED <<queue, arrived, target, rt, cache, ff, wr, main, shown, hist>>

(* The ffmpeg process: one picture per access unit, in order, unless it    *)
(* swallows one; it may end at any time.                                   *)
FfmpegDecodes == /\ ff.state = "running" /\ ff.in # <<>> /\ Len(ff.out) < PipeBound
                 /\ ff' = [ff EXCEPT !.in = Tail(@), !.out = Append(@, Head(ff.in))]
                 /\ UNCHANGED <<queue, arrived, target, rt, cache, sess, wr, rd, main, shown, hist>>
FfmpegSkips == /\ ff.state = "running" /\ ff.in # <<>> /\ hist.skips < MaxSkips
               /\ ff' = [ff EXCEPT !.in = Tail(@)]
               /\ hist' = [hist EXCEPT !.skips = @ + 1]
               /\ UNCHANGED <<queue, arrived, target, rt, cache, sess, wr, rd, main, shown>>
FfmpegExits == /\ ff.state = "running"
               /\ ff' = [ff EXCEPT !.state = "exited"]
               /\ UNCHANGED <<queue, arrived, target, rt, cache, sess, wr, rd, main, shown, hist>>

----------------------------------------------------------------------------
MainStep == \/ StartFeed \/ FeedPreview \/ FeedAfter \/ FeedConsume
            \/ StartProgram \/ ProgramLatest \/ StartRender \/ ExactLookup \/ RenderAfterEnqueue \/ OneShot
            \/ Reserve \/ TrySend \/ DrainAfterEnqueue \/ Joined \/ StopRuntime
WriterStep == WriterRecv \/ WriterPush \/ WriterWrite
ReaderStep == ReaderRead \/ ReaderPop \/ ReaderEmit
FfmpegStep == FfmpegDecodes \/ FfmpegSkips \/ FfmpegExits
Next == MainStep \/ WriterStep \/ ReaderStep \/ FfmpegStep \/ ServerStores \/ TargetAdvances

Spec == Init /\ [][Next]_vars

\* Threads, the process and the loop of the main thread keep running; no
\* fairness for the process decoding beyond that it does not stall forever.
FairSpec == /\ Spec
            /\ WF_vars(WriterStep) /\ WF_vars(ReaderStep) /\ WF_vars(FfmpegDecodes)
            /\ WF_vars(MainStep) /\ SF_vars(StartProgram)

----------------------------------------------------------------------------
Keys(s) == {s[i] : i \in DOMAIN s}

DecoderTypeOK ==
  /\ queue \in Seq(Frames) /\ Len(queue) <= ServerBound
  /\ arrived \in 0..MaxFrame /\ target \in 0..MaxFrame
  /\ rt \in [disabled : BOOLEAN, session : BOOLEAN, enqueued : SUBSET Frames,
             order : Seq(Frames), latest : Nat]
  /\ DOMAIN cache \subseteq Frames
  /\ sess.qlen \in Nat /\ Len(sess.chan) <= QueueBound
  /\ Len(ff.in) <= PipeBound /\ Len(ff.out) <= PipeBound

\* While ffmpeg answers every access unit with one picture, each cached
\* picture is the one of the frame it is stored under, although an output
\* carries no identity and is matched by position only.
DecodedUnderOwnKey == \A k \in DOMAIN cache : cache[k] = k

\* What a decode request answers is never a picture of another source, of a
\* later frame, or of a frame more than the allowed lag older.
ShownPictureIsRecent ==
  shown.how \in {"exact", "bounded", "oneshot"} =>
    /\ shown.pic.src = shown.req.src
    /\ shown.pic.id <= shown.req.id
    /\ shown.req.id - shown.pic.id <= AllowedLag

\* The decoded-key order has no key twice, stays within its bound, and every
\* key in it has its picture: a lookup that finds a key finds the picture.
OrderAgreesWithCache ==
  /\ Len(rt.order) <= QueueBound
  /\ \A i, j \in DOMAIN rt.order : rt.order[i] = rt.order[j] => i = j
  /\ Keys(rt.order) \subseteq DOMAIN cache

\* While the session runs, the shared length counter is the number of inputs
\* in the channel plus the one reservation the main thread may hold (and, in the
\* code, the input the writer has received and not yet counted).
QueueLenCounts ==
  rt.session => sess.qlen = Len(sess.chan) + (IF main.pc = "send" THEN 1 ELSE 0)

\* Every accepted input is exactly once in the pipeline, in the order it was
\* fed, until it is drained: nothing is lost, doubled or overtaken, and only
\* inputs the channel took are remembered as duplicates.
One(present, k) == IF present THEN <<k>> ELSE <<>>
InPipeline == One(rd.pc = "emit", rd.key) \o sess.corr \o One(wr.pc = "push", wr.key) \o sess.chan
PipelineIsFifo ==
  (rt.session /\ ~rt.disabled /\ main.ret # "ended") =>
    LET emitted == DecodedIn(sess.events, Len(sess.events))
    IN  /\ rt.enqueued = Keys(hist.fed)
        /\ \A i \in DOMAIN sess.events : sess.events[i].kind = "Decoded" =>
             sess.events[i].key = hist.fed[hist.decoded + DecodedIn(sess.events, i)]
        /\ InPipeline = SubSeq(hist.fed, hist.decoded + emitted + 1, Len(hist.fed))

\* The reader never sees a picture whose access unit is not yet in the
\* correspondence queue, so that error names a real surplus output.
OutputHasInput == \A i \in DOMAIN sess.events : sess.events[i].why # "output_without_input"

\* A frame taken from the server without being fed is counted as a mismatch.
LostFramesAreCounted ==
  Cardinality({f \in hist.consumed : \A i \in DOMAIN hist.fed : hist.fed[i] # f}) <= hist.mismatch

\* What the decoder caches, queues, answers and counts agrees, whichever of its
\* threads is ahead.
DecoderInvariant ==
  /\ DecoderTypeOK /\ DecodedUnderOwnKey /\ ShownPictureIsRecent
  /\ OrderAgreesWithCache /\ QueueLenCounts /\ PipelineIsFifo
  /\ OutputHasInput /\ LostFramesAreCounted

\* A step property: preview decodes of the other source stay within the budget of a tick.
PreviewBudgetKept ==
  (ProgramFirst /\ main.pc = "oneshot" /\ main.purpose = "PreviewFallback"
    /\ main.frame.src # "slot0" /\ shown'.how \in {"oneshot", "failed"})
  => main.budget > 0 /\ main'.budget = main.budget - 1

\* Disabling or stopping never leaves the main thread waiting for a thread.
DisableCompletes == (main.pc = "join") ~> (main.pc # "join")

\* What the decoder accepted is decoded, or the decoder is disabled or stopped.
AcceptedIsDecoded ==
  \A n \in 1..MaxFrame : (Len(hist.fed) >= n) ~> (hist.decoded >= n \/ rt.disabled \/ main.ret = "ended")

\* "frame_id lower than latest accepted feed frame_id: skip as old".
FedInOrder == \A i, j \in DOMAIN hist.fed : i < j => hist.fed[i].id < hist.fed[j].id

\* "it consumes only frames that are at or before the current targetTime".
ConsumesOnlyDueFrames == hist.late = {}

\* "Selects the nearest decoded frame id at or before the requested ... frame id".
BoundedHitIsNearest ==
  shown.how = "bounded" =>
     \A i \in DOMAIN rt.order : ~(shown.key.id < rt.order[i].id /\ rt.order[i].id <= shown.req.id)
============================================================================
