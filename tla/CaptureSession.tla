--------------------------- MODULE CaptureSession ---------------------------
(***************************************************************************)
(* The client's capture source, one picture at a time: a capture target    *)
(* prepared into a session, the session's two-buffer frame pool, and shots *)
(* that take one frame out of the pool, copy it, paint the validation      *)
(* marker on it, push it through an ffmpeg process of its own and send it. *)
(* The window may be resized while the pool keeps the size it was made     *)
(* with; any call of the platform, of ffmpeg or of the socket may fail.    *)
(***************************************************************************)
EXTENDS Naturals, Sequences, FiniteSets

CONSTANTS
  Sizes,        \* <<width, height>> of the captured item; a 0 is invalid
  EncoderSize,  \* the configured video.encoder size, or <<>>
  Labels,       \* the marker's label: "" (disabled), "p1", "p2", "other"
  Hooks,        \* "windows" and "unavailable" runtime hooks
  MaxShots      \* bound on the shots

CaptureAssumption ==
  /\ \A s \in Sizes : s[1] \in Nat /\ s[2] \in Nat
  /\ EncoderSize = <<>> \/ EncoderSize \in Nat \X Nat
  /\ Hooks \subseteq {"windows", "unavailable"} /\ MaxShots \in Nat

VARIABLES
  phase,     \* "prepare", "create", "ready", "refused"
  target,    \* [kind, named]: what to capture, and whether its name is blank
  answer,    \* why preparation or creation was refused
  window,    \* the item's present size
  session,   \* [size, started]: the runtime that was created
  pool,      \* the frame pool: queued content sizes, buffers held by a shot
  shot,      \* the shot under way: number, stage, frame, outcome
  marker,    \* [label, renders]: the validation marker and its count
  child,     \* ffmpeg processes: running, waited for, left unwaited
  seen,      \* ClientFfmpegEncodeVisibility of the last encode
  history    \* starts of the session, frames acquired, last picture sent

vars == <<phase, target, answer, window, session, pool, shot, marker, child, seen,
          history>>
environment == <<window, pool>>

Buffers == 2
Usable(size) == size[1] > 0 /\ size[2] > 0
NoFrame == [size |-> <<0, 0>>, length |-> 0, at |-> 0]
NoShot == [number |-> 0, stage |-> "idle", frame |-> NoFrame, outcome |-> "None"]

TargetKinds == {"PrimaryDisplay", "Display", "Window"}

Init ==
  /\ phase = "prepare"
  /\ \E kind \in TargetKinds, named \in BOOLEAN : target = [kind |-> kind, named |-> named]
  /\ answer = "None"
  /\ window \in Sizes
  /\ session = [size |-> <<0, 0>>, started |-> FALSE]
  /\ pool = [queued |-> <<>>, held |-> 0]
  /\ shot = NoShot
  /\ \E label \in Labels : marker = [label |-> label, renders |-> 0]
  /\ child = [running |-> FALSE, waited |-> 0, left |-> 0]
  /\ seen = "nothing"
  /\ history = [starts |-> 0, acquired |-> 0, failedWrites |-> 0, sent |-> NoFrame]
-----------------------------------------------------------------------------
(* From a target to a session.                                             *)

\* A display or a window needs a name; the primary display does not.
HasDetails == target.kind = "PrimaryDisplay" \/ target.named

Refuse(reason) == phase' = "refused" /\ answer' = reason

\* prepare_from_descriptor, and prepare_from_target_config with its backend
\* and its target given or not.
Prepare ==
  /\ phase = "prepare"
  /\ \/ HasDetails /\ phase' = "create" /\ UNCHANGED answer
     \/ ~HasDetails /\ Refuse("MissingTargetDetails")
     \/ \E reason \in {"BackendNotConfigured", "MissingTargetDetails"} : Refuse(reason)
  /\ UNCHANGED <<target, environment, session, shot, marker, child, seen, history>>

\* map_windows_error: what a failed Windows call is reported as.
WindowsErrors ==
  {"PermissionUnavailable", "InvalidTarget", "RuntimeUnavailable", "CreationFailed"}

\* create_session_with_runtime tests the details again before it calls a hook
\* (PreparedIsSupported: they are there).
Supported == HasDetails

\* The default hook is never wired.
NotWired == {"RuntimeUnavailable", "BackendUnsupported"}

\* A display by name is deferred; any Windows call may fail.
CreationRefused ==
  /\ phase = "create" /\ Supported
  /\ \/ /\ "unavailable" \in Hooks
        /\ \E reason \in NotWired : Refuse(reason)
     \/ /\ "windows" \in Hooks
        /\ \/ target.kind = "Display" /\ Refuse("CreationDeferred")
           \/ \E reason \in WindowsErrors : Refuse(reason)
           \/ ~Usable(window) /\ Refuse("InvalidTarget")
  /\ UNCHANGED <<target, environment, session, shot, marker, child, seen, history>>

\* Item, support, size, device, pool and session all worked: the pool is as
\* large as the item is now, and nothing is started yet.
CreateSession ==
  /\ phase = "create"
  /\ Supported /\ "windows" \in Hooks /\ target.kind # "Display" /\ Usable(window)
  /\ session' = [size |-> window, started |-> FALSE]
  /\ phase' = "ready"
  /\ UNCHANGED <<target, answer, environment, shot, marker, child, seen, history>>

\* The environment: the item changes its size, the compositor fills a buffer.
Resize ==
  /\ phase = "ready"
  /\ window' \in Sizes \ {window}
  /\ UNCHANGED <<phase, target, answer, session, pool, shot, marker, child, seen, history>>

FrameArrives ==
  /\ session.started
  /\ Len(pool.queued) + pool.held < Buffers
  /\ pool' = [pool EXCEPT !.queued = Append(@, window)]
  /\ UNCHANGED <<phase, target, answer, window, session, shot, marker, child, seen, history>>
-----------------------------------------------------------------------------
(* One shot: acquire.                                                      *)

End(outcome) == shot' = [shot EXCEPT !.stage = "idle", !.outcome = outcome]
Go(stage) == shot' = [shot EXCEPT !.stage = stage]

BeginShot ==
  /\ phase = "ready" /\ shot.stage = "idle" /\ shot.number < MaxShots
  /\ shot' = [NoShot EXCEPT !.number = shot.number + 1, !.stage = "start"]
  /\ UNCHANGED <<phase, target, answer, environment, session, marker, child, seen, history>>

\* Why no frame could be acquired; the first two are the default hook's.
Unavailable == NotWired \cup {"CaptureNotStarted", "AcquisitionFailed"}

\* try_acquire_one_bgra_frame starts the session when it has to and may; a
\* failed start is tried again by the next shot.
StartCapture ==
  /\ shot.stage = "start"
  /\ \/ session.started /\ Go("take") /\ UNCHANGED <<session, history>>
     \/ /\ ~session.started
        /\ \E why \in Unavailable : End(why)
        /\ UNCHANGED <<session, history>>
     \/ /\ ~session.started
        /\ session' = [session EXCEPT !.started = TRUE]
        /\ history' = [history EXCEPT !.starts = @ + 1]
        /\ Go("take")
  /\ UNCHANGED <<phase, target, answer, environment, marker, child, seen>>

TakeFrame ==
  /\ shot.stage = "take"
  /\ \/ pool.queued = <<>> /\ End("NoFrameAvailable") /\ UNCHANGED pool
     \/ End("AcquisitionFailed") /\ UNCHANGED pool
     \/ /\ pool.queued # <<>>
        /\ pool' = [pool EXCEPT !.held = 1]
        /\ Go("copy")
  /\ UNCHANGED <<phase, target, answer, window, session, marker, child, seen, history>>

\* The buffer goes back to the pool whether or not the copy worked.
Closed == [queued |-> Tail(pool.queued), held |-> 0]

\* The content size decides whether the frame is usable; the copied picture
\* has the size of the pool's texture.
Copied == [size |-> session.size, length |-> session.size[1] * session.size[2] * 4,
           at |-> shot.number]

CopyFails ==
  /\ shot.stage = "copy"
  /\ End("AcquisitionFailed")
  /\ pool' = Closed
  /\ UNCHANGED <<phase, target, answer, window, session, marker, child, seen, history>>

CopyFrame ==
  /\ shot.stage = "copy"
  /\ Usable(Head(pool.queued))
  /\ pool' = Closed
  /\ shot' = [shot EXCEPT !.stage = "mark", !.frame = Copied]
  /\ history' = [history EXCEPT !.acquired = @ + 1]
  /\ UNCHANGED <<phase, target, answer, window, session, marker, child, seen>>
-----------------------------------------------------------------------------
(* The validation marker: its box, and what is painted into it.            *)

Least(a, b) == IF a < b THEN a ELSE b
Most(a, b) == IF a > b THEN a ELSE b
Clamped(x, low, high) == Most(low, Least(x, high))
Minus(a, b) == IF a > b THEN a - b ELSE 0
Rect(x, y, w, h) == [x |-> x, y |-> y, w |-> w, h |-> h]

MarkerWidth(size) == Most(1, Least(size[1], Most((2 * size[1]) \div 5, 260)))
MarkerHeight(size) == Most(1, Least(size[2], Most((3 * size[2]) \div 10, 160)))
Border(size) == Clamped(Least(MarkerWidth(size), MarkerHeight(size)), 2, 12)
InnerWidth(size) == Minus(MarkerWidth(size), 2 * Border(size))
InnerHeight(size) == Minus(MarkerHeight(size), 2 * Border(size))

\* draw_..._letter_p and draw_..._digit: the strokes of a glyph.
LetterP(x, y, w, h, bar) ==
  {Rect(x, y, bar, h), Rect(x, y, w, bar), Rect(x, y + Most(h \div 2, bar), w, bar),
   Rect(x + Minus(w, bar), y, bar, Most(h \div 2, bar))}

Digit(kind, x, y, w, h, bar) ==
  IF w = 0 \/ h = 0 THEN {}
  ELSE IF kind = "p1"
  THEN {Rect(x + (2 * w) \div 3, y, bar, h), Rect(x + w \div 3, y, w \div 3, bar),
        Rect(x + w \div 4, y + Minus(h, bar), (2 * w) \div 3, bar)}
  ELSE {Rect(x, y, w, bar), Rect(x, y + Minus(h, bar), w, bar)} \cup
       IF kind = "p2"
       THEN {Rect(x, y + h \div 2, w, bar), Rect(x + Minus(w, bar), y, bar, h \div 2),
             Rect(x, y + h \div 2, bar, h \div 2)}
       ELSE {Rect(x, y, bar, h), Rect(x + Minus(w, bar), y, bar, h)}

\* draw_validation_source_marker_block_glyphs, in white: a P and the digit.
Glyphs(size, kind) ==
  LET b == Border(size)  uw == InnerWidth(size)  uh == InnerHeight(size)
      gh == Most((3 * uh) \div 5, 1)  gw == Most((2 * uw) \div 5, 1)
      gy == b + Most(Minus(uh, gh) \div 5, 1)
      gap == Most(uw \div 12, 1)
      x2 == b + gap + gw + gap
      w2 == Least(gw, Minus(MarkerWidth(size), x2 + b))
      bar == Clamped(Least(gw, gh) \div 6, 2, 18)
  IN  IF uw < 12 \/ uh < 12 THEN {}
      ELSE LetterP(b + gap, gy, gw, gh, bar) \cup Digit(kind, x2, gy, w2, gh, bar)

\* The white block of a player's identity band, first third or last; another
\* label's band is painted in stripes.
Band(size, kind) ==
  LET b == Border(size)  uw == InnerWidth(size)
      third == Most(uw \div 3, 1)
      bh == Clamped(InnerHeight(size) \div 4, 1, 42)
      by == b + Minus(InnerHeight(size), bh)
      stripes == Least(uw, 32)
      sw == Most((uw + stripes - 1) \div stripes, 1)
  IN  IF uw = 0 \/ InnerHeight(size) = 0 THEN {}
      ELSE IF kind = "other"
      THEN {Rect(b + n * sw, by, sw, bh) : n \in 0 .. stripes - 1}
      ELSE {Rect(IF kind = "p1" THEN b ELSE b + Minus(uw, third), by, third, bh)}

\* Only a usable frame, and only when the marker is enabled.
Renders == marker.label # "" /\ Usable(shot.frame.size)

Mark ==
  /\ shot.stage = "mark"
  /\ marker' = [marker EXCEPT !.renders = IF Renders THEN @ + 1 ELSE @]
  /\ Go("encode")
  /\ UNCHANGED <<phase, target, answer, environment, session, child, seen, history>>
-----------------------------------------------------------------------------
(* Encode, with an ffmpeg process for this frame alone, and send.          *)

\* expected_bgra_len.
LengthFits == shot.frame.length = shot.frame.size[1] * shot.frame.size[2] * 4

\* Only a usable frame of the right length is encoded; PicturesKeepTheirSize
\* says that every copied frame is one.
Spawn ==
  /\ shot.stage = "encode"
  /\ Usable(shot.frame.size) /\ LengthFits
  /\ \/ child' = [child EXCEPT !.running = TRUE] /\ Go("write") /\ UNCHANGED seen
     \/ /\ \E why \in {"EncoderUnavailable", "EncodeFailed"} : End(why)
        /\ seen' = "spawn"
        /\ UNCHANGED child
  /\ UNCHANGED <<phase, target, answer, environment, session, marker, history>>

\* A failed write returns without waiting for the process.
WriteFails ==
  /\ shot.stage = "write"
  /\ child' = [child EXCEPT !.running = FALSE, !.left = @ + 1]
  /\ history' = [history EXCEPT !.failedWrites = @ + 1]
  /\ End("EncodeFailed")
  /\ seen' = "ffmpeg"
  /\ UNCHANGED <<phase, target, answer, environment, session, marker>>

\* wait_with_output: a failure or an empty stream is an error, else a payload.
WaitForOutput ==
  /\ shot.stage = "write"
  /\ child' = [child EXCEPT !.running = FALSE, !.waited = @ + 1]
  /\ \/ Go("send") /\ seen' = "nothing"
     \/ End("EncodeFailed") /\ seen' = "ffmpeg"
  /\ UNCHANGED <<phase, target, answer, environment, session, marker, history>>

\* The encoded source has the configured size when there is one.
Encoded == [shot.frame EXCEPT !.size = IF EncoderSize = <<>> THEN @ ELSE EncoderSize]

SendPicture ==
  /\ shot.stage = "send"
  /\ \/ End("Sent") /\ history' = [history EXCEPT !.sent = Encoded]
     \/ End("SendFailed") /\ UNCHANGED history
  /\ UNCHANGED <<phase, target, answer, environment, session, marker, child, seen>>

Next ==
  \/ Prepare \/ CreationRefused \/ CreateSession \/ Resize \/ FrameArrives
  \/ BeginShot \/ StartCapture \/ TakeFrame \/ CopyFails \/ CopyFrame \/ Mark
  \/ Spawn \/ WriteFails \/ WaitForOutput \/ SendPicture

Spec == Init /\ [][Next]_vars
-----------------------------------------------------------------------------
\* The state stays in its types and the pool within its two buffers.
CaptureTypeOK ==
  /\ phase \in {"prepare", "create", "ready", "refused"}
  /\ window \in Sizes
  /\ shot.number \in 0 .. MaxShots
  /\ Len(pool.queued) <= Buffers /\ pool.held \in 0 .. 1
  /\ shot.stage \in {"idle", "start", "take", "copy", "mark", "encode", "write", "send"}

\* No outcome of a shot keeps a buffer of the pool: outside the copy, all that
\* are not queued are free for the compositor.
NoBufferKept == pool.held = IF shot.stage = "copy" THEN 1 ELSE 0

\* The session is started at most once, however often a start failed, and no
\* frame is acquired before.
StartedOnce ==
  /\ history.starts = IF session.started THEN 1 ELSE 0
  /\ history.acquired > 0 => session.started
  /\ phase # "ready" => ~session.started

\* However the window is resized under way, every picture sent has the size
\* the session was made with, or the configured one.
PicturesKeepTheirSize ==
  /\ history.sent.at > 0 =>
       history.sent.size = IF EncoderSize = <<>> THEN session.size ELSE EncoderSize
  /\ shot.stage = "encode" => LengthFits /\ Usable(shot.frame.size)

\* A picture that was sent is the one this client's shot acquired: no shot
\* sends an older frame.
SendsItsOwnFrame ==
  /\ shot.outcome = "Sent" => history.sent.at = shot.number
  /\ history.sent.at <= shot.number

\* An ffmpeg process is waited for unless writing to it failed; none outlives
\* its shot running and unaccounted.
ChildrenAccounted ==
  /\ child.left = history.failedWrites
  /\ child.running = (shot.stage = "write")
  /\ child.waited + child.left <= history.acquired
  /\ shot.outcome = "Sent" => seen = "nothing"

\* The second test of the target's details never refuses what was prepared.
PreparedIsSupported == phase \in {"create", "ready"} => Supported

\* One marker per frame acquired while it is enabled; the two players' bands
\* differ, and none of their strokes leaves the box the marker reports (the
\* stripes of another label may: their width is rounded up).
Inside(r, size) ==
  r.x + r.w <= MarkerWidth(size) /\ r.y + r.h <= MarkerHeight(size)

MarkersTellApart ==
  /\ shot.stage \in {"idle", "start", "take", "copy"} =>
       marker.renders = IF marker.label = "" THEN 0 ELSE history.acquired
  /\ shot.stage = "mark" =>
       LET size == shot.frame.size
       IN  /\ \A kind \in Labels \cap {"p1", "p2"} :
                \A r \in Glyphs(size, kind) \cup Band(size, kind) : Inside(r, size)
           /\ InnerWidth(size) > 1 /\ InnerHeight(size) > 0 =>
                Band(size, "p1") # Band(size, "p2")

CaptureInvariant ==
  /\ CaptureTypeOK /\ NoBufferKept /\ StartedOnce /\ PicturesKeepTheirSize
  /\ SendsItsOwnFrame /\ ChildrenAccounted /\ PreparedIsSupported /\ MarkersTellApart
=============================================================================
