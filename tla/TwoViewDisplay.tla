--------------------------- MODULE TwoViewDisplay ---------------------------
(* Two clients' views shown side by side (src/apps/switcher/src/lib.rs): late
   frames are dropped, the scheduler selects a frame per view for one target
   time, each selected frame is decoded and drawn in its view's own window, the
   display policy updates or holds each view, and both are composed on one
   canvas.  The selection reads the server's queues in process, or through the
   handoff, whose requests can fail and between which the queues move.  The
   caller, which carries the displayed frames from pass to pass, is external. *)
EXTENDS Integers, Sequences, FiniteSets

CONSTANTS
  Incoming,   \* the frames of the views: [view, stamp, width, height]
  Offsets,    \* [Views -> Int]: clock offset of each view's client
  Handoff,    \* whether the queues are read through the handoff
  Consume,    \* scheduler mode ConsumeOldestAtOrBeforeAllSelected
  Errors,     \* the handoff errors that occur
  Skips,      \* the ways decoding or drawing a selected frame fails
  MaxLate,    \* late-frame policy, in process
  MaxHold,    \* max_hold_duration_micros
  MaxCanvas,  \* the largest canvas, in pixels
  MaxNow, Passes

Views == {"Left", "Right"}

TwoViewAssumption ==
  /\ \A f \in Incoming : f.view \in Views /\ f.stamp \in Nat /\ f.width \in Nat \ {0}
                         /\ f.height \in Nat \ {0} /\ f.width * f.height <= MaxCanvas
  /\ Offsets \in [Views -> Int]
  /\ Errors \subseteq {"SourceUnavailable", "Timeout", "SourceShutdown", "InvalidScope",
                       "UnsupportedMode", "MalformedResponse"}
  /\ Handoff \in BOOLEAN /\ Consume \in BOOLEAN
  /\ {MaxLate, MaxHold, MaxCanvas, MaxNow, Passes} \subseteq Nat

VARIABLES
  queue,      \* [view -> sequence of frames] at the server
  arrived,
  passes, now, target,
  pc,         \* where the pass stands
  view,       \* the view whose request is next
  results,    \* [view -> result] of the scheduler
  dropped,    \* [view -> frames] dropped as late by this pass
  taken,      \* frames this pass took from the queues
  outcome,    \* [view -> outcome] of decoding and drawing
  decision,   \* [view -> decision] of the display policy
  canvas,     \* the composition
  screen,     \* what the composed window shows
  displayed,  \* the caller's displayed frame of each view, at most one
  window      \* what each view's own window shows, at most one

server == <<queue, arrived>>
schedule == <<view, results, dropped, taken>>
shown == <<outcome, decision, canvas, screen, displayed, window>>
vars == <<server, passes, now, target, pc, schedule, shown>>

Each(x) == [v \in Views |-> x]
The(S) == CHOOSE x \in S : TRUE
Largest(S) == CHOOSE x \in S : \A y \in S : y <= x
SaturatingSub(a, b) == IF a < b THEN 0 ELSE a - b

NoResult == [kind |-> "none", frames |-> {}, error |-> "none"]
NoCanvas == [kind |-> "none", width |-> 0, height |-> 0, sides |-> Each({})]

Init ==
  /\ queue = Each(<<>>) /\ arrived = {}
  /\ passes = 0 /\ now = 0 /\ target = 0 /\ pc = "idle" /\ view = "Left"
  /\ results = Each(NoResult) /\ dropped = Each({}) /\ taken = {}
  /\ outcome = Each("none") /\ decision = Each([kind |-> "none", frames |-> {}])
  /\ canvas = NoCanvas /\ screen = NoCanvas
  /\ displayed = Each({}) /\ window = Each({})

-----------------------------------------------------------------------------
(* The server.  In process the pass borrows its queues. *)

QueuesMove == (Handoff \/ pc = "idle") /\ UNCHANGED <<passes, now, target, pc, schedule, shown>>

Store(f) ==
  /\ f \notin arrived /\ arrived' = arrived \cup {f}
  /\ queue' = [queue EXCEPT ![f.view] = Append(@, f)]
  /\ QueuesMove

Evict(v) ==
  /\ queue[v] # <<>>
  /\ queue' = [queue EXCEPT ![v] = Tail(@)]
  /\ UNCHANGED arrived /\ QueuesMove

-----------------------------------------------------------------------------
(* The pass: a caller gives a target time and the current time. *)

Begin(t, n) ==
  /\ pc = "idle" /\ passes < Passes
  /\ n \in now..MaxNow
  /\ passes' = passes + 1 /\ target' = t /\ now' = n
  /\ \/ pc' = "preview"
     \/ ~Handoff /\ pc' = "drop_late"
  /\ view' = "Left"
  /\ results' = Each(NoResult) /\ dropped' = Each({}) /\ taken' = {}
  /\ outcome' = Each("none") /\ decision' = Each([kind |-> "none", frames |-> {}])
  /\ canvas' = NoCanvas
  /\ UNCHANGED <<server, screen, displayed, window>>

\* apply_offset_micros
Adjusted(f) == IF f.stamp + Offsets[f.view] < 0 THEN 0 ELSE f.stamp + Offsets[f.view]

\* The frames before the first one that is not late.
LateHead(v) ==
  {i \in 1..Len(queue[v]) :
     \A j \in 1..i : Adjusted(queue[v][j]) < SaturatingSub(target, MaxLate)}

DropLate ==
  /\ pc = "drop_late"
  /\ dropped' = [v \in Views |-> {queue[v][i] : i \in LateHead(v)}]
  /\ queue' = [v \in Views |-> SubSeq(queue[v], Cardinality(LateHead(v)) + 1, Len(queue[v]))]
  /\ pc' = "preview"
  /\ UNCHANGED <<arrived, passes, now, target, view, results, taken, shown>>

Candidate(v) ==
  IF queue[v] = <<>> THEN {}
  ELSE {IF Consume THEN Head(queue[v]) ELSE queue[v][Len(queue[v])]}

ResultFor(found) ==
  IF found = {} THEN [NoResult EXCEPT !.kind = "no_frame"]
  ELSE [kind |-> IF Adjusted(The(found)) <= target THEN "selected" ELSE "waiting",
        frames |-> found, error |-> "none"]

HandoffError(e) == [NoResult EXCEPT !.kind = "handoff_error", !.error = e]

AllSelected(rs) == \A v \in Views : rs[v].kind = "selected"

\* Records a view's result: the right view follows the left one, and a consuming
\* scheduler takes the frames only when both were selected.
Answer(r) ==
  /\ results' = [results EXCEPT ![view] = r]
  /\ IF view = "Left"
     THEN view' = "Right" /\ pc' = IF pc = "preview" THEN "preview" ELSE "consume"
     ELSE /\ view' = "Left"
          /\ pc' = IF pc = "preview" /\ Consume /\ AllSelected(results')
                   THEN "consume" ELSE "render"

Preview ==
  /\ pc = "preview"
  /\ \/ Answer(ResultFor(Candidate(view)))
     \/ Handoff /\ \E e \in Errors : Answer(HandoffError(e))
  /\ UNCHANGED <<server, passes, now, target, dropped, taken, shown>>

\* Consuming a view looks again before it takes.
LookAgain ==
  /\ pc = "consume"
  /\ LET r == ResultFor(Candidate(view)) IN
       \/ r.kind # "selected" /\ Answer(r)
       \/ r.kind = "selected" /\ pc' = "take" /\ UNCHANGED <<view, results>>
       \/ Handoff /\ \E e \in Errors : Answer(HandoffError(e))
  /\ UNCHANGED <<server, passes, now, target, dropped, taken, shown>>

\* The head at the time of the dequeue is taken; a reply may be lost.
Take ==
  /\ pc = "take"
  /\ LET found == Candidate(view) IN
       \/ /\ taken' = taken \cup found
          /\ queue' = [queue EXCEPT ![view] = IF @ = <<>> THEN @ ELSE Tail(@)]
          /\ \/ Answer(ResultFor(found))
             \/ Handoff /\ \E e \in Errors : Answer(HandoffError(e))
       \/ /\ Handoff /\ \E e \in Errors : Answer(HandoffError(e))
          /\ UNCHANGED <<queue, taken>>
  /\ UNCHANGED <<arrived, passes, now, target, dropped, shown>>

Status ==
  IF \E v \in Views : results[v].kind = "handoff_error" THEN "HandoffError"
  ELSE IF AllSelected(results) THEN "AllSelected"
  ELSE IF \E v \in Views : results[v].kind = "selected" THEN "PartialSelected"
  ELSE IF \E v \in Views : results[v].kind = "waiting" THEN "Waiting"
  ELSE "NoFrames"

-----------------------------------------------------------------------------
(* Decoding and drawing each view in its own window. *)

\* Each view's instruction: a view without a frame is skipped.
Instruction(v) ==
  CASE results[v].kind = "selected" -> "render_frame"
    [] results[v].kind = "handoff_error" -> "source_error"
    [] results[v].kind \in {"no_frame", "waiting"} -> "unavailable"

\* Decoding has to succeed before the frame is drawn.
Outcomes(v) ==
  IF Instruction(v) = "render_frame" THEN {"rendered"} \cup Skips ELSE {Instruction(v)}

DecodeRender ==
  /\ pc = "render"
  /\ \E o \in [Views -> {"rendered", "source_error", "unavailable"} \cup Skips] :
       /\ \A v \in Views : o[v] \in Outcomes(v)
       /\ outcome' = o
       /\ window' = [v \in Views |-> IF o[v] = "rendered"
                                     THEN {[frame |-> The(results[v].frames), at |-> now]}
                                     ELSE window[v]]
  /\ pc' = "display"
  /\ UNCHANGED <<server, passes, now, target, schedule, decision, canvas, screen, displayed>>

-----------------------------------------------------------------------------
(* The display policy and the composition. *)

Drawn == {v \in Views : outcome[v] = "rendered"}

\* What a view without a displayed frame shows instead.
Placeholder(v) == IF outcome[v] = "source_error" THEN "source_error" ELSE "no_display"

\* A view that was not drawn holds its displayed frame, until it is too old.
Decide(v) ==
  IF v \in Drawn
  THEN [kind |-> "update", frames |-> {[frame |-> The(results[v].frames), at |-> now]}]
  ELSE IF displayed[v] = {}
  THEN [kind |-> Placeholder(v), frames |-> {}]
  ELSE IF SaturatingSub(now, The(displayed[v]).at) > MaxHold
  THEN [kind |-> "stale", frames |-> displayed[v]]
  ELSE [kind |-> "hold", frames |-> displayed[v]]

Shows(d) == d.kind \in {"update", "hold"}

\* The slot is as wide as the widest view and as high as the highest.
SlotSize(frames) == [width |-> Largest({f.width : f \in frames}),
                     height |-> Largest({f.height : f \in frames})]

TooLarge(slot) == 2 * slot.width * slot.height > MaxCanvas

\* The views on the canvas: the left slot, and right of it the right one.
Placed(ds, slot) ==
  [v \in Views |->
     IF Shows(ds[v])
     THEN {[shown |-> The(ds[v].frames), x |-> IF v = "Left" THEN 0 ELSE slot.width]}
     ELSE {}]

\* A canvas of two slots with the views that are shown, whichever they are; one
\* that would be too large shows neither.
Compose(ds) ==
  LET frames == {The(ds[v].frames).frame : v \in {w \in Views : Shows(ds[w])}}
  IN IF frames = {} THEN [NoCanvas EXCEPT !.kind = "empty"]
     ELSE IF TooLarge(SlotSize(frames)) THEN [NoCanvas EXCEPT !.kind = "invalid"]
     ELSE [kind |-> "composed", width |-> 2 * SlotSize(frames).width,
           height |-> SlotSize(frames).height, sides |-> Placed(ds, SlotSize(frames))]

\* The composed window takes the canvas, or drawing it fails.
RenderCanvas(c) ==
  \/ c.kind = "composed" /\ screen' = c
  \/ UNCHANGED screen

\* The caller keeps a view's frame when the policy updates it.
Carried(v, d) == IF d.kind = "update" THEN d.frames ELSE displayed[v]

Display ==
  /\ pc = "display"
  /\ decision' = [v \in Views |-> Decide(v)]
  /\ canvas' = Compose(decision')
  /\ RenderCanvas(canvas')
  /\ displayed' = [v \in Views |-> Carried(v, decision'[v])]
  /\ pc' = "report"
  /\ UNCHANGED <<server, passes, now, target, schedule, outcome, window>>

Report == pc = "report" /\ pc' = "idle"
          /\ UNCHANGED <<server, passes, now, target, schedule, shown>>

Next ==
  \/ \E f \in Incoming : Store(f)
  \/ \E v \in Views : Evict(v)
  \/ \E t \in 0..MaxNow, n \in 0..MaxNow : Begin(t, n)
  \/ DropLate \/ Preview \/ LookAgain \/ Take \/ DecodeRender \/ Display \/ Report

Spec == Init /\ [][Next]_vars

-----------------------------------------------------------------------------
(* The operational summary of a pass. *)

run_state_for_error(e) ==
  CASE e \in {"SourceUnavailable", "Timeout"} -> "RetryLater"
    [] e = "SourceShutdown" -> "ReconnectRequired"
    [] e \in {"InvalidScope", "UnsupportedMode", "MalformedResponse"} -> "InvestigationRequired"

side_run_state(v) ==
  IF results[v].kind = "handoff_error" THEN run_state_for_error(results[v].error) ELSE "Continue"

rank(s) ==
  CASE s = "Continue" -> 0 [] s = "RetryLater" -> 1
    [] s = "ReconnectRequired" -> 2 [] s = "InvestigationRequired" -> 3

aggregate_run_state ==
  IF rank(side_run_state("Left")) >= rank(side_run_state("Right"))
  THEN side_run_state("Left") ELSE side_run_state("Right")

\* The head a late-frame pass leaves is judged from the queue it leaves.
no_frame_reason(v) ==
  IF dropped[v] # {} THEN "NoFrameRemainingAfterLateDrop" ELSE "NoQueuedFrameForClientRun"

waiting_reason(v) ==
  IF dropped[v] # {} THEN "HeadFrameAfterTargetFollowingLateDrop" ELSE "HeadFrameAfterTarget"

SideReason(v) ==
  CASE results[v].kind = "selected" -> "Selected"
    [] results[v].kind = "no_frame" -> no_frame_reason(v)
    [] results[v].kind = "waiting" -> waiting_reason(v)
    [] results[v].kind = "handoff_error" -> run_state_for_error(results[v].error)

Summary == [status |-> Status, run_state |-> aggregate_run_state,
            sides |-> [v \in Views |-> SideReason(v)]]

-----------------------------------------------------------------------------
(* Properties. *)

Reported == pc = "report"

\* A frame shown on the canvas is the one its view's own window showed last, and
\* was drawn there at most MaxHold before: the hold never shows an older picture
\* again, whatever was selected, lost or failed since
\* (display_policy_decision_for_side).
EachSideItsLastPicture ==
  Reported => \A v \in Views : \A s \in canvas.sides[v] :
    s.shown \in window[v] /\ s.shown.frame.view = v /\ now - s.shown.at <= MaxHold

\* A view drawn in this pass is on the canvas whatever became of the other view,
\* unless the canvas would be too large, and what it shows is not newer than the
\* common target on the server's clock (compose_side_by_side).
OneSideCarriesTheCanvas ==
  Reported => \A v \in Views : outcome[v] = "rendered" =>
    /\ canvas.kind = "invalid" \/ \E s \in canvas.sides[v] : s.shown.at = now /\ s.shown.frame \in results[v].frames
    /\ \A f \in results[v].frames : f.stamp + Offsets[v] <= target

\* The two views never overlap and lie inside the canvas
\* (two_view_slot_size, copy_bgra_frame_into_canvas).
SidesDoNotOverlap ==
  \A c \in {canvas, screen} : \A v \in Views : \A s \in c.sides[v] :
    /\ s.x + s.shown.frame.width <= c.width /\ s.shown.frame.height <= c.height
    /\ v = "Left" => \A r \in c.sides["Right"] : s.x + s.shown.frame.width <= r.x

\* A failed source never looks like a running one: the status and the run state
\* name it, the view shows no new picture, and the more serious of two errors is
\* the one reported (aggregate_operational_run_state).
ErrorsSurface ==
  Reported => \A v \in Views : results[v].kind = "handoff_error" =>
    /\ Summary.status = "HandoffError" /\ Summary.run_state # "Continue"
    /\ rank(Summary.run_state) >= rank(side_run_state(v))
    /\ decision[v].kind \in {"hold", "stale", "source_error"}

\* What a pass says of late frames is so: it says that no frame remained, or
\* that the head comes after the target, only of a queue that is empty, or whose
\* head does (no_frame_operational_reason, waiting_operational_reason).
LateReasonsAreSo ==
  Reported /\ ~Handoff => \A v \in Views :
    /\ Summary.sides[v] \in {"NoFrameRemainingAfterLateDrop", "NoQueuedFrameForClientRun"}
       => queue[v] = <<>>
    /\ Consume /\ Summary.sides[v] \in {"HeadFrameAfterTargetFollowingLateDrop",
                                        "HeadFrameAfterTarget"}
       => Adjusted(Head(queue[v])) > target
    /\ \A f \in dropped[v] : f \notin results[v].frames /\ Adjusted(f) + MaxLate < target

\* Frames leave the queues for the pair only: none is taken for one view while
\* the other view had nothing to show, and in process what is taken is selected
\* (consume_oldest_pair_all_selected).
TakenForThePair ==
  /\ ~Consume => taken = {}
  /\ Reported /\ ~Handoff /\ taken # {} =>
       AllSelected(results) /\ taken = UNION {results[v].frames : v \in Views}

TwoViewInvariant ==
  /\ EachSideItsLastPicture /\ OneSideCarriesTheCanvas /\ SidesDoNotOverlap
  /\ ErrorsSurface /\ LateReasonsAreSo /\ TakenForThePair
=============================================================================
