--------------------------- MODULE TargetTimeSource ---------------------------
(***************************************************************************)
(* The switcher's target-time selection for one and two views over the     *)
(* server's frame queue.  A frame is eligible when its capture timestamp,  *)
(* shifted by the client's clock offset, is at or before the target.       *)
(* Consuming looks at the oldest frame first and takes it only when it is  *)
(* eligible; a pair is consumed only when both views are, and late frames  *)
(* are dropped from the head of the queue.                                 *)
(*                                                                         *)
(* Every look and every take is a read of its own.  In process the         *)
(* switcher holds the queue for a whole selection; over the handoff each   *)
(* read is a request to the server, which stores frames in between, and    *)
(* each may fail before or after the server has served it.                 *)
(*                                                                         *)
(* A frame's stamp is its capture timestamp on the client's clock.         *)
(***************************************************************************)
EXTENDS VideoFrameQueue, Integers

CONSTANTS
  Views,      \* the two views: records of a client and a run
  Offsets,    \* clock_offset_micros of each client, 0 for none
  Targets,    \* target timestamps a caller may ask for
  MaxLate,    \* max_late_micros
  Handoff,    \* over the fallible handoff, or in process
  Incoming    \* the frames clients send

TargetTimeAssumption ==
  /\ Views \in Seq([client : Clients, run : Runs]) /\ Views # <<>> /\ MaxFrames \in Nat
  /\ Offsets \in [Clients -> Int]
  /\ Targets \subseteq Nat /\ MaxLate \in Nat /\ Handoff \in BOOLEAN
  /\ Stamps \subseteq Nat /\ Incoming \subseteq Frame

VARIABLES
  arrived,    \* frames the server has stored
  job,        \* the selection that is running, or the last one
  results,    \* the result of each view of the last pass
  taken,      \* frames the last selection dequeued, in order
  dropped     \* frames the last late-frame pass dequeued

jobVars == <<job, results, taken, dropped>>
vars == <<queueVars, arrived, jobVars>>

NoJob == [op |-> "None", target |-> 0, view |-> 1, step |-> "None", managed |-> FALSE]

Idle == job.step = "None"

NoResult == [kind |-> "None", frames |-> {}, consumed |-> FALSE]

SingleOps == {"PreviewLatest", "PreviewOldest", "PreviewLatestDecodable", "ConsumeOldest"}
Ops == SingleOps \cup {"PreviewPair", "ConsumePair", "MutateLate"}

Init ==
  /\ QueueInit /\ arrived = {} /\ job = NoJob
  /\ results = [v \in DOMAIN Views |-> NoResult] /\ taken = <<>> /\ dropped = <<>>

apply_offset(n, c) == IF n + Offsets[c] < 0 THEN 0 ELSE n + Offsets[c]

Adjusted(f) == apply_offset(f.stamp, f.client)

SaturatingSub(a, b) == IF a < b THEN 0 ELSE a - b

late_threshold(target) == SaturatingSub(target, MaxLate)
-----------------------------------------------------------------------------
(* The server.  In process nothing reaches the queue during a selection.   *)

StoreFrame(f) ==
  /\ Handoff \/ Idle
  /\ f \notin arrived
  /\ arrived' = arrived \cup {f}
  /\ store_frame(f)
  /\ UNCHANGED jobVars

-----------------------------------------------------------------------------
(* One selection.                                                          *)

\* The queue read mode a step of the selection asks for.
queue_read_mode(j) ==
  IF j.step = "Take" THEN "DequeueOldest"
  ELSE CASE j.op \in {"PreviewLatest", "PreviewPair"} -> "InspectLatest"
         [] j.op = "PreviewLatestDecodable" -> "InspectLatestDecodable"
         [] OTHER -> "InspectOldest"

IsPair(op) == op \in {"PreviewPair", "ConsumePair"}

\* Begins a selection of one view, or of both from the first.
Select(op, target, v) ==
  /\ Idle
  /\ op = "MutateLate" => ~Handoff
  /\ IsPair(op) => v = 1
  /\ job' = [op |-> op, target |-> target, view |-> v,
             step |-> IF op = "ConsumePair" THEN "Preview" ELSE "Look",
             managed |-> op = "MutateLate"]
  /\ results' = [w \in DOMAIN Views |-> NoResult]
  /\ taken' = <<>> /\ dropped' = <<>>
  /\ UNCHANGED <<queueVars, arrived>>

Selected(f, consumed) == [kind |-> "Selected", frames |-> {f}, consumed |-> consumed]

\* The result for a candidate, of a look or of a take.
result_for_candidate(found, consumed) ==
  IF found = {} THEN [NoResult EXCEPT !.kind = "NoFrame"]
  ELSE LET f == CHOOSE x \in found : TRUE IN
       IF Adjusted(f) <= job.target THEN Selected(f, consumed)
       ELSE [kind |-> "Waiting", frames |-> {f}, consumed |-> FALSE]

Found == read(Views[job.view].client, Views[job.view].run, queue_read_mode(job))

LastView == ~IsPair(job.op) \/ job.view = Len(Views)

Finished == [job EXCEPT !.step = "None"]

AllSelected(rs) == \A v \in DOMAIN Views : rs[v].kind = "Selected"

\* After the result of a view: the next view, the consuming pass of a pair whose
\* views are all selected, or the end.
Advance_AnySelected(rs) ==
  IF ~LastView
  THEN [job EXCEPT !.view = @ + 1, !.step = IF job.step = "Preview" THEN @ ELSE "Look"]
  ELSE IF job.step = "Preview" /\ \E v \in DOMAIN Views : rs[v].kind = "Selected"
  THEN [job EXCEPT !.view = 1, !.step = "Look"]
  ELSE Finished

Advance(rs) ==
  IF ~LastView
  THEN [job EXCEPT !.view = @ + 1, !.step = IF job.step = "Preview" THEN @ ELSE "Look"]
  ELSE IF job.step = "Preview" /\ AllSelected(rs)
  THEN [job EXCEPT !.view = 1, !.step = "Look"]
  ELSE Finished

Consumes == job.op \in {"ConsumeOldest", "ConsumePair"}

Answer(r) ==
  /\ results' = [results EXCEPT ![job.view] = r]
  /\ job' = Advance(results')

\* A look: a consuming one that finds an eligible frame goes on to take it.
Look ==
  /\ job.op # "MutateLate" /\ job.step \in {"Preview", "Look"}
  /\ LET r == result_for_candidate(Found, FALSE) IN
       IF job.step = "Look" /\ Consumes /\ r.kind = "Selected"
       THEN job' = [job EXCEPT !.step = "Take"] /\ UNCHANGED results
       ELSE Answer(r)
  /\ UNCHANGED <<queueVars, arrived, taken, dropped>>

Dequeue ==
  /\ taken' = taken \o SetToSeq(Found)
  /\ IF Found = {} THEN UNCHANGED queueVars
     ELSE pop_front_for_client_run(Views[job.view].client, Views[job.view].run)

Take ==
  /\ job.step = "Take"
  /\ Dequeue
  /\ Answer(result_for_candidate(Found, TRUE))
  /\ UNCHANGED <<arrived, dropped>>

HandoffError == [NoResult EXCEPT !.kind = "HandoffError"]

\* A request that fails before the server reads it.
RequestFails ==
  /\ Handoff /\ ~Idle
  /\ Answer(HandoffError)
  /\ UNCHANGED <<queueVars, arrived, taken, dropped>>

\* A request that is served, and whose reply is lost or does not decode.
ReplyLost ==
  /\ Handoff /\ job.step = "Take"
  /\ Dequeue
  /\ Answer(HandoffError)
  /\ UNCHANGED <<arrived, dropped>>

-----------------------------------------------------------------------------
(* Dropping late frames from the head of one view's queue.                 *)

DropLate ==
  /\ ~Idle /\ job.op = "MutateLate"
  /\ \E f \in Found : Adjusted(f) < late_threshold(job.target) /\ dropped' = Append(dropped, f)
  /\ pop_front_for_client_run(Views[job.view].client, Views[job.view].run)
  /\ UNCHANGED <<arrived, job, results, taken>>

\* The head that is kept, or an empty queue, ends the pass.  A managed source
\* then selects from what is left.
KeepHead ==
  /\ ~Idle /\ job.op = "MutateLate"
  /\ \A f \in Found : Adjusted(f) >= late_threshold(job.target)
  /\ \/ job' = Finished
     \/ \E op \in SingleOps : job' = [job EXCEPT !.op = op]
  /\ UNCHANGED <<queueVars, arrived, results, taken, dropped>>

-----------------------------------------------------------------------------
Next ==
  \/ \E f \in Incoming : StoreFrame(f)
  \/ \E op \in Ops, t \in Targets, v \in DOMAIN Views : Select(op, t, v)
  \/ Look \/ Take \/ RequestFails \/ ReplyLost
  \/ DropLate \/ KeepHead

Spec == Init /\ [][Next]_vars
-----------------------------------------------------------------------------
(* Properties.                                                             *)

TargetTimeTypeOK ==
  /\ QueueTypeOK
  /\ arrived \subseteq Incoming
  /\ job \in [op : Ops \cup {"None"}, target : Targets \cup {0}, view : DOMAIN Views,
              step : {"None", "Preview", "Look", "Take"}, managed : BOOLEAN]
  /\ \A v \in DOMAIN Views : results[v].frames \subseteq Incoming
  /\ Range(taken) \cup Range(dropped) \subseteq arrived

\* A selected frame belongs to its view and, on the server's clock, is not newer
\* than the target, however the queue moved between look and take
\* (result_for_candidate).
SelectedIsEligible ==
  \A v \in DOMAIN Views : \A f \in results[v].frames :
    /\ f.client = Views[v].client /\ f.run = Views[v].run
    /\ results[v].kind = "Selected" <=> f.stamp + Offsets[f.client] <= job.target

\* A frame is dequeued only after it was found eligible: none newer than the
\* target leaves the queue (consume_oldest_at_or_before).
DequeuesOnlyEligible ==
  \A i \in DOMAIN taken : taken[i].stamp + Offsets[taken[i].client] <= job.target

\* A pair is consumed from both views or from neither
\* (consume_oldest_pair_all_selected).
AllOrNothing ==
  Idle /\ job.op = "ConsumePair" =>
    \/ taken = <<>>
    \/ \A v \in DOMAIN Views : \E i \in DOMAIN taken : taken[i].client = Views[v].client

\* A selection that only previews takes nothing, and what a consuming one takes
\* is at most one frame per view, the one it reports as consumed, unless that
\* view's read failed or found a newer head (handoff_consumer_result_for_candidate).
TakenIsAccountedFor ==
  /\ job.op \notin {"ConsumeOldest", "ConsumePair"} => taken = <<>>
  /\ \A i, k \in DOMAIN taken : taken[i].client = taken[k].client => i = k
  /\ Idle => \A i \in DOMAIN taken : \E v \in DOMAIN Views :
       /\ Views[v].client = taken[i].client
       /\ \/ results[v] = Selected(taken[i], TRUE)
          \/ results[v].kind \in {"Waiting", "HandoffError"}

\* In process a selection never sees an error and loses no frame: what it takes
\* is what it reports (SwitcherSingleClientTargetTimeSourceBoundary).
TakenIsReported ==
  Idle => \A i \in DOMAIN taken : \E v \in DOMAIN Views : results[v] = Selected(taken[i], TRUE)

\* Dropped frames are later than the limit, and the pass ends with a head that
\* is not: a frame exactly on the bound is kept (mutate_from_source).
DropsExactlyTheLateHead ==
  /\ \A i \in DOMAIN dropped : Adjusted(dropped[i]) + MaxLate < job.target
  /\ job.managed /\ job.step = "Look" /\ job.op # "MutateLate" =>
       \A i \in FirstOf(frames_for_client_run(Views[job.view].client, Views[job.view].run)) :
         Adjusted(queue[Views[job.view].client][i]) + MaxLate >= job.target

\* A frame dropped as late is not selected by the selection that follows, except
\* as the keyframe kept for decoding, which outlives the queue
\* (mutate_and_select_from_source, retained_keyframe_by_client_run).
DroppedStaysDropped ==
  \A v \in DOMAIN Views : \A f \in results[v].frames :
    f \in Range(dropped) => job.op = "PreviewLatestDecodable" /\ f.key

\* What holds of every selection, in process or over the handoff.
SelectionInvariant == TargetTimeTypeOK /\ SelectedIsEligible /\ TakenIsAccountedFor

\* What a selection in process promises beyond that.
InProcessInvariant ==
  /\ SelectionInvariant /\ DequeuesOnlyEligible /\ AllOrNothing /\ TakenIsReported
  /\ DropsExactlyTheLateHead /\ DroppedStaysDropped

\* A step property: frames of one view are consumed in the order the server
\* queued them (pop_front_for_client_run).
OldestFirst ==
  \A v \in DOMAIN Views :
    LET of(q) == SelectSeq(q[Views[v].client], LAMBDA f : f.run = Views[v].run)
    IN  /\ taken' # taken /\ taken' # <<>> /\ Last(taken').client = Views[v].client
        => of(queue) = <<Last(taken')>> \o of(queue')
===========================================================================
