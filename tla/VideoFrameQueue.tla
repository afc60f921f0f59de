-------------------------- MODULE VideoFrameQueue --------------------------
(***************************************************************************)
(* The server's bounded queue of encoded frames.  There is one FIFO per    *)
(* client_id, shared by all the runs of that client, and beside it the     *)
(* last keyframe stored for each client/run scope, which a switcher reads  *)
(* when the queue itself holds no keyframe.                                *)
(*                                                                         *)
(* A frame's payload is the sequence of its chunks; a frame sent in one    *)
(* packet has a single one.  A chunk is identified by the capture it was   *)
(* cut from (stamp) and its place in it (index, counted from 0), and       *)
(* remembers the endpoint that delivered it.                               *)
(***************************************************************************)
EXTENDS ServerBase, SequencesExt

CONSTANTS
    FrameIds,   \* frame_id values
    Stamps,     \* capture timestamps, with the metadata fixed by the capture
    MaxFrames   \* ServerVideoFrameQueuePolicy::max_frames_per_client

ASSUME VideoFrameQueueAssumption == MaxFrames \in Nat

VARIABLES
    queue,      \* frames_by_client_id
    retained    \* retained_keyframe_by_client_run

queueVars == << queue, retained >>

Chunk == [source : Sources, stamp : Stamps, index : Nat, len : Nat]

Frame == [client : Clients, run : Runs, id : FrameIds, stamp : Stamps,
          key : BOOLEAN, source : Sources, payload : Seq(Chunk)]

client_run_scope_key_NoRun(c, r) == c

\* format!("{}/{}", client_id, run_id)
client_run_scope_key(c, r) == c \o r

ScopeKeys == { client_run_scope_key(c, r) : c \in Clients, r \in Runs }

QueueTypeOK ==
    /\ queue \in [Clients -> Seq(Frame)]
    /\ retained \in [DOMAIN retained -> Frame]
    /\ DOMAIN retained \subseteq ScopeKeys

QueueInit ==
    /\ queue = [c \in Clients |-> << >>]
    /\ retained = EmptyMap

---------------------------------------------------------------------------
store_frame_KeepsFirstKeyframe(f) ==
    /\ queue' = [queue EXCEPT ![f.client] =
                    Append(IF Len(@) >= MaxFrames THEN Tail(@) ELSE @, f)]
    /\ retained' = IF f.key /\ client_run_scope_key(f.client, f.run) \notin DOMAIN retained
                   THEN MapInsert(retained, client_run_scope_key(f.client, f.run), f)
                   ELSE retained

\* store_frame: a full queue gives up its oldest frame, whatever its run; a
\* keyframe replaces the one retained for its scope.
store_frame(f) ==
    IF MaxFrames = 0 THEN UNCHANGED queueVars
    ELSE /\ queue' = [queue EXCEPT ![f.client] =
                        Append(IF Len(@) >= MaxFrames THEN Tail(@) ELSE @, f)]
         /\ retained' = IF f.key
                        THEN MapInsert(retained, client_run_scope_key(f.client, f.run), f)
                        ELSE retained

\* Positions of the frames of run r in the queue of client c.
frames_for_client_run(c, r) == { i \in 1 .. Len(queue[c]) : queue[c][i].run = r }

FirstOf(S) == { i \in S : \A j \in S : i <= j }

LastOf(S) == { i \in S : \A j \in S : j <= i }

pop_front_for_client_run_Newest(c, r) ==
    \E i \in LastOf(frames_for_client_run(c, r)) :
        /\ queue' = [queue EXCEPT ![c] = RemoveAt(@, i)]
        /\ UNCHANGED retained

pop_front_for_client_run_ForgetsKeyframe(c, r) ==
    \E i \in FirstOf(frames_for_client_run(c, r)) :
        /\ queue' = [queue EXCEPT ![c] = RemoveAt(@, i)]
        /\ retained' = IF queue[c][i].key
                       THEN MapRemove(retained, client_run_scope_key(c, r)) ELSE retained

\* pop_front_for_client_run: takes the oldest frame of the run, wherever it
\* stands in the queue.
pop_front_for_client_run(c, r) ==
    \E i \in FirstOf(frames_for_client_run(c, r)) :
        /\ queue' = [queue EXCEPT ![c] = RemoveAt(@, i)]
        /\ UNCHANGED retained

---------------------------------------------------------------------------
ReadMode == {"InspectOldest", "InspectLatest", "InspectLatestDecodable", "DequeueOldest"}

\* The keyframes of a run that are still queued.
QueuedKeyframes(c, r) == { i \in frames_for_client_run(c, r) : queue[c][i].key }

RetainedKeyframe(c, r) ==
    { retained[k] : k \in DOMAIN retained \cap {client_run_scope_key(c, r)} }

\* The frame a read finds: a set with at most one element.
read(c, r, mode) ==
    LET at(S) == { queue[c][i] : i \in S }
        all   == frames_for_client_run(c, r)
        keys  == QueuedKeyframes(c, r)
    IN  CASE mode \in {"InspectOldest", "DequeueOldest"} -> at(FirstOf(all))
          [] mode = "InspectLatest" -> at(LastOf(all))
          [] mode = "InspectLatestDecodable" ->
                IF keys # {} THEN at(LastOf(keys)) ELSE RetainedKeyframe(c, r)

\* Where a frame found by InspectLatestDecodable comes from.
decodable_source(c, r, mode) ==
    IF mode # "InspectLatestDecodable" \/ read(c, r, mode) = {} THEN "None"
    ELSE IF QueuedKeyframes(c, r) # {} THEN "Queue" ELSE "RetainedKeyframe"

\* Why a read finds nothing.
determine_no_frame_reason(c, r, mode) ==
    IF queue[c] = << >> THEN "NoFramesQueuedForClient"
    ELSE IF frames_for_client_run(c, r) = {} THEN "NoFramesQueuedForRequestedRun"
    ELSE IF mode = "InspectLatestDecodable" THEN "NoDecodableFrameAvailable"
    ELSE "NoFramesQueuedForRequestedRun"

===========================================================================
