---------------------------- MODULE ScopedFifo ----------------------------
(***************************************************************************)
(* What the video queue promises its readers: every client/run scope has a *)
(* FIFO of its own and the last keyframe ever put into it.  Frames leave a *)
(* FIFO at its head only, read by a switcher or given up because the       *)
(* client's scopes together hold MaxFrames frames.                         *)
(***************************************************************************)
EXTENDS Naturals, Sequences, FiniteSets

CONSTANTS Clients, Runs, MaxFrames

VARIABLES
    fifo,   \* [Clients \X Runs -> sequences of frames]
    kept    \* [Clients \X Runs -> sets with at most one frame]

fifoVars == << fifo, kept >>

Scopes == Clients \X Runs

Init ==
    /\ fifo = [s \in Scopes |-> << >>]
    /\ kept = [s \in Scopes |-> {}]

\* The places that the frames of client c take in its FIFOs.
Backlog(c) == UNION { {r} \X DOMAIN fifo[<<c, r>>] : r \in Runs }

\* A frame f arrives in scope s while there is room for it.
Put(s, f) ==
    /\ Cardinality(Backlog(s[1])) < MaxFrames
    /\ fifo' = [fifo EXCEPT ![s] = Append(@, f)]
    /\ kept' = IF f.key THEN [kept EXCEPT ![s] = {f}] ELSE kept

\* A frame f arrives in scope s, and the head of some scope of the same client
\* is given up for it.
PutEvicting(s, f) ==
    /\ Cardinality(Backlog(s[1])) = MaxFrames
    /\ \E r \in Runs :
         /\ fifo[<<s[1], r>>] # << >>
         /\ LET shorter == [fifo EXCEPT ![<<s[1], r>>] = Tail(@)]
            IN  fifo' = [shorter EXCEPT ![s] = Append(@, f)]
    /\ kept' = IF f.key THEN [kept EXCEPT ![s] = {f}] ELSE kept

\* A switcher takes the head of scope s.
Get(s) ==
    /\ fifo[s] # << >>
    /\ fifo' = [fifo EXCEPT ![s] = Tail(@)]
    /\ UNCHANGED kept

\* The arriving frame is any frame: the last one of the scope it arrives in.
Next ==
    \E s \in Scopes :
        \/ Get(s)
        \/ /\ fifo'[s] # << >>
           /\ LET f == fifo'[s][Len(fifo'[s])]
              IN  Put(s, f) \/ PutEvicting(s, f)

Spec == Init /\ [][Next]_fifoVars

---------------------------------------------------------------------------
\* What a read of scope s answers.
Answer(s, mode) ==
    IF mode = "InspectLatestDecodable" THEN kept[s]
    ELSE IF fifo[s] = << >> THEN {}
    ELSE IF mode = "InspectLatest" THEN {fifo[s][Len(fifo[s])]}
    ELSE {Head(fifo[s])}

===========================================================================
