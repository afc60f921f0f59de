-------------------------- MODULE ControlledPreview --------------------------
(* The four-view preview loops that show all four clients or one of them in one
   persistent window (src/apps/switcher/src/main.rs): a fixed number of ticks of
   one view, or commands from a script, from stdin or through a control pipe, and
   the operator wrapper at the other end of that pipe, which turns keys into
   commands.  The frames, the decoder and the window system are external: a tick
   reads any of `Reads`, and the operator may close the window. *)
EXTENDS Integers, Sequences, FiniteSets, SequencesExt

CONSTANTS
  Source,      \* "ticks", "script", "stdin" or "pipe"
  StartView,   \* the view: {} all four, {n} slot n alone
  Script,      \* the lines of the script
  Lines,       \* the lines stdin may hold, and another sender may send
  Keys,        \* the keys the operator may press: "q", "x" or a line
  MaxInputs,   \* lines of stdin, keys of the operator
  Ticks,       \* max_ticks_per_command, or the frames of a fixed loop
  Reads,       \* what one tick may find in the slots
  QuitWindow,  \* DEFAULT_OPERATOR_WRAPPER_QUIT_GUARD_WINDOW_MILLIS
  MaxNow,
  Faults       \* how many things outside may fail

Slots == 0..3
Senders == {"wrapper", "other"}
SlotReads == {"none", "waiting", "error", "undecoded", "malformed", "picture"}

ControlledAssumption ==
  /\ Source \in {"ticks", "script", "stdin", "pipe"} /\ Reads \subseteq [Slots -> SlotReads]
  /\ Ticks \in Nat \ {0} /\ QuitWindow \in Nat /\ MaxNow \in Nat /\ Faults \in Nat

VARIABLES
  view,     \* current_view_state
  loop,     \* [pc, line, from, at, left, out]: the command under way
  totals,   \* the summary of the loop
  window,   \* the persistent window
  pipe,     \* [server, client, request]: the one instance of the pipe
  sender,   \* [Senders -> ...]: the wrapper, and a send-control-command beside it
  guard,    \* armed_until_millis, an option
  wrapper,  \* [sent, ignored, exit, console]
  now, faults,
  pressed,  \* history: the keys with their times
  done      \* history: the commands executed, with what they reported

vars == <<view, loop, totals, window, pipe, sender, guard, wrapper, now, faults, pressed, done>>

Line(name, args) == [name |-> name, args |-> args]

-----------------------------------------------------------------------------
(* Commands *)

Rejected == [name |-> "rejected", slot |-> {}]
parse_four_view_control_command(line) ==
  CASE line.name \in {"all", "status", "quit"} /\ line.args = <<>> -> [name |-> line.name, slot |-> {}]
    [] line.name = "focus" /\ Len(line.args) = 1 /\ line.args[1] \in Slots ->
         [name |-> "focus", slot |-> {line.args[1]}]
    [] OTHER -> Rejected

Draws(command) == command.name \in {"all", "focus", "status"}

\* The state a command leads to; status, quit and rejected lines change nothing.
ViewAfter(v, command) ==
  CASE command.name = "all" -> {} [] command.name = "focus" -> command.slot [] OTHER -> v

TransitionResult(v, command) ==
  CASE command.name = "status" -> "Observed"
    [] command.name = "quit" -> "ExitRequested"
    [] command.name = "rejected" -> "Rejected"
    [] OTHER -> IF ViewAfter(v, command) = v THEN "NoChange" ELSE "Transitioned"

-----------------------------------------------------------------------------
(* One tick: read the slots, compose, draw *)

focused_four_view_slot_is_renderable(read) == read \in {"picture", "malformed"}
RenderableSlots(reads) == {s \in Slots : focused_four_view_slot_is_renderable(reads[s])}

\* The window shows a picture once it exists; a window the operator closed takes
\* pictures as if it were there, because its handle is kept.
PersistentUpdate(w, picture, created) ==
  LET known == w.handle \/ created
      open == IF w.handle THEN w.open ELSE created
  IN [result |-> IF known THEN "Rendered" ELSE "RenderFailed",
      window |-> [handle |-> known, open |-> open /\ ~w.closing, closing |-> FALSE,
                  frame |-> {picture}]]
PersistentClose(w) == [w EXCEPT !.handle = FALSE, !.open = FALSE]

NotDrawn(w, kind) == [result |-> kind, window |-> w]

\* A slot without a frame, too early, unreadable or not decoded is a placeholder:
\* there are no previous frames to hold.
ConnectedSlots == {"UseUpdatedFrame", "Placeholder", "SourceErrorPlaceholder"}
ConnectedSlot(read) ==
  CASE focused_four_view_slot_is_renderable(read) -> "UseUpdatedFrame"
    [] read = "error" -> "SourceErrorPlaceholder"
    [] OTHER -> "Placeholder"

\* The quad is composed unless no slot has a picture or one has a bad one.
Compositions == {"ComposedFrame", "NoRenderableQuadView", "InvalidQuadView"}
compose_fixed_quad_view(reads) ==
  CASE \A s \in Slots : ConnectedSlot(reads[s]) # "UseUpdatedFrame" -> "NoRenderableQuadView"
    [] \E s \in Slots : reads[s] = "malformed" -> "InvalidQuadView"
    [] OTHER -> "ComposedFrame"

connect_composition_output(composition) ==
  IF composition = "ComposedFrame" THEN "RenderReady" ELSE composition

\* Only a quad that is ready reaches the window.
render_with_runtime(w, facing, picture, created) ==
  IF facing = "RenderReady" THEN PersistentUpdate(w, picture, created) ELSE NotDrawn(w, facing)

CleanOutput(w, reads, created) ==
  render_with_runtime(w, connect_composition_output(compose_fixed_quad_view(reads)),
                      [view |-> {}, slots |-> RenderableSlots(reads)], created)

render_four_view_focused_slot_with_runtime(w, read, slot, created) ==
  CASE ~focused_four_view_slot_is_renderable(read) -> NotDrawn(w, "NoRenderableFocusedView")
    [] read = "malformed" -> NotDrawn(w, "InvalidFrame")
    [] OTHER -> PersistentUpdate(w, [view |-> {slot}, slots |-> {slot}], created)

NoOutcome == [rendered |-> 0, failures |-> 0, kind |-> "none", slots |-> 0]

CountTick(out, kind, focused, slots) ==
  [rendered |-> out.rendered + (IF kind = "Rendered" THEN 1 ELSE 0),
   failures |-> out.failures + (IF kind = "RenderFailed" \/ (focused /\ kind = "InvalidFrame") THEN 1 ELSE 0),
   kind |-> kind, slots |-> slots]

\* A window can only fail to be created when there is none.
Creates == IF window.handle THEN {TRUE} ELSE IF faults > 0 THEN BOOLEAN ELSE {TRUE}
Blame(failed) == faults' = faults - (IF failed THEN 1 ELSE 0)

render_four_view_controlled_state_for_ticks ==
  /\ loop.pc = "rendering"
  /\ \E reads \in Reads, created \in Creates :
       LET slot == CHOOSE s \in Slots : view = {} \/ s \in view
           drawn == IF view = {} THEN CleanOutput(window, reads, created)
                    ELSE render_four_view_focused_slot_with_runtime(window, reads[slot], slot, created)
           slots == IF view = {} THEN Cardinality(RenderableSlots(reads))
                    ELSE IF focused_four_view_slot_is_renderable(reads[slot]) THEN 1 ELSE 0
       IN /\ window' = drawn.window
          /\ loop' = [loop EXCEPT !.left = @ - 1, !.out = CountTick(@, drawn.result, view # {}, slots),
                                  !.pc = IF loop.left = 1 THEN "done" ELSE "rendering"]
          /\ Blame(~created)
  /\ UNCHANGED <<view, totals, pipe, sender, guard, wrapper, now, pressed, done>>

-----------------------------------------------------------------------------
(* Taking the next command *)

Idle == [pc |-> "next", line |-> <<>>, from |-> "none", at |-> 0, left |-> 0, out |-> NoOutcome]
Ended == [Idle EXCEPT !.pc = "ended"]
Ends(reason) ==
  /\ loop' = Ended /\ totals' = [totals EXCEPT !.exit = reason]
  /\ window' = PersistentClose(window)

run_four_view_control_command_iteration(line, from, at) ==
  LET command == parse_four_view_control_command(line)
  IN /\ view' = ViewAfter(view, command)
     /\ loop' = [pc |-> IF Draws(command) THEN "rendering" ELSE "done",
                 line |-> <<line>>, from |-> from, at |-> at, left |-> Ticks,
                 out |-> [NoOutcome EXCEPT !.kind = TransitionResult(view, command)]]

L_TakesScriptLine ==
  /\ Source = "script" /\ loop.pc = "next"
  /\ \/ /\ totals.processed < Len(Script)
        /\ run_four_view_control_command_iteration(Script[totals.processed + 1], "script", totals.processed + 1)
        /\ UNCHANGED <<totals, window>>
     \/ totals.processed = Len(Script) /\ Ends(totals.exit) /\ UNCHANGED view
  /\ UNCHANGED <<pipe, sender, guard, wrapper, now, faults, pressed, done>>

\* Empty lines are numbered and skipped; a read error ends the loop.
L_ReadsStdinLine ==
  /\ Source = "stdin" /\ loop.pc = "next"
  /\ \/ \E line \in Lines :
          /\ Len(pressed) < MaxInputs
          /\ pressed' = Append(pressed, [key |-> line, at |-> now])
          /\ IF line.name = "" THEN UNCHANGED <<view, loop>>
             ELSE run_four_view_control_command_iteration(line, "stdin", Len(pressed) + 1)
          /\ UNCHANGED <<totals, window, faults>>
     \/ Ends("EndOfInput") /\ UNCHANGED <<view, faults, pressed>>
     \/ faults > 0 /\ Ends("StdinReadError") /\ Blame(TRUE) /\ UNCHANGED <<view, pressed>>
  /\ UNCHANGED <<pipe, sender, guard, wrapper, now, done>>

\* One instance at a time: while the last sender has not closed its end, creating
\* the next one may be refused.
L_CreatesPipe ==
  /\ Source = "pipe" /\ loop.pc = "next"
  /\ \/ /\ loop' = [loop EXCEPT !.pc = "listening"]
        /\ pipe' = [server |-> TRUE, client |-> {}, request |-> <<>>]
        /\ UNCHANGED <<totals, window>>
     \/ pipe.client \cap Senders # {} /\ Ends("ControlPipeRuntimeError") /\ UNCHANGED pipe
  /\ UNCHANGED <<view, sender, guard, wrapper, now, faults, pressed, done>>

\* A sender that is gone before it sent a whole command is a read error.
L_ReadsRequest ==
  /\ loop.pc = "listening"
  /\ \/ /\ pipe.request # <<>>
        /\ LET request == Head(pipe.request)
           IN run_four_view_control_command_iteration(request.line, request.from, request.at)
        /\ pipe' = [pipe EXCEPT !.request = <<>>]
        /\ UNCHANGED <<totals, window>>
     \/ /\ pipe.request = <<>> /\ pipe.client = {"gone"}
        /\ Ends("ControlPipeRuntimeError")
        /\ pipe' = [pipe EXCEPT !.server = FALSE] /\ UNCHANGED view
  /\ UNCHANGED <<sender, guard, wrapper, now, faults, pressed, done>>

-----------------------------------------------------------------------------
(* Finishing a command *)

Report ==
  LET command == parse_four_view_control_command(loop.line[1])
  IN [command |-> command, view |-> view, rendered |-> loop.out.rendered,
      failures |-> loop.out.failures,
      exit |-> IF command.name = "quit" THEN "QuitRequested" ELSE "none"]

Tally(report) ==
  [processed |-> totals.processed + 1,
   rejected |-> totals.rejected + (IF report.command = Rejected THEN 1 ELSE 0),
   rendered |-> totals.rendered + report.rendered,
   failures |-> totals.failures + report.failures,
   exit |-> IF report.exit = "none" THEN totals.exit ELSE report.exit]

Executed(report) ==
  done' = Append(done, [from |-> loop.from, at |-> loop.at, report |-> report])

\* From a script or from stdin: the command is counted; quit ends the loop.
L_Finishes ==
  /\ loop.pc = "done" /\ Source \in {"script", "stdin"}
  /\ Executed(Report) /\ totals' = Tally(Report)
  /\ IF Report.exit = "QuitRequested" THEN loop' = Ended /\ window' = PersistentClose(window)
     ELSE loop' = Idle /\ UNCHANGED window
  /\ UNCHANGED <<view, pipe, sender, guard, wrapper, now, faults, pressed>>

\* From the pipe: the answer is written first; when that fails, the loop ends and
\* the command, although executed, is not counted.
run_control_pipe_command_round_trip ==
  /\ loop.pc = "done" /\ Source = "pipe"
  /\ Executed(Report)
  /\ IF pipe.client = {"gone"}
     THEN /\ Ends("ControlPipeRuntimeError") /\ pipe' = [pipe EXCEPT !.server = FALSE]
          /\ UNCHANGED sender
     ELSE /\ totals' = Tally(Report)
          /\ pipe' = [pipe EXCEPT !.server = FALSE]
          /\ sender' = [sender EXCEPT ![loop.from].answer = <<Report>>]
          /\ IF Report.exit = "QuitRequested" THEN loop' = Ended /\ window' = PersistentClose(window)
             ELSE loop' = Idle /\ UNCHANGED window
  /\ UNCHANGED <<view, guard, wrapper, now, faults, pressed>>

\* The fixed loops: every tick is a frame attempted, and then it is over.
FixedLoopEnds ==
  /\ Source = "ticks" /\ loop.pc = "done"
  /\ totals' = [totals EXCEPT !.processed = Ticks, !.rendered = loop.out.rendered,
                              !.failures = loop.out.failures, !.exit = "FramesAttempted"]
  /\ loop' = Ended /\ window' = PersistentClose(window)
  /\ UNCHANGED <<view, pipe, sender, guard, wrapper, now, faults, pressed, done>>

-----------------------------------------------------------------------------
(* Sending a command: wait for the instance, open it, write, read the answer *)

Send(c, line, at) == sender' = [sender EXCEPT ![c] = [pc |-> "waiting", line |-> <<line>>, at |-> at, answer |-> <<>>]]
At(c, pc) == sender' = [sender EXCEPT ![c].pc = pc]
Free == pipe.server /\ pipe.client = {}

\* Waiting is over at once when there is no instance, and after a timeout when it
\* is busy.
C_Waits(c) ==
  /\ sender[c].pc = "waiting"
  /\ At(c, IF Free THEN "opening" ELSE "failed")
  /\ UNCHANGED <<view, loop, totals, window, pipe, guard, wrapper, now, faults, pressed, done>>

C_Opens(c) ==
  /\ sender[c].pc = "opening"
  /\ IF Free THEN pipe' = [pipe EXCEPT !.client = {c}] /\ At(c, "writing")
     ELSE At(c, "failed") /\ UNCHANGED pipe
  /\ UNCHANGED <<view, loop, totals, window, guard, wrapper, now, faults, pressed, done>>

C_Writes(c) ==
  /\ sender[c].pc = "writing"
  /\ pipe' = [pipe EXCEPT !.request = <<[line |-> sender[c].line[1], from |-> c, at |-> sender[c].at]>>]
  /\ At(c, "reading")
  /\ UNCHANGED <<view, loop, totals, window, guard, wrapper, now, faults, pressed, done>>

C_ReadsAnswer(c) ==
  /\ sender[c].pc = "reading" /\ sender[c].answer # <<>>
  /\ At(c, "answered")
  /\ UNCHANGED <<view, loop, totals, window, pipe, guard, wrapper, now, faults, pressed, done>>

\* The sender's end of the pipe is closed, unless another instance is there by now.
Closed(c, mark) == IF pipe.client = {c} THEN [pipe EXCEPT !.client = mark] ELSE pipe

exit_reason(answer) == IF answer.exit = "none" THEN "Continue" ELSE answer.exit

C_Returns(c) ==
  /\ sender[c].pc \in {"answered", "failed"}
  /\ pipe' = Closed(c, {})
  /\ LET sent == sender[c].pc = "answered"
         exit == IF sent THEN exit_reason(sender[c].answer[1]) ELSE "WrapperSendFailed"
     IN IF c = "wrapper"
        THEN /\ wrapper' = [wrapper EXCEPT !.sent = @ + (IF sent THEN 1 ELSE 0),
                                           !.exit = IF exit = "Continue" THEN @ ELSE exit]
             /\ sender' = [sender EXCEPT ![c].pc = IF exit = "Continue" THEN "idle" ELSE "closing"]
        ELSE At(c, "ended") /\ UNCHANGED wrapper
  /\ UNCHANGED <<view, loop, totals, window, guard, now, faults, pressed, done>>

\* A sender's process is killed; what it wrote stays in the pipe.
C_Dies(c) ==
  /\ faults > 0 /\ sender[c].pc \in {"waiting", "opening", "writing", "reading", "answered"}
  /\ At(c, "killed") /\ pipe' = Closed(c, {"gone"}) /\ Blame(TRUE)
  /\ UNCHANGED <<view, loop, totals, window, guard, wrapper, now, pressed, done>>

\* A send-control-command started from another console.
OtherSends ==
  /\ Source = "pipe" /\ sender["other"].pc = "idle"
  /\ \E line \in Lines : Send("other", line, 1)
  /\ UNCHANGED <<view, loop, totals, window, pipe, guard, wrapper, now, faults, pressed, done>>

-----------------------------------------------------------------------------
(* The operator wrapper *)

clear_expired_four_view_operator_wrapper_quit_guard == {until \in guard : now < until}

process_four_view_operator_wrapper_key_KeepsGuard(key) ==
  LET armed == clear_expired_four_view_operator_wrapper_quit_guard
  IN IF key = Line("q", <<>>)
     THEN IF armed # {}
          THEN guard' = {} /\ Send("wrapper", Line("quit", <<>>), Len(pressed) + 1) /\ UNCHANGED wrapper
          ELSE guard' = {now + QuitWindow} /\ UNCHANGED <<sender, wrapper>>
     ELSE IF key = Line("x", <<>>)
          THEN guard' = {} /\ wrapper' = [wrapper EXCEPT !.ignored = @ + 1] /\ UNCHANGED sender
          ELSE guard' = armed /\ Send("wrapper", key, Len(pressed) + 1) /\ UNCHANGED wrapper
process_four_view_operator_wrapper_key(key) ==
  LET armed == clear_expired_four_view_operator_wrapper_quit_guard
  IN IF key = Line("q", <<>>)
     THEN IF armed # {}
          THEN guard' = {} /\ Send("wrapper", Line("quit", <<>>), Len(pressed) + 1) /\ UNCHANGED wrapper
          ELSE guard' = {now + QuitWindow} /\ UNCHANGED <<sender, wrapper>>
     ELSE IF key = Line("x", <<>>)
          THEN guard' = {} /\ wrapper' = [wrapper EXCEPT !.ignored = @ + 1] /\ UNCHANGED sender
          ELSE guard' = {} /\ Send("wrapper", key, Len(pressed) + 1) /\ UNCHANGED wrapper

W_Presses ==
  /\ Source = "pipe" /\ sender["wrapper"].pc = "idle" /\ Len(pressed) < MaxInputs
  /\ \E key \in Keys :
       /\ process_four_view_operator_wrapper_key(key)
       /\ pressed' = Append(pressed, [key |-> key, at |-> now])
  /\ UNCHANGED <<view, loop, totals, window, pipe, now, faults, done>>

\* The input ends, or its reading fails.
W_InputEnds ==
  /\ Source = "pipe" /\ sender["wrapper"].pc = "idle"
  /\ At("wrapper", "closing")
  /\ \/ UNCHANGED <<wrapper, faults>>
     \/ faults > 0 /\ Blame(TRUE) /\ wrapper' = [wrapper EXCEPT !.exit = "Err"]
  /\ UNCHANGED <<view, loop, totals, window, pipe, guard, now, pressed, done>>

\* The console gets its mode back whatever ended the wrapper; when that fails, so
\* does the wrapper.
W_RestoresConsole ==
  /\ sender["wrapper"].pc = "closing"
  /\ At("wrapper", "ended")
  /\ \/ wrapper' = [wrapper EXCEPT !.console = "found"] /\ UNCHANGED faults
     \/ faults > 0 /\ Blame(TRUE) /\ wrapper' = [wrapper EXCEPT !.exit = "Err"]
  /\ UNCHANGED <<view, loop, totals, window, pipe, guard, now, pressed, done>>

-----------------------------------------------------------------------------
\* The operator closes the window; it notices when its messages are pumped.
ClosesWindow ==
  /\ faults > 0 /\ window.open /\ ~window.closing
  /\ window' = [window EXCEPT !.closing = TRUE] /\ Blame(TRUE)
  /\ UNCHANGED <<view, loop, totals, pipe, sender, guard, wrapper, now, pressed, done>>

\* Time matters only while the guard is armed.
TimePasses ==
  /\ guard # {} /\ now < MaxNow /\ now' = now + 1
  /\ UNCHANGED <<view, loop, totals, window, pipe, sender, guard, wrapper, faults, pressed, done>>

Init ==
  /\ view = StartView
  /\ loop = IF Source = "ticks" THEN [Idle EXCEPT !.pc = "rendering", !.left = Ticks] ELSE Idle
  /\ totals = [processed |-> 0, rejected |-> 0, rendered |-> 0, failures |-> 0,
               exit |-> "CommandSequenceCompleted"]
  /\ window = [handle |-> FALSE, open |-> FALSE, closing |-> FALSE, frame |-> {}]
  /\ pipe = [server |-> FALSE, client |-> {}, request |-> <<>>]
  /\ sender = [c \in Senders |-> [pc |-> "idle", line |-> <<>>, at |-> 0, answer |-> <<>>]]
  /\ guard = {} /\ now = 0 /\ faults = Faults
  /\ wrapper = [sent |-> 0, ignored |-> 0, exit |-> "InputClosed", console |-> "raw"]
  /\ pressed = <<>> /\ done = <<>>

LoopSteps ==
  \/ render_four_view_controlled_state_for_ticks \/ L_TakesScriptLine \/ L_ReadsStdinLine
  \/ L_CreatesPipe \/ L_ReadsRequest \/ L_Finishes \/ run_control_pipe_command_round_trip
  \/ FixedLoopEnds
SenderSteps(c) == C_Waits(c) \/ C_Opens(c) \/ C_Writes(c) \/ C_ReadsAnswer(c) \/ C_Returns(c)

Next ==
  \/ LoopSteps \/ (\E c \in Senders : SenderSteps(c) \/ C_Dies(c))
  \/ OtherSends \/ W_Presses \/ W_InputEnds \/ W_RestoresConsole \/ ClosesWindow \/ TimePasses

Spec == Init /\ [][Next]_vars
Fairness == WF_vars(LoopSteps) /\ \A c \in Senders : WF_vars(SenderSteps(c))

-----------------------------------------------------------------------------
(* What must hold *)

Reports == {done[i].report : i \in DOMAIN done}
Underway == IF loop.line = <<>> THEN <<>> ELSE <<parse_four_view_control_command(loop.line[1])>>
Accepted == [i \in DOMAIN done |-> done[i].report.command] \o Underway

\* The view is what the commands executed so far lead to, one after the other;
\* neither a status, a rejected line nor a failed answer changes it.
ViewIsTheCommands == view = FoldLeft(ViewAfter, StartView, Accepted)

\* No command is executed twice, nor one before another sent earlier, nor one
\* that its sender could not send.
EachCommandOnce ==
  /\ \A i, j \in DOMAIN done : i < j /\ done[i].from = done[j].from => done[i].at < done[j].at
  /\ \A c \in Senders : sender[c].pc = "failed" =>
       /\ \A i \in DOMAIN done : done[i].from # c \/ done[i].at # sender[c].at
       /\ loop.from # c \/ loop.at # sender[c].at

\* An answer reports the sender's own command and the view it led to.
AnswersAreTheirs ==
  \A c \in Senders : sender[c].answer # <<>> =>
    \E i \in DOMAIN done : /\ done[i].from = c /\ done[i].at = sender[c].at
                           /\ done[i].report = sender[c].answer[1]

\* The operator quits by pressing q twice in a row, the second time within the
\* guard's window; an expired or forgotten q does not count.
QuitIsConfirmed ==
  \A i \in DOMAIN done : done[i].from = "wrapper" /\ done[i].report.command.name = "quit" =>
    LET k == done[i].at
    IN /\ k > 1 /\ pressed[k].key.name = "q" /\ pressed[k - 1].key.name = "q"
       /\ pressed[k].at < pressed[k - 1].at + QuitWindow

\* A quit is the last command; the loop ends for the reason it gives.
EndsForItsReason ==
  /\ \A i \in DOMAIN done : done[i].report.exit = "QuitRequested" =>
       /\ i = Len(done)
       /\ totals.exit = IF totals.processed = i THEN "QuitRequested" ELSE "ControlPipeRuntimeError"
  /\ totals.exit = "QuitRequested" => \E r \in Reports : r.exit = "QuitRequested"
  /\ loop.pc = "ended" /\ totals.exit = "CommandSequenceCompleted" => Len(done) = Len(Script)

\* The totals are the sums over the commands counted; only one whose answer could
\* not be written is executed and not counted.
SumOf(n, Of(_)) == FoldLeft(LAMBDA a, d : a + Of(d.report), 0, SubSeq(done, 1, n))
TotalsAddUp ==
  Source # "ticks" =>
    /\ Len(done) = totals.processed + (IF totals.processed < Len(done) THEN 1 ELSE 0)
    /\ totals.processed < Len(done) => totals.exit = "ControlPipeRuntimeError"
    /\ totals.rendered = SumOf(totals.processed, LAMBDA r : r.rendered)
    /\ totals.failures = SumOf(totals.processed, LAMBDA r : r.failures)
    /\ totals.rejected = SumOf(totals.processed, LAMBDA r : IF r.command = Rejected THEN 1 ELSE 0)

ResultKinds ==
  {"none", "Rendered", "RenderFailed", "InvalidFrame", "NoRenderableFocusedView"} \cup Compositions
  \cup {"NoChange", "Transitioned", "Observed", "ExitRequested", "Rejected"}

ControlledTypeOK ==
  /\ view \subseteq Slots /\ Cardinality(view) <= 1
  /\ loop.pc \in {"next", "listening", "rendering", "done", "ended"} /\ loop.left \in 0..Ticks
  /\ loop.out.kind \in ResultKinds /\ loop.out.slots \in 0..4
  /\ totals.processed \in Nat /\ faults \in 0..Faults /\ Cardinality(guard) <= 1
  /\ pipe.client \subseteq Senders \cup {"gone"} /\ Cardinality(pipe.client) <= 1
  /\ \A reads \in Reads, s \in Slots : ConnectedSlot(reads[s]) \in ConnectedSlots

\* What the window was last given is the view of the last command that drew: a
\* focused window never holds another slot's picture.
WindowHasTheView ==
  LET drawn == {i \in DOMAIN done : done[i].report.rendered > 0}
  IN loop.line = <<>> /\ drawn # {} =>
       \A i \in drawn : (\A j \in drawn : j <= i) =>
         \A p \in window.frame : p.view = done[i].report.view /\ (p.view # {} => p.slots = p.view)

\* A wrapper that ends without an error leaves the console as it found it.
ConsoleRestored ==
  sender["wrapper"].pc = "ended" /\ wrapper.exit # "Err" => wrapper.console = "found"

ControlledInvariant ==
  /\ ControlledTypeOK /\ ViewIsTheCommands /\ EachCommandOnce /\ AnswersAreTheirs /\ QuitIsConfirmed
  /\ EndsForItsReason /\ TotalsAddUp /\ WindowHasTheView /\ ConsoleRestored

\* A picture reported as rendered is on the screen.  Not so after the operator
\* closed the window: its handle is kept and every later update reports success.
RenderedIsSeen ==
  loop.line = <<>> /\ loop.pc # "ended" /\ done # <<>> /\ done[Len(done)].report.rendered > 0
    => window.open \/ window.closing

\* A sender that tries gets its answer or learns that it cannot be had.
SendersReturn ==
  \A c \in Senders :
    sender[c].pc = "waiting" ~> sender[c].pc \in {"idle", "closing", "ended", "killed"}
=============================================================================
