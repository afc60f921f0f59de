----------------------------- MODULE MCDisplay ------------------------------
(***************************************************************************)
(* What the switcher shows, each component explored on its own: `running`  *)
(* names it, the variables of the others are off.                          *)
(***************************************************************************)
EXTENDS Integers, Sequences

\* Control commands and operator keys, and what a tick may find in the four slots.
Command(name, args) == [name |-> name, args |-> args]
OperatorKeys == {Command("q", <<>>), Command("x", <<>>), Command("focus", <<1>>)}
FewKeys == {Command("status", <<>>), Command("focus", <<1>>)}
SentLines == {Command("all", <<>>), Command("quit", <<>>)}
TypedLines == {Command("all", <<>>), Command("focus", <<0>>), Command("focus", <<4>>), Command("", <<>>), Command("quit", <<>>)}
ScriptLines == <<Command("focus", <<1>>), Command("status", <<>>), Command("all", <<1>>), Command("quit", <<>>)>>
FourSlots(a, b, c, d) == [s \in 0..3 |-> <<a, b, c, d>>[s + 1]]
OneRead == {FourSlots("picture", "picture", "none", "waiting")}
SlotReads ==
  OneRead \cup {FourSlots("error", "undecoded", "none", "none"), FourSlots("picture", "malformed", "waiting", "none")}

Frame(v, s, w, h) == [view |-> v, stamp |-> s, width |-> w, height |-> h]

\* The left client's clock is behind the server's, the right one's ahead.  A wide
\* left view and a tall right view do not fit on one canvas.
ViewOffsets == [v \in {"Left", "Right"} |-> IF v = "Left" THEN 1 ELSE -1]
FewFrames == {Frame("Left", 0, 1, 1), Frame("Left", 1, 2, 1), Frame("Right", 2, 1, 2)}
PairFrames == FewFrames \cup {Frame("Right", 3, 2, 1)}
SourceErrors == {"Timeout", "MalformedResponse"}
Option(window, selected, smooth, first, interval, decode_interval, retention, bootstrap, bounded) ==
  [window |-> window, program |-> selected, continuous |-> smooth, smooth |-> smooth, first |-> first,
   interval |-> interval, decode_interval |-> decode_interval, retention |-> retention,
   bootstrap |-> bootstrap, bounded |-> bounded]

\* The option combinations the preview loop is started with: a selected player
\* decoded one by one, with bootstrap; smoothly with bounded lookups; and program
\* first with retained snapshots, the preview drawn on every tick or skipped on
\* the second.
OneByOneOptions == {Option(TRUE, {1}, FALSE, FALSE, 0, 0, FALSE, TRUE, FALSE)}
SmoothOptions ==
  {Option(TRUE, {1}, TRUE, FALSE, 0, 0, FALSE, TRUE, TRUE),
   Option(TRUE, {1}, TRUE, TRUE, 1, 1, TRUE, FALSE, FALSE),
   Option(TRUE, {1}, TRUE, TRUE, 2, 2, TRUE, FALSE, FALSE)}

\* Retained snapshots over three ticks, of which the preview is refreshed on the
\* first and the third: with a program window the second is skipped, without one
\* it is drawn all the same.
RetainedOptions ==
  {Option(window, {1}, FALSE, TRUE, 2, 2, TRUE, FALSE, FALSE) : window \in BOOLEAN}

VARIABLES
  running,   \* the component explored
  options, stored, decoder_latest, decoded_cache, tick, pc, reads,
  composition, previous_slots, decoded_slot_identities,
  previous_visual_identities, canvas, previous_composition, clean_output,
  screen, last_valid_program_frame, program_tick, first_render,
  program_screen, queue, arrived, passes, now, target, view, results,
  dropped, taken, outcome, decision, displayed, window, loop, totals, pipe,
  sender, guard, wrapper, faults, pressed, done

allVars == <<running, options, stored, decoder_latest, decoded_cache, tick,
             pc, reads, composition, previous_slots, decoded_slot_identities,
             previous_visual_identities, canvas, previous_composition,
             clean_output, screen, last_valid_program_frame, program_tick,
             first_render, program_screen, queue, arrived, passes, now,
             target, view, results, dropped, taken, outcome, decision,
             displayed, window, loop, totals, pipe, sender, guard, wrapper,
             faults, pressed, done>>

Preview == INSTANCE PreviewLoop WITH
  Slots <- {0, 1}, Elsewhere <- 9, MaxFrame <- 2, MaxLag <- 1,
  Keyframes <- {1}, Ticks <- 3, OptionSets <- OneByOneOptions
Smooth == INSTANCE PreviewLoop WITH
  Slots <- {0, 1}, Elsewhere <- 9, MaxFrame <- 2, MaxLag <- 1,
  Keyframes <- {1}, Ticks <- 2, OptionSets <- SmoothOptions
Retained == INSTANCE PreviewLoop WITH
  Slots <- {0, 1}, Elsewhere <- 9, MaxFrame <- 2, MaxLag <- 1,
  Keyframes <- {1}, Ticks <- 3, OptionSets <- RetainedOptions
InProcess == INSTANCE TwoViewDisplay WITH
  Incoming <- PairFrames, Offsets <- ViewOffsets, Handoff <- FALSE,
  Consume <- TRUE, Errors <- {}, Skips <- {"failed"}, MaxLate <- 0,
  MaxHold <- 1, MaxCanvas <- 4, MaxNow <- 2, Passes <- 2
ByHandoff == INSTANCE TwoViewDisplay WITH
  Incoming <- FewFrames, Offsets <- ViewOffsets, Handoff <- TRUE,
  Consume <- TRUE, Errors <- SourceErrors, Skips <- {"failed"}, MaxLate <- 0,
  MaxHold <- 1, MaxCanvas <- 4, MaxNow <- 2, Passes <- 2
LatestOnly == INSTANCE TwoViewDisplay WITH
  Incoming <- FewFrames, Offsets <- ViewOffsets, Handoff <- FALSE,
  Consume <- FALSE, Errors <- {}, Skips <- {"failed"}, MaxLate <- 0,
  MaxHold <- 1, MaxCanvas <- 4, MaxNow <- 2, Passes <- 2
\* The wrapper alone; the wrapper beside another sender; the other sources.
Operator == INSTANCE ControlledPreview WITH
  Source <- "pipe", StartView <- {}, Script <- ScriptLines, Lines <- {},
  Keys <- OperatorKeys, MaxInputs <- 3, Ticks <- 1, Reads <- OneRead,
  QuitWindow <- 1, MaxNow <- 2, Faults <- 1
TwoSenders == INSTANCE ControlledPreview WITH
  Source <- "pipe", StartView <- {}, Script <- ScriptLines,
  Lines <- SentLines, Keys <- FewKeys, MaxInputs <- 1, Ticks <- 2,
  Reads <- SlotReads, QuitWindow <- 1, MaxNow <- 0, Faults <- 1
Typed == INSTANCE ControlledPreview WITH
  Source <- "stdin", StartView <- {}, Script <- ScriptLines,
  Lines <- TypedLines, Keys <- {}, MaxInputs <- 3, Ticks <- 1,
  Reads <- SlotReads, QuitWindow <- 1, MaxNow <- 0, Faults <- 1
Scripted == INSTANCE ControlledPreview WITH
  Source <- "script", StartView <- {}, Script <- ScriptLines, Lines <- {},
  Keys <- {}, MaxInputs <- 0, Ticks <- 2, Reads <- SlotReads,
  QuitWindow <- 1, MaxNow <- 0, Faults <- 1
AllFour == INSTANCE ControlledPreview WITH
  Source <- "ticks", StartView <- {}, Script <- ScriptLines, Lines <- {},
  Keys <- {}, MaxInputs <- 0, Ticks <- 3, Reads <- SlotReads,
  QuitWindow <- 1, MaxNow <- 0, Faults <- 1
Focused == INSTANCE ControlledPreview WITH
  Source <- "ticks", StartView <- {1}, Script <- ScriptLines, Lines <- {},
  Keys <- {}, MaxInputs <- 0, Ticks <- 3, Reads <- SlotReads,
  QuitWindow <- 1, MaxNow <- 0, Faults <- 1

\* The state of a component that is not explored.
Off == "off"

Init ==
  \/ /\ running = "preview" /\ Preview!Init
     /\ queue = Off /\ arrived = Off /\ passes = Off /\ now = Off
     /\ target = Off /\ view = Off /\ results = Off /\ dropped = Off
     /\ taken = Off /\ outcome = Off /\ decision = Off /\ displayed = Off
     /\ window = Off /\ loop = Off /\ totals = Off /\ pipe = Off
     /\ sender = Off /\ guard = Off /\ wrapper = Off /\ faults = Off
     /\ pressed = Off /\ done = Off
  \/ /\ running = "smooth preview" /\ Smooth!Init
     /\ queue = Off /\ arrived = Off /\ passes = Off /\ now = Off
     /\ target = Off /\ view = Off /\ results = Off /\ dropped = Off
     /\ taken = Off /\ outcome = Off /\ decision = Off /\ displayed = Off
     /\ window = Off /\ loop = Off /\ totals = Off /\ pipe = Off
     /\ sender = Off /\ guard = Off /\ wrapper = Off /\ faults = Off
     /\ pressed = Off /\ done = Off
  \/ /\ running = "retained preview" /\ Retained!Init
     /\ queue = Off /\ arrived = Off /\ passes = Off /\ now = Off
     /\ target = Off /\ view = Off /\ results = Off /\ dropped = Off
     /\ taken = Off /\ outcome = Off /\ decision = Off /\ displayed = Off
     /\ window = Off /\ loop = Off /\ totals = Off /\ pipe = Off
     /\ sender = Off /\ guard = Off /\ wrapper = Off /\ faults = Off
     /\ pressed = Off /\ done = Off
  \/ /\ running = "two views" /\ InProcess!Init
     /\ options = Off /\ stored = Off /\ decoder_latest = Off
     /\ decoded_cache = Off /\ tick = Off /\ reads = Off /\ composition = Off
     /\ previous_slots = Off /\ decoded_slot_identities = Off
     /\ previous_visual_identities = Off /\ previous_composition = Off
     /\ clean_output = Off /\ last_valid_program_frame = Off
     /\ program_tick = Off /\ first_render = Off /\ program_screen = Off
     /\ loop = Off /\ totals = Off /\ pipe = Off /\ sender = Off
     /\ guard = Off /\ wrapper = Off /\ faults = Off /\ pressed = Off
     /\ done = Off
  \/ /\ running = "two views by handoff" /\ ByHandoff!Init
     /\ options = Off /\ stored = Off /\ decoder_latest = Off
     /\ decoded_cache = Off /\ tick = Off /\ reads = Off /\ composition = Off
     /\ previous_slots = Off /\ decoded_slot_identities = Off
     /\ previous_visual_identities = Off /\ previous_composition = Off
     /\ clean_output = Off /\ last_valid_program_frame = Off
     /\ program_tick = Off /\ first_render = Off /\ program_screen = Off
     /\ loop = Off /\ totals = Off /\ pipe = Off /\ sender = Off
     /\ guard = Off /\ wrapper = Off /\ faults = Off /\ pressed = Off
     /\ done = Off
  \/ /\ running = "two views latest" /\ LatestOnly!Init
     /\ options = Off /\ stored = Off /\ decoder_latest = Off
     /\ decoded_cache = Off /\ tick = Off /\ reads = Off /\ composition = Off
     /\ previous_slots = Off /\ decoded_slot_identities = Off
     /\ previous_visual_identities = Off /\ previous_composition = Off
     /\ clean_output = Off /\ last_valid_program_frame = Off
     /\ program_tick = Off /\ first_render = Off /\ program_screen = Off
     /\ loop = Off /\ totals = Off /\ pipe = Off /\ sender = Off
     /\ guard = Off /\ wrapper = Off /\ faults = Off /\ pressed = Off
     /\ done = Off
  \/ /\ running = "operator" /\ Operator!Init
     /\ options = Off /\ stored = Off /\ decoder_latest = Off
     /\ decoded_cache = Off /\ tick = Off /\ pc = Off /\ reads = Off
     /\ composition = Off /\ previous_slots = Off
     /\ decoded_slot_identities = Off /\ previous_visual_identities = Off
     /\ canvas = Off /\ previous_composition = Off /\ clean_output = Off
     /\ screen = Off /\ last_valid_program_frame = Off /\ program_tick = Off
     /\ first_render = Off /\ program_screen = Off /\ queue = Off
     /\ arrived = Off /\ passes = Off /\ target = Off /\ results = Off
     /\ dropped = Off /\ taken = Off /\ outcome = Off /\ decision = Off
     /\ displayed = Off
  \/ /\ running = "two senders" /\ TwoSenders!Init
     /\ options = Off /\ stored = Off /\ decoder_latest = Off
     /\ decoded_cache = Off /\ tick = Off /\ pc = Off /\ reads = Off
     /\ composition = Off /\ previous_slots = Off
     /\ decoded_slot_identities = Off /\ previous_visual_identities = Off
     /\ canvas = Off /\ previous_composition = Off /\ clean_output = Off
     /\ screen = Off /\ last_valid_program_frame = Off /\ program_tick = Off
     /\ first_render = Off /\ program_screen = Off /\ queue = Off
     /\ arrived = Off /\ passes = Off /\ target = Off /\ results = Off
     /\ dropped = Off /\ taken = Off /\ outcome = Off /\ decision = Off
     /\ displayed = Off
  \/ /\ running = "typed" /\ Typed!Init
     /\ options = Off /\ stored = Off /\ decoder_latest = Off
     /\ decoded_cache = Off /\ tick = Off /\ pc = Off /\ reads = Off
     /\ composition = Off /\ previous_slots = Off
     /\ decoded_slot_identities = Off /\ previous_visual_identities = Off
     /\ canvas = Off /\ previous_composition = Off /\ clean_output = Off
     /\ screen = Off /\ last_valid_program_frame = Off /\ program_tick = Off
     /\ first_render = Off /\ program_screen = Off /\ queue = Off
     /\ arrived = Off /\ passes = Off /\ target = Off /\ results = Off
     /\ dropped = Off /\ taken = Off /\ outcome = Off /\ decision = Off
     /\ displayed = Off
  \/ /\ running = "script" /\ Scripted!Init
     /\ options = Off /\ stored = Off /\ decoder_latest = Off
     /\ decoded_cache = Off /\ tick = Off /\ pc = Off /\ reads = Off
     /\ composition = Off /\ previous_slots = Off
     /\ decoded_slot_identities = Off /\ previous_visual_identities = Off
     /\ canvas = Off /\ previous_composition = Off /\ clean_output = Off
     /\ screen = Off /\ last_valid_program_frame = Off /\ program_tick = Off
     /\ first_render = Off /\ program_screen = Off /\ queue = Off
     /\ arrived = Off /\ passes = Off /\ target = Off /\ results = Off
     /\ dropped = Off /\ taken = Off /\ outcome = Off /\ decision = Off
     /\ displayed = Off
  \/ /\ running = "all four" /\ AllFour!Init
     /\ options = Off /\ stored = Off /\ decoder_latest = Off
     /\ decoded_cache = Off /\ tick = Off /\ pc = Off /\ reads = Off
     /\ composition = Off /\ previous_slots = Off
     /\ decoded_slot_identities = Off /\ previous_visual_identities = Off
     /\ canvas = Off /\ previous_composition = Off /\ clean_output = Off
     /\ screen = Off /\ last_valid_program_frame = Off /\ program_tick = Off
     /\ first_render = Off /\ program_screen = Off /\ queue = Off
     /\ arrived = Off /\ passes = Off /\ target = Off /\ results = Off
     /\ dropped = Off /\ taken = Off /\ outcome = Off /\ decision = Off
     /\ displayed = Off
  \/ /\ running = "one focused" /\ Focused!Init
     /\ options = Off /\ stored = Off /\ decoder_latest = Off
     /\ decoded_cache = Off /\ tick = Off /\ pc = Off /\ reads = Off
     /\ composition = Off /\ previous_slots = Off
     /\ decoded_slot_identities = Off /\ previous_visual_identities = Off
     /\ canvas = Off /\ previous_composition = Off /\ clean_output = Off
     /\ screen = Off /\ last_valid_program_frame = Off /\ program_tick = Off
     /\ first_render = Off /\ program_screen = Off /\ queue = Off
     /\ arrived = Off /\ passes = Off /\ target = Off /\ results = Off
     /\ dropped = Off /\ taken = Off /\ outcome = Off /\ decision = Off
     /\ displayed = Off

Next ==
  \/ /\ running = "preview" /\ Preview!Next
     /\ UNCHANGED <<running, queue, arrived, passes, now, target, view,
                     results, dropped, taken, outcome, decision,
                     displayed, window, loop, totals, pipe, sender,
                     guard, wrapper, faults, pressed, done>>
  \/ /\ running = "smooth preview" /\ Smooth!Next
     /\ UNCHANGED <<running, queue, arrived, passes, now, target, view,
                     results, dropped, taken, outcome, decision,
                     displayed, window, loop, totals, pipe, sender,
                     guard, wrapper, faults, pressed, done>>
  \/ /\ running = "retained preview" /\ Retained!Next
     /\ UNCHANGED <<running, queue, arrived, passes, now, target, view,
                     results, dropped, taken, outcome, decision,
                     displayed, window, loop, totals, pipe, sender,
                     guard, wrapper, faults, pressed, done>>
  \/ /\ running = "two views" /\ InProcess!Next
     /\ UNCHANGED <<running, options, stored, decoder_latest,
                     decoded_cache, tick, reads, composition,
                     previous_slots, decoded_slot_identities,
                     previous_visual_identities, previous_composition,
                     clean_output, last_valid_program_frame,
                     program_tick, first_render, program_screen, loop,
                     totals, pipe, sender, guard, wrapper, faults,
                     pressed, done>>
  \/ /\ running = "two views by handoff" /\ ByHandoff!Next
     /\ UNCHANGED <<running, options, stored, decoder_latest,
                     decoded_cache, tick, reads, composition,
                     previous_slots, decoded_slot_identities,
                     previous_visual_identities, previous_composition,
                     clean_output, last_valid_program_frame,
                     program_tick, first_render, program_screen, loop,
                     totals, pipe, sender, guard, wrapper, faults,
                     pressed, done>>
  \/ /\ running = "two views latest" /\ LatestOnly!Next
     /\ UNCHANGED <<running, options, stored, decoder_latest,
                     decoded_cache, tick, reads, composition,
                     previous_slots, decoded_slot_identities,
                     previous_visual_identities, previous_composition,
                     clean_output, last_valid_program_frame,
                     program_tick, first_render, program_screen, loop,
                     totals, pipe, sender, guard, wrapper, faults,
                     pressed, done>>
  \/ /\ running = "operator" /\ Operator!Next
     /\ UNCHANGED <<running, options, stored, decoder_latest,
                     decoded_cache, tick, pc, reads, composition,
                     previous_slots, decoded_slot_identities,
                     previous_visual_identities, canvas,
                     previous_composition, clean_output, screen,
                     last_valid_program_frame, program_tick,
                     first_render, program_screen, queue, arrived,
                     passes, target, results, dropped, taken, outcome,
                     decision, displayed>>
  \/ /\ running = "two senders" /\ TwoSenders!Next
     /\ UNCHANGED <<running, options, stored, decoder_latest,
                     decoded_cache, tick, pc, reads, composition,
                     previous_slots, decoded_slot_identities,
                     previous_visual_identities, canvas,
                     previous_composition, clean_output, screen,
                     last_valid_program_frame, program_tick,
                     first_render, program_screen, queue, arrived,
                     passes, target, results, dropped, taken, outcome,
                     decision, displayed>>
  \/ /\ running = "typed" /\ Typed!Next
     /\ UNCHANGED <<running, options, stored, decoder_latest,
                     decoded_cache, tick, pc, reads, composition,
                     previous_slots, decoded_slot_identities,
                     previous_visual_identities, canvas,
                     previous_composition, clean_output, screen,
                     last_valid_program_frame, program_tick,
                     first_render, program_screen, queue, arrived,
                     passes, target, results, dropped, taken, outcome,
                     decision, displayed>>
  \/ /\ running = "script" /\ Scripted!Next
     /\ UNCHANGED <<running, options, stored, decoder_latest,
                     decoded_cache, tick, pc, reads, composition,
                     previous_slots, decoded_slot_identities,
                     previous_visual_identities, canvas,
                     previous_composition, clean_output, screen,
                     last_valid_program_frame, program_tick,
                     first_render, program_screen, queue, arrived,
                     passes, target, results, dropped, taken, outcome,
                     decision, displayed>>
  \/ /\ running = "all four" /\ AllFour!Next
     /\ UNCHANGED <<running, options, stored, decoder_latest,
                     decoded_cache, tick, pc, reads, composition,
                     previous_slots, decoded_slot_identities,
                     previous_visual_identities, canvas,
                     previous_composition, clean_output, screen,
                     last_valid_program_frame, program_tick,
                     first_render, program_screen, queue, arrived,
                     passes, target, results, dropped, taken, outcome,
                     decision, displayed>>
  \/ /\ running = "one focused" /\ Focused!Next
     /\ UNCHANGED <<running, options, stored, decoder_latest,
                     decoded_cache, tick, pc, reads, composition,
                     previous_slots, decoded_slot_identities,
                     previous_visual_identities, canvas,
                     previous_composition, clean_output, screen,
                     last_valid_program_frame, program_tick,
                     first_render, program_screen, queue, arrived,
                     passes, target, results, dropped, taken, outcome,
                     decision, displayed>>

Spec == Init /\ [][Next]_allVars

ASSUME InstancesAssumption ==
  /\ Preview!PreviewAssumption /\ Smooth!PreviewAssumption /\ Retained!PreviewAssumption
  /\ InProcess!TwoViewAssumption /\ ByHandoff!TwoViewAssumption /\ LatestOnly!TwoViewAssumption
  /\ Operator!ControlledAssumption /\ TwoSenders!ControlledAssumption /\ Typed!ControlledAssumption
  /\ Scripted!ControlledAssumption /\ AllFour!ControlledAssumption /\ Focused!ControlledAssumption

-----------------------------------------------------------------------------
\* What the windows show is what the caches of the preview loop say they show, and
\* what the two-view display last drew, whichever source failed meanwhile.
DisplayInvariant ==
  /\ running = "two views" => InProcess!TwoViewInvariant
  /\ running = "two views by handoff" => ByHandoff!TwoViewInvariant
  /\ running = "two views latest" => LatestOnly!TwoViewInvariant
  /\ running = "preview" => Preview!PreviewInvariant
  /\ running = "smooth preview" => Smooth!PreviewInvariant
  /\ running = "retained preview" => Retained!PreviewInvariant

\* In smooth playout the program window changes only to what the continuous
\* decoder put out, and with retained snapshots no slot of the preview window
\* goes black, whatever the tick read or failed to decode.
PreviewSteps ==
  [][/\ running = "preview" => Preview!PreviewStep
     /\ running = "smooth preview" => Smooth!PreviewStep
     /\ running = "retained preview" => Retained!PreviewStep]_allVars

\* Commands reach the preview once and in order, from the operator only as meant,
\* and the loop's answers, totals and window agree with them.
ControlInvariant ==
  /\ running = "operator" => Operator!ControlledInvariant
  /\ running = "two senders" => TwoSenders!ControlledInvariant
  /\ running = "typed" => Typed!ControlledInvariant
  /\ running = "script" => Scripted!ControlledInvariant
  /\ running = "all four" => AllFour!ControlledInvariant
  /\ running = "one focused" => Focused!ControlledInvariant
=============================================================================
