------------------------------ MODULE PreviewLoop ------------------------------
(***************************************************************************)
(* The switcher's preview loop over two real slots: every tick reads a     *)
(* frame for each slot from the server, decides what the slot displays,    *)
(* decodes what it does not have yet, renders the selected player in the   *)
(* program window and composes the slots into the preview window.  Four    *)
(* caches live from tick to tick (what each slot displayed, the identities *)
(* last compared, the canvas, the last program picture) and decide what is *)
(* redrawn; the properties relate them to what the two windows show.       *)
(***************************************************************************)
EXTENDS Naturals, FiniteSets

CONSTANTS
  Slots,        \* the two real slots, numbered; each is bound to one client and run
  Elsewhere,    \* a client that no real slot is bound to
  MaxFrame,     \* bound: frames a client sends
  MaxLag,       \* frames a bounded lookup may lag behind the selected one
  Keyframes,    \* the frame ids that are keyframes
  Ticks,        \* frames: ticks of the loop
  OptionSets    \* the option combinations the loop is started with

PreviewAssumption ==
  /\ Slots \subseteq Nat /\ Slots # {} /\ IsFiniteSet(Slots)
  /\ Elsewhere \in Nat \ Slots
  /\ MaxFrame \in Nat \ {0} /\ MaxLag \in Nat /\ Ticks \in Nat \ {0}
  /\ Keyframes \subseteq 1..MaxFrame

VARIABLES
  options,                    \* the arguments of the loop
  stored,                     \* newest frame of each client at the server
  decoder_latest,             \* newest picture of the continuous decoder, at most one
  decoded_cache,              \* one-shot decoded pictures
  tick, pc,
  reads,                      \* this tick's answer of the server, per slot
  composition,                \* what each slot is to display this tick
  previous_slots,             \* what each slot last displayed, at most one
  decoded_slot_identities,    \* the frame id of what it displayed, at most one
  previous_visual_identities, \* what the last tick wanted to display, at most one
  canvas,                     \* the pixels composed so far
  previous_composition,       \* "none", "composed", "refused"
  clean_output,               \* "none", "rendered", "failed", "no_view"
  screen,                     \* what the preview window shows
  last_valid_program_frame,   \* at most one picture
  program_tick,               \* what this tick did in the program window
  first_render,               \* the program window has been drawn
  program_screen              \* what the program window shows, at most one picture

preview == <<previous_slots, decoded_slot_identities, previous_visual_identities,
             canvas, previous_composition, clean_output, screen>>
program == <<last_valid_program_frame, program_tick, first_render, program_screen>>
vars == <<options, stored, decoder_latest, decoded_cache, tick, pc, reads, composition,
          preview, program>>

Pictures == [slot : Slots, frame : 1..MaxFrame]
Blank == [slot |-> Elsewhere, frame |-> 0]
AtMostOne(S) == {{}} \cup {{x} : x \in S}

The(S) == CHOOSE x \in S : TRUE

NotRead == [kind |-> "not_read", frame |-> 0]
NoTick == [choice |-> "none", picture |-> {}, bootstrap |-> {}]
Empty == [kind |-> "no_display", selected |-> 0, picture |-> Blank]

Init ==
  /\ options \in OptionSets
  /\ stored = [s \in Slots |-> 0]
  /\ decoder_latest = {} /\ decoded_cache = {}
  /\ tick = 0 /\ pc = "read"
  /\ reads = [s \in Slots |-> NotRead]
  /\ composition = [s \in Slots |-> Empty]
  /\ previous_slots = [s \in Slots |-> {}]
  /\ decoded_slot_identities = [s \in Slots |-> {}]
  /\ previous_visual_identities = {}
  /\ canvas = [s \in Slots |-> Blank]
  /\ previous_composition = "none" /\ clean_output = "none"
  /\ screen = [s \in Slots |-> Blank]
  /\ last_valid_program_frame = {} /\ program_tick = NoTick
  /\ first_render = FALSE /\ program_screen = {}

-----------------------------------------------------------------------------
(* What the options switch on. *)

program_first == options.first /\ options.window
low_cost_preview == options.first /\ options.interval > 0
retention_active == low_cost_preview /\ options.retention

\* should_attempt_operator_low_cost_preview_refresh
preview_refresh == low_cost_preview /\ tick % options.interval = 0
decode_refresh ==
  preview_refresh /\ options.decode_interval > 0 /\ tick % options.decode_interval = 0

\* program_continuous_decode_source: the slot of the player asked for, if it has
\* one and its frames go through the continuous decoder.
program_source ==
  IF options.continuous /\ options.window THEN options.program \cap Slots ELSE {}
explicit_selection == options.program # {}

\* program_continuous_latest_frame: only smooth-latest looks.
continuous_latest == IF options.smooth /\ program_source # {} THEN decoder_latest ELSE {}

-----------------------------------------------------------------------------
(* Outside the loop: clients send, the continuous decoder puts out pictures. *)
(* The loop sees the first in its reads and the second when it decodes and    *)
(* when it looks for the newest picture, so they happen just before.          *)

Store(s) ==
  /\ pc = "read" /\ stored[s] < MaxFrame
  /\ stored' = [stored EXCEPT ![s] = @ + 1]
  /\ UNCHANGED <<options, decoder_latest, decoded_cache, tick, pc, reads, composition,
                 preview, program>>

DecoderPutsOut(s) ==
  /\ pc \in {"decode", "program"} /\ s \in program_source
  /\ \E n \in 1..stored[s] :
       /\ \A p \in decoder_latest : n > p.frame
       /\ decoder_latest' = {[slot |-> s, frame |-> n]}
  /\ UNCHANGED <<options, stored, decoded_cache, tick, pc, reads, composition, preview, program>>

\* A restarted decoder has put out nothing.
DecoderRestarts ==
  /\ pc = "decode" /\ decoder_latest # {} /\ decoder_latest' = {}
  /\ UNCHANGED <<options, stored, decoded_cache, tick, pc, reads, composition, preview, program>>

-----------------------------------------------------------------------------
(* The reads of a tick. *)

\* A read may fall back on a retained keyframe, so it answers any frame sent.
Answers(s) ==
  [kind : {"selected"}, frame : 1..stored[s]]
    \cup {[kind |-> k, frame |-> 0] : k \in {"no_frame", "handoff_error"}}

ReadSlots ==
  /\ pc = "read"
  /\ reads' \in [Slots -> UNION {Answers(s) : s \in Slots}]
  /\ \A s \in Slots : reads'[s] \in Answers(s)
  /\ pc' = "decode"
  /\ UNCHANGED <<options, stored, decoder_latest, decoded_cache, tick, composition,
                 preview, program>>

-----------------------------------------------------------------------------
(* Display decisions and decoding. *)

ShowsSelected(s) ==
  \E d \in previous_slots[s] : d.selected = reads[s].frame

program_source_preview_suppression ==
  program_first /\ options.smooth /\ continuous_latest # {}

\* maybe_suppress_program_first_preview_one_shot; on the first tick of a
\* program-first loop without low-cost preview everything is decoded.
Suppressed(s) ==
  /\ program_first /\ (clean_output # "none" \/ low_cost_preview)
  /\ program_source # {}
  /\ IF s \in program_source THEN program_source_preview_suppression ELSE ~decode_refresh

\* The continuous decoder's picture for the slot, exact or within the lag.
ContinuousPicture(s) ==
  {p \in decoder_latest : /\ s \in program_source
                          /\ \/ p.frame = reads[s].frame
                             \/ /\ options.bounded
                                /\ p.frame <= reads[s].frame
                                /\ reads[s].frame <= p.frame + MaxLag}

\* The outcomes of decoding the frame read for slot s.  Any decode may be
\* deferred, an older picture of the continuous decoder may still be cached.
DecodeOutcomes(s) ==
  LET own == [slot |-> s, frame |-> reads[s].frame]
      updated(p) == [kind |-> "updated", selected |-> own.frame, picture |-> p]
      placeholder(k) == [kind |-> k, selected |-> own.frame, picture |-> Blank]
      older == s \in program_source /\ \E p \in decoder_latest : own.frame < p.frame
  IN IF own \in decoded_cache THEN {updated(own)}
     ELSE IF ContinuousPicture(s) # {} THEN {updated(p) : p \in ContinuousPicture(s)}
     ELSE {placeholder("deferred")}
            \cup (IF older \/ ~Suppressed(s) THEN {updated(own)} ELSE {})
            \cup (IF Suppressed(s) THEN {} ELSE {placeholder("failed")})

\* What the slot is to display: the frame it already displays keeps its
\* picture, a slot without a frame holds what it displayed.
Displays(s) ==
  CASE reads[s].kind = "selected" /\ ShowsSelected(s) ->
         {[kind |-> "updated", selected |-> d.selected, picture |-> d.picture] :
             d \in previous_slots[s]}
    [] reads[s].kind = "selected" /\ ~ShowsSelected(s) -> DecodeOutcomes(s)
    [] reads[s].kind = "no_frame" ->
         IF previous_slots[s] = {} THEN {Empty}
         ELSE {[kind |-> "held", selected |-> d.selected, picture |-> d.picture] :
                 d \in previous_slots[s]}
    [] reads[s].kind = "handoff_error" ->
         {[kind |-> "source_error", selected |-> 0, picture |-> Blank]}

Renderable(d) == d.kind \in {"updated", "held"}

DecodeSlots ==
  /\ pc = "decode"
  /\ \E c \in [Slots -> UNION {Displays(s) : s \in Slots}] :
       /\ \A s \in Slots : c[s] \in Displays(s)
       /\ composition' = c
       /\ decoded_cache' = decoded_cache \cup
            {c[s].picture : s \in {t \in Slots : /\ c[t].kind = "updated"
                                                 /\ c[t].picture \notin decoder_latest}}
  /\ pc' = "program"
  /\ UNCHANGED <<options, stored, decoder_latest, tick, reads, preview, program>>

-----------------------------------------------------------------------------
(* The program window. *)

\* requested_program_output_selection_and_frame: the requested player's slot
\* counts only when it was updated this tick.
requested_program_frame ==
  {composition[s].picture :
     s \in {t \in options.program \cap Slots : composition[t].kind = "updated"}}

\* fallback_program_output_selection_and_frame: the first slot with a picture,
\* held or not.
fallback_slots == {s \in Slots : Renderable(composition[s])}
First(S) == CHOOSE s \in S : \A t \in S : s <= t

selected_slot ==
  IF explicit_selection THEN options.program
  ELSE {First(IF fallback_slots # {} THEN fallback_slots ELSE Slots)}

selected_decoded_frame ==
  IF explicit_selection THEN requested_program_frame
  ELSE {composition[s].picture : s \in selected_slot \cap fallback_slots}

matching_last_valid == {p \in last_valid_program_frame : p.slot \in selected_slot}

KeyframeCandidate(s) ==
  reads[s].frame \in Keyframes \/ \E k \in Keyframes : k <= stored[s]

\* program_startup_bootstrap_rejection_reason = None
MayBootstrap ==
  /\ options.bootstrap /\ ~first_render /\ explicit_selection
  /\ continuous_latest = {} /\ last_valid_program_frame = {}
  /\ selected_decoded_frame = {}
  /\ \E s \in options.program \cap Slots : reads[s].kind = "selected" /\ KeyframeCandidate(s)

BootstrapFrames ==
  {{}} \cup {{[slot |-> s, frame |-> reads[s].frame]} :
                s \in {t \in options.program \cap Slots :
                        MayBootstrap /\ reads[t].kind = "selected"}}

\* A slip: a selected frame is preferred to the last valid one.
ProgramChoice_SelectedFirst(bootstrap) ==
  LET selected == IF selected_decoded_frame # {}
                  THEN [choice |-> "selected", picture |-> selected_decoded_frame]
                  ELSE IF bootstrap # {}
                  THEN [choice |-> "bootstrap", picture |-> bootstrap]
                  ELSE [choice |-> "none", picture |-> {}]
  IN IF options.smooth /\ continuous_latest # {}
     THEN [choice |-> "continuous_latest", picture |-> continuous_latest]
     ELSE IF selected.picture # {} THEN selected
     ELSE [choice |-> "reused", picture |-> matching_last_valid]

\* select_two_real_program_output_render_frame, with the bootstrap picture
\* standing in for a selected frame that was not decoded.
ProgramChoice(bootstrap) ==
  LET selected == IF selected_decoded_frame # {}
                  THEN [choice |-> "selected", picture |-> selected_decoded_frame]
                  ELSE IF bootstrap # {}
                  THEN [choice |-> "bootstrap", picture |-> bootstrap]
                  ELSE [choice |-> "none", picture |-> {}]
      reused == [choice |-> "reused", picture |-> matching_last_valid]
  IN IF options.smooth /\ continuous_latest # {}
     THEN [choice |-> "continuous_latest", picture |-> continuous_latest]
     ELSE IF matching_last_valid # {} /\ (options.smooth \/ selected.picture = {})
     THEN reused
     ELSE selected

\* latest_valid_frame: a picture is kept once it was drawn.
NextLastValid(c, rendered) ==
  IF rendered /\ c.choice # "reused" THEN c.picture ELSE last_valid_program_frame

\* What the tick reports of the program window.
ProgramTick(c, bootstrap) ==
  [choice |-> IF c.picture = {} THEN "none" ELSE c.choice,
   picture |-> c.picture, bootstrap |-> bootstrap]

\* Whether the window has been drawn, for the metrics and the next bootstrap.
FirstRenderKnown(rendered) == first_render \/ rendered

RenderProgram ==
  /\ pc = "program"
  /\ IF ~options.window THEN UNCHANGED <<program>>
     ELSE \E bootstrap \in BootstrapFrames, drawn \in BOOLEAN :
            LET c == ProgramChoice(bootstrap)
                rendered == drawn /\ c.picture # {}
            IN /\ program_tick' = ProgramTick(c, bootstrap)
               /\ first_render' = FirstRenderKnown(rendered)
               /\ last_valid_program_frame' = NextLastValid(c, rendered)
               /\ program_screen' = IF rendered THEN c.picture ELSE program_screen
  /\ pc' = "preview"
  /\ UNCHANGED <<options, stored, decoder_latest, decoded_cache, tick, reads, composition, preview>>

-----------------------------------------------------------------------------
(* The preview window. *)

\* operator_preview_program_reuse_candidate, after this tick's program render.
program_reuse_candidate ==
  IF continuous_latest # {} THEN continuous_latest
  ELSE {p \in last_valid_program_frame : p.slot \in options.program}

\* reuse_program_frame_for_operator_preview_slot: only a deferred slot takes
\* the program's picture.
WithProgramFrame(s, d) ==
  IF /\ low_cost_preview /\ program_first
     /\ s \in options.program /\ d.kind = "deferred" /\ program_reuse_candidate # {}
  THEN [kind |-> "updated", selected |-> d.selected,
        picture |-> The(program_reuse_candidate)]
  ELSE d

Snapshot(s) ==
  LET kept == The(previous_slots[s])
  IN [kind |-> "held", selected |-> kept.selected, picture |-> kept.picture]

\* A slip: only a slot whose decode was deferred or failed holds its snapshot.
WithSnapshot_NotOnReadError(s, d) ==
  IF retention_active /\ d.kind \in {"deferred", "failed"} /\ previous_slots[s] # {}
  THEN Snapshot(s)
  ELSE d

\* apply_operator_preview_snapshot_retention
WithSnapshot(s, d) ==
  IF retention_active /\ ~Renderable(d) /\ previous_slots[s] # {} THEN Snapshot(s)
  ELSE d

preview_composition == [s \in Slots |-> WithSnapshot(s, WithProgramFrame(s, composition[s]))]

\* update_two_real_decoded_slot_identities
NextIdentity(s) ==
  IF preview_composition[s].kind = "updated" THEN {preview_composition[s].selected}
  ELSE decoded_slot_identities[s]

\* A slip: placeholders and pictures go by their frame id alone.
VisualIdentity_IdOnly(s) ==
  [kind |-> "source_frame", frame |-> preview_composition[s].selected]

\* two_real_preview_loop_slot_visual_identity, as far as
\* two_real_preview_loop_slot_visual_identity_render_eq compares it: a picture
\* goes by the id of the frame it is displayed for.
VisualIdentity(s) ==
  LET d == preview_composition[s]
  IN IF Renderable(d)
     THEN [kind |-> "source_frame",
           frame |-> IF NextIdentity(s) = {} THEN d.selected ELSE The(NextIdentity(s))]
     ELSE [kind |-> d.kind, frame |-> d.selected]

visual_identities == [s \in Slots |-> VisualIdentity(s)]
visual_unchanged == previous_visual_identities = {visual_identities}
ChangedSlots ==
  {s \in Slots : \A previous \in previous_visual_identities :
                   previous[s] # visual_identities[s]}

NoView == \A s \in Slots : ~Renderable(preview_composition[s])

\* compose_two_real_preview_quad_view_incremental: with a composed canvas only
\* the changed slots are drawn again.
Composed ==
  [s \in Slots |->
     IF previous_composition = "composed" /\ ChangedSlots # {} /\ s \notin ChangedSlots
     THEN canvas[s] ELSE preview_composition[s].picture]

can_reuse_preview_for_program ==
  program_first /\ clean_output # "none" /\ ~preview_refresh
can_reuse_rendered_output == visual_unchanged /\ clean_output = "rendered"

ReusesOutput == can_reuse_preview_for_program \/ can_reuse_rendered_output
ReusesComposition == visual_unchanged /\ previous_composition # "none"

\* update_four_view_previous_slots_from_composition_render
NextPreviousSlot(s) ==
  IF Renderable(preview_composition[s])
  THEN {[selected |-> preview_composition[s].selected, picture |-> preview_composition[s].picture]}
  ELSE previous_slots[s]

\* render_four_view_clean_output_from_borrowed_render_facing: only a composed
\* view is drawn, and drawing may fail.
RenderCleanOutput ==
  IF previous_composition' = "composed"
  THEN \/ clean_output' = "rendered" /\ screen' = canvas'
       \/ clean_output' = "failed" /\ UNCHANGED screen
  ELSE clean_output' = "no_view" /\ UNCHANGED screen

DrawPreview ==
  IF ReusesOutput THEN UNCHANGED <<canvas, previous_composition, clean_output, screen>>
  ELSE /\ IF ReusesComposition THEN UNCHANGED <<canvas, previous_composition>>
          ELSE IF NoView THEN previous_composition' = "refused" /\ UNCHANGED canvas
          ELSE previous_composition' = "composed" /\ canvas' = Composed
       /\ RenderCleanOutput

RenderPreview ==
  /\ pc = "preview"
  /\ DrawPreview
  /\ previous_slots' = [s \in Slots |-> NextPreviousSlot(s)]
  /\ decoded_slot_identities' = [s \in Slots |-> NextIdentity(s)]
  /\ previous_visual_identities' = {visual_identities}
  /\ composition' = preview_composition
  /\ pc' = "sleep"
  /\ UNCHANGED <<options, stored, decoder_latest, decoded_cache, tick, reads, program>>

EndTick ==
  /\ pc = "sleep" /\ tick < Ticks
  /\ tick' = tick + 1
  /\ pc' = IF tick + 1 < Ticks THEN "read" ELSE "done"
  /\ reads' = [s \in Slots |-> NotRead]
  /\ composition' = [s \in Slots |-> Empty]
  /\ program_tick' = NoTick
  /\ UNCHANGED <<options, stored, decoder_latest, decoded_cache, preview,
                 last_valid_program_frame, first_render, program_screen>>

Done == pc = "done" /\ UNCHANGED vars

Works == ReadSlots \/ DecodeSlots \/ RenderProgram \/ RenderPreview \/ EndTick
Next ==
  \/ Works \/ Done
  \/ \E s \in Slots : Store(s) \/ DecoderPutsOut(s)
  \/ DecoderRestarts

Spec == Init /\ [][Next]_vars

-----------------------------------------------------------------------------
(* Properties. *)

Displayed == [kind : {"updated", "held", "no_display", "deferred", "failed", "source_error"},
              selected : 0..MaxFrame, picture : Pictures \cup {Blank}]

\* The caches hold what the source's types allow: a kept slot always has
\* pixels (Option<SwitcherFourViewDisplayedSlot> with decoded), so a held slot
\* without pixels, which would refuse the whole view, never arises.
PreviewTypeOK ==
  /\ stored \in [Slots -> 0..MaxFrame]
  /\ decoder_latest \in AtMostOne(Pictures) /\ decoded_cache \subseteq Pictures
  /\ tick \in 0..Ticks /\ pc \in {"read", "decode", "program", "preview", "sleep", "done"}
  /\ composition \in [Slots -> Displayed]
  /\ \A s \in Slots : Renderable(composition[s]) => composition[s].picture # Blank
  /\ previous_slots \in
       [Slots -> AtMostOne([selected : 1..MaxFrame, picture : Pictures])]
  /\ decoded_slot_identities \in [Slots -> AtMostOne(1..MaxFrame)]
  /\ canvas \in [Slots -> Pictures \cup {Blank}] /\ screen \in [Slots -> Pictures \cup {Blank}]
  /\ previous_composition \in {"none", "composed", "refused"}
  /\ clean_output \in {"none", "rendered", "failed", "no_view"}
  /\ last_valid_program_frame \in AtMostOne(Pictures) /\ first_render \in BOOLEAN

\* Although an unchanged view is not composed and a changed one only in its
\* changed slots, a preview window that was drawn shows what every slot is to
\* display.  (A program-first loop skips ticks on purpose; with a refresh on
\* every tick it skips none.)
ScreenShowsSlots ==
  (pc = "sleep" /\ clean_output = "rendered" /\ (~program_first \/ options.interval = 1))
    => \A s \in Slots : screen[s] = composition[s].picture

\* The identity that is compared belongs to the frame whose pixels the slot
\* keeps, also when these pixels came from the program window.
IdentityNamesSnapshot ==
  \A s \in Slots : decoded_slot_identities[s] = {d.selected : d \in previous_slots[s]}

\* Whatever is put in a slot, kept, drawn over or passed from the program to
\* the preview, a slot shows only its own client, and a program window with a
\* selected player only that player.
EachViewItsClient ==
  /\ \A s \in Slots : screen[s].slot \in {s, Elsewhere} /\ canvas[s].slot \in {s, Elsewhere}
  /\ explicit_selection => \A p \in program_screen : p.slot \in options.program

\* Once the selected player has been drawn, no tick is without a picture of it
\* (program_output_missing_after_first_render_count stays 0).
ProgramKeepsItsPicture ==
  (pc = "preview" /\ options.window /\ explicit_selection /\ first_render)
    => program_tick.picture # {}

\* A bootstrap decode is never wasted: its picture is the one the tick chooses.
BootstrapIsUsed ==
  program_tick.bootstrap # {} => program_tick.picture = program_tick.bootstrap

\* A step property: in smooth-latest, once a picture was drawn, a one-shot decoded frame that is
\* ahead of the decoder never jumps in: the window changes only to what the
\* continuous decoder put out.
PlayoutFollowsDecoder ==
  (options.smooth /\ explicit_selection /\ first_render /\ program_screen' # program_screen)
    => program_screen' = continuous_latest

\* A step property: with snapshot retention a slot that shows a picture never
\* goes black, whether its read failed, had no frame, or was not decoded, and
\* however many ticks were skipped since the picture was drawn.
RetainedSlotsStayVisible ==
  retention_active => \A s \in Slots : screen[s] # Blank => screen'[s] # Blank

\* What the two windows show is what the caches say they show.
PreviewInvariant ==
  /\ PreviewTypeOK /\ ScreenShowsSlots /\ IdentityNamesSnapshot
  /\ EachViewItsClient /\ ProgramKeepsItsPicture /\ BootstrapIsUsed

\* What a tick may change in a window that shows a picture.
PreviewStep == PlayoutFollowsDecoder /\ RetainedSlotsStayVisible

\* "On refresh ticks the switcher attempts Preview compose/render again": after
\* a refresh tick whose output counts as rendered, the window shows what the
\* slots are to display.
RefreshShowsSlots ==
  (pc = "sleep" /\ preview_refresh /\ clean_output = "rendered")
    => \A s \in Slots : screen[s] = composition[s].picture

\* "Program source freshness still prefers Program continuous/latest or
\* last-valid Program frame before falling back to retained snapshot".
FreshBeforeSnapshot ==
  (pc = "preview" /\ pc' = "sleep" /\ retention_active /\ program_first
     /\ program_reuse_candidate # {})
    => \A s \in options.program \cap Slots :
         (~Renderable(composition[s]) /\ composition'[s].kind = "held")
            => composition'[s].picture \in program_reuse_candidate

=============================================================================
