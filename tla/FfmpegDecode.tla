---------------------------- MODULE FfmpegDecode ----------------------------
(* The request/response decoders of the switcher (src/apps/switcher/src/lib.rs):
   one ffmpeg process per payload, or a persistent one behind a reader thread,
   with a restart after a failure, a timeout that disables it for good, and the
   one-shot decoder as its fallback.  ffmpeg is external: it takes payloads,
   holds back up to `Delay` pictures until its input ends, and may die. *)
EXTENDS Integers, Sequences, FiniteSets, SequencesExt

CONSTANTS
  ConfigEnabled,  \* config_enabled
  Inputs,         \* the inputs: [nals, width, size, scaled]; size is the stream's own
  MaxCalls,
  Delay,          \* pictures ffmpeg holds back while its input is open
  Procs,          \* slots for processes
  Faults          \* how many things outside may fail

PERSISTENT_DECODE_TIMEOUT_DISABLE_THRESHOLD == 1

DecodeAssumption ==
  /\ ConfigEnabled \in BOOLEAN /\ MaxCalls \in Nat /\ Delay \in Nat /\ Faults \in Nat
  /\ \A input \in Inputs : input.nals \in Seq(1 .. 12) /\ {input.width, input.size} \subseteq Nat /\ input.scaled \in BOOLEAN
  /\ Procs \subseteq Nat /\ Cardinality(Procs) >= 2

VARIABLES
  call,     \* [pc, id, input, out, diag]: the decode call
  runtime,  \* [disabled, failures, session]: runtime_state
  reader,   \* [pc, proc, expected, got, extra]: the reader of the session
  reply,    \* what the reader sent, an option
  proc,     \* [Procs -> ...]: the ffmpeg processes
  faults,
  finished  \* history: the calls with their results

vars == <<call, runtime, reader, reply, proc, faults, finished>>

-----------------------------------------------------------------------------
(* What a payload holds: a sequence of NAL unit types *)

NalKind(type) ==
  CASE type \in 1..4 -> "NonIdrVcl" [] type = 5 -> "Idr" [] type = 6 -> "Sei"
    [] type = 7 -> "Sps" [] type = 8 -> "Pps" [] type = 9 -> "Aud" [] OTHER -> "Other"
inspect_payload(nals) == {NalKind(nals[i]) : i \in DOMAIN nals}
Bootstraps(nals) == {"Idr", "Sps", "Pps"} \subseteq inspect_payload(nals)

NoDiagnostics ==
  [attempt |-> 0, success |-> 0, failure |-> 0, fallback |-> 0, spawn |-> 0, restart |-> 0,
   timeout |-> 0, disabling |-> 0, skipped_config |-> 0, skipped_disabled |-> 0,
   one_shot |-> 0, one_shot_fallback |-> 0, input |-> 0, failures |-> 0, disabled |-> FALSE]

Result(kind, pixels) == [kind |-> kind, pixels |-> pixels]
Deferred(reason) == Result(reason, <<>>)
Failed == Result("Failed", <<>>)
Decoded(pixels) == Result("Decoded", pixels)

-----------------------------------------------------------------------------
(* ffmpeg *)

NoProcess == [state |-> "none", input |-> <<>>, open |-> FALSE, once |-> FALSE, chain |-> FALSE,
              held |-> <<>>, out |-> <<>>, first |-> <<>>]
Started(once) == [NoProcess EXCEPT !.state = "running", !.open = TRUE, !.once = once]
FreeProcs == {p \in Procs : proc[p].state = "none"}
Session == runtime.session
Ended(p) == proc[p].state # "running"

\* A picture comes out when more than `Delay` are held, or the input has ended; a
\* payload that does not follow a key picture gives none.
P_Decodes(p) ==
  /\ proc[p].state = "running" /\ proc[p].input # <<>>
  /\ LET payload == Head(proc[p].input)
         key == Bootstraps(payload.nals)
         held == proc[p].held \o (IF key \/ proc[p].chain THEN <<payload>> ELSE <<>>)
     IN proc' = [proc EXCEPT ![p].input = Tail(@), ![p].chain = @ \/ key, ![p].held = held]
  /\ UNCHANGED <<call, runtime, reader, reply, faults, finished>>

P_Writes(p) ==
  /\ proc[p].state = "running" /\ proc[p].held # <<>>
  /\ Len(proc[p].held) > Delay \/ (~proc[p].open /\ proc[p].input = <<>>)
  /\ LET picture == Head(proc[p].held)
     IN proc' = [proc EXCEPT ![p].out = @ \o [i \in 1 .. picture.units |-> picture.id],
                             ![p].held = IF proc[p].once THEN <<>> ELSE Tail(@),
                             ![p].state = IF proc[p].once THEN "done" ELSE @]
  /\ UNCHANGED <<call, runtime, reader, reply, faults, finished>>

P_Ends(p) ==
  /\ proc[p].state = "running" /\ ~proc[p].open /\ proc[p].input = <<>> /\ proc[p].held = <<>>
  /\ proc' = [proc EXCEPT ![p].state = IF proc[p].chain THEN "done" ELSE "failed"]
  /\ UNCHANGED <<call, runtime, reader, reply, faults, finished>>

\* It dies; the picture it was writing may be cut.
P_Dies(p) ==
  /\ faults > 0 /\ faults' = faults - 1
  /\ proc[p].state = "running"
  /\ \E cut \in BOOLEAN :
       proc' = [proc EXCEPT ![p].state = "failed", ![p].input = <<>>, ![p].held = <<>>,
                            ![p].out = IF cut /\ @ # <<>> THEN Front(@) ELSE @]
  /\ UNCHANGED <<call, runtime, reader, reply, finished>>

-----------------------------------------------------------------------------
(* read_expected_rawvideo_stdout: what was expected, then whatever comes until
   the end of the output *)

ReadsOn(got, expected) == Len(got) < expected
Unit(p) == Head(proc[p].out)
TakeUnit(p) == [proc EXCEPT ![p].out = Tail(@)]

\* Nothing more will come.
AtEnd(p) == proc[p].out = <<>> /\ Ended(p)

R_Reads ==
  /\ reader.pc = "reading" /\ proc[reader.proc].out # <<>>
  /\ proc' = TakeUnit(reader.proc)
  /\ reader' = IF ReadsOn(reader.got, reader.expected)
               THEN [reader EXCEPT !.got = Append(@, Unit(reader.proc))]
               ELSE [reader EXCEPT !.extra = @ + 1]
  /\ UNCHANGED <<call, runtime, reply, faults, finished>>

ProbesToTheEnd ==
  reader.pc = "reading" /\ ~ReadsOn(reader.got, reader.expected) /\ AtEnd(reader.proc)

\* An answer nobody waits for is lost; after an error the thread ends.
Answer(answer) == reply' = IF call.pc = "waiting" THEN <<answer>> ELSE <<>>
R_Answers ==
  \/ /\ ProbesToTheEnd
     /\ Answer([kind |-> "Ok", bytes |-> reader.got, extra |-> reader.extra])
     /\ reader' = [reader EXCEPT !.pc = "idle", !.got = <<>>, !.extra = 0]
     /\ UNCHANGED <<call, runtime, proc, faults, finished>>
  \/ /\ reader.pc = "reading" /\ ReadsOn(reader.got, reader.expected) /\ AtEnd(reader.proc)
     /\ Answer([kind |-> "Err", bytes |-> <<>>, extra |-> 0])
     /\ reader' = [reader EXCEPT !.pc = "ended"]
     /\ UNCHANGED <<call, runtime, proc, faults, finished>>

\* The request channel is closed.
R_Ends ==
  /\ reader.pc = "idle" /\ call.pc = "joining"
  /\ reader' = [reader EXCEPT !.pc = "ended"]
  /\ UNCHANGED <<call, runtime, reply, proc, faults, finished>>

-----------------------------------------------------------------------------
(* The persistent decoder *)

NoReader == [pc |-> "none", proc |-> 0, expected |-> 0, got |-> <<>>, extra |-> 0]
Count(diag, field) == [diag EXCEPT ![field] = @ + 1]

record_persistent_error ==
  LET failures == runtime.failures + 1
  IN [runtime |-> [runtime EXCEPT !.failures = failures],
      diag |-> [call.diag EXCEPT !.failure = @ + 1, !.failures = failures]]

apply_runtime_state_snapshot(diag) ==
  [diag EXCEPT !.disabled = runtime.disabled, !.failures = runtime.failures]

fallback_to_one_shot(diag) ==
  [call EXCEPT !.pc = "one shot",
               !.diag = [diag EXCEPT !.fallback = @ + 1, !.one_shot_fallback = @ + 1]]

Returns(result, diag) ==
  /\ call' = [call EXCEPT !.pc = "idle"]
  /\ finished' = Append(finished, [id |-> call.id, input |-> call.input, result |-> result, diag |-> diag])

C_Calls ==
  /\ call.pc = "idle" /\ Len(finished) < MaxCalls
  /\ \E input \in Inputs :
       call' = [pc |-> "checking", id |-> Len(finished) + 1, input |-> input, cause |-> "none",
                diag |-> [NoDiagnostics EXCEPT !.input = Len(input.nals)]]
  /\ UNCHANGED <<runtime, reader, reply, proc, faults, finished>>

\* What keeps a call from the persistent process, in the order of the code.
C_Checks ==
  /\ call.pc = "checking"
  /\ LET diag == IF ConfigEnabled THEN apply_runtime_state_snapshot(call.diag) ELSE call.diag
     IN CASE ~ConfigEnabled ->
               /\ call' = [call EXCEPT !.pc = "one shot", !.diag = Count(diag, "skipped_config")]
               /\ UNCHANGED finished
          [] ConfigEnabled /\ call.input.nals = <<>> -> Returns(Deferred("EmptyPayload"), diag)
          [] ConfigEnabled /\ call.input.nals # <<>> /\ call.input.width = 0 ->
               Returns(Deferred("InvalidDimensions"), diag)
          [] OTHER ->
               /\ call' =
                    CASE runtime.disabled -> fallback_to_one_shot(Count(diag, "skipped_disabled"))
                      [] ~runtime.disabled /\ call.input.scaled ->
                           [call EXCEPT !.pc = "one shot", !.diag = diag]
                      [] ~runtime.disabled /\ ~call.input.scaled /\ Session # {} ->
                           [call EXCEPT !.pc = "writing", !.diag = Count(diag, "attempt")]
                      [] OTHER -> IF Bootstraps(call.input.nals)
                                  THEN [call EXCEPT !.pc = "spawning", !.diag = diag]
                                  ELSE fallback_to_one_shot(diag)
               /\ UNCHANGED finished
  /\ UNCHANGED <<runtime, reader, reply, proc, faults>>

SpawnOutcomes == IF faults > 0 THEN {"ok", "NotFound", "error"} ELSE {"ok"}
Blame(outcome) == faults' = faults - (IF outcome = "ok" THEN 0 ELSE 1)

\* ensure_session; a failed spawn after a failure leaves no session behind.
C_Spawns ==
  /\ call.pc \in {"spawning", "respawning"}
  /\ \E outcome \in SpawnOutcomes, p \in FreeProcs :
       LET diag == Count(call.diag, "spawn")
           fails == record_persistent_error
       IN /\ Blame(outcome)
          /\ IF outcome = "ok"
             THEN /\ proc' = [proc EXCEPT ![p] = Started(FALSE)]
                  /\ reader' = [NoReader EXCEPT !.pc = "idle", !.proc = p]
                  /\ runtime' = [runtime EXCEPT !.session = {p}]
                  /\ call' = IF call.pc = "spawning"
                             THEN [call EXCEPT !.pc = "writing", !.diag = Count(diag, "attempt")]
                             ELSE fallback_to_one_shot(diag)
                  /\ UNCHANGED finished
             ELSE /\ UNCHANGED <<proc, reader>>
                  /\ CASE call.pc = "respawning" ->
                            call' = fallback_to_one_shot(diag) /\ UNCHANGED <<runtime, finished>>
                       [] call.pc = "spawning" /\ outcome = "NotFound" ->
                            Returns(Deferred("FfmpegUnavailable"), diag) /\ UNCHANGED runtime
                       [] OTHER ->
                            /\ runtime' = fails.runtime /\ UNCHANGED finished
                            /\ call' = fallback_to_one_shot([fails.diag EXCEPT !.spawn = @ + 1])
  /\ UNCHANGED reply

\* The session is stopped: killed, waited for, its reader joined.
Stops(cause, diag) ==
  /\ call' = [call EXCEPT !.pc = "joining", !.cause = cause, !.diag = diag]
  /\ proc' = [p \in Procs |-> IF p \in Session
                THEN [proc[p] EXCEPT !.state = "failed", !.input = <<>>, !.held = <<>>] ELSE proc[p]]
Restarts(diag) == Stops("restart", Count(diag, "restart"))

\* Scaling makes a picture as large as it is asked for.
Payload ==
  [id |-> call.id, nals |-> call.input.nals,
   units |-> IF call.input.scaled THEN call.input.width ELSE call.input.size]

C_Writes ==
  /\ call.pc = "writing"
  /\ \E p \in Session :
       IF Ended(p)
       THEN /\ runtime' = record_persistent_error.runtime /\ Restarts(record_persistent_error.diag)
       ELSE /\ call' = [call EXCEPT !.pc = "requesting"] /\ UNCHANGED runtime
            /\ proc' = [proc EXCEPT ![p].input = Append(@, Payload),
                                    ![p].first = IF @ = <<>> THEN <<Payload>> ELSE @]
  /\ UNCHANGED <<reader, reply, faults, finished>>

\* The request finds its reader: one that ended after an error was replaced with
\* its session, and so was one whose answer came too late (ReaderIsThere).
C_Requests ==
  /\ call.pc = "requesting"
  /\ reader' = [reader EXCEPT !.pc = "reading", !.expected = call.input.width, !.got = <<>>, !.extra = 0]
  /\ call' = [call EXCEPT !.pc = "waiting"]
  /\ UNCHANGED <<runtime, reply, proc, faults, finished>>

C_TakesAnswer ==
  /\ call.pc = "waiting" /\ reply # <<>> /\ reply' = <<>>
  /\ IF reply[1].kind = "Ok" /\ reply[1].extra = 0
     THEN /\ runtime' = [runtime EXCEPT !.failures = 0]
          /\ Returns(Decoded(reply[1].bytes), Count(call.diag, "success")) /\ UNCHANGED proc
     ELSE /\ runtime' = record_persistent_error.runtime /\ Restarts(record_persistent_error.diag)
          /\ UNCHANGED finished
  /\ UNCHANGED <<reader, faults>>

\* recv_timeout: no answer came in time.
C_TimesOut ==
  /\ call.pc = "waiting" /\ reply = <<>>
  /\ LET error == record_persistent_error
         diag == [error.diag EXCEPT !.timeout = @ + 1]
     IN IF error.runtime.failures >= PERSISTENT_DECODE_TIMEOUT_DISABLE_THRESHOLD
        THEN /\ runtime' = [error.runtime EXCEPT !.disabled = TRUE]
             /\ Stops("disable", [diag EXCEPT !.disabled = TRUE, !.disabling = @ + 1])
        ELSE runtime' = error.runtime /\ call' = fallback_to_one_shot(diag) /\ UNCHANGED proc
  /\ UNCHANGED <<reader, reply, faults, finished>>

C_Stopped ==
  /\ call.pc = "joining" /\ reader.pc = "ended"
  /\ proc' = [p \in Procs |-> IF p \in Session THEN NoProcess ELSE proc[p]]
  /\ runtime' = [runtime EXCEPT !.session = {}]
  /\ reader' = NoReader /\ reply' = <<>>
  /\ call' = IF call.cause = "restart" THEN [call EXCEPT !.pc = "respawning"]
             ELSE fallback_to_one_shot(call.diag)
  /\ UNCHANGED <<faults, finished>>

-----------------------------------------------------------------------------
(* One process for one payload *)

\* A call that is refused before a process is started is not an attempt.
merge_decode_runtime_diagnostics(diag, attempted) ==
  [diag EXCEPT !.one_shot = @ + (IF attempted THEN 1 ELSE 0)]
OneShotReturns(result, attempted) ==
  Returns(result, merge_decode_runtime_diagnostics(call.diag, attempted))

O_Spawns ==
  /\ call.pc = "one shot"
  /\ CASE call.input.nals = <<>> ->
            OneShotReturns(Deferred("EmptyPayload"), FALSE) /\ UNCHANGED <<proc, faults>>
       [] call.input.nals # <<>> /\ call.input.width = 0 ->
            OneShotReturns(Deferred("InvalidDimensions"), FALSE) /\ UNCHANGED <<proc, faults>>
       [] OTHER ->
            \E outcome \in SpawnOutcomes, p \in FreeProcs :
              /\ Blame(outcome)
              /\ CASE outcome = "NotFound" ->
                        OneShotReturns(Deferred("FfmpegUnavailable"), TRUE) /\ UNCHANGED proc
                   [] outcome = "error" -> OneShotReturns(Failed, TRUE) /\ UNCHANGED proc
                   [] OTHER ->
                        /\ proc' = [proc EXCEPT ![p] = Started(TRUE)] /\ UNCHANGED finished
                        /\ call' = [call EXCEPT !.pc = "one shot write"]
  /\ UNCHANGED <<runtime, reader, reply>>

\* The process of the call: the one that is not the session's.
OneShots == {p \in Procs \ Session : proc[p].state # "none"}
Reaped(p) == [proc EXCEPT ![p] = NoProcess]

O_Writes ==
  /\ call.pc = "one shot write"
  /\ \E p \in OneShots :
       IF Ended(p) THEN OneShotReturns(Failed, TRUE) /\ proc' = Reaped(p)
       ELSE /\ proc' = [proc EXCEPT ![p].open = FALSE, ![p].input = <<Payload>>]
            /\ call' = [call EXCEPT !.pc = "one shot read"] /\ UNCHANGED finished
  /\ UNCHANGED <<runtime, reader, reply, faults>>

\* Reading to the end, the exit status, then what came beyond the picture.
O_Reads ==
  /\ call.pc = "one shot read"
  /\ \E p \in OneShots :
       /\ Ended(p)
       /\ OneShotReturns(IF proc[p].state = "done" /\ Len(proc[p].out) = call.input.width
                         THEN Decoded(proc[p].out) ELSE Failed, TRUE)
       /\ proc' = Reaped(p)
  /\ UNCHANGED <<runtime, reader, reply, faults>>

-----------------------------------------------------------------------------
Init ==
  /\ call = [pc |-> "idle", id |-> 0, input |-> [nals |-> <<>>, width |-> 0, size |-> 0, scaled |-> FALSE],
             cause |-> "none", diag |-> NoDiagnostics]
  /\ runtime = [disabled |-> FALSE, failures |-> 0, session |-> {}]
  /\ reader = NoReader /\ reply = <<>> /\ proc = [p \in Procs |-> NoProcess]
  /\ faults = Faults /\ finished = <<>>

Finished == call.pc = "idle" /\ Len(finished) = MaxCalls /\ UNCHANGED vars

CallSteps ==
  \/ C_Checks \/ C_Spawns \/ C_Writes \/ C_Requests \/ C_TakesAnswer \/ C_TimesOut \/ C_Stopped
  \/ O_Spawns \/ O_Writes \/ O_Reads
ReaderSteps == R_Reads \/ R_Answers \/ R_Ends
ProcessSteps == \E p \in Procs : P_Decodes(p) \/ P_Writes(p) \/ P_Ends(p)

Next ==
  C_Calls \/ CallSteps \/ ReaderSteps \/ ProcessSteps \/ (\E p \in Procs : P_Dies(p)) \/ Finished
Spec == Init /\ [][Next]_vars
Fairness == WF_vars(CallSteps) /\ WF_vars(ReaderSteps) /\ WF_vars(ProcessSteps)

-----------------------------------------------------------------------------
(* What must hold *)

DecodeTypeOK ==
  /\ runtime.session \subseteq Procs /\ Cardinality(Session) <= 1
  /\ reader.pc \in {"none", "idle", "reading", "ended"} /\ Len(reply) <= 1
  /\ (reader.pc = "none") = (Session = {})

\* A reader asked for a picture is alive and has no older request.
ReaderIsThere == call.pc = "requesting" => reader.pc = "idle" /\ reply = <<>>

\* The pixels a call returns are those of its own payload, never of one that was
\* still in a process or in a pipe.
DecodedIsThePayloads ==
  \A i \in DOMAIN finished :
    finished[i].result.kind = "Decoded" =>
      finished[i].result.pixels = [u \in 1 .. finished[i].input.width |-> finished[i].id]

\* Between calls only the process of the session is left, and its reader is idle
\* or has nothing but that process to read.
NothingIsLeft == call.pc = "idle" => OneShots = {} /\ reply = <<>>

\* Every call is answered by one decoder: counted as a success of the persistent
\* one or as one attempt of the other, unless nothing could be attempted.
DiagnosticsAddUp ==
  \A i \in DOMAIN finished :
    LET d == finished[i].diag
        r == finished[i].result
    IN /\ d.success + d.one_shot <= 1 /\ d.success <= d.attempt /\ d.attempt <= 1
       /\ (d.success + d.one_shot = 0) => r.kind \in {"EmptyPayload", "InvalidDimensions", "FfmpegUnavailable"}
       /\ d.fallback = d.one_shot_fallback /\ d.fallback <= 1
       /\ d.failure = 1 => d.success = 0 /\ d.fallback = 1
       /\ d.attempt = 1 => d.success + d.failure = 1
       /\ d.restart + d.disabling <= d.failure
       /\ d.input = Len(finished[i].input.nals)

\* A process that is alive has never answered: the reader looks for more until
\* the output ends, so what the persistent decoder returns comes from a process
\* that has ended, and every other wait times out.
AnswersOnlyAtTheEnd ==
  reply # <<>> /\ reply[1].kind = "Ok" => \A p \in Session : Ended(p)

\* Once a wait has timed out there is no persistent process, and calls say why.
DisabledForGood ==
  runtime.disabled /\ call.pc \notin {"joining"} =>
    /\ Session = {}
    /\ \A i \in DOMAIN finished :
         finished[i].diag.skipped_disabled = 1 => finished[i].diag.disabled /\ finished[i].diag.attempt = 0

DecodeInvariant ==
  /\ DecodeTypeOK /\ ReaderIsThere /\ DecodedIsThePayloads /\ NothingIsLeft /\ DiagnosticsAddUp
  /\ AnswersOnlyAtTheEnd /\ DisabledForGood

\* A process is fed a key picture first.  It does not hold: after a restart there
\* is a session, so the next payload is not asked for its parameter sets.
FreshProcessGetsAKeyPicture ==
  \A p \in Session : proc[p].first # <<>> => Bootstraps(proc[p].first[1].nals)

\* Every call returns: a killed process ends its output, and with it the reader.
CallsReturn == call.pc # "idle" ~> call.pc = "idle"

=============================================================================
