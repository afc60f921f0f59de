---------------------------- MODULE HeartbeatTurn ----------------------------
(***************************************************************************)
(* What becomes of one tick of the client's heartbeat loop on its way      *)
(* through the loop's boundaries: lifecycle, sequencing and ordering of    *)
(* the step, the carry to the next one, the cleanup of a stop, and the     *)
(* outer turns that label the waits and retries and put a new socket into  *)
(* the caller's slot when a reconnect was asked for.  Each boundary is an  *)
(* action; `stage` is the boundary whose input is ready.                   *)
(*                                                                         *)
(* The loop's own planning never asks for a reconnect; a caller that       *)
(* composes the turn itself may (`ComposeTurn`).                           *)
(***************************************************************************)
EXTENDS Naturals, Sequences

CONSTANTS
  Sleeps,         \* positive sleeps a plan may ask for
  MaxAttempts,    \* the retry policy's limit
  Destinations,   \* servers a handoff may name
  Reasons,        \* ClientHeartbeatLoopReconnectReason
  Slots,          \* what the caller's slot may be: "none", "kept", "poisoned"
  MaxTurns,       \* the outer loop's turn guard
  MaxSteps        \* bound on the completed steps

TurnAssumption ==
  /\ Sleeps \subseteq Nat \ {0} /\ MaxAttempts \in Nat
  /\ Slots \subseteq {"none", "kept", "poisoned"}
  /\ MaxTurns \in Nat \ {0} /\ MaxSteps \in Nat

VARIABLES
  stage,      \* the boundary to run next
  input,      \* ClientHeartbeatLoopCompletedStepRuntimeInput
  tick,       \* what the one-tick runtime returned
  flow,       \* the step's decision as the boundaries hand it on
  turn,       \* the outer turn's planned work
  applied,    \* what the turn's three execution boundaries reported
  slot,       \* the caller's socket slot
  turns,      \* turns_completed
  steps,      \* history: completed steps
  cleanups    \* history: cleanup actions applied

vars == <<stage, input, tick, flow, turn, applied, slot, turns, steps, cleanups>>

\* Whose result the next boundary takes over: the step's, the completed
\* body's with its stop path, the executed turn's.
StepStages == {"tick", "lifecycle", "sequencing", "ordering", "skeleton"}
BodyStages == {"turn", "terminal", "stopped"}
ExecutionStages == {"wakeup", "execute", "policy", "hook", "end"}

NoRetry == [attempt |-> 0, giveUp |-> FALSE, sleep |-> 0]
NoPlan == [action |-> "None", reason |-> "None", sleep |-> 0]
NoTick == [plan |-> NoPlan, failed |-> FALSE, retry |-> NoRetry, shutdown |-> "Continue"]
NoFlow == [stop |-> "None", wait |-> 0, retry |-> NoRetry, scheduled |-> FALSE,
           order |-> "None", carry |-> input, cleanup |-> <<>>, completed |-> FALSE]
NoTurn == [wakeup |-> "NoWakeupSideEffect", timer |-> 0, retry |-> NoRetry,
           retrying |-> FALSE, reconnect |-> "None", next |-> input]
NotApplied == [timer |-> 0, retry |-> NoRetry, reconnect |-> "None",
               plan |-> "None", outcome |-> "NoReconnectNeeded"]

\* The caller's first input; the socket it bound is connected to its server.
Init ==
  /\ stage \in {"tick", "compose"}
  /\ \E d \in Destinations, again \in BOOLEAN, stopping \in BOOLEAN :
       input = [destination |-> d, continue |-> again, stop |-> stopping, attempts |-> 0]
  /\ \E kind \in Slots : slot = [kind |-> kind, to |-> input.destination, fresh |-> FALSE]
  /\ tick = NoTick /\ flow = NoFlow /\ turn = NoTurn /\ applied = NotApplied
  /\ turns = 0 /\ steps = 0 /\ cleanups = <<>>
-----------------------------------------------------------------------------
(* The tick, its sleep plan and its retry, as the step sees them.          *)

StopFor(reason) == [action |-> "Stop", reason |-> reason, sleep |-> 0]
SleepFor(t) == [action |-> "Sleep", reason |-> "CadenceWait", sleep |-> t]
Send == [action |-> "SendHeartbeat", reason |-> "Due", sleep |-> 0]

\* ClientHeartbeatLoopControllerBoundary::plan_next, over the policy's answer.
\* build_one_tick_input hands it an accepted, bound ownership.
PlansFor(at) ==
  IF at.stop THEN {StopFor("StopRequested")}
  ELSE {StopFor("LimitReached"), Send} \cup {SleepFor(t) : t \in Sleeps \cup {0}}

RetriesFor(used) ==
  IF used >= MaxAttempts THEN {[attempt |-> used, giveUp |-> TRUE, sleep |-> 0]}
  ELSE {[attempt |-> used + 1, giveUp |-> FALSE, sleep |-> t] : t \in Sleeps \cup {0}}

\* The outer controller observes the tick's shutdown decision.
Observed(plan) == IF plan.action = "Stop" THEN plan.reason ELSE "Continue"

RunTick ==
  /\ stage = "tick"
  /\ \E plan \in PlansFor(input) :
       \/ tick' = [NoTick EXCEPT !.plan = plan, !.shutdown = Observed(plan)]
       \/ /\ plan.action = "SendHeartbeat"
          /\ \E retry \in RetriesFor(input.attempts) :
               tick' = [NoTick EXCEPT !.plan = plan, !.failed = TRUE, !.retry = retry]
  /\ stage' = "lifecycle"
  /\ UNCHANGED <<input, flow, turn, applied, slot, turns, steps, cleanups>>

\* The caller's stop is named before the policy's.
StopReason(continue, shutdown) ==
  IF ~continue THEN "CallerRequestedStop"
  ELSE IF shutdown = "Continue" THEN "None" ELSE shutdown

PlanLifecycle ==
  /\ stage = "lifecycle"
  /\ flow' = [NoFlow EXCEPT !.stop = StopReason(input.continue, tick.shutdown)]
  /\ stage' = "sequencing"
  /\ UNCHANGED <<input, tick, turn, applied, slot, turns, steps, cleanups>>

\* A stop drops the tick's retry and its wait; a retry brings its own wait.
Sequence ==
  /\ stage = "sequencing"
  /\ flow' = IF flow.stop # "None" THEN flow
             ELSE IF tick.failed
             THEN [flow EXCEPT !.scheduled = TRUE, !.retry = tick.retry,
                               !.wait = tick.retry.sleep]
             ELSE [flow EXCEPT !.wait = tick.plan.sleep]
  /\ stage' = "ordering"
  /\ UNCHANGED <<input, tick, turn, applied, slot, turns, steps, cleanups>>

OrderOf(f) ==
  CASE f.stop # "None" -> "Stop"
    [] f.stop = "None" /\ f.scheduled -> "RetryThenContinue"
    [] f.stop = "None" /\ ~f.scheduled /\ f.wait > 0 -> "WaitThenContinue"
    [] OTHER -> "ContinueImmediately"

Order ==
  /\ stage = "ordering"
  /\ flow' = [flow EXCEPT !.order = OrderOf(flow)]
  /\ stage' = "skeleton"
  /\ UNCHANGED <<input, tick, turn, applied, slot, turns, steps, cleanups>>

\* The next step's input: the stop flag as the caller now has it, and the
\* attempts of a retry that is ordered.
Carried(f, stopping) ==
  [destination |-> input.destination, continue |-> ~stopping, stop |-> stopping,
   attempts |-> IF f.order = "RetryThenContinue" THEN f.retry.attempt ELSE 0]

\* The skeleton refreshes the stop flag; apply order, outer shell, shell
\* runner and repeated invocation only rename what it decided.
RefreshCarry ==
  /\ stage = "skeleton"
  /\ IF flow.order = "Stop" THEN UNCHANGED flow
     ELSE \E stopping \in BOOLEAN : flow' = [flow EXCEPT !.carry = Carried(flow, stopping)]
  /\ stage' = "turn"
  /\ turns' = 0
  /\ UNCHANGED <<input, tick, turn, applied, slot, steps, cleanups>>
-----------------------------------------------------------------------------
(* One outer turn: the completed body, its cleanup or its planned work.    *)

CleanupActions == <<"FinalFlush", "LogWriterInvocation", "ResourceRelease">>

\* Responsibility, ordering, planning and side effect of a stop's cleanup ...
CleanUp ==
  /\ stage = "turn" /\ flow.order = "Stop"
  /\ flow' = [flow EXCEPT !.cleanup = CleanupActions, !.completed = TRUE]
  /\ cleanups' = cleanups \o CleanupActions
  /\ stage' = "terminal"
  /\ UNCHANGED <<input, tick, turn, applied, slot, turns, steps>>

\* ... whose output goes unchanged through stop path, termination and body
\* integration, and out of the turn.
Terminate ==
  /\ stage = "terminal"
  /\ stage' = "stopped"
  /\ UNCHANGED <<input, tick, flow, turn, applied, slot, turns, steps, cleanups>>

\* The actions of a turn that continues.  A retry is executed without the
\* wait that sequencing had planned for it.
PlanExecution ==
  /\ stage = "turn" /\ flow.order # "Stop"
  /\ turn' = [NoTurn EXCEPT
       !.timer = IF flow.order = "WaitThenContinue" THEN flow.wait ELSE 0,
       !.retrying = flow.order = "RetryThenContinue",
       !.retry = IF flow.order = "RetryThenContinue" THEN flow.retry ELSE NoRetry,
       !.next = flow.carry]
  /\ stage' = "wakeup"
  /\ UNCHANGED <<input, tick, flow, applied, slot, turns, steps, cleanups>>

\* The timeout notice's wakeup is planned, executed and applied beside a timer
\* wait only.
Wake ==
  /\ stage = "wakeup"
  /\ turn' = [turn EXCEPT !.wakeup = IF turn.timer > 0 THEN "WakeupSideEffectApplied" ELSE @]
  /\ stage' = "execute"
  /\ UNCHANGED <<input, tick, flow, applied, slot, turns, steps, cleanups>>

\* A caller's own turn: any mixture of work, a reconnect included.
ComposeTurn ==
  /\ stage = "compose"
  /\ \E t \in Sleeps \cup {0}, again \in BOOLEAN, why \in Reasons \cup {"None"} :
       \E retry \in IF again THEN RetriesFor(0) ELSE {NoRetry} :
         turn' = [wakeup |-> IF t > 0 THEN "WakeupSideEffectApplied" ELSE "NoWakeupSideEffect",
                  timer |-> t, retry |-> retry, retrying |-> again,
                  reconnect |-> why, next |-> input]
  /\ stage' = "execute"
  /\ UNCHANGED <<input, tick, flow, applied, slot, turns, steps, cleanups>>
-----------------------------------------------------------------------------
(* Execution: three boundaries read the same turn and report on their own. *)

ApplyTimer(t) == t.timer
ApplyRetry(t) == IF t.retrying THEN t.retry ELSE NoRetry
ApplyReconnect(t) == t.reconnect

\* The three outputs are joined; wakeup and next step are the timer's.
Execute ==
  /\ stage = "execute"
  /\ applied' = [NotApplied EXCEPT !.timer = ApplyTimer(turn), !.retry = ApplyRetry(turn),
                                   !.reconnect = ApplyReconnect(turn)]
  /\ stage' = "policy"
  /\ UNCHANGED <<input, tick, flow, turn, slot, turns, steps, cleanups>>

\* ClientHeartbeatLoopOuterWhileLoopReconnectPolicyBoundary: an applied
\* reconnect plans a new socket.
PlanReconnect ==
  /\ stage = "policy"
  /\ applied' = [applied EXCEPT !.plan = applied.reconnect]
  /\ stage' = IF applied.reconnect = "None" THEN "end" ELSE "hook"
  /\ UNCHANGED <<input, tick, flow, turn, slot, turns, steps, cleanups>>

Reported(outcome) == applied' = [applied EXCEPT !.outcome = outcome]

\* The deferred hook, and the real one without a slot: no socket is opened.
DeferReconnect ==
  /\ slot.kind = "none"
  /\ Reported("ReconnectDeferred")
  /\ UNCHANGED slot

\* The new socket cannot be bound, or cannot be connected to the destination
\* the next step's handoff names: it is dropped.
OpenFails ==
  /\ slot.kind # "none"
  /\ \E why \in {"SocketBindFailed", "SocketConnectFailed"} : Reported(why)
  /\ UNCHANGED slot

\* Both went well: the slot takes the new socket unless its lock is poisoned.
ReplaceSocket ==
  /\ slot.kind # "none"
  /\ IF slot.kind = "kept"
     THEN /\ slot' = [slot EXCEPT !.to = turn.next.destination, !.fresh = TRUE]
          /\ Reported("ReconnectApplied")
     ELSE /\ Reported("HookRejected")
          /\ UNCHANGED slot

RunHook ==
  /\ stage = "hook"
  /\ DeferReconnect \/ OpenFails \/ ReplaceSocket
  /\ stage' = "end"
  /\ UNCHANGED <<input, tick, flow, turn, turns, steps, cleanups>>

\* The repeated body: the same carry again until the guard; then the caller
\* starts the next completed step with it.
Composed == flow.order = "None"

EndTurn ==
  /\ stage = "end"
  /\ turns' = turns + 1
  /\ CASE Composed -> stage' = "stopped" /\ UNCHANGED <<input, steps>>
       [] ~Composed /\ turns' < MaxTurns -> stage' = "turn" /\ UNCHANGED <<input, steps>>
       [] OTHER -> /\ input' = turn.next
                   /\ steps' = steps + 1
                   /\ stage' = IF steps' > MaxSteps THEN "stopped" ELSE "tick"
  /\ UNCHANGED <<tick, flow, turn, applied, slot, cleanups>>

Next ==
  \/ RunTick \/ PlanLifecycle \/ Sequence \/ Order \/ RefreshCarry \/ CleanUp
  \/ Terminate \/ PlanExecution \/ Wake \/ ComposeTurn \/ Execute
  \/ PlanReconnect \/ RunHook \/ EndTurn

Spec == Init /\ [][Next]_vars
-----------------------------------------------------------------------------
\* The values the boundaries pass on stay in their types.
TurnTypeOK ==
  /\ stage \in StepStages \cup BodyStages \cup ExecutionStages \cup {"compose"}
  /\ input.attempts \in 0 .. MaxAttempts
  /\ turns \in 0 .. MaxTurns /\ steps \in 0 .. MaxSteps + 1
  /\ slot.to \in Destinations

\* What a turn of the loop reports is what its tick asked for: the wait of a
\* tick that slept, the retry of one that failed, nothing else, and no turn of
\* the loop's own ever reconnects.
TurnDoesTheTicksWork ==
  stage = "end" /\ ~Composed =>
    /\ applied.timer = IF tick.failed THEN 0 ELSE tick.plan.sleep
    /\ applied.retry = tick.retry
    /\ applied.outcome = "NoReconnectNeeded"
    /\ (turn.wakeup = "WakeupSideEffectApplied") = (applied.timer > 0)

\* The retry budget follows the failures: what the next step starts with is
\* the failed tick's attempt, and nothing after a tick that did not fail.
BudgetIsTheTicks ==
  stage \in {"wakeup", "execute", "policy", "end"} /\ ~Composed =>
    /\ turn.next.attempts = tick.retry.attempt
    /\ turn.next.destination = input.destination
    /\ turn.next.continue = ~turn.next.stop

\* A stop, whoever asked for it, is cleaned up once and in order, reports the
\* caller's reason when there are two, and is the only way to a cleanup.
CleanedOnceOnStop ==
  /\ cleanups \in {<<>>, CleanupActions}
  /\ (cleanups # <<>>) = (stage \in {"terminal", "stopped"} /\ flow.order = "Stop")
  /\ stage = "stopped" /\ flow.order = "Stop" =>
       /\ flow.completed /\ flow.cleanup = cleanups
       /\ flow.stop = IF input.continue THEN tick.plan.reason ELSE "CallerRequestedStop"

\* The slot changes hands only on a reconnect that reports it was applied, and
\* then holds a socket connected to the server of the step that comes next.
SlotFollowsReport ==
  /\ slot.fresh = (applied.outcome = "ReconnectApplied")
  /\ slot.fresh => /\ slot.to = turn.next.destination /\ slot.kind = "kept"
                    /\ applied.plan # "None"
  /\ applied.outcome = "ReconnectDeferred" => slot.kind = "none"

TurnInvariant ==
  /\ TurnTypeOK /\ TurnDoesTheTicksWork /\ BudgetIsTheTicks
  /\ CleanedOnceOnStop /\ SlotFollowsReport
=============================================================================
