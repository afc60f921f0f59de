--------------------------- MODULE ClientHeartbeat ---------------------------
(***************************************************************************)
(* The client's heartbeat loop: one tick (policy, send, acknowledgement,   *)
(* ClientStats return, counters, retry plan), the completed step built     *)
(* over it (lifecycle, sequencing, ordering, carry), the runner that       *)
(* repeats a carried invocation up to its turn guard, and the snapshot and *)
(* dashboard work the runner does afterwards.  The server and the network  *)
(* between the two are environment actions: an acknowledgement may be      *)
(* lost, duplicated, late or overtaken, and waits in the socket's receive  *)
(* buffer until some tick reads it.                                        *)
(*                                                                         *)
(* Clocks start at 1, so that 0 stands for an Option that is None.         *)
(***************************************************************************)
EXTENDS Naturals, Sequences, FiniteSets

CONSTANTS
  Interval,          \* heartbeat_interval_micros
  AckTimeout,        \* ack_receive_timeout_micros
  SocketTimeout,     \* the read timeout the caller set on the socket
  MaxSleep,          \* max_sleep_micros
  MaxAttempts,       \* ClientHeartbeatLoopRetryPolicy
  RetryDelay,
  MaxHeartbeats,     \* stop condition; 0 when it is not this one
  MaxMissedAcks,     \* stop condition; 0 when it is not this one
  StatsReturn,       \* ClientStatsOncePerAck (TRUE) or Disabled
  ExportInterval,    \* export_interval_micros
  MaxTurns,          \* the runner's turn guard
  Copies,            \* how many copies of one acknowledgement may arrive
  InOrder,           \* the network delivers acknowledgements in order
  MaxNow,            \* bound on the clock
  MaxStep,           \* bound on the time between two ticks
  MaxSendFailures    \* bound on failed heartbeat sends

LoopAssumption ==
  /\ Interval \in Nat \ {0} /\ AckTimeout \in Nat /\ SocketTimeout \in Nat
  /\ MaxSleep \in Nat /\ MaxAttempts \in Nat /\ RetryDelay \in Nat
  /\ MaxHeartbeats \in Nat /\ MaxMissedAcks \in Nat
  /\ StatsReturn \in BOOLEAN /\ InOrder \in BOOLEAN
  /\ ExportInterval \in Nat /\ MaxTurns \in Nat \ {0}
  /\ Copies \subseteq Nat /\ MaxNow \in Nat \ {0} /\ MaxStep \in Nat
  /\ MaxSendFailures \in Nat

VARIABLES
  now,        \* current_timestamp_micros
  counters,   \* ClientHeartbeatLoopCountersState
  carry,      \* next_runtime_input: what the next completed step receives
  stop,       \* the caller's stop flag
  pc,         \* where the loop stands
  step,       \* the completed step under way: plan, retry, failure, ack
  runner,     \* the runner's invocation: turns completed, work, outcome
  metrics,    \* ClientHeartbeatRttOffsetMetricsState of this client and run
  cadence,    \* ClientHeartbeatRttOffsetMetricsSnapshotCadenceState
  flight,     \* copies of each heartbeat's acknowledgement still in flight
  inbox,      \* the socket's receive buffer: echoed_sent_at values
  acked,      \* history: heartbeats whose acknowledgement was counted
  streak      \* history: consecutive completed steps that failed

vars == <<now, counters, carry, stop, pc, step, runner, metrics, cadence,
          flight, inbox, acked, streak>>
network == <<flight, inbox>>
reports == <<metrics, cadence>>

Lesser(a, b) == IF a < b THEN a ELSE b
Times == 1 .. MaxNow
Clamp(t) == Lesser(t, MaxNow)

NoRetry == [planned |-> FALSE, giveUp |-> FALSE, attempt |-> 0, sleep |-> 0]
NoPlan == [action |-> "None", reason |-> "None", sleep |-> 0]
NoWork == [kind |-> "None", retry |-> NoRetry, sleep |-> 0]
IdleStep == [plan |-> NoPlan, retry |-> NoRetry, failed |-> "None", ack |-> FALSE]
NoExecution == [timerWait |-> 0, retry |-> NoRetry,
                reconnect |-> "NoReconnectExecution",
                wakeup |-> "NoWakeupSideEffect"]
NoRunner == [turns |-> 0, work |-> NoWork, result |-> "None",
             last |-> NoExecution, refreshed |-> 0, cleanup |-> <<>>]
ZeroCounters ==
  [sent |-> 0, received |-> 0, missed |-> 0, stats |-> 0, sendFailures |-> 0,
   ackFailures |-> 0, statsFailures |-> 0, lastSent |-> 0]

Init ==
  /\ now = 1
  /\ counters = ZeroCounters
  /\ carry = [now |-> 1, stop |-> FALSE, continue |-> TRUE, attempts |-> 0]
  /\ stop = FALSE
  /\ pc = "tick"
  /\ step = IdleStep
  /\ runner = NoRunner
  /\ metrics = [samples |-> 0, latest |-> 0]
  /\ cadence = [started |-> 1, last |-> 0, exported |-> 0, covered |-> 0]
  /\ flight = [t \in Times |-> 0]
  /\ inbox = <<>>
  /\ acked = {}
  /\ streak = 0
-----------------------------------------------------------------------------
(* One tick.                                                               *)

commit_result_ForgetsSendTime(c, result, t) ==
  IF result = "HeartbeatSent" THEN [c EXCEPT !.sent = @ + 1]
  ELSE IF result = "AckReceived" THEN [c EXCEPT !.received = @ + 1]
  ELSE IF result = "AckReceive" THEN [c EXCEPT !.ackFailures = @ + 1] ELSE c

commit_result_MissIsAFailure(c, result, t) ==
  IF result = "AckMissed"
  THEN [c EXCEPT !.missed = @ + 1, !.ackFailures = @ + 1]
  ELSE IF result = "HeartbeatSent"
  THEN [c EXCEPT !.sent = @ + 1, !.lastSent = t]
  ELSE IF result = "AckReceive" THEN [c EXCEPT !.ackFailures = @ + 1] ELSE c

\* ClientHeartbeatLoopCountersBoundary::commit_result at time t.
commit_result(c, result, t) ==
  CASE result = "HeartbeatSent" -> [c EXCEPT !.sent = @ + 1, !.lastSent = t]
    [] result = "AckReceived" -> [c EXCEPT !.received = @ + 1]
    [] result = "AckMissed" -> [c EXCEPT !.missed = @ + 1]
    [] result = "ClientStatsReturnSent" -> [c EXCEPT !.stats = @ + 1]
    [] result = "HeartbeatSend" -> [c EXCEPT !.sendFailures = @ + 1]
    [] result = "AckReceive" -> [c EXCEPT !.ackFailures = @ + 1]
    [] result = "ClientStatsReturnSend" -> [c EXCEPT !.statsFailures = @ + 1]
    [] OTHER -> c

LimitReached(c) ==
  \/ MaxHeartbeats # 0 /\ c.sent >= MaxHeartbeats
  \/ MaxMissedAcks # 0 /\ c.missed >= MaxMissedAcks

DueAt(c, t) == IF c.lastSent = 0 THEN t ELSE c.lastSent + Interval

plan_sleep(t, wake) ==
  IF t >= wake \/ MaxSleep = 0 THEN 0 ELSE Lesser(wake - t, MaxSleep)

\* The body and controller: a heartbeat that is not due yet becomes a bounded
\* sleep plan.
SendOrWait(c, t) ==
  IF t < DueAt(c, t)
  THEN [action |-> "Sleep", reason |-> "NotDue",
        sleep |-> plan_sleep(t, DueAt(c, t))]
  ELSE [action |-> "SendHeartbeat", reason |-> "Due", sleep |-> 0]

StopPlan(why) == [action |-> "Stop", reason |-> why, sleep |-> 0]

\* ClientHeartbeatLoopPolicyBoundary::evaluate.
PlanTick(c, stopRequested, t) ==
  IF stopRequested THEN StopPlan("StopRequested")
  ELSE IF LimitReached(c) THEN StopPlan("LimitReached")
  ELSE SendOrWait(c, t)

\* ClientHeartbeatLoopRetryBoundary::decide and RetryApplyBoundary.
RetryLater(used, t) ==
  [planned |-> TRUE, giveUp |-> FALSE, attempt |-> used + 1,
   sleep |-> plan_sleep(t, t + RetryDelay)]

decide(used, t) ==
  IF used >= MaxAttempts
  THEN [planned |-> TRUE, giveUp |-> TRUE, attempt |-> used, sleep |-> 0]
  ELSE RetryLater(used, t)

\* ClientHeartbeatLoopOneTickRuntimeBoundary::apply_failure.
Failed(c, kind) ==
  /\ counters' = commit_result(c, kind, carry.now)
  /\ step' = [step EXCEPT !.failed = kind,
                          !.retry = decide(carry.attempts, carry.now)]
  /\ pc' = "complete"

StartTick ==
  /\ pc = "tick"
  /\ LET plan == PlanTick(counters, carry.stop, carry.now)
     IN  /\ step' = [IdleStep EXCEPT !.plan = plan]
         /\ pc' = IF plan.action = "SendHeartbeat" THEN "send" ELSE "complete"
  /\ UNCHANGED <<now, counters, carry, stop, runner, reports, network, acked,
                 streak>>

\* ClientHeartbeatAckReceiveTimeoutBoundary::plan_wait at the tick's own time.
DeadlineElapsed == carry.now >= carry.now + AckTimeout

SendHeartbeat ==
  /\ pc = "send"
  /\ LET sent == commit_result(counters, "HeartbeatSent", carry.now)
     IN  IF DeadlineElapsed
         THEN /\ counters' = commit_result(sent, "AckMissed", carry.now)
              /\ pc' = "complete"
         ELSE /\ counters' = sent
              /\ pc' = "await"
  /\ \E copies \in Copies :
       flight' = [flight EXCEPT ![carry.now] = @ + copies]
  /\ UNCHANGED <<now, carry, stop, step, runner, reports, inbox, acked, streak>>

HeartbeatSendFails ==
  /\ pc = "send"
  /\ counters.sendFailures < MaxSendFailures
  /\ Failed(counters, "HeartbeatSend")
  /\ UNCHANGED <<now, carry, stop, runner, reports, network, acked, streak>>

\* validate_ack_correlation against the heartbeat of this tick.
Correlates(echoed) == echoed = carry.now

AfterReceive(box) == Tail(box)

\* receive_one reads one datagram; a mismatch is an AckReceive failure that
\* is not a missed acknowledgement.
ReceiveAck ==
  /\ pc = "await"
  /\ inbox # <<>>
  /\ inbox' = AfterReceive(inbox)
  /\ IF Correlates(Head(inbox))
     THEN /\ counters' = commit_result(counters, "AckReceived", now)
          /\ step' = [step EXCEPT !.ack = TRUE]
          /\ acked' = acked \union {Head(inbox)}
          /\ pc' = IF StatsReturn THEN "stats" ELSE "complete"
     ELSE /\ Failed(counters, "AckReceive")
          /\ UNCHANGED acked
  /\ UNCHANGED <<now, carry, stop, runner, reports, flight, streak>>

AckTimesOut ==
  /\ pc = "await"
  /\ inbox = <<>>
  /\ now' = Clamp(now + SocketTimeout)
  /\ Failed(commit_result(counters, "AckMissed", carry.now), "AckReceive")
  /\ UNCHANGED <<carry, stop, runner, reports, network, acked, streak>>

SendClientStats ==
  /\ pc = "stats"
  /\ \/ /\ counters' = commit_result(counters, "ClientStatsReturnSent", now)
        /\ pc' = "complete"
        /\ UNCHANGED step
     \/ Failed(counters, "ClientStatsReturnSend")
  /\ UNCHANGED <<now, carry, stop, runner, reports, network, acked, streak>>

\* The server answers and the network delivers, at any moment.
AckArrives ==
  /\ pc # "stopped"
  /\ \E t \in Times :
       /\ flight[t] > 0
       /\ InOrder => \A u \in Times : u < t => flight[u] = 0
       /\ flight' = [flight EXCEPT ![t] = @ - 1]
       /\ inbox' = Append(inbox, t)
  /\ UNCHANGED <<now, counters, carry, stop, pc, step, runner, reports, acked,
                 streak>>

RequestStop ==
  /\ ~stop /\ pc # "stopped"
  /\ stop' = TRUE
  /\ UNCHANGED <<now, counters, carry, pc, step, runner, reports, network,
                 acked, streak>>
-----------------------------------------------------------------------------
(* The completed step and the carry to the next one.                       *)

Stops == step.plan.action = "Stop" \/ ~carry.continue

\* Lifecycle, sequencing and step ordering: a stop wins over a retry, a retry
\* over a timer wait.
Ordering ==
  IF Stops THEN [NoWork EXCEPT !.kind = "Stop"]
  ELSE IF step.retry.planned
  THEN [kind |-> "Retry", retry |-> step.retry, sleep |-> 0]
  ELSE IF step.plan.action = "Sleep" /\ step.plan.sleep > 0
  THEN [kind |-> "Wait", retry |-> NoRetry, sleep |-> step.plan.sleep]
  ELSE [NoWork EXCEPT !.kind = "Immediately"]

\* ClientHeartbeatLoopSkeletonBoundary::plan_next: the attempts survive only
\* a step that ended in a retry plan.
AttemptsCarried(work) == IF work.kind = "Retry" THEN work.retry.attempt ELSE 0

Refreshed(work, at) ==
  [now |-> at, stop |-> stop, continue |-> ~stop,
   attempts |-> AttemptsCarried(work)]

\* commit_from_loop_result: a stop or a tick without an acknowledgement
\* commits nothing, and neither does one the calculator rejects.
CommitMetrics ==
  \/ /\ step.ack /\ step.plan.action # "Stop"
     /\ metrics' = [samples |-> metrics.samples + 1, latest |-> carry.now]
  \/ UNCHANGED metrics

\* Apply order, outer shell and repeated invocation hand the ordered work to
\* the runner.
Invocation(work) ==
  [NoRunner EXCEPT !.work = work, !.refreshed = runner.refreshed]

CompleteStep ==
  /\ pc = "complete"
  /\ \E d \in 0 .. MaxStep :
       /\ now' = Clamp(now + d)
       /\ carry' = IF Stops THEN carry ELSE Refreshed(Ordering, now')
  /\ runner' = Invocation(Ordering)
  /\ CommitMetrics
  /\ streak' = IF step.retry.planned THEN streak + 1 ELSE 0
  /\ pc' = "turns"
  /\ step' = IdleStep
  /\ UNCHANGED <<counters, stop, cadence, network, acked>>
-----------------------------------------------------------------------------
(* The runner: the same carried invocation is repeated up to the guard.    *)

CleanupActions == <<"FinalFlush", "LogWriterInvocation", "ResourceRelease">>

\* Stop before the first turn: the cleanup plan is applied once.
StopTurn ==
  /\ runner.work.kind = "Stop"
  /\ runner' = [runner EXCEPT !.result = "Stopped", !.cleanup = CleanupActions]
  /\ pc' = "export"

\* What a turn plans for its carry: never a reconnect.
PlannedExecution(work) ==
  [timerWait |-> work.sleep, retry |-> work.retry,
   reconnect |-> "NoReconnectExecution"]

\* The timeout-notice wakeup accompanies a timer wait only.
WithWakeup(planned) ==
  [timerWait |-> planned.timerWait, retry |-> planned.retry,
   reconnect |-> planned.reconnect,
   wakeup |-> IF planned.timerWait = 0 THEN "NoWakeupSideEffect"
              ELSE "WakeupSideEffectApplied"]

\* One turn: connection, one-turn execution, timer / retry / reconnect
\* execution (labels only: nothing sleeps, nothing is resent), reconnect.
\* The carry is the same at the end of the turn as at its start.
ContinueTurn ==
  /\ runner.work.kind # "Stop"
  /\ LET turns == runner.turns + 1
         turned == [runner EXCEPT
                      !.turns = turns,
                      !.last = WithWakeup(PlannedExecution(runner.work))]
     IN  IF turns >= MaxTurns
         THEN /\ runner' = [turned EXCEPT !.result = "Completed"]
              /\ pc' = "export"
         ELSE /\ runner' = turned
              /\ pc' = pc

RunTurn ==
  /\ pc = "turns"
  /\ StopTurn \/ ContinueTurn
  /\ UNCHANGED <<now, counters, carry, stop, step, reports, network, acked,
                 streak>>

\* The snapshot cadence, and the dashboard refresh that follows a due export.
NextDue(c) == (IF c.last = 0 THEN c.started ELSE c.last) + ExportInterval

ExportDue ==
  /\ ExportInterval # 0 /\ metrics.samples # 0
  /\ now >= NextDue(cadence)

Exported == [cadence EXCEPT !.last = now, !.exported = @ + 1,
                            !.covered = metrics.samples]

ExportAndRefresh ==
  /\ pc = "export"
  /\ pc' = IF runner.result = "Stopped" THEN "stopped" ELSE "tick"
  /\ IF ExportDue
     THEN /\ cadence' = Exported
          /\ \E applied \in 0 .. 1 :      \* policy or sink may defer it
               runner' = [NoRunner EXCEPT !.cleanup = runner.cleanup,
                                  !.refreshed = runner.refreshed + applied]
     ELSE /\ runner' = [NoRunner EXCEPT !.cleanup = runner.cleanup,
                                        !.refreshed = runner.refreshed]
          /\ UNCHANGED cadence
  /\ UNCHANGED <<now, counters, carry, stop, step, metrics, network, acked,
                 streak>>
-----------------------------------------------------------------------------
LoopStep ==
  \/ StartTick \/ SendHeartbeat \/ HeartbeatSendFails \/ ReceiveAck
  \/ AckTimesOut \/ SendClientStats \/ CompleteStep \/ RunTurn
  \/ ExportAndRefresh

Next == LoopStep \/ AckArrives \/ RequestStop

Spec == Init /\ [][Next]_vars
FairSpec == Spec /\ WF_vars(LoopStep)
-----------------------------------------------------------------------------
\* The state stays in its types and the clock never runs backwards past the
\* time a tick was given.
HeartbeatTypeOK ==
  /\ now \in Times
  /\ carry.now \in 1 .. now
  /\ pc \in {"tick", "send", "await", "stats", "complete", "turns", "export",
             "stopped"}
  /\ carry.attempts \in 0 .. MaxAttempts
  /\ runner.turns \in 0 .. MaxTurns
  /\ inbox \in Seq(Times)
  /\ flight \in [Times -> Nat]
  /\ acked \subseteq Times

\* Every heartbeat sent is accounted for exactly once when its tick is over:
\* as an acknowledgement, or as a failed receive (a missed one when the
\* deadline had already elapsed); every acknowledgement as one ClientStats
\* return, sent or failed.
CountersAddUp ==
  pc \in {"tick", "complete", "turns", "export", "stopped"} =>
    /\ counters.sent =
         counters.received
           + (IF AckTimeout = 0 THEN counters.missed ELSE counters.ackFailures)
    /\ AckTimeout # 0 => counters.missed <= counters.ackFailures
    /\ StatsReturn =>
         counters.received = counters.stats + counters.statsFailures

\* However the network duplicates, delays and reorders, one heartbeat's
\* acknowledgement is counted once, and only in its own tick.
AckCountedOnce ==
  /\ counters.received = Cardinality(acked)
  /\ metrics.samples <= Cardinality(acked)
  /\ metrics.latest # 0 => metrics.latest \in acked

\* A step property: two heartbeats that left are at least an interval apart, whatever retry
\* the failures between them asked for.
SendsSpacedByCadence ==
  counters'.sent > counters.sent =>
    \/ counters.lastSent = 0 /\ counters.sent = 0
    \/ counters'.lastSent >= counters.lastSent + Interval

\* The configured limits are never overrun, although each is only tested at
\* the start of a tick.
NeverPastLimit ==
  /\ MaxHeartbeats # 0 => counters.sent <= MaxHeartbeats
  /\ MaxMissedAcks # 0 => counters.missed <= MaxMissedAcks

\* The attempt a tick starts with is the number of consecutive failed steps
\* before it, capped by the policy; one step without a failure (a mere wait
\* included) forgets them.
RetryBudgetFollowsFailures ==
  pc = "tick" => carry.attempts = Lesser(streak, MaxAttempts)

\* Snapshots are exported no faster than their interval, never cover samples
\* that were not committed, and are refreshed at most once each.
ExportsPaced ==
  /\ cadence.exported * ExportInterval <= now - cadence.started
  /\ cadence.covered <= metrics.samples
  /\ runner.refreshed <= cadence.exported

\* What the loop counts, plans, retries and exports agrees with what it did.
ClientLoopInvariant ==
  /\ HeartbeatTypeOK /\ CountersAddUp /\ AckCountedOnce
  /\ NeverPastLimit /\ RetryBudgetFollowsFailures /\ ExportsPaced

\* On a link that answers every heartbeat once, every missed acknowledgement
\* leaves one answer behind, in flight or in the socket, and no later tick
\* takes more than one out: the backlog is exactly the number of misses.
InFlight ==
  LET upTo[t \in 0 .. MaxNow] == IF t = 0 THEN 0 ELSE flight[t] + upTo[t - 1]
  IN  upTo[MaxNow]

BacklogIsMissed == pc = "tick" => Len(inbox) + InFlight = counters.missed

\* ... so, when that link also keeps the order, one late answer
\* desynchronises the loop for good: no acknowledgement is counted again.
LateAnswerDesynchronises ==
  counters.missed > 0 => counters'.received = counters.received

\* A requested stop ends the loop after its cleanup.
StopEndsLoop == stop ~> (pc = "stopped" /\ runner.cleanup = CleanupActions)
=============================================================================
