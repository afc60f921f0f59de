--------------------------- MODULE Heartbeat_proofs ---------------------------
(***************************************************************************)
(* Proofs about the two ends of the heartbeat.                             *)
(*                                                                         *)
(* The client's loop, for every interval, timeout, retry policy, limit and *)
(* turn guard, and for any network: the counters account for every         *)
(* heartbeat, an acknowledgement counts once, limits are not overrun, the  *)
(* retry budget follows the failures, exports are paced, and heartbeats    *)
(* leave an interval apart.                                                *)
(*                                                                         *)
(* The server's timeout sweep and the loop around it, for every set of     *)
(* clients, every timeout, interval, limit, retry policy and queue size,   *)
(* and every write of the log that fails.  The sweep is the instance       *)
(* Server, over variables of its own: nothing is shared between the two.   *)
(***************************************************************************)
EXTENDS ClientHeartbeat, FiniteSetTheorems, SequenceTheorems, WellFoundedInduction, TLAPS

(***************************************************************************)
(* The inductive invariant.  Each part follows the tick that is under way: *)
(* what a property says of the state between two ticks holds, short by     *)
(* what the tick still owes, at every control point inside one.            *)
(***************************************************************************)
Counters ==
    [sent : Nat, received : Nat, missed : Nat, stats : Nat, sendFailures : Nat,
     ackFailures : Nat, statsFailures : Nat, lastSent : Nat]

Retry == [planned : BOOLEAN, giveUp : BOOLEAN, attempt : 0 .. MaxAttempts, sleep : Nat]

Plan ==
    [action : {"None", "Stop", "Sleep", "SendHeartbeat"},
     reason : {"None", "StopRequested", "LimitReached", "NotDue", "Due"}, sleep : Nat]

Step ==
    [plan : Plan, retry : Retry, ack : BOOLEAN,
     failed : {"None", "HeartbeatSend", "AckReceive", "ClientStatsReturnSend"}]

Work == [kind : {"None", "Stop", "Retry", "Wait", "Immediately"}, retry : Retry, sleep : Nat]

Execution ==
    [timerWait : Nat, retry : Retry, reconnect : {"NoReconnectExecution"},
     wakeup : {"NoWakeupSideEffect", "WakeupSideEffectApplied"}]

Cleanups == {<< >>, CleanupActions}

Runner ==
    [turns : 0 .. MaxTurns, work : Work, result : {"None", "Stopped", "Completed"},
     last : Execution, refreshed : Nat, cleanup : Cleanups]

TypeInv ==
    /\ now \in Times
    /\ counters \in Counters
    /\ carry \in [now : Times, stop : BOOLEAN, continue : BOOLEAN, attempts : 0 .. MaxAttempts]
    /\ carry.now <= now
    /\ stop \in BOOLEAN
    /\ pc \in {"tick", "send", "await", "stats", "complete", "turns", "export", "stopped"}
    /\ step \in Step
    /\ runner \in Runner
    /\ pc = "turns" => runner.turns < MaxTurns /\ runner.result = "None"
    /\ metrics \in [samples : Nat, latest : Nat]
    /\ cadence \in [started : Nat, last : Nat, exported : Nat, covered : Nat]
    /\ flight \in [Times -> Nat]
    /\ inbox \in Seq(Times)
    /\ acked \subseteq Times
    /\ streak \in Nat

\* What the tick under way still owes to the balance of the counters.
Unanswered == IF pc = "await" THEN 1 ELSE 0
Unreturned == IF pc = "stats" THEN 1 ELSE 0

CountInv ==
    /\ counters.sent = counters.received + Unanswered
         + (IF AckTimeout = 0 THEN counters.missed ELSE counters.ackFailures)
    /\ AckTimeout # 0 => counters.missed <= counters.ackFailures
    /\ StatsReturn => counters.received = counters.stats + counters.statsFailures + Unreturned
    /\ pc = "await" => AckTimeout # 0
    /\ pc = "stats" => StatsReturn
    /\ NeverPastLimit
    /\ pc = "send" /\ MaxHeartbeats # 0 => counters.sent < MaxHeartbeats
    /\ pc \in {"send", "await"} /\ MaxMissedAcks # 0 => counters.missed < MaxMissedAcks

\* A heartbeat leaves at a time later than any other, so its acknowledgement
\* cannot have been counted before.
AckInv ==
    /\ counters.lastSent = 0 => counters.sent = 0
    /\ pc = "send" => counters.lastSent = 0 \/ carry.now >= counters.lastSent + Interval
    /\ pc = "await" => counters.lastSent = carry.now /\ carry.now \notin acked
    /\ pc \in {"send", "await"} => step.ack = FALSE
    /\ pc \notin {"stats", "complete"} => step.ack = FALSE
    /\ IsFiniteSet(acked)
    /\ counters.received = Cardinality(acked)
    /\ \A t \in acked : t <= counters.lastSent
    /\ metrics.samples + (IF step.ack = TRUE THEN 1 ELSE 0) <= counters.received
    /\ metrics.latest # 0 => metrics.latest \in acked
    /\ step.ack = TRUE => carry.now \in acked

\* The retry a failed step plans is the next attempt of the tick's budget; a
\* loop that stops gets no further tick.
RetryInv ==
    /\ pc \notin {"complete"} => step.retry.planned = FALSE
    /\ step.retry.planned = TRUE => step.retry.attempt = Lesser(streak + 1, MaxAttempts)
    /\ \/ carry.attempts = Lesser(streak, MaxAttempts)
       \/ pc = "turns" /\ runner.work.kind = "Stop"
       \/ pc = "export" /\ runner.result = "Stopped"
       \/ pc = "stopped"

\* When the last export was made, or the cadence started.
LastExport == IF cadence.last = 0 THEN cadence.started ELSE cadence.last

ExportInv ==
    /\ cadence.started + cadence.exported * ExportInterval <= LastExport
    /\ LastExport <= now
    /\ cadence.started >= 1
    /\ cadence.covered <= metrics.samples
    /\ runner.refreshed <= cadence.exported

LoopInv == TypeInv /\ CountInv /\ AckInv /\ RetryInv /\ ExportInv

---------------------------------------------------------------------------
(***************************************************************************)
(* The operators.                                                          *)
(***************************************************************************)
LEMMA CommitResults ==
    ASSUME NEW c \in Counters, NEW t \in Nat
    PROVE  /\ commit_result(c, "HeartbeatSent", t) = [c EXCEPT !.sent = @ + 1, !.lastSent = t]
           /\ commit_result(c, "AckReceived", t) = [c EXCEPT !.received = @ + 1]
           /\ commit_result(c, "AckMissed", t) = [c EXCEPT !.missed = @ + 1]
           /\ commit_result(c, "ClientStatsReturnSent", t) = [c EXCEPT !.stats = @ + 1]
           /\ commit_result(c, "HeartbeatSend", t) = [c EXCEPT !.sendFailures = @ + 1]
           /\ commit_result(c, "AckReceive", t) = [c EXCEPT !.ackFailures = @ + 1]
           /\ commit_result(c, "ClientStatsReturnSend", t) = [c EXCEPT !.statsFailures = @ + 1]
  BY DEF commit_result

\* Time only moves on, up to the bound.
LEMMA ClampIsLater ==
    ASSUME LoopAssumption, NEW t \in Times, NEW d \in Nat
    PROVE  Clamp(t + d) \in Times /\ t <= Clamp(t + d)
  BY DEF Clamp, Lesser, Times, LoopAssumption

LEMMA SleepType ==
    ASSUME LoopAssumption, NEW t \in Nat, NEW wake \in Nat
    PROVE  plan_sleep(t, wake) \in Nat
  BY DEF plan_sleep, Lesser, LoopAssumption

\* A retry plan is the next attempt, or the last one again.
LEMMA DecideNext ==
    ASSUME LoopAssumption, NEW used \in 0 .. MaxAttempts, NEW t \in Nat
    PROVE  /\ decide(used, t) \in Retry
           /\ decide(used, t).planned = TRUE
           /\ decide(used, t).attempt = Lesser(used + 1, MaxAttempts)
<1>1. MaxAttempts \in Nat /\ t + RetryDelay \in Nat
  BY DEF LoopAssumption
<1>2. plan_sleep(t, t + RetryDelay) \in Nat
  BY <1>1, SleepType
<1>3. CASE used >= MaxAttempts
  <2>1. decide(used, t) = [planned |-> TRUE, giveUp |-> TRUE, attempt |-> used, sleep |-> 0]
    BY <1>3 DEF decide
  <2>2. used = Lesser(used + 1, MaxAttempts)
    BY <1>1, <1>3 DEF Lesser
  <2> QED BY <2>1, <2>2 DEF Retry
<1>4. CASE ~(used >= MaxAttempts)
  <2>1. decide(used, t) = [planned |-> TRUE, giveUp |-> FALSE, attempt |-> used + 1,
                           sleep |-> plan_sleep(t, t + RetryDelay)]
    BY <1>4 DEF decide, RetryLater
  <2>2. used + 1 = Lesser(used + 1, MaxAttempts) /\ used + 1 \in 0 .. MaxAttempts
    BY <1>1, <1>4 DEF Lesser
  <2> QED BY <1>2, <2>1, <2>2 DEF Retry
<1> QED BY <1>3, <1>4

LEMMA PlanTypes ==
    ASSUME LoopAssumption, NEW c \in Counters, NEW stopRequested \in BOOLEAN, NEW t \in Nat
    PROVE  PlanTick(c, stopRequested, t) \in Plan
<1>1. DueAt(c, t) \in Nat
  BY DEF DueAt, Counters, LoopAssumption
<1>2. plan_sleep(t, DueAt(c, t)) \in Nat
  BY <1>1, SleepType
<1> QED BY <1>2 DEF PlanTick, StopPlan, SendOrWait, Plan

LEMMA NoneTypes ==
    ASSUME LoopAssumption
    PROVE  /\ NoRetry \in Retry /\ NoPlan \in Plan /\ IdleStep \in Step /\ NoWork \in Work
           /\ NoExecution \in Execution
<1>1. NoRetry \in Retry
  BY DEF NoRetry, Retry, LoopAssumption
<1>2. NoPlan \in Plan
  BY DEF NoPlan, Plan
<1> QED BY <1>1, <1>2 DEF IdleStep, Step, NoWork, Work, NoExecution, Execution

\* The ordered work of a completed step.
LEMMA OrderingTypes ==
    ASSUME LoopAssumption, TypeInv
    PROVE  /\ Ordering \in Work
           /\ Ordering.kind = "Stop" <=> Stops
           /\ ~Stops => AttemptsCarried(Ordering) =
                IF step.retry.planned = TRUE THEN step.retry.attempt ELSE 0
           /\ AttemptsCarried(Ordering) \in 0 .. MaxAttempts
<1>1. /\ step.retry \in Retry /\ step.plan.sleep \in Nat /\ NoWork \in Work /\ NoRetry \in Retry
      /\ step.retry.planned \in BOOLEAN
  BY NoneTypes DEF TypeInv, Step, Plan, Retry
<1>2. CASE Stops
  <2>1. Ordering = [NoWork EXCEPT !.kind = "Stop"]
    BY <1>2 DEF Ordering
  <2>2. Ordering \in Work /\ Ordering.kind = "Stop"
    BY <1>1, <2>1 DEF Work
  <2> QED BY <1>2, <2>2 DEF AttemptsCarried, LoopAssumption
<1>3. CASE ~Stops /\ step.retry.planned = TRUE
  <2>1. Ordering = [kind |-> "Retry", retry |-> step.retry, sleep |-> 0]
    BY <1>3 DEF Ordering
  <2>2. Ordering \in Work /\ Ordering.kind = "Retry" /\ Ordering.retry = step.retry
    BY <1>1, <2>1 DEF Work
  <2> QED BY <1>1, <1>3, <2>2 DEF AttemptsCarried, Retry
<1>4. CASE ~Stops /\ step.retry.planned # TRUE
  <2>1. \/ Ordering = [kind |-> "Wait", retry |-> NoRetry, sleep |-> step.plan.sleep]
        \/ Ordering = [NoWork EXCEPT !.kind = "Immediately"]
    BY <1>1, <1>4 DEF Ordering
  <2>2. Ordering \in Work /\ Ordering.kind \in {"Wait", "Immediately"}
    BY <1>1, <2>1 DEF Work
  <2>3. AttemptsCarried(Ordering) = 0
    BY <2>2 DEF AttemptsCarried
  <2>4. 0 \in 0 .. MaxAttempts
    BY DEF LoopAssumption
  <2>5. ~(step.retry.planned = TRUE) /\ ~Stops /\ Ordering.kind # "Stop"
    BY <1>4, <2>2
  <2> QED BY <2>2, <2>3, <2>4, <2>5
<1> QED BY <1>2, <1>3, <1>4

\* A failed step records the failure and plans the next attempt.
Failures == {"HeartbeatSend", "AckReceive", "ClientStatsReturnSend"}

\* Committing a result keeps the counters counters.
Results == Failures \union {"HeartbeatSent", "AckReceived", "AckMissed", "ClientStatsReturnSent"}

LEMMA CommitTypes ==
    ASSUME NEW c \in Counters, NEW t \in Nat, NEW result \in Results
    PROVE  commit_result(c, result, t) \in Counters
<1>1. /\ [c EXCEPT !.sent = @ + 1] \in Counters
      /\ [c EXCEPT !.received = @ + 1] \in Counters
      /\ [c EXCEPT !.missed = @ + 1] \in Counters
  BY DEF Counters
<1>5. commit_result(c, "HeartbeatSent", t) \in Counters
  <2> DEFINE d == [c EXCEPT !.sent = @ + 1]
  <2>1. d \in Counters
    BY <1>1
  <2>2. commit_result(c, "HeartbeatSent", t) = [d EXCEPT !.lastSent = t]
    BY CommitResults
  <2> HIDE DEF d
  <2>3. [d EXCEPT !.lastSent = t] \in Counters
    BY <2>1 DEF Counters
  <2> QED BY <2>2, <2>3
<1>2. /\ [c EXCEPT !.stats = @ + 1] \in Counters
      /\ [c EXCEPT !.sendFailures = @ + 1] \in Counters
      /\ [c EXCEPT !.ackFailures = @ + 1] \in Counters
      /\ [c EXCEPT !.statsFailures = @ + 1] \in Counters
  BY DEF Counters
<1>3. /\ commit_result(c, "AckReceived", t) \in Counters
      /\ commit_result(c, "AckMissed", t) \in Counters
  BY <1>1, CommitResults
<1>4. /\ commit_result(c, "ClientStatsReturnSent", t) \in Counters
      /\ commit_result(c, "HeartbeatSend", t) \in Counters
      /\ commit_result(c, "AckReceive", t) \in Counters
      /\ commit_result(c, "ClientStatsReturnSend", t) \in Counters
  BY <1>2, CommitResults
<1> QED BY <1>3, <1>4, <1>5 DEF Results, Failures

LEMMA FailedStep ==
    ASSUME LoopAssumption, TypeInv, NEW c \in Counters, NEW kind \in Failures, Failed(c, kind)
    PROVE  /\ counters' = commit_result(c, kind, carry.now) /\ counters' \in Counters
           /\ step' \in Step /\ step'.ack = step.ack
           /\ step'.retry = decide(carry.attempts, carry.now)
           /\ pc' = "complete"
<1>1. carry.now \in Nat /\ carry.attempts \in 0 .. MaxAttempts /\ step \in Step
  BY DEF TypeInv, Times
<1>2. decide(carry.attempts, carry.now) \in Retry
  BY <1>1, DecideNext
<1>3. commit_result(c, kind, carry.now) \in Counters
  BY <1>1, CommitTypes DEF Results
<1>4. step' = [step EXCEPT !.failed = kind, !.retry = decide(carry.attempts, carry.now)]
  BY DEF Failed
<1>5. step' \in Step /\ step'.ack = step.ack /\ step'.retry = decide(carry.attempts, carry.now)
  BY <1>1, <1>2, <1>4 DEF Step, Failures
<1> QED BY <1>3, <1>5 DEF Failed

---------------------------------------------------------------------------
(***************************************************************************)
(* The state stays in its types.                                           *)
(***************************************************************************)
LEMMA TypeInvInit == ASSUME LoopAssumption, Init PROVE TypeInv
<1>1. 1 \in Times /\ 0 \in 0 .. MaxAttempts /\ 0 \in 0 .. MaxTurns
  BY DEF Times, LoopAssumption
<1>2. ZeroCounters \in Counters
  BY DEF ZeroCounters, Counters
<1>3. NoWork \in Work /\ NoExecution \in Execution /\ IdleStep \in Step
  BY NoneTypes
<1>4. /\ NoRunner.turns = 0 /\ NoRunner.result = "None"
      /\ NoRunner \in Runner
  BY <1>1, <1>3 DEF NoRunner, Runner, Cleanups
<1>5. carry \in [now : Times, stop : BOOLEAN, continue : BOOLEAN, attempts : 0 .. MaxAttempts]
  BY <1>1 DEF Init
<1>6. carry.now <= now
  BY DEF Init
<1>7. flight \in [Times -> Nat] /\ inbox \in Seq(Times)
  BY DEF Init
<1> QED BY <1>1, <1>2, <1>3, <1>4, <1>5, <1>6, <1>7 DEF Init, TypeInv

LEMMA InvocationTypes ==
    ASSUME LoopAssumption, TypeInv, NEW work \in Work
    PROVE  /\ Invocation(work).turns = 0 /\ Invocation(work).result = "None"
           /\ Invocation(work).work = work /\ Invocation(work).refreshed = runner.refreshed
           /\ Invocation(work) \in Runner
<1>1. 0 \in 0 .. MaxTurns /\ NoExecution \in Execution /\ runner.refreshed \in Nat
  BY NoneTypes DEF LoopAssumption, TypeInv, Runner
<1> DEFINE shell == [NoRunner EXCEPT !.work = work]
<1>2. shell = [turns |-> 0, work |-> work, result |-> "None", last |-> NoExecution,
               refreshed |-> 0, cleanup |-> << >>]
  BY DEF NoRunner
<1>3. Invocation(work) = [shell EXCEPT !.refreshed = runner.refreshed]
  BY DEF Invocation
<1> HIDE DEF shell
<1>4. Invocation(work) =
        [turns |-> 0, work |-> work, result |-> "None", last |-> NoExecution,
         refreshed |-> runner.refreshed, cleanup |-> << >>]
  BY <1>2, <1>3
<1>5. << >> \in Cleanups
  BY DEF Cleanups
<1>6. Invocation(work) \in Runner
  BY <1>1, <1>4, <1>5 DEF Runner
<1> QED BY <1>4, <1>6

LEMMA TypeInvStep ==
    ASSUME LoopAssumption, TypeInv, CountInv, Next
    PROVE  TypeInv'
<1>t. /\ now \in Times /\ now \in Nat /\ carry.now \in Nat /\ carry.now \in Times
      /\ counters \in Counters /\ step \in Step /\ step.retry \in Retry
  BY DEF TypeInv, Times, Step
<1>1. CASE StartTick
  <2>1. PlanTick(counters, carry.stop, carry.now) \in Plan
    BY <1>t, PlanTypes DEF TypeInv
  <2>2. IdleStep \in Step
    BY NoneTypes
  <2>3. step' \in Step
    BY <1>1, <2>1, <2>2 DEF StartTick, Step
  <2>4. pc' \in {"send", "complete"}
    BY <1>1 DEF StartTick
  <2> QED BY <1>1, <2>3, <2>4 DEF StartTick, TypeInv, reports, network
<1>2. CASE SendHeartbeat
  <2>1. commit_result(counters, "HeartbeatSent", carry.now) \in Counters
    BY <1>t, CommitTypes DEF Results, Failures
  <2>2. commit_result(commit_result(counters, "HeartbeatSent", carry.now), "AckMissed", carry.now)
          \in Counters
    BY <1>t, <2>1, CommitTypes DEF Results, Failures
  <2>3. counters' \in Counters /\ pc' \in {"await", "complete"}
    BY <1>2, <2>1, <2>2 DEF SendHeartbeat
  <2>4. flight' \in [Times -> Nat]
    <3>1. PICK copies \in Copies : flight' = [flight EXCEPT ![carry.now] = @ + copies]
      BY <1>2 DEF SendHeartbeat
    <3>2. copies \in Nat
      BY <3>1 DEF LoopAssumption
    <3>3. flight \in [Times -> Nat]
      BY DEF TypeInv
    <3>4. flight[carry.now] + copies \in Nat
      BY <1>t, <3>2, <3>3
    <3> QED BY <3>1, <3>3, <3>4
  <2> QED BY <1>2, <2>3, <2>4 DEF SendHeartbeat, TypeInv, reports
<1>3. CASE HeartbeatSendFails
  <2>1. Failed(counters, "HeartbeatSend")
    BY <1>3 DEF HeartbeatSendFails
  <2>2. counters' \in Counters /\ step' \in Step /\ pc' = "complete"
    BY <1>t, <2>1, FailedStep DEF Failures
  <2> QED BY <1>3, <2>2 DEF HeartbeatSendFails, TypeInv, reports, network
<1>4. CASE ReceiveAck
  <2>1. Head(inbox) \in Times /\ inbox' \in Seq(Times)
    BY <1>4 DEF ReceiveAck, AfterReceive, TypeInv
  <2>2. CASE Correlates(Head(inbox))
    <3>1. counters' = commit_result(counters, "AckReceived", now)
      BY <1>4, <2>2 DEF ReceiveAck
    <3>2. counters' \in Counters
      BY <1>t, <3>1, CommitTypes DEF Results, Failures
    <3>3. step' = [step EXCEPT !.ack = TRUE]
      BY <1>4, <2>2 DEF ReceiveAck
    <3>4. step' \in Step
      BY <1>t, <3>3 DEF Step
    <3>5. acked' \subseteq Times /\ pc' \in {"stats", "complete"}
      BY <1>4, <2>1, <2>2 DEF ReceiveAck, TypeInv
    <3> QED BY <1>4, <2>1, <3>2, <3>4, <3>5 DEF ReceiveAck, TypeInv, reports
  <2>3. CASE ~Correlates(Head(inbox))
    <3>1. Failed(counters, "AckReceive") /\ acked' = acked
      BY <1>4, <2>3 DEF ReceiveAck
    <3>2. counters' \in Counters /\ step' \in Step /\ pc' = "complete"
      BY <1>t, <3>1, FailedStep DEF Failures
    <3> QED BY <1>4, <2>1, <3>1, <3>2 DEF ReceiveAck, TypeInv, reports
  <2> QED BY <2>2, <2>3
<1>5. CASE AckTimesOut
  <2>1. commit_result(counters, "AckMissed", carry.now) \in Counters
    BY <1>t, CommitTypes DEF Results, Failures
  <2>2. Failed(commit_result(counters, "AckMissed", carry.now), "AckReceive")
    BY <1>5 DEF AckTimesOut
  <2>3. counters' \in Counters /\ step' \in Step /\ pc' = "complete"
    BY <2>1, <2>2, FailedStep DEF Failures
  <2>4. now' = Clamp(now + SocketTimeout) /\ SocketTimeout \in Nat
    BY <1>5 DEF AckTimesOut, LoopAssumption
  <2>5. now' \in Times /\ now <= now' /\ now' \in Nat
    BY <1>t, <2>4, ClampIsLater DEF Times
  <2>6. carry.now <= now'
    BY <1>t, <2>5 DEF TypeInv
  <2> QED BY <1>5, <2>3, <2>5, <2>6 DEF AckTimesOut, TypeInv, reports, network
<1>6. CASE SendClientStats
  <2>1. CASE counters' = commit_result(counters, "ClientStatsReturnSent", now)
             /\ pc' = "complete" /\ UNCHANGED step
    <3>1. counters' \in Counters
      BY <1>t, <2>1, CommitTypes DEF Results, Failures
    <3> QED BY <1>6, <2>1, <3>1 DEF SendClientStats, TypeInv, reports, network
  <2>2. CASE Failed(counters, "ClientStatsReturnSend")
    <3>1. counters' \in Counters /\ step' \in Step /\ pc' = "complete"
      BY <1>t, <2>2, FailedStep DEF Failures
    <3> QED BY <1>6, <3>1 DEF SendClientStats, TypeInv, reports, network
  <2> QED BY <1>6, <2>1, <2>2 DEF SendClientStats
<1>7. CASE CompleteStep
  <2>1. /\ Ordering \in Work
        /\ AttemptsCarried(Ordering) \in 0 .. MaxAttempts
    BY OrderingTypes
  <2>2. PICK d \in 0 .. MaxStep :
          /\ now' = Clamp(now + d)
          /\ carry' = IF Stops THEN carry ELSE Refreshed(Ordering, now')
    BY <1>7 DEF CompleteStep
  <2>3. d \in Nat
    BY DEF LoopAssumption
  <2>4. now' \in Times /\ now <= now' /\ now' \in Nat
    BY <1>t, <2>2, <2>3, ClampIsLater DEF Times
  <2>5. Refreshed(Ordering, now') =
          [now |-> now', stop |-> stop, continue |-> ~stop,
           attempts |-> AttemptsCarried(Ordering)]
    BY DEF Refreshed
  <2>6. stop \in BOOLEAN /\ (~stop) \in BOOLEAN
    BY DEF TypeInv
  <2>7. Refreshed(Ordering, now') \in
          [now : Times, stop : BOOLEAN, continue : BOOLEAN, attempts : 0 .. MaxAttempts]
    BY <2>1, <2>4, <2>5, <2>6
  <2>8. /\ carry' \in [now : Times, stop : BOOLEAN, continue : BOOLEAN, attempts : 0 .. MaxAttempts]
        /\ carry' = carry \/ carry'.now = now'
    BY <2>2, <2>5, <2>7 DEF TypeInv
  <2>9. carry'.now <= now'
    <3>1. carry.now <= now
      BY DEF TypeInv
    <3>2. carry.now <= now' /\ now' <= now'
      BY <1>t, <2>4, <3>1
    <3> QED BY <2>8, <3>2
  <2>10. runner' = Invocation(Ordering)
    BY <1>7 DEF CompleteStep
  <2>11. /\ runner'.turns = 0 /\ runner'.result = "None"
         /\ runner' \in Runner
    BY <2>1, <2>10, InvocationTypes
  <2>12. 0 < MaxTurns
    BY DEF LoopAssumption
  <2>13. metrics' \in [samples : Nat, latest : Nat]
    BY <1>7, <1>t DEF CompleteStep, CommitMetrics, TypeInv
  <2>14. streak' \in Nat
    <3>1. streak' = streak + 1 \/ streak' = 0
      BY <1>7 DEF CompleteStep
    <3> QED BY <3>1 DEF TypeInv
  <2>15. step' \in Step
    BY <1>7, NoneTypes DEF CompleteStep
  <2>16. pc' = "turns" /\ UNCHANGED <<counters, stop, cadence, network, acked>>
    BY <1>7 DEF CompleteStep
  <2>17. runner'.turns < MaxTurns
    BY <2>11, <2>12
  <2> QED BY <2>4, <2>8, <2>9, <2>11, <2>13, <2>14, <2>15, <2>16, <2>17 DEF TypeInv, network
<1>8. CASE RunTurn
  <2>0. UNCHANGED <<now, counters, carry, stop, step, reports, network, acked, streak>>
        /\ pc = "turns"
    BY <1>8 DEF RunTurn
  <2>1. CASE StopTurn
    <3>1. runner' = [runner EXCEPT !.result = "Stopped", !.cleanup = CleanupActions]
          /\ pc' = "export"
      BY <2>1 DEF StopTurn
    <3>2. runner' \in Runner
      BY <3>1 DEF TypeInv, Runner, Cleanups
    <3> QED BY <2>0, <3>1, <3>2 DEF TypeInv, reports, network
  <2>2. CASE ContinueTurn
    <3> DEFINE turns == runner.turns + 1
               last == WithWakeup(PlannedExecution(runner.work))
               turned == [runner EXCEPT !.turns = turns, !.last = last]
    <3>1. runner.work \in Work /\ runner.turns < MaxTurns /\ runner.turns \in Nat
          /\ MaxTurns \in Nat /\ runner.result = "None"
      BY <2>0 DEF TypeInv, LoopAssumption, Runner
    <3>2. turns \in 0 .. MaxTurns
      BY <3>1
    <3>3. last \in Execution
      BY <3>1 DEF WithWakeup, PlannedExecution, Execution, Work
    <3>4. /\ turned \in Runner
          /\ turned.turns = turns /\ turned.result = "None"
      BY <3>1, <3>2, <3>3 DEF TypeInv, Runner
    <3>5. \/ turns >= MaxTurns /\ runner' = [turned EXCEPT !.result = "Completed"] /\ pc' = "export"
          \/ ~(turns >= MaxTurns) /\ runner' = turned /\ pc' = pc
      BY <2>2 DEF ContinueTurn
    <3> HIDE DEF turned, last
    <3>6. CASE turns >= MaxTurns /\ runner' = [turned EXCEPT !.result = "Completed"] /\ pc' = "export"
      <4>1. runner' \in Runner
        BY <3>4, <3>6 DEF Runner
      <4> QED BY <2>0, <3>6, <4>1 DEF TypeInv, reports, network
    <3>7. CASE ~(turns >= MaxTurns) /\ runner' = turned /\ pc' = pc
      <4>1. runner'.turns < MaxTurns /\ runner'.result = "None"
        BY <3>1, <3>4, <3>7
      <4> QED BY <2>0, <3>4, <3>7, <4>1 DEF TypeInv, reports, network
    <3> QED BY <3>5, <3>6, <3>7
  <2> QED BY <1>8, <2>1, <2>2 DEF RunTurn
<1>9. CASE ExportAndRefresh
  <2>1. \/ cadence' = Exported /\ \E applied \in 0 .. 1 :
             runner' = [NoRunner EXCEPT !.cleanup = runner.cleanup,
                                        !.refreshed = runner.refreshed + applied]
        \/ /\ cadence' = cadence
           /\ runner' = [NoRunner EXCEPT !.cleanup = runner.cleanup,
                                         !.refreshed = runner.refreshed]
    BY <1>9 DEF ExportAndRefresh
  <2>2. cadence' \in [started : Nat, last : Nat, exported : Nat, covered : Nat]
    <3>1. /\ cadence \in [started : Nat, last : Nat, exported : Nat, covered : Nat]
          /\ metrics.samples \in Nat
      BY DEF TypeInv
    <3>2. Exported.started = cadence.started /\ Exported.last = now
          /\ Exported.exported = cadence.exported + 1 /\ Exported.covered = metrics.samples
      BY <3>1 DEF Exported
    <3> DEFINE a == [cadence EXCEPT !.last = now]
               b == [a EXCEPT !.exported = cadence.exported + 1]
    <3>3. a \in [started : Nat, last : Nat, exported : Nat, covered : Nat]
      BY <1>t, <3>1
    <3>4. cadence.exported + 1 \in Nat /\ Exported = [b EXCEPT !.covered = metrics.samples]
      BY <3>1 DEF Exported
    <3> HIDE DEF a
    <3>5. b \in [started : Nat, last : Nat, exported : Nat, covered : Nat]
      BY <3>3, <3>4
    <3> HIDE DEF b
    <3>6. Exported \in [started : Nat, last : Nat, exported : Nat, covered : Nat]
      BY <3>1, <3>4, <3>5
    <3> QED BY <2>1, <3>1, <3>6
  <2>3. PICK r \in Nat : runner' = [NoRunner EXCEPT !.cleanup = runner.cleanup, !.refreshed = r]
    <3>1. runner.refreshed \in Nat /\ \A applied \in 0 .. 1 : runner.refreshed + applied \in Nat
      BY DEF TypeInv, Runner
    <3> QED BY <2>1, <3>1
  <2>4. 0 \in 0 .. MaxTurns /\ NoWork \in Work /\ NoExecution \in Execution
        /\ runner.cleanup \in Cleanups
    BY NoneTypes DEF LoopAssumption, TypeInv, Runner
  <2>5. runner' = [turns |-> 0, work |-> NoWork, result |-> "None", last |-> NoExecution,
                   refreshed |-> r, cleanup |-> runner.cleanup]
    BY <2>3 DEF NoRunner
  <2>6. runner' \in Runner
    <3>1. r \in Nat
      BY <2>3
    <3> QED BY <2>4, <2>5, <3>1 DEF Runner
  <2>7. pc' \in {"stopped", "tick"}
    BY <1>9 DEF ExportAndRefresh
  <2> QED BY <1>9, <2>2, <2>6, <2>7 DEF ExportAndRefresh, TypeInv, network
<1>10. CASE AckArrives
  <2>1. PICK t \in Times : /\ flight[t] > 0 /\ flight' = [flight EXCEPT ![t] = @ - 1]
                           /\ inbox' = Append(inbox, t)
    BY <1>10 DEF AckArrives
  <2>2. flight \in [Times -> Nat] /\ inbox \in Seq(Times)
    BY DEF TypeInv
  <2>3. flight' \in [Times -> Nat] /\ inbox' \in Seq(Times)
    BY <2>1, <2>2
  <2> QED BY <1>10, <2>3 DEF AckArrives, TypeInv, reports
<1>11. CASE RequestStop
  BY <1>11 DEF RequestStop, TypeInv, reports, network
<1> QED BY <1>1, <1>2, <1>3, <1>4, <1>5, <1>6, <1>7, <1>8, <1>9, <1>10, <1>11
        DEF Next, LoopStep

---------------------------------------------------------------------------
(***************************************************************************)
(* The counters balance, up to what the tick still owes.                   *)
(***************************************************************************)
\* The values a commit leaves alone, and the one or two it changes.
LEMMA CommitFields ==
    ASSUME NEW c \in Counters, NEW t \in Nat
    PROVE  /\ LET s == commit_result(c, "HeartbeatSent", t)
              IN  /\ s.sent = c.sent + 1 /\ s.lastSent = t /\ s.received = c.received
                  /\ s.missed = c.missed /\ s.ackFailures = c.ackFailures
                  /\ s.stats = c.stats /\ s.statsFailures = c.statsFailures
           /\ LET s == commit_result(c, "AckReceived", t)
              IN  /\ s.sent = c.sent /\ s.lastSent = c.lastSent /\ s.received = c.received + 1
                  /\ s.missed = c.missed /\ s.ackFailures = c.ackFailures
                  /\ s.stats = c.stats /\ s.statsFailures = c.statsFailures
           /\ LET s == commit_result(c, "AckMissed", t)
              IN  /\ s.sent = c.sent /\ s.lastSent = c.lastSent /\ s.received = c.received
                  /\ s.missed = c.missed + 1 /\ s.ackFailures = c.ackFailures
                  /\ s.stats = c.stats /\ s.statsFailures = c.statsFailures
           /\ LET s == commit_result(c, "ClientStatsReturnSent", t)
              IN  /\ s.sent = c.sent /\ s.lastSent = c.lastSent /\ s.received = c.received
                  /\ s.missed = c.missed /\ s.ackFailures = c.ackFailures
                  /\ s.stats = c.stats + 1 /\ s.statsFailures = c.statsFailures
           /\ LET s == commit_result(c, "HeartbeatSend", t)
              IN  /\ s.sent = c.sent /\ s.lastSent = c.lastSent /\ s.received = c.received
                  /\ s.missed = c.missed /\ s.ackFailures = c.ackFailures
                  /\ s.stats = c.stats /\ s.statsFailures = c.statsFailures
           /\ LET s == commit_result(c, "AckReceive", t)
              IN  /\ s.sent = c.sent /\ s.lastSent = c.lastSent /\ s.received = c.received
                  /\ s.missed = c.missed /\ s.ackFailures = c.ackFailures + 1
                  /\ s.stats = c.stats /\ s.statsFailures = c.statsFailures
           /\ LET s == commit_result(c, "ClientStatsReturnSend", t)
              IN  /\ s.sent = c.sent /\ s.lastSent = c.lastSent /\ s.received = c.received
                  /\ s.missed = c.missed /\ s.ackFailures = c.ackFailures
                  /\ s.stats = c.stats /\ s.statsFailures = c.statsFailures + 1
<1>1. LET s == commit_result(c, "HeartbeatSent", t)
      IN  /\ s.sent = c.sent + 1 /\ s.lastSent = t /\ s.received = c.received
          /\ s.missed = c.missed /\ s.ackFailures = c.ackFailures
          /\ s.stats = c.stats /\ s.statsFailures = c.statsFailures
  <2> DEFINE d == [c EXCEPT !.sent = @ + 1]
  <2>1. d \in Counters /\ d.sent = c.sent + 1 /\ d.received = c.received /\ d.missed = c.missed
        /\ d.ackFailures = c.ackFailures /\ d.stats = c.stats /\ d.statsFailures = c.statsFailures
    BY DEF Counters
  <2>2. commit_result(c, "HeartbeatSent", t) = [d EXCEPT !.lastSent = t]
    BY CommitResults
  <2> HIDE DEF d
  <2> QED BY <2>1, <2>2 DEF Counters
<1>2. LET s == commit_result(c, "AckReceived", t)
      IN  /\ s.sent = c.sent /\ s.lastSent = c.lastSent /\ s.received = c.received + 1
          /\ s.missed = c.missed /\ s.ackFailures = c.ackFailures
          /\ s.stats = c.stats /\ s.statsFailures = c.statsFailures
  <2>1. commit_result(c, "AckReceived", t) = [c EXCEPT !.received = @ + 1]
    BY CommitResults
  <2> QED BY <2>1 DEF Counters
<1>3. LET s == commit_result(c, "AckMissed", t)
      IN  /\ s.sent = c.sent /\ s.lastSent = c.lastSent /\ s.received = c.received
          /\ s.missed = c.missed + 1 /\ s.ackFailures = c.ackFailures
          /\ s.stats = c.stats /\ s.statsFailures = c.statsFailures
  <2>1. commit_result(c, "AckMissed", t) = [c EXCEPT !.missed = @ + 1]
    BY CommitResults
  <2> QED BY <2>1 DEF Counters
<1>4. LET s == commit_result(c, "ClientStatsReturnSent", t)
      IN  /\ s.sent = c.sent /\ s.lastSent = c.lastSent /\ s.received = c.received
          /\ s.missed = c.missed /\ s.ackFailures = c.ackFailures
          /\ s.stats = c.stats + 1 /\ s.statsFailures = c.statsFailures
  <2>1. commit_result(c, "ClientStatsReturnSent", t) = [c EXCEPT !.stats = @ + 1]
    BY CommitResults
  <2> QED BY <2>1 DEF Counters
<1>5. LET s == commit_result(c, "HeartbeatSend", t)
      IN  /\ s.sent = c.sent /\ s.lastSent = c.lastSent /\ s.received = c.received
          /\ s.missed = c.missed /\ s.ackFailures = c.ackFailures
          /\ s.stats = c.stats /\ s.statsFailures = c.statsFailures
  <2>1. commit_result(c, "HeartbeatSend", t) = [c EXCEPT !.sendFailures = @ + 1]
    BY CommitResults
  <2> QED BY <2>1 DEF Counters
<1>6. LET s == commit_result(c, "AckReceive", t)
      IN  /\ s.sent = c.sent /\ s.lastSent = c.lastSent /\ s.received = c.received
          /\ s.missed = c.missed /\ s.ackFailures = c.ackFailures + 1
          /\ s.stats = c.stats /\ s.statsFailures = c.statsFailures
  <2>1. commit_result(c, "AckReceive", t) = [c EXCEPT !.ackFailures = @ + 1]
    BY CommitResults
  <2> QED BY <2>1 DEF Counters
<1>7. LET s == commit_result(c, "ClientStatsReturnSend", t)
      IN  /\ s.sent = c.sent /\ s.lastSent = c.lastSent /\ s.received = c.received
          /\ s.missed = c.missed /\ s.ackFailures = c.ackFailures
          /\ s.stats = c.stats /\ s.statsFailures = c.statsFailures + 1
  <2>1. commit_result(c, "ClientStatsReturnSend", t) = [c EXCEPT !.statsFailures = @ + 1]
    BY CommitResults
  <2> QED BY <2>1 DEF Counters
<1> QED BY <1>1, <1>2, <1>3, <1>4, <1>5, <1>6, <1>7

\* The limits are tested where a tick starts.
LEMMA SendPlanIsDue ==
    ASSUME LoopAssumption, TypeInv, PlanTick(counters, carry.stop, carry.now).action = "SendHeartbeat"
    PROVE  /\ MaxHeartbeats # 0 => counters.sent < MaxHeartbeats
           /\ MaxMissedAcks # 0 => counters.missed < MaxMissedAcks
           /\ counters.lastSent = 0 \/ carry.now >= counters.lastSent + Interval
<1>1. ~LimitReached(counters) /\ ~(carry.now < DueAt(counters, carry.now))
  BY DEF PlanTick, StopPlan, SendOrWait
<1>2. /\ counters.sent \in Nat /\ counters.missed \in Nat /\ MaxHeartbeats \in Nat
      /\ MaxMissedAcks \in Nat /\ carry.now \in Nat /\ counters.lastSent \in Nat /\ Interval \in Nat
  <2>1. counters \in Counters /\ carry.now \in Times
    BY DEF TypeInv
  <2>2. carry.now \in Nat
    BY <2>1 DEF Times
  <2> QED BY <2>1, <2>2 DEF Counters, LoopAssumption
<1> QED BY <1>1, <1>2 DEF LimitReached, DueAt

LEMMA CountInvStep ==
    ASSUME LoopAssumption, TypeInv, CountInv, Next
    PROVE  CountInv'
<1>t. /\ now \in Nat /\ carry.now \in Nat /\ counters \in Counters
      /\ AckTimeout \in Nat /\ MaxHeartbeats \in Nat /\ MaxMissedAcks \in Nat
  BY DEF TypeInv, Times, LoopAssumption
<1>n. /\ counters.sent \in Nat /\ counters.received \in Nat /\ counters.missed \in Nat
      /\ counters.ackFailures \in Nat /\ counters.stats \in Nat /\ counters.statsFailures \in Nat
  BY <1>t DEF Counters
\* A step that leaves the counters alone owes nothing after it.
<1>q. ASSUME counters' = counters, Unanswered' = Unanswered, Unreturned' = Unreturned,
             pc' \notin {"await", "stats"},
             pc' = "send" => pc = "send" \/
               (/\ MaxHeartbeats # 0 => counters.sent < MaxHeartbeats
                /\ MaxMissedAcks # 0 => counters.missed < MaxMissedAcks)
      PROVE  CountInv'
  BY <1>q DEF CountInv, NeverPastLimit
<1>1. CASE StartTick
  <2>1. pc = "tick" /\ counters' = counters
    BY <1>1 DEF StartTick
  <2>2. \/ pc' = "send" /\ PlanTick(counters, carry.stop, carry.now).action = "SendHeartbeat"
        \/ pc' = "complete"
    BY <1>1 DEF StartTick
  <2>3. Unanswered' = Unanswered /\ Unreturned' = Unreturned /\ pc' \notin {"await", "stats"}
    BY <2>1, <2>2 DEF Unanswered, Unreturned
  <2> QED BY <1>q, <2>1, <2>2, <2>3, SendPlanIsDue
<1>2. CASE SendHeartbeat
  <2> DEFINE sent == commit_result(counters, "HeartbeatSent", carry.now)
             missed == commit_result(sent, "AckMissed", carry.now)
  <2>1. DeadlineElapsed <=> AckTimeout = 0
    BY <1>t DEF DeadlineElapsed
  <2>2. sent \in Counters
    BY <1>t, CommitTypes DEF Results
  <2>3. /\ sent.sent = counters.sent + 1 /\ sent.received = counters.received
        /\ sent.missed = counters.missed /\ sent.ackFailures = counters.ackFailures
        /\ sent.stats = counters.stats /\ sent.statsFailures = counters.statsFailures
    BY <1>t, CommitFields
  <2>4. /\ missed.sent = sent.sent /\ missed.received = sent.received
        /\ missed.missed = sent.missed + 1 /\ missed.ackFailures = sent.ackFailures
        /\ missed.stats = sent.stats /\ missed.statsFailures = sent.statsFailures
    BY <1>t, <2>2, CommitFields
  <2>5. pc = "send" /\ IF DeadlineElapsed THEN counters' = missed /\ pc' = "complete"
                                           ELSE counters' = sent /\ pc' = "await"
    BY <1>2 DEF SendHeartbeat
  <2> HIDE DEF sent, missed
  <2>6. /\ counters.sent = counters.received
             + (IF AckTimeout = 0 THEN counters.missed ELSE counters.ackFailures)
        /\ Unreturned = 0
    BY <1>n, <2>5 DEF CountInv, Unanswered, Unreturned
  <2>7. CASE AckTimeout = 0
    <3>1. counters' = missed /\ pc' = "complete" /\ Unanswered' = 0 /\ Unreturned' = 0
      BY <2>1, <2>5, <2>7 DEF Unanswered, Unreturned
    <3>2. /\ counters'.sent = counters.sent + 1 /\ counters'.received = counters.received
          /\ counters'.missed = counters.missed + 1
          /\ counters'.stats = counters.stats /\ counters'.statsFailures = counters.statsFailures
      BY <2>3, <2>4, <3>1
    <3>3. counters'.sent = counters'.received + Unanswered' + counters'.missed
      BY <1>n, <2>6, <2>7, <3>1, <3>2
    <3>4. NeverPastLimit'
      BY <1>t, <1>n, <2>5, <3>2 DEF CountInv, NeverPastLimit
    <3>5. StatsReturn => counters'.received = counters'.stats + counters'.statsFailures + Unreturned'
      BY <2>6, <3>1, <3>2 DEF CountInv
    <3> QED BY <2>7, <3>1, <3>3, <3>4, <3>5 DEF CountInv
  <2>8. CASE AckTimeout # 0
    <3>1. counters' = sent /\ pc' = "await" /\ Unanswered' = 1 /\ Unreturned' = 0
      BY <2>1, <2>5, <2>8 DEF Unanswered, Unreturned
    <3>2. /\ counters'.sent = counters.sent + 1 /\ counters'.received = counters.received
          /\ counters'.missed = counters.missed /\ counters'.ackFailures = counters.ackFailures
          /\ counters'.stats = counters.stats /\ counters'.statsFailures = counters.statsFailures
      BY <2>3, <3>1
    <3>3. counters'.sent = counters'.received + Unanswered' + counters'.ackFailures
      BY <1>n, <2>6, <2>8, <3>1, <3>2
    <3>4. NeverPastLimit'
      BY <1>t, <1>n, <2>5, <3>2 DEF CountInv, NeverPastLimit
    <3>5. StatsReturn => counters'.received = counters'.stats + counters'.statsFailures + Unreturned'
      BY <2>6, <3>1, <3>2 DEF CountInv
    <3>6. MaxMissedAcks # 0 => counters'.missed < MaxMissedAcks
      BY <2>5, <3>2 DEF CountInv
    <3>7. counters'.missed <= counters'.ackFailures
      BY <2>8, <3>2 DEF CountInv
    <3> QED BY <2>8, <3>1, <3>3, <3>4, <3>5, <3>6, <3>7 DEF CountInv
  <2> QED BY <2>7, <2>8
<1>3. CASE HeartbeatSendFails
  <2>1. Failed(counters, "HeartbeatSend") /\ pc = "send"
    BY <1>3 DEF HeartbeatSendFails
  <2>2. counters' = commit_result(counters, "HeartbeatSend", carry.now) /\ pc' = "complete"
    BY <1>t, <2>1, FailedStep DEF Failures
  <2>3. /\ counters'.sent = counters.sent /\ counters'.received = counters.received
        /\ counters'.missed = counters.missed /\ counters'.ackFailures = counters.ackFailures
        /\ counters'.stats = counters.stats /\ counters'.statsFailures = counters.statsFailures
    BY <1>t, <2>2, CommitFields
  <2>4. Unanswered' = Unanswered /\ Unreturned' = Unreturned
    BY <2>1, <2>2 DEF Unanswered, Unreturned
  <2> QED BY <2>2, <2>3, <2>4 DEF CountInv, NeverPastLimit
<1>4. CASE ReceiveAck
  <2>0. pc = "await" /\ AckTimeout # 0 /\ Unanswered = 1 /\ Unreturned = 0
    BY <1>4 DEF ReceiveAck, CountInv, Unanswered, Unreturned
  <2>1. CASE Correlates(Head(inbox))
    <3>1. counters' = commit_result(counters, "AckReceived", now)
          /\ pc' = IF StatsReturn THEN "stats" ELSE "complete"
      BY <1>4, <2>1 DEF ReceiveAck
    <3>2. /\ counters'.sent = counters.sent /\ counters'.received = counters.received + 1
          /\ counters'.missed = counters.missed /\ counters'.ackFailures = counters.ackFailures
          /\ counters'.stats = counters.stats /\ counters'.statsFailures = counters.statsFailures
      BY <1>t, <3>1, CommitFields
    <3>3. Unanswered' = 0 /\ (StatsReturn => Unreturned' = 1) /\ (pc' = "stats" => StatsReturn)
          /\ pc' \in {"stats", "complete"}
      BY <3>1 DEF Unanswered, Unreturned
    <3>4. CASE StatsReturn
      <4>1. Unreturned' = 1
        BY <3>3, <3>4
      <4>2. counters'.received = counters'.stats + counters'.statsFailures + Unreturned'
        BY <1>n, <2>0, <3>2, <3>4, <4>1 DEF CountInv
      <4>3. counters'.sent = counters'.received + Unanswered' + counters'.ackFailures
        BY <1>n, <2>0, <3>2, <3>3 DEF CountInv
      <4> QED BY <2>0, <3>2, <3>3, <4>2, <4>3 DEF CountInv, NeverPastLimit
    <3>5. CASE ~StatsReturn
      <4>1. counters'.sent = counters'.received + Unanswered' + counters'.ackFailures
        BY <1>n, <2>0, <3>2, <3>3 DEF CountInv
      <4> QED BY <2>0, <3>2, <3>3, <3>5, <4>1 DEF CountInv, NeverPastLimit
    <3> QED BY <3>4, <3>5
  <2>2. CASE ~Correlates(Head(inbox))
    <3>1. Failed(counters, "AckReceive")
      BY <1>4, <2>2 DEF ReceiveAck
    <3>2. counters' = commit_result(counters, "AckReceive", carry.now) /\ pc' = "complete"
      BY <1>t, <3>1, FailedStep DEF Failures
    <3>3. /\ counters'.sent = counters.sent /\ counters'.received = counters.received
          /\ counters'.missed = counters.missed /\ counters'.ackFailures = counters.ackFailures + 1
          /\ counters'.stats = counters.stats /\ counters'.statsFailures = counters.statsFailures
      BY <1>t, <3>2, CommitFields
    <3>4. Unanswered' = 0 /\ Unreturned' = 0
      BY <3>2 DEF Unanswered, Unreturned
    <3>5. counters'.sent = counters'.received + Unanswered' + counters'.ackFailures
      BY <1>n, <2>0, <3>3, <3>4 DEF CountInv
    <3>6. counters'.missed <= counters'.ackFailures
      BY <1>n, <2>0, <3>3 DEF CountInv
    <3> QED BY <2>0, <3>2, <3>3, <3>4, <3>5, <3>6 DEF CountInv, NeverPastLimit
  <2> QED BY <2>1, <2>2
<1>5. CASE AckTimesOut
  <2> DEFINE missed == commit_result(counters, "AckMissed", carry.now)
  <2>0. pc = "await" /\ AckTimeout # 0 /\ Unanswered = 1 /\ Unreturned = 0
    BY <1>5 DEF AckTimesOut, CountInv, Unanswered, Unreturned
  <2>1. missed \in Counters
    BY <1>t, CommitTypes DEF Results
  <2>2. Failed(missed, "AckReceive")
    BY <1>5 DEF AckTimesOut
  <2>3. counters' = commit_result(missed, "AckReceive", carry.now) /\ pc' = "complete"
    BY <2>1, <2>2, FailedStep DEF Failures
  <2>4. /\ missed.sent = counters.sent /\ missed.received = counters.received
        /\ missed.missed = counters.missed + 1 /\ missed.ackFailures = counters.ackFailures
        /\ missed.stats = counters.stats /\ missed.statsFailures = counters.statsFailures
    BY <1>t, CommitFields
  <2> HIDE DEF missed
  <2>5. /\ counters'.sent = missed.sent /\ counters'.received = missed.received
        /\ counters'.missed = missed.missed /\ counters'.ackFailures = missed.ackFailures + 1
        /\ counters'.stats = missed.stats /\ counters'.statsFailures = missed.statsFailures
    BY <1>t, <2>1, <2>3, CommitFields
  <2>6. Unanswered' = 0 /\ Unreturned' = 0
    BY <2>3 DEF Unanswered, Unreturned
  <2>7. counters'.sent = counters'.received + Unanswered' + counters'.ackFailures
    BY <1>n, <2>0, <2>4, <2>5, <2>6 DEF CountInv
  <2>8. counters'.missed <= counters'.ackFailures
    BY <1>n, <2>0, <2>4, <2>5 DEF CountInv
  <2>9. MaxMissedAcks # 0 => counters'.missed <= MaxMissedAcks
    BY <1>t, <1>n, <2>0, <2>4, <2>5 DEF CountInv
  <2> QED BY <2>0, <2>3, <2>4, <2>5, <2>6, <2>7, <2>8, <2>9 DEF CountInv, NeverPastLimit
<1>6. CASE SendClientStats
  <2>0. pc = "stats" /\ StatsReturn /\ Unanswered = 0 /\ Unreturned = 1
    BY <1>6 DEF SendClientStats, CountInv, Unanswered, Unreturned
  <2>1. \/ counters' = commit_result(counters, "ClientStatsReturnSent", now) /\ pc' = "complete"
        \/ Failed(counters, "ClientStatsReturnSend")
    BY <1>6 DEF SendClientStats
  <2>2. /\ counters'.sent = counters.sent /\ counters'.received = counters.received
        /\ counters'.missed = counters.missed /\ counters'.ackFailures = counters.ackFailures
        /\ counters'.stats + counters'.statsFailures = counters.stats + counters.statsFailures + 1
        /\ pc' = "complete"
    <3>1. CASE counters' = commit_result(counters, "ClientStatsReturnSent", now) /\ pc' = "complete"
      <4>1. /\ counters'.sent = counters.sent /\ counters'.received = counters.received
            /\ counters'.missed = counters.missed /\ counters'.ackFailures = counters.ackFailures
            /\ counters'.stats = counters.stats + 1 /\ counters'.statsFailures = counters.statsFailures
        BY <1>t, <3>1, CommitFields
      <4> QED BY <1>n, <3>1, <4>1
    <3>2. CASE Failed(counters, "ClientStatsReturnSend")
      <4>1. counters' = commit_result(counters, "ClientStatsReturnSend", carry.now) /\ pc' = "complete"
        BY <1>t, <3>2, FailedStep DEF Failures
      <4>2. /\ counters'.sent = counters.sent /\ counters'.received = counters.received
            /\ counters'.missed = counters.missed /\ counters'.ackFailures = counters.ackFailures
            /\ counters'.stats = counters.stats
            /\ counters'.statsFailures = counters.statsFailures + 1
        BY <1>t, <4>1, CommitFields
      <4> QED BY <1>n, <4>1, <4>2
    <3> QED BY <2>1, <3>1, <3>2
  <2>3. Unanswered' = 0 /\ Unreturned' = 0
    BY <2>2 DEF Unanswered, Unreturned
  <2>4. counters'.sent = counters'.received + Unanswered'
             + (IF AckTimeout = 0 THEN counters'.missed ELSE counters'.ackFailures)
    BY <2>0, <2>2, <2>3 DEF CountInv
  <2>5. counters'.received = counters'.stats + counters'.statsFailures + Unreturned'
    <3>1. counters.received = counters.stats + counters.statsFailures + 1
      BY <2>0 DEF CountInv
    <3>2. /\ counters'.received = counters.stats + counters.statsFailures + 1
          /\ counters'.stats + counters'.statsFailures \in Nat
      BY <1>n, <2>2, <3>1
    <3> QED BY <2>2, <2>3, <3>2
  <2> QED BY <2>0, <2>2, <2>3, <2>4, <2>5 DEF CountInv, NeverPastLimit
<1>7. CASE CompleteStep
  <2>1. pc = "complete" /\ pc' = "turns" /\ counters' = counters
    BY <1>7 DEF CompleteStep
  <2> QED BY <1>q, <2>1 DEF Unanswered, Unreturned
<1>8. CASE RunTurn
  <2>1. pc = "turns" /\ pc' \in {"turns", "export"} /\ counters' = counters
    BY <1>8 DEF RunTurn, StopTurn, ContinueTurn
  <2> QED BY <1>q, <2>1 DEF Unanswered, Unreturned
<1>9. CASE ExportAndRefresh
  <2>1. pc = "export" /\ pc' \in {"stopped", "tick"} /\ counters' = counters
    BY <1>9 DEF ExportAndRefresh
  <2> QED BY <1>q, <2>1 DEF Unanswered, Unreturned
<1>10. CASE AckArrives \/ RequestStop
  BY <1>10 DEF AckArrives, RequestStop, CountInv, NeverPastLimit, Unanswered, Unreturned
<1> QED BY <1>1, <1>2, <1>3, <1>4, <1>5, <1>6, <1>7, <1>8, <1>9, <1>10 DEF Next, LoopStep

---------------------------------------------------------------------------
(***************************************************************************)
(* An acknowledgement is counted once, in the tick of its heartbeat.       *)
(***************************************************************************)
\* Where the acknowledgements, the heartbeats and the tick stay as they are.
LEMMA AckInvQuiet ==
    ASSUME AckInv, counters' = counters, acked' = acked, metrics' = metrics, carry' = carry,
           step'.ack = step.ack,
           pc' = pc \/ (pc' \notin {"send", "await"}
                          /\ (pc' \in {"stats", "complete"} \/ step.ack = FALSE))
    PROVE  AckInv'
<1>1. CASE pc' = pc
  BY <1>1 DEF AckInv
<1>2. CASE pc' \notin {"send", "await"} /\ (pc' \in {"stats", "complete"} \/ step.ack = FALSE)
  BY <1>2 DEF AckInv
<1> QED BY <1>1, <1>2

LEMMA AckInvStep ==
    ASSUME LoopAssumption, TypeInv, CountInv, AckInv, Next
    PROVE  AckInv'
<1>t. /\ now \in Nat /\ carry.now \in Nat /\ carry.now >= 1 /\ counters \in Counters
      /\ acked \subseteq Times /\ Interval \in Nat /\ Interval >= 1
  BY DEF TypeInv, Times, LoopAssumption
<1>n. /\ counters.sent \in Nat /\ counters.received \in Nat /\ counters.missed \in Nat
      /\ counters.ackFailures \in Nat /\ counters.lastSent \in Nat
  BY <1>t DEF Counters
<1>s. step \in Step /\ step.ack \in BOOLEAN /\ metrics.samples \in Nat
  BY DEF TypeInv, Step
\* A failed step.
<1>f. ASSUME NEW c \in Counters, NEW kind \in Failures, Failed(c, kind), pc \in {"send", "await", "stats"},
             c.lastSent = counters.lastSent, c.received = counters.received,
             c.sent = counters.sent, acked' = acked, metrics' = metrics, carry' = carry
      PROVE  AckInv'
  <2>1. counters' = commit_result(c, kind, carry.now) /\ pc' = "complete" /\ step'.ack = step.ack
    BY <1>f, FailedStep
  <2>2. /\ counters'.lastSent = counters.lastSent /\ counters'.received = counters.received
        /\ counters'.sent = counters.sent
    BY <1>f, <1>t, <2>1, CommitFields DEF Failures
  <2> QED BY <1>f, <2>1, <2>2 DEF AckInv
<1>1. CASE StartTick
  <2>1. pc = "tick" /\ step.ack = FALSE
        /\ UNCHANGED <<counters, acked, metrics, carry>>
    BY <1>1 DEF StartTick, AckInv, reports
  <2>2. step'.ack = FALSE
    BY <1>1 DEF StartTick, IdleStep
  <2>3. CASE PlanTick(counters, carry.stop, carry.now).action = "SendHeartbeat"
    <3>1. counters.lastSent = 0 \/ carry.now >= counters.lastSent + Interval
      BY <2>3, SendPlanIsDue
    <3>2. pc' = "send"
      BY <1>1, <2>3 DEF StartTick
    <3> QED BY <2>1, <2>2, <3>1, <3>2 DEF AckInv
  <2>4. CASE PlanTick(counters, carry.stop, carry.now).action # "SendHeartbeat"
    <3>1. pc' = "complete"
      BY <1>1, <2>4 DEF StartTick
    <3> QED BY <2>1, <2>2, <3>1, AckInvQuiet
  <2> QED BY <2>3, <2>4
<1>2. CASE SendHeartbeat
  <2> DEFINE sent == commit_result(counters, "HeartbeatSent", carry.now)
             missed == commit_result(sent, "AckMissed", carry.now)
  <2>1. sent \in Counters
    BY <1>t, CommitTypes DEF Results
  <2>2. sent.lastSent = carry.now /\ sent.received = counters.received
    BY <1>t, CommitFields
  <2>3. missed.lastSent = sent.lastSent /\ missed.received = sent.received
    BY <1>t, <2>1, CommitFields
  <2>4. /\ pc = "send"
        /\ (counters' = missed /\ pc' = "complete") \/ (counters' = sent /\ pc' = "await")
    BY <1>2 DEF SendHeartbeat
  <2> HIDE DEF sent, missed
  <2>5. /\ counters'.lastSent = carry.now /\ counters'.received = counters.received
        /\ pc' \in {"complete", "await"}
        /\ UNCHANGED <<acked, metrics, carry, step>>
    BY <1>2, <2>2, <2>3, <2>4 DEF SendHeartbeat, reports
  <2>6. \A t \in acked : t < carry.now /\ t \in Nat /\ t >= 1
    <3>1. \A t \in acked : t <= counters.lastSent /\ t \in Nat /\ t >= 1
      BY <1>t DEF AckInv, Times
    <3>2. counters.lastSent = 0 \/ carry.now >= counters.lastSent + Interval
      BY <2>4 DEF AckInv
    <3> QED BY <1>t, <1>n, <3>1, <3>2
  <2>7. carry.now \notin acked /\ \A t \in acked : t <= carry.now
    BY <1>t, <2>6
  <2>8. step.ack = FALSE
    BY <2>4 DEF AckInv
  <2>9. counters'.lastSent # 0
    BY <1>t, <2>5
  <2> QED BY <1>t, <2>4, <2>5, <2>7, <2>8, <2>9 DEF AckInv
<1>3. CASE HeartbeatSendFails
  <2>1. Failed(counters, "HeartbeatSend") /\ pc = "send" /\ acked' = acked /\ metrics' = metrics
        /\ carry' = carry
    BY <1>3 DEF HeartbeatSendFails, reports
  <2> QED BY <1>f, <1>t, <2>1 DEF Failures
<1>4. CASE ReceiveAck
  <2>0. pc = "await" /\ metrics' = metrics /\ carry' = carry
    BY <1>4 DEF ReceiveAck, reports
  <2>1. CASE Correlates(Head(inbox))
    <3>1. /\ counters' = commit_result(counters, "AckReceived", now)
          /\ step' = [step EXCEPT !.ack = TRUE]
          /\ acked' = acked \union {carry.now}
          /\ pc' \in {"stats", "complete"}
      BY <1>4, <2>1 DEF ReceiveAck, Correlates
    <3>2. counters'.sent = counters.sent /\ counters'.lastSent = counters.lastSent
          /\ counters'.received = counters.received + 1
      BY <1>t, <3>1, CommitFields
    <3>3. step'.ack = TRUE
      BY <1>s, <3>1 DEF Step
    <3>4. IsFiniteSet(acked) /\ carry.now \notin acked /\ counters.lastSent = carry.now
          /\ counters.received = Cardinality(acked)
      BY <2>0 DEF AckInv
    <3>5. IsFiniteSet(acked') /\ Cardinality(acked') = Cardinality(acked) + 1
      BY <3>1, <3>4, FS_AddElement
    <3>6. \A t \in acked' : t <= counters'.lastSent
      BY <1>t, <3>1, <3>2, <3>4 DEF AckInv
    <3>7. metrics.samples <= counters.received
      <4>1. step.ack = FALSE
        BY <2>0 DEF AckInv
      <4>2. metrics.samples + 0 <= counters.received
        BY <4>1 DEF AckInv
      <4> QED BY <1>s, <4>2
    <3>8. metrics'.samples + 1 <= counters'.received
      BY <1>n, <1>s, <2>0, <3>2, <3>7
    <3>9. metrics'.latest # 0 => metrics'.latest \in acked'
      BY <2>0, <3>1 DEF AckInv
    <3>10. counters'.lastSent = 0 => counters'.sent = 0
      BY <3>2 DEF AckInv
    <3>11. counters'.received = Cardinality(acked') /\ carry'.now \in acked'
      BY <2>0, <3>1, <3>2, <3>4, <3>5
    <3> QED BY <3>1, <3>3, <3>5, <3>6, <3>8, <3>9, <3>10, <3>11 DEF AckInv
  <2>2. CASE ~Correlates(Head(inbox))
    <3>1. Failed(counters, "AckReceive") /\ acked' = acked
      BY <1>4, <2>2 DEF ReceiveAck
    <3> QED BY <1>f, <1>t, <2>0, <3>1 DEF Failures
  <2> QED BY <2>1, <2>2
<1>5. CASE AckTimesOut
  <2> DEFINE missed == commit_result(counters, "AckMissed", carry.now)
  <2>1. missed \in Counters
    BY <1>t, CommitTypes DEF Results
  <2>2. missed.sent = counters.sent /\ missed.lastSent = counters.lastSent
        /\ missed.received = counters.received
    BY <1>t, CommitFields
  <2>3. Failed(missed, "AckReceive") /\ pc = "await" /\ acked' = acked /\ metrics' = metrics
        /\ carry' = carry
    BY <1>5 DEF AckTimesOut, reports
  <2> HIDE DEF missed
  <2> QED BY <1>f, <2>1, <2>2, <2>3 DEF Failures
<1>6. CASE SendClientStats
  <2>0. pc = "stats" /\ acked' = acked /\ metrics' = metrics /\ carry' = carry
    BY <1>6 DEF SendClientStats, reports
  <2>1. CASE /\ counters' = commit_result(counters, "ClientStatsReturnSent", now)
             /\ pc' = "complete" /\ UNCHANGED step
    <3>1. counters'.sent = counters.sent /\ counters'.lastSent = counters.lastSent
          /\ counters'.received = counters.received
      BY <1>t, <2>1, CommitFields
    <3> QED BY <2>0, <2>1, <3>1 DEF AckInv
  <2>2. CASE Failed(counters, "ClientStatsReturnSend")
    BY <1>f, <1>t, <2>0, <2>2 DEF Failures
  <2> QED BY <1>6, <2>1, <2>2 DEF SendClientStats
<1>7. CASE CompleteStep
  <2>1. /\ pc = "complete" /\ pc' = "turns" /\ step' = IdleStep
        /\ UNCHANGED <<counters, acked>> /\ CommitMetrics
    BY <1>7 DEF CompleteStep
  <2>2. step'.ack = FALSE
    BY <2>1 DEF IdleStep
  <2>3. metrics'.samples <= counters'.received
        /\ (metrics'.latest # 0 => metrics'.latest \in acked')
    <3>1. CASE metrics' = metrics
      <4>1. metrics.samples <= counters.received
        <5>1. CASE step.ack = TRUE
          <6>1. metrics.samples + 1 <= counters.received
            BY <5>1 DEF AckInv
          <6> QED BY <1>n, <1>s, <6>1
        <5>2. CASE ~(step.ack = TRUE)
          <6>1. metrics.samples + 0 <= counters.received
            BY <5>2 DEF AckInv
          <6> QED BY <1>n, <1>s, <6>1
        <5> QED BY <5>1, <5>2
      <4> QED BY <2>1, <3>1, <4>1 DEF AckInv
    <3>2. CASE step.ack /\ metrics' = [samples |-> metrics.samples + 1, latest |-> carry.now]
      <4>1. step.ack = TRUE
        BY <1>s, <3>2
      <4>2. metrics.samples + 1 <= counters.received /\ carry.now \in acked
        BY <4>1 DEF AckInv
      <4>3. metrics'.samples = metrics.samples + 1 /\ metrics'.latest = carry.now
        BY <3>2
      <4> QED BY <2>1, <4>2, <4>3
    <3> QED BY <2>1, <3>1, <3>2 DEF CommitMetrics
  <2>4. metrics'.samples + 0 <= counters'.received
    <3>1. metrics'.samples \in Nat
      BY TypeInvStep DEF TypeInv
    <3> QED BY <1>n, <2>3, <3>1
  <2> QED BY <2>1, <2>2, <2>3, <2>4 DEF AckInv
<1>8. CASE RunTurn
  <2>1. /\ pc = "turns" /\ pc' \in {"turns", "export"}
        /\ UNCHANGED <<counters, acked, metrics, carry, step>>
    BY <1>8 DEF RunTurn, StopTurn, ContinueTurn, reports
  <2>2. step.ack = FALSE
    BY <2>1 DEF AckInv
  <2> QED BY <2>1, <2>2, AckInvQuiet
<1>9. CASE ExportAndRefresh
  <2>1. /\ pc = "export" /\ pc' \in {"stopped", "tick"}
        /\ UNCHANGED <<counters, acked, metrics, carry, step>>
    BY <1>9 DEF ExportAndRefresh
  <2>2. step.ack = FALSE
    BY <2>1 DEF AckInv
  <2> QED BY <2>1, <2>2, AckInvQuiet
<1>10. CASE AckArrives \/ RequestStop
  <2>1. UNCHANGED <<pc, counters, acked, metrics, carry, step>>
    BY <1>10 DEF AckArrives, RequestStop, reports
  <2> QED BY <2>1, AckInvQuiet
<1> QED BY <1>1, <1>2, <1>3, <1>4, <1>5, <1>6, <1>7, <1>8, <1>9, <1>10 DEF Next, LoopStep

---------------------------------------------------------------------------
(***************************************************************************)
(* The retry budget is the number of failures in a row.                    *)
(***************************************************************************)
LEMMA RetryInvStep ==
    ASSUME LoopAssumption, TypeInv, RetryInv, Next
    PROVE  RetryInv'
<1>t. /\ carry.attempts \in 0 .. MaxAttempts /\ carry.attempts \in Nat /\ streak \in Nat
      /\ MaxAttempts \in Nat /\ counters \in Counters /\ carry.now \in Nat
      /\ step \in Step /\ step.retry \in Retry /\ step.retry.planned \in BOOLEAN
  <2>1. streak \in Nat /\ counters \in Counters /\ step \in Step
    BY DEF TypeInv
  <2>2. carry \in [now : Times, stop : BOOLEAN, continue : BOOLEAN, attempts : 0 .. MaxAttempts]
    BY DEF TypeInv
  <2>3. MaxAttempts \in Nat
    BY DEF LoopAssumption
  <2>4. carry.attempts \in 0 .. MaxAttempts /\ carry.now \in Times
    BY <2>2
  <2>5. step.retry \in Retry
    BY <2>1 DEF Step
  <2>6. step.retry.planned \in BOOLEAN
    BY <2>5 DEF Retry
  <2>7. carry.attempts \in Nat
    BY <2>3, <2>4
  <2>8. carry.now \in Nat
    BY <2>4 DEF Times
  <2> QED BY <2>1, <2>3, <2>4, <2>5, <2>6, <2>7, <2>8
\* A failed step plans the attempt after the failures so far.
<1>f. ASSUME NEW c \in Counters, NEW kind \in Failures, Failed(c, kind),
             pc \in {"send", "await", "stats"}, streak' = streak, carry' = carry
      PROVE  RetryInv'
  <2>1. step'.retry = decide(carry.attempts, carry.now) /\ pc' = "complete"
    BY <1>f, FailedStep
  <2>2. decide(carry.attempts, carry.now).attempt = Lesser(carry.attempts + 1, MaxAttempts)
    BY <1>t, DecideNext
  <2>3. carry.attempts = Lesser(streak, MaxAttempts)
    BY <1>f DEF RetryInv
  <2>4. Lesser(carry.attempts + 1, MaxAttempts) = Lesser(streak + 1, MaxAttempts)
    BY <1>t, <2>3 DEF Lesser
  <2>5. step'.retry.attempt = Lesser(streak' + 1, MaxAttempts)
    BY <1>f, <2>1, <2>2, <2>4
  <2>6. carry'.attempts = Lesser(streak', MaxAttempts)
    BY <1>f, <2>3
  <2> QED BY <2>1, <2>5, <2>6 DEF RetryInv
\* A step that leaves the retry and the carry alone.
<1>q. ASSUME pc \notin {"complete", "turns", "export", "stopped"}, step'.retry = step.retry,
             streak' = streak, carry' = carry
      PROVE  RetryInv'
  <2>1. step.retry.planned = FALSE /\ carry.attempts = Lesser(streak, MaxAttempts)
    BY <1>q DEF RetryInv
  <2> QED BY <1>q, <2>1 DEF RetryInv
<1>1. CASE StartTick
  <2>1. pc = "tick" /\ streak' = streak /\ carry' = carry
    BY <1>1 DEF StartTick
  <2>2. step'.retry.planned = FALSE
    BY <1>1 DEF StartTick, IdleStep, NoRetry
  <2>3. carry.attempts = Lesser(streak, MaxAttempts)
    BY <2>1 DEF RetryInv
  <2> QED BY <2>1, <2>2, <2>3 DEF RetryInv
<1>2. CASE SendHeartbeat
  BY <1>2, <1>q DEF SendHeartbeat
<1>3. CASE HeartbeatSendFails
  <2>1. Failed(counters, "HeartbeatSend") /\ pc = "send" /\ streak' = streak /\ carry' = carry
    BY <1>3 DEF HeartbeatSendFails
  <2> QED BY <1>t, <1>f, <2>1 DEF Failures
<1>4. CASE ReceiveAck
  <2>0. pc = "await" /\ streak' = streak /\ carry' = carry
    BY <1>4 DEF ReceiveAck
  <2>1. CASE Correlates(Head(inbox))
    <3>1. step' = [step EXCEPT !.ack = TRUE]
      BY <1>4, <2>1 DEF ReceiveAck
    <3>2. step'.retry = step.retry
      BY <1>t, <3>1 DEF Step
    <3> QED BY <1>q, <2>0, <3>2
  <2>2. CASE ~Correlates(Head(inbox))
    <3>1. Failed(counters, "AckReceive")
      BY <1>4, <2>2 DEF ReceiveAck
    <3> QED BY <1>t, <1>f, <2>0, <3>1 DEF Failures
  <2> QED BY <2>1, <2>2
<1>5. CASE AckTimesOut
  <2>1. commit_result(counters, "AckMissed", carry.now) \in Counters
    BY <1>t, CommitTypes DEF Results
  <2>2. Failed(commit_result(counters, "AckMissed", carry.now), "AckReceive")
        /\ pc = "await" /\ streak' = streak /\ carry' = carry
    BY <1>5 DEF AckTimesOut
  <2> QED BY <1>f, <2>1, <2>2 DEF Failures
<1>6. CASE SendClientStats
  <2>0. pc = "stats" /\ streak' = streak /\ carry' = carry
    BY <1>6 DEF SendClientStats
  <2>1. CASE step' = step
    BY <1>q, <2>0, <2>1
  <2>2. CASE Failed(counters, "ClientStatsReturnSend")
    BY <1>t, <1>f, <2>0, <2>2 DEF Failures
  <2> QED BY <1>6, <2>1, <2>2 DEF SendClientStats
<1>7. CASE CompleteStep
  <2>1. /\ pc = "complete" /\ pc' = "turns" /\ step' = IdleStep
        /\ runner' = Invocation(Ordering)
    BY <1>7 DEF CompleteStep
  <2>2. streak' = IF step.retry.planned THEN streak + 1 ELSE 0
    BY <1>7 DEF CompleteStep
  <2>3. step'.retry.planned = FALSE
    BY <2>1 DEF IdleStep, NoRetry
  <2>4. runner'.work = Ordering
    BY <2>1, OrderingTypes, InvocationTypes
  <2>5. CASE Stops
    <3>1. runner'.work.kind = "Stop"
      BY <2>4, <2>5, OrderingTypes
    <3> QED BY <2>1, <2>3, <3>1 DEF RetryInv
  <2>6. CASE ~Stops
    <3>1. carry' = Refreshed(Ordering, now')
      BY <1>7, <2>6 DEF CompleteStep
    <3>2. carry'.attempts = AttemptsCarried(Ordering)
      BY <3>1 DEF Refreshed
    <3>3. AttemptsCarried(Ordering) = IF step.retry.planned = TRUE THEN step.retry.attempt ELSE 0
      BY <2>6, OrderingTypes
    <3>4. CASE step.retry.planned = TRUE
      <4>1. streak' = streak + 1
        BY <2>2, <3>4
      <4>2. step.retry.attempt = Lesser(streak + 1, MaxAttempts)
        BY <3>4 DEF RetryInv
      <4>3. carry'.attempts = Lesser(streak', MaxAttempts)
        BY <3>2, <3>3, <3>4, <4>1, <4>2
      <4> QED BY <2>1, <2>3, <4>3 DEF RetryInv
    <3>5. CASE step.retry.planned = FALSE
      <4>1. streak' = 0
        BY <2>2, <3>5
      <4>2. Lesser(0, MaxAttempts) = 0
        BY <1>t DEF Lesser
      <4>3. carry'.attempts = Lesser(streak', MaxAttempts)
        BY <3>2, <3>3, <3>5, <4>1, <4>2
      <4> QED BY <2>1, <2>3, <4>3 DEF RetryInv
    <3> QED BY <1>t, <3>4, <3>5
  <2> QED BY <2>5, <2>6
<1>8. CASE RunTurn
  <2>1. pc = "turns" /\ UNCHANGED <<step, carry, streak>>
    BY <1>8 DEF RunTurn
  <2>2. step.retry.planned = FALSE
        /\ (carry.attempts = Lesser(streak, MaxAttempts) \/ runner.work.kind = "Stop")
    BY <2>1 DEF RetryInv
  <2>3. CASE StopTurn
    <3>1. runner' = [runner EXCEPT !.result = "Stopped", !.cleanup = CleanupActions]
          /\ pc' = "export"
      BY <2>3 DEF StopTurn
    <3>2. runner'.result = "Stopped"
      BY <3>1 DEF TypeInv, Runner
    <3> QED BY <2>1, <2>2, <3>1, <3>2 DEF RetryInv
  <2>4. CASE ContinueTurn
    <3>1. runner.work.kind # "Stop" /\ pc' \in {"turns", "export"}
      BY <2>1, <2>4 DEF ContinueTurn
    <3> QED BY <2>1, <2>2, <3>1 DEF RetryInv
  <2> QED BY <1>8, <2>3, <2>4 DEF RunTurn
<1>9. CASE ExportAndRefresh
  <2>1. /\ pc = "export" /\ pc' = (IF runner.result = "Stopped" THEN "stopped" ELSE "tick")
        /\ UNCHANGED <<step, carry, streak>>
    BY <1>9 DEF ExportAndRefresh
  <2>2. step.retry.planned = FALSE
        /\ (carry.attempts = Lesser(streak, MaxAttempts) \/ runner.result = "Stopped")
    BY <2>1 DEF RetryInv
  <2> QED BY <2>1, <2>2 DEF RetryInv
<1>10. CASE AckArrives \/ RequestStop
  <2>1. UNCHANGED <<pc, step, carry, streak, runner>>
    BY <1>10 DEF AckArrives, RequestStop
  <2> QED BY <2>1 DEF RetryInv
<1> QED BY <1>1, <1>2, <1>3, <1>4, <1>5, <1>6, <1>7, <1>8, <1>9, <1>10 DEF Next, LoopStep

---------------------------------------------------------------------------
(***************************************************************************)
(* Exports keep their interval.                                            *)
(***************************************************************************)
LEMMA ExportInvStep ==
    ASSUME LoopAssumption, TypeInv, CountInv, ExportInv, Next
    PROVE  ExportInv'
<1>t. /\ now \in Nat /\ metrics.samples \in Nat /\ cadence.started \in Nat /\ cadence.last \in Nat
      /\ cadence.exported \in Nat /\ cadence.covered \in Nat /\ runner.refreshed \in Nat
      /\ ExportInterval \in Nat
  BY DEF TypeInv, Times, Runner, LoopAssumption
<1>p. now' \in Nat /\ now <= now' /\ metrics'.samples \in Nat /\ metrics.samples <= metrics'.samples
  <2>1. now' \in Nat /\ metrics'.samples \in Nat
    <3>1. TypeInv'
      BY TypeInvStep
    <3>2. now' \in Times /\ metrics'.samples \in Nat
      BY <3>1 DEF TypeInv, Times
    <3> QED BY <3>2 DEF Times
  <2>2. CASE AckTimesOut
    <3>1. now' = Clamp(now + SocketTimeout) /\ metrics' = metrics
      BY <2>2 DEF AckTimesOut, reports
    <3>2. now <= now'
      BY <3>1, ClampIsLater DEF TypeInv, LoopAssumption
    <3> QED BY <2>1, <3>1, <3>2, <1>t
  <2>3. CASE CompleteStep
    <3>1. PICK d \in 0 .. MaxStep : now' = Clamp(now + d)
      BY <2>3 DEF CompleteStep
    <3>2. d \in Nat /\ now \in Times
      BY DEF LoopAssumption, TypeInv
    <3>3. now <= now'
      BY <3>1, <3>2, ClampIsLater
    <3>4. metrics'.samples = metrics.samples \/ metrics'.samples = metrics.samples + 1
      BY <2>3 DEF CompleteStep, CommitMetrics
    <3> QED BY <2>1, <3>3, <3>4, <1>t
  <2>4. CASE now' = now /\ metrics' = metrics
    BY <1>t, <2>1, <2>4
  <2>5. AckTimesOut \/ CompleteStep \/ (now' = now /\ metrics' = metrics)
    BY DEF Next, LoopStep, StartTick, SendHeartbeat, HeartbeatSendFails, ReceiveAck, SendClientStats,
           RunTurn, ExportAndRefresh, AckArrives, RequestStop, reports
  <2> QED BY <2>2, <2>3, <2>4, <2>5
<1>1. ASSUME cadence' = cadence, runner'.refreshed <= cadence.exported
      PROVE  ExportInv'
  <2>1. LastExport' = LastExport /\ LastExport \in Nat
    BY <1>1, <1>t DEF LastExport
  <2>2. LastExport <= now' /\ cadence.covered <= metrics'.samples
    BY <1>t, <1>p, <2>1 DEF ExportInv
  <2> QED BY <1>1, <2>1, <2>2 DEF ExportInv
<1>2. CASE CompleteStep
  <2>1. runner' = Invocation(Ordering) /\ cadence' = cadence
    BY <1>2 DEF CompleteStep
  <2>2. runner'.refreshed = runner.refreshed
    BY <2>1, OrderingTypes, InvocationTypes
  <2> QED BY <1>1, <2>1, <2>2 DEF ExportInv
<1>3. CASE RunTurn
  <2>1. cadence' = cadence
    BY <1>3 DEF RunTurn, reports
  <2>2. CASE StopTurn
    <3>1. runner' = [runner EXCEPT !.result = "Stopped", !.cleanup = CleanupActions]
      BY <2>2 DEF StopTurn
    <3>2. runner'.refreshed = runner.refreshed
      BY <3>1 DEF TypeInv, Runner
    <3> QED BY <1>1, <2>1, <3>2 DEF ExportInv
  <2>3. CASE ContinueTurn
    <3> DEFINE turns == runner.turns + 1
               one == [runner EXCEPT !.turns = turns]
               last == WithWakeup(PlannedExecution(runner.work))
               turned == [one EXCEPT !.last = last]
    <3>1. runner' = turned \/ runner' = [turned EXCEPT !.result = "Completed"]
      BY <2>3 DEF ContinueTurn
    <3>2. one.refreshed = runner.refreshed /\ "refreshed" \in DOMAIN one
      BY DEF TypeInv, Runner
    <3> HIDE DEF one, last
    <3>3. turned.refreshed = runner.refreshed /\ "refreshed" \in DOMAIN turned
      BY <3>2
    <3> HIDE DEF turned
    <3>4. runner'.refreshed = runner.refreshed
      BY <3>1, <3>3
    <3> QED BY <1>1, <2>1, <3>4 DEF ExportInv
  <2> QED BY <1>3, <2>2, <2>3 DEF RunTurn
<1>4. CASE ExportAndRefresh
  <2>1. CASE ExportDue
    <3>1. /\ cadence' = Exported /\ now' = now /\ metrics' = metrics
          /\ \E applied \in 0 .. 1 :
               runner' = [NoRunner EXCEPT !.cleanup = runner.cleanup,
                                          !.refreshed = runner.refreshed + applied]
      BY <1>4, <2>1 DEF ExportAndRefresh
    <3>2. /\ cadence'.started = cadence.started /\ cadence'.last = now
          /\ cadence'.exported = cadence.exported + 1 /\ cadence'.covered = metrics.samples
      BY <3>1 DEF Exported, TypeInv
    <3>3. runner'.refreshed = runner.refreshed \/ runner'.refreshed = runner.refreshed + 1
      <4>1. PICK applied \in 0 .. 1 :
              runner' = [NoRunner EXCEPT !.cleanup = runner.cleanup,
                                         !.refreshed = runner.refreshed + applied]
        BY <3>1
      <4>2. runner'.refreshed = runner.refreshed + applied
        BY <4>1 DEF NoRunner
      <4> QED BY <1>t, <4>2
    <3>4. now >= LastExport + ExportInterval
      BY <2>1 DEF ExportDue, NextDue, LastExport
    <3>5. now # 0 /\ LastExport' = now
      <4>1. now # 0
        BY DEF TypeInv, Times
      <4> QED BY <3>2, <4>1 DEF LastExport
    <3>6. cadence.started + (cadence.exported + 1) * ExportInterval <= now
      <4> DEFINE paced == cadence.exported * ExportInterval
      <4>1. paced \in Nat /\ LastExport \in Nat
        BY <1>t DEF LastExport
      <4>2. (cadence.exported + 1) * ExportInterval = paced + ExportInterval
        BY <1>t
      <4>3. cadence.started + paced <= LastExport
        BY DEF ExportInv
      <4> HIDE DEF paced
      <4> QED BY <1>t, <3>4, <4>1, <4>2, <4>3
    <3>7. cadence'.started + cadence'.exported * ExportInterval <= LastExport'
      BY <3>2, <3>5, <3>6
    <3>8. runner'.refreshed <= cadence'.exported
      BY <1>t, <3>2, <3>3 DEF ExportInv
    <3>9. LastExport' <= now' /\ cadence'.covered <= metrics'.samples /\ cadence'.started >= 1
      BY <1>t, <3>1, <3>2, <3>5 DEF ExportInv
    <3> QED BY <3>7, <3>8, <3>9 DEF ExportInv
  <2>2. CASE ~ExportDue
    <3>1. cadence' = cadence
          /\ runner' = [NoRunner EXCEPT !.cleanup = runner.cleanup, !.refreshed = runner.refreshed]
      BY <1>4, <2>2 DEF ExportAndRefresh
    <3>2. runner'.refreshed = runner.refreshed
      BY <3>1 DEF NoRunner
    <3> QED BY <1>1, <3>1, <3>2 DEF ExportInv
  <2> QED BY <2>1, <2>2
<1>5. CASE StartTick \/ SendHeartbeat \/ HeartbeatSendFails \/ ReceiveAck \/ AckTimesOut
             \/ SendClientStats \/ AckArrives \/ RequestStop
  <2>1. cadence' = cadence /\ runner' = runner
    BY <1>5 DEF StartTick, SendHeartbeat, HeartbeatSendFails, ReceiveAck, AckTimesOut,
                SendClientStats, AckArrives, RequestStop, reports
  <2> QED BY <1>1, <2>1 DEF ExportInv
<1> QED BY <1>2, <1>3, <1>4, <1>5 DEF Next, LoopStep

---------------------------------------------------------------------------
(***************************************************************************)
(* Together.                                                               *)
(***************************************************************************)
LEMMA LoopInvInit == ASSUME LoopAssumption, Init PROVE LoopInv
<1>1. TypeInv
  BY TypeInvInit
<1>2. /\ counters.sent = 0 /\ counters.received = 0 /\ counters.missed = 0
      /\ counters.ackFailures = 0 /\ counters.stats = 0 /\ counters.statsFailures = 0
      /\ counters.lastSent = 0 /\ pc = "tick" /\ step = IdleStep
      /\ Unanswered = 0 /\ Unreturned = 0
  BY DEF Init, ZeroCounters, Unanswered, Unreturned
<1>3. step.ack = FALSE /\ step.retry.planned = FALSE
  BY <1>2 DEF IdleStep, NoRetry
<1>4. CountInv
  <2>1. MaxHeartbeats \in Nat /\ MaxMissedAcks \in Nat
    BY DEF LoopAssumption
  <2> QED BY <1>2, <2>1 DEF CountInv, NeverPastLimit
<1>5. AckInv
  <2>1. acked = {} /\ metrics.samples = 0 /\ metrics.latest = 0
    BY DEF Init
  <2>2. IsFiniteSet({}) /\ Cardinality({}) = 0
    BY FS_EmptySet
  <2>3. acked = {} => IsFiniteSet(acked) /\ Cardinality(acked) = 0
    BY <2>2
  <2> QED BY <1>2, <1>3, <2>1, <2>3 DEF AckInv
<1>6. RetryInv
  <2>1. carry.attempts = Lesser(streak, MaxAttempts)
    BY DEF Init, Lesser, LoopAssumption
  <2> QED BY <1>2, <1>3, <2>1 DEF RetryInv
<1>7. ExportInv
  <2>1. /\ cadence.started = 1 /\ cadence.last = 0 /\ cadence.exported = 0 /\ cadence.covered = 0
        /\ metrics.samples = 0 /\ runner.refreshed = 0 /\ now = 1 /\ ExportInterval \in Nat
    BY DEF Init, NoRunner, LoopAssumption
  <2> QED BY <2>1 DEF ExportInv, LastExport
<1> QED BY <1>1, <1>4, <1>5, <1>6, <1>7 DEF LoopInv

LEMMA LoopInvStep == ASSUME LoopAssumption, LoopInv, [Next]_vars PROVE LoopInv'
<1>1. CASE Next
  BY <1>1, TypeInvStep, CountInvStep, AckInvStep, RetryInvStep, ExportInvStep DEF LoopInv
<1>2. CASE UNCHANGED vars
  <2>1. TypeInv' /\ CountInv'
    BY <1>2 DEF vars, LoopInv, TypeInv, CountInv, NeverPastLimit, Unanswered, Unreturned
  <2>2. AckInv' /\ RetryInv'
    BY <1>2 DEF vars, LoopInv, AckInv, RetryInv
  <2>3. ExportInv'
    BY <1>2 DEF vars, LoopInv, ExportInv, LastExport
  <2> QED BY <2>1, <2>2, <2>3 DEF LoopInv
<1> QED BY <1>1, <1>2

LEMMA LoopInvAlways == ASSUME LoopAssumption PROVE Spec => []LoopInv
<1>1. Init => LoopInv
  BY LoopInvInit
<1>2. LoopInv /\ [Next]_vars => LoopInv'
  BY LoopInvStep
<1> QED BY <1>1, <1>2, PTL DEF Spec

LEMMA LoopInvImplies == ASSUME LoopAssumption, LoopInv PROVE ClientLoopInvariant
<1>t. /\ counters \in Counters /\ metrics.samples \in Nat /\ step.ack \in BOOLEAN
      /\ ExportInterval \in Nat /\ cadence.exported \in Nat /\ cadence.started \in Nat
      /\ cadence.last \in Nat /\ now \in Nat
  BY DEF LoopInv, TypeInv, Step, LoopAssumption, Times
<1>1. HeartbeatTypeOK
  <2>1. carry.now \in 1 .. now
    <3>1. carry.now \in Times /\ carry.now <= now
      BY DEF LoopInv, TypeInv
    <3> QED BY <1>t, <3>1 DEF Times
  <2>2. /\ carry.attempts \in 0 .. MaxAttempts /\ runner.turns \in 0 .. MaxTurns
    BY DEF LoopInv, TypeInv, Runner
  <2> QED BY <2>1, <2>2 DEF LoopInv, TypeInv, HeartbeatTypeOK
<1>2. CountersAddUp
  <2>1. ASSUME pc \in {"tick", "complete", "turns", "export", "stopped"}
        PROVE  Unanswered = 0 /\ Unreturned = 0
    BY <2>1 DEF Unanswered, Unreturned
  <2>2. /\ counters.received \in Nat /\ counters.stats \in Nat /\ counters.statsFailures \in Nat
    BY <1>t DEF Counters
  <2> QED BY <2>1, <2>2 DEF LoopInv, CountInv, CountersAddUp
<1>3. AckCountedOnce
  <2>1. counters.received \in Nat
    BY <1>t DEF Counters
  <2>2. metrics.samples <= counters.received
    <3>1. CASE step.ack = TRUE
      <4>1. metrics.samples + 1 <= counters.received
        BY <3>1 DEF LoopInv, AckInv
      <4> QED BY <1>t, <2>1, <4>1
    <3>2. CASE ~(step.ack = TRUE)
      <4>1. metrics.samples + 0 <= counters.received
        BY <3>2 DEF LoopInv, AckInv
      <4> QED BY <1>t, <2>1, <4>1
    <3> QED BY <3>1, <3>2
  <2> QED BY <2>2 DEF LoopInv, AckInv, AckCountedOnce
<1>4. NeverPastLimit
  BY DEF LoopInv, CountInv
<1>5. RetryBudgetFollowsFailures
  BY DEF LoopInv, RetryInv, RetryBudgetFollowsFailures
<1>6. ExportsPaced
  <2> DEFINE paced == cadence.exported * ExportInterval
  <2>1. paced \in Nat /\ LastExport \in Nat
    BY <1>t DEF LastExport
  <2>2. cadence.started + paced <= LastExport /\ LastExport <= now
    BY DEF LoopInv, ExportInv
  <2>3. cadence.covered <= metrics.samples /\ runner.refreshed <= cadence.exported
    BY DEF LoopInv, ExportInv
  <2> HIDE DEF paced
  <2>4. paced <= now - cadence.started
    BY <1>t, <2>1, <2>2
  <2> QED BY <2>3, <2>4 DEF ExportsPaced, paced
<1> QED BY <1>1, <1>2, <1>3, <1>4, <1>5, <1>6 DEF ClientLoopInvariant

\* Whatever the intervals, limits, retry policy and network: the loop's
\* counters account for every heartbeat, an acknowledgement counts once, no
\* limit is overrun, the retry budget is the run of failures and exports keep
\* their interval (commit_result, RetryBoundary::decide, plan_next,
\* the snapshot cadence).
THEOREM ClientLoopIsSound ==
    ASSUME LoopAssumption PROVE Spec => []ClientLoopInvariant
<1>1. LoopInv => ClientLoopInvariant
  BY LoopInvImplies
<1> QED BY <1>1, LoopInvAlways, PTL

\* A step can only send where the policy found the heartbeat due.
LEMMA SendsAreDue ==
    ASSUME LoopAssumption, LoopInv, [Next]_vars
    PROVE  SendsSpacedByCadence
<1>t. /\ counters \in Counters /\ carry.now \in Nat /\ now \in Nat
      /\ counters.sent \in Nat /\ counters.lastSent \in Nat /\ Interval \in Nat
      /\ TypeInv
  <2>1. TypeInv /\ counters \in Counters /\ carry.now \in Times /\ now \in Times
    BY DEF LoopInv, TypeInv
  <2> QED BY <2>1 DEF Counters, Times, LoopAssumption
<1>1. CASE SendHeartbeat
  <2> DEFINE sent == commit_result(counters, "HeartbeatSent", carry.now)
             missed == commit_result(sent, "AckMissed", carry.now)
  <2>1. sent \in Counters
    BY <1>t, CommitTypes DEF Results
  <2>2. sent.lastSent = carry.now /\ missed.lastSent = sent.lastSent
    BY <1>t, <2>1, CommitFields
  <2>3. pc = "send" /\ (counters' = missed \/ counters' = sent)
    BY <1>1 DEF SendHeartbeat
  <2> HIDE DEF sent, missed
  <2>4. counters'.lastSent = carry.now
    BY <2>2, <2>3
  <2>5. counters.lastSent = 0 \/ carry.now >= counters.lastSent + Interval
    BY <2>3 DEF LoopInv, AckInv
  <2>6. counters.lastSent = 0 => counters.sent = 0
    BY DEF LoopInv, AckInv
  <2> QED BY <2>4, <2>5, <2>6 DEF SendsSpacedByCadence
<1>2. ASSUME counters'.sent = counters.sent PROVE SendsSpacedByCadence
  BY <1>t, <1>2 DEF SendsSpacedByCadence
\* A failure is not a heartbeat sent.
<1>3. ASSUME NEW c \in Counters, NEW kind \in Failures, Failed(c, kind), c.sent = counters.sent
      PROVE  counters'.sent = counters.sent
  <2>1. counters' = commit_result(c, kind, carry.now)
    BY <1>3 DEF Failed
  <2> QED BY <1>t, <1>3, <2>1, CommitFields DEF Failures
<1>4. CASE HeartbeatSendFails
  <2>1. Failed(counters, "HeartbeatSend")
    BY <1>4 DEF HeartbeatSendFails
  <2> QED BY <1>t, <1>2, <1>3, <2>1 DEF Failures
<1>5. CASE ReceiveAck
  <2>1. counters' = commit_result(counters, "AckReceived", now) \/ Failed(counters, "AckReceive")
    BY <1>5 DEF ReceiveAck
  <2>2. commit_result(counters, "AckReceived", now).sent = counters.sent
    BY <1>t, CommitFields
  <2> QED BY <1>t, <1>2, <1>3, <2>1, <2>2 DEF Failures
<1>6. CASE AckTimesOut
  <2> DEFINE missed == commit_result(counters, "AckMissed", carry.now)
  <2>1. missed \in Counters
    BY <1>t, CommitTypes DEF Results
  <2>2. missed.sent = counters.sent
    BY <1>t, CommitFields
  <2>3. Failed(missed, "AckReceive")
    BY <1>6 DEF AckTimesOut
  <2> HIDE DEF missed
  <2> QED BY <1>2, <1>3, <2>1, <2>2, <2>3 DEF Failures
<1>7. CASE SendClientStats
  <2>1. \/ counters' = commit_result(counters, "ClientStatsReturnSent", now)
        \/ Failed(counters, "ClientStatsReturnSend")
    BY <1>7 DEF SendClientStats
  <2>2. commit_result(counters, "ClientStatsReturnSent", now).sent = counters.sent
    BY <1>t, CommitFields
  <2> QED BY <1>t, <1>2, <1>3, <2>1, <2>2 DEF Failures
<1>8. CASE StartTick \/ CompleteStep \/ RunTurn \/ ExportAndRefresh \/ AckArrives \/ RequestStop
           \/ UNCHANGED vars
  <2>1. counters' = counters
    BY <1>8 DEF StartTick, CompleteStep, RunTurn, ExportAndRefresh, AckArrives, RequestStop, vars
  <2> QED BY <1>2, <2>1
<1> QED BY <1>1, <1>4, <1>5, <1>6, <1>7, <1>8 DEF Next, LoopStep

\* Two heartbeats that left are an interval apart, whatever retry the failures
\* between them asked for (HeartbeatLoopPolicyBoundary::evaluate).
THEOREM HeartbeatsKeepTheirInterval ==
    ASSUME LoopAssumption PROVE Spec => [][SendsSpacedByCadence]_vars
<1>1. LoopInv /\ [Next]_vars => [SendsSpacedByCadence]_vars
  BY SendsAreDue
<1> QED BY <1>1, LoopInvAlways, PTL DEF Spec

-----------------------------------------------------------------------------
(***************************************************************************)
(* The server's sweep.  Names that both ends use are the server's here.    *)
(***************************************************************************)
CONSTANTS
  Clients, Runs, Sources, Timeout, TickInterval, SweepExportInterval, MaxTicks,
  SweepAttempts, SweepRetryDelay, QueueCap, LogMayFail, SweepMaxNow, QuietAfter,
  MaxAuths, MaxRejections

VARIABLES
  serverNow, registry, liveness, notices, serverMetrics, loop, serverStop, tally,
  own, heard, auths

Server == INSTANCE HeartbeatSweep WITH
  now <- serverNow, metrics <- serverMetrics, stop <- serverStop,
  MaxAttempts <- SweepAttempts, RetryDelay <- SweepRetryDelay,
  ExportInterval <- SweepExportInterval, MaxNow <- SweepMaxNow

RejectionCounters == [total : Nat, skipped : Nat, rtt : Nat, offset : Nat]
Metrics == UNION { [D -> RejectionCounters] : D \in SUBSET (Clients \X Runs) }
NoticeType == [client : Clients, source : Sources, run : Runs]

SweepLoopType ==
  [pc : {"policy", "waiting", "retry", "gaveUp", "stopped"}, ticks : Nat,
   lastTick : Nat, exports : Nat, lastExport : Nat, attempts : 0 .. SweepAttempts,
   wake : Nat, snapshot : Metrics]

TallyType == [expired : Nat, told : Nat, full : Nat, unlogged : Nat, rejected : Nat]

(***************************************************************************)
(* The inductive invariant, by the part of the state it is about.  A step  *)
(* that removes a client needs a finite registry, and that the time of the *)
(* liveness entry is the time the client was heard last.                   *)
(***************************************************************************)
ClockInv == serverNow \in 1 .. SweepMaxNow

RegistryInv ==
  /\ registry = [c \in DOMAIN registry |-> registry[c]]
  /\ DOMAIN registry \subseteq Clients
  /\ IsFiniteSet(DOMAIN registry)
  /\ \A c \in DOMAIN registry : registry[c] \in Server!Binding
  /\ own \subseteq DOMAIN registry

LivenessInv ==
  /\ DOMAIN liveness \subseteq Clients
  /\ \A c \in DOMAIN liveness :
       /\ liveness[c] \in [source : Sources, run : Runs, received : 1 .. serverNow]
       /\ c \in DOMAIN heard
       /\ heard[c] = liveness[c].received

NoticesInv == notices \in Seq(NoticeType) /\ Len(notices) <= QueueCap

SweepLoopInv == loop \in SweepLoopType /\ Server!WakesForNextWork

TallyInv == tally \in TallyType /\ Server!EveryTimeoutHasOneOutcome

MetricsInv == serverMetrics \in Metrics /\ Server!SnapshotsAddUp

SweepInv ==
  /\ ClockInv /\ RegistryInv /\ LivenessInv /\ Server!OwnEntryJudgesBinding
  /\ NoticesInv /\ SweepLoopInv /\ TallyInv /\ MetricsInv

-----------------------------------------------------------------------------
\* A nonempty set of naturals has a least element.
LEMMA LeastExists ==
  ASSUME NEW T, T \subseteq Nat, T # {}
  PROVE  \E m \in T : \A n \in T : m <= n
<1> DEFINE R == OpToRel(<, Nat)
<1>1. \E x \in T : \A y \in T : ~(<<y, x>> \in R)
  <2>1. IsWellFoundedOn(R, Nat)
    BY NatLessThanWellFounded
  <2> HIDE DEF R
  <2> QED BY <2>1, WFMin
<1>2. ASSUME NEW x \in Nat, NEW y \in Nat, ~(<<y, x>> \in R) PROVE x <= y
  BY <1>2 DEF OpToRel
<1> HIDE DEF R
<1> QED BY <1>1, <1>2

\* The clients of a set in their order: taking out the least leaves a shorter
\* enumeration of the others.
LEMMA OrderExists ==
  ASSUME NEW S \in SUBSET Nat, IsFiniteSet(S)
  PROVE  \E q \in [1 .. Cardinality(S) -> S] :
           \A i, j \in 1 .. Cardinality(S) : i < j => q[i] < q[j]
<1> DEFINE Ordered(s) ==
      \E q \in [1 .. Cardinality(s) -> s] :
        \A i, j \in 1 .. Cardinality(s) : i < j => q[i] < q[j]
    Bad == { s \in SUBSET S : ~Ordered(s) }
    Sizes == { Cardinality(s) : s \in Bad }
<1>0. \A s \in SUBSET S : IsFiniteSet(s) /\ Cardinality(s) \in Nat
  BY FS_Subset, FS_CardinalityType
<1>1. SUFFICES ASSUME Bad # {} PROVE FALSE
  OBVIOUS
<1>2. PICK s \in Bad : \A t \in Bad : Cardinality(s) <= Cardinality(t)
  <2>1. Sizes \subseteq Nat /\ Sizes # {}
    <3>1. Sizes # {}
      BY <1>1
    <3>2. \A n \in Sizes : n \in Nat
      BY <1>0
    <3> QED BY <3>1, <3>2
  <2>2. PICK n \in Sizes : \A m \in Sizes : n <= m
    <3> HIDE DEF Sizes
    <3> QED BY <2>1, LeastExists
  <2> QED BY <2>2
<1>3. s \in SUBSET S /\ ~Ordered(s) /\ s \in SUBSET Nat
  BY <1>2
<1>4. s # {}
  <2>1. ASSUME s = {} PROVE FALSE
    <3>1. Cardinality(s) = 0
      BY <2>1, FS_EmptySet
    <3>2. 1 .. Cardinality(s) = {}
      BY <3>1
    <3>3. [i \in 1 .. Cardinality(s) |-> 0] \in [1 .. Cardinality(s) -> s]
      BY <3>2
    <3>4. Ordered(s)
      BY <3>2, <3>3
    <3> QED BY <1>3, <3>4
  <2> QED BY <2>1
<1>5. PICK m \in s : \A n \in s : m <= n
  BY <1>3, <1>4, LeastExists
<1> DEFINE r == s \ {m}
<1>6. r \in SUBSET S /\ Cardinality(r) = Cardinality(s) - 1 /\ Cardinality(s) # 0
  BY <1>0, <1>3, <1>4, FS_RemoveElement, FS_EmptySet
<1>7. Ordered(r)
  <2>1. ~(Cardinality(s) <= Cardinality(r))
    BY <1>0, <1>3, <1>6
  <2>2. r \notin Bad
    BY <1>2, <2>1
  <2> QED BY <1>6, <2>2
<1>8. PICK q \in [1 .. Cardinality(r) -> r] :
         \A i, j \in 1 .. Cardinality(r) : i < j => q[i] < q[j]
  BY <1>7
<1> DEFINE e == [i \in 1 .. Cardinality(s) |-> IF i = 1 THEN m ELSE q[i - 1]]
<1>9. ASSUME NEW i \in 1 .. Cardinality(s), i # 1
      PROVE  i - 1 \in 1 .. Cardinality(r) /\ e[i] = q[i - 1] /\ e[i] \in r
  <2>1. Cardinality(s) \in Nat /\ Cardinality(r) = Cardinality(s) - 1
    BY <1>0, <1>3, <1>6
  <2> HIDE DEF r
  <2>2. i - 1 \in 1 .. Cardinality(r)
    BY <1>9, <2>1
  <2>3. e[i] = q[i - 1]
    BY <1>9
  <2> QED BY <1>8, <2>2, <2>3
<1>10. e \in [1 .. Cardinality(s) -> s]
  <2>1. ASSUME NEW i \in 1 .. Cardinality(s) PROVE e[i] \in s
    BY <1>9
  <2> QED BY <2>1
<1>11. ASSUME NEW i \in 1 .. Cardinality(s), NEW j \in 1 .. Cardinality(s), i < j
       PROVE  e[i] < e[j]
  <2>1. j # 1 /\ j \in Nat /\ i \in Nat
    BY <1>0, <1>3, <1>11
  <2>2. e[j] = q[j - 1] /\ e[j] \in r /\ j - 1 \in 1 .. Cardinality(r)
    BY <1>9, <2>1
  <2>3. CASE i = 1
    <3>1. e[i] = m /\ m <= e[j] /\ m # e[j] /\ m \in Nat /\ e[j] \in Nat
      BY <1>3, <1>5, <2>2, <2>3
    <3> QED BY <3>1
  <2>4. CASE i # 1
    <3>1. e[i] = q[i - 1] /\ i - 1 \in 1 .. Cardinality(r)
      BY <1>9, <2>4
    <3>2. i - 1 < j - 1
      BY <1>11, <2>1
    <3>3. q[i - 1] < q[j - 1]
      BY <1>8, <2>2, <3>1, <3>2
    <3> QED BY <2>2, <3>1, <3>3
  <2> QED BY <2>3, <2>4
<1> HIDE DEF e
<1> QED BY <1>3, <1>10, <1>11

\* The instance counts a set as this module does.
LEMMA ServerCounts ==
  ASSUME NEW S
  PROVE  Server!Cardinality(S) = Cardinality(S)
BY DEF Server!Cardinality, Cardinality

LEMMA InOrderType ==
  ASSUME NEW S \in SUBSET Nat, IsFiniteSet(S)
  PROVE  Server!InOrder(S) \in [1 .. Cardinality(S) -> S]
BY OrderExists, ServerCounts DEF Server!InOrder

-----------------------------------------------------------------------------
\* What a pass puts on the queue: notices for clients it tells, as many as there
\* is room for.
LEMMA StoredNotices ==
  ASSUME NEW told \in SUBSET Nat, IsFiniteSet(told),
         Len(notices) \in Nat, QueueCap \in Nat
  PROVE  /\ Len(Server!Stored(told)) \in Nat
         /\ Server!Stored(told) =
              [i \in 1 .. Len(Server!Stored(told)) |-> Server!Stored(told)[i]]
         /\ Len(Server!Stored(told)) <= Cardinality(told)
         /\ Len(notices) <= QueueCap => Len(notices) + Len(Server!Stored(told)) <= QueueCap
         /\ \A i \in 1 .. Len(Server!Stored(told)) :
              \E c \in told : Server!Stored(told)[i] = Server!Notice(c)
<1> DEFINE kept == IF Server!Room < Cardinality(told) THEN Server!Room ELSE Cardinality(told)
<1>1. Cardinality(told) \in Nat
  BY FS_CardinalityType
<1>2. Server!Room \in Nat /\ (Len(notices) <= QueueCap => Len(notices) + Server!Room <= QueueCap)
  BY DEF Server!Room
<1>3. /\ kept \in Nat /\ kept <= Cardinality(told)
      /\ Len(notices) <= QueueCap => Len(notices) + kept <= QueueCap
  BY <1>1, <1>2
<1>4. Server!Stored(told) = [i \in 1 .. kept |-> Server!Notice(Server!InOrder(told)[i])]
  BY ServerCounts DEF Server!Stored
<1> HIDE DEF kept
<1>5. Len(Server!Stored(told)) = kept
  BY <1>3, <1>4
<1>6. ASSUME NEW i \in 1 .. kept PROVE \E c \in told : Server!Stored(told)[i] = Server!Notice(c)
  <2>1. i \in 1 .. Cardinality(told)
    BY <1>1, <1>3
  <2>2. Server!InOrder(told)[i] \in told
    BY <2>1, InOrderType
  <2> QED BY <1>4, <2>2
<1> QED BY <1>3, <1>4, <1>5, <1>6

\* The clients a pass removes: all that timed out, or those up to the one whose
\* log write fails; one more than it tells in the second case.
Told(failing) == { c \in Server!Expired : failing = 0 \/ c < failing }

LEMMA ExpiredFinite ==
  ASSUME Server!SweepAssumption, RegistryInv
  PROVE  /\ IsFiniteSet(Server!Expired) /\ Server!Expired \subseteq DOMAIN registry
         /\ Server!Expired \in SUBSET Nat /\ 0 \notin Server!Expired
<1>1. Server!Expired \subseteq DOMAIN registry
  BY DEF Server!Expired
<1> QED BY <1>1, FS_Subset DEF RegistryInv, Server!SweepAssumption

LEMMA RemovedAndTold ==
  ASSUME Server!SweepAssumption, RegistryInv, NEW failing \in Server!Expired \cup {0}
  PROVE  /\ Told(failing) \subseteq Server!Invalidated(failing)
         /\ Server!Invalidated(failing) \subseteq Server!Expired
         /\ IsFiniteSet(Told(failing)) /\ Told(failing) \in SUBSET Nat
         /\ Cardinality(Told(failing)) \in Nat
         /\ Cardinality(Server!Invalidated(failing)) =
              Cardinality(Told(failing)) + (IF failing = 0 THEN 0 ELSE 1)
         /\ failing # 0 => failing \in Server!Invalidated(failing)
<1>0. IsFiniteSet(Server!Expired) /\ Server!Expired \in SUBSET Nat /\ 0 \notin Server!Expired
  BY ExpiredFinite
<1>1. Told(failing) \subseteq Server!Expired /\ Server!Invalidated(failing) \subseteq Server!Expired
  BY DEF Told, Server!Invalidated
<1>2. /\ IsFiniteSet(Told(failing)) /\ Told(failing) \in SUBSET Nat
      /\ Cardinality(Told(failing)) \in Nat
  BY <1>0, <1>1, FS_Subset, FS_CardinalityType
<1>3. CASE failing = 0
  <2>1. Told(failing) = Server!Invalidated(failing)
    BY <1>3 DEF Told, Server!Invalidated
  <2> QED BY <1>1, <1>2, <1>3, <2>1
<1>4. CASE failing # 0
  <2>1. failing \in Server!Expired /\ failing \in Nat
    BY <1>0, <1>4
  <2>2. /\ Server!Invalidated(failing) = Told(failing) \cup {failing}
        /\ failing \notin Told(failing)
    <3>1. \A c \in Server!Expired : c <= failing <=> c < failing \/ c = failing
      BY <1>0, <2>1
    <3>2. ~(failing < failing)
      BY <2>1
    <3> QED BY <1>4, <2>1, <3>1, <3>2 DEF Told, Server!Invalidated
  <2>3. Cardinality(Server!Invalidated(failing)) = Cardinality(Told(failing)) + 1
    BY <1>2, <2>2, FS_AddElement
  <2> QED BY <1>1, <1>2, <1>4, <2>2, <2>3
<1> QED BY <1>3, <1>4

-----------------------------------------------------------------------------
(***************************************************************************)
(* One pass over the registered clients, whether a write of the log fails  *)
(* or not.                                                                 *)
(***************************************************************************)

\* A timed-out client was heard, and has been silent since.
LEMMA ExpiredWasSilent ==
  ASSUME Server!SweepAssumption, ClockInv, LivenessInv, NEW c \in Server!Expired
  PROVE  c \in DOMAIN liveness /\ c \in DOMAIN heard /\ serverNow >= heard[c] + Timeout
<1>1. c \in DOMAIN liveness /\ Server!Elapsed(liveness[c].received) >= Timeout
  BY DEF Server!Expired, Server!TimedOut
<1>2. /\ c \in DOMAIN heard /\ heard[c] = liveness[c].received
      /\ liveness[c].received \in 1 .. serverNow
  BY <1>1 DEF LivenessInv
<1>3. serverNow \in Nat /\ Timeout \in Nat
  BY DEF ClockInv, Server!SweepAssumption
<1>4. serverNow - heard[c] >= Timeout
  <2>1. CASE serverNow > heard[c]
    BY <1>1, <1>2, <2>1 DEF Server!Elapsed
  <2>2. CASE ~(serverNow > heard[c])
    <3>1. 0 >= Timeout
      BY <1>1, <1>2, <2>2 DEF Server!Elapsed
    <3> QED BY <1>2, <1>3, <3>1
  <2> QED BY <2>1, <2>2
<1> QED BY <1>1, <1>2, <1>3, <1>4

\* The registry after a pass is the registry without the removed clients.
LEMMA PassRegistry ==
  ASSUME Server!SweepAssumption, SweepInv, NEW failing \in Server!Expired \cup {0},
         Server!Sweep(failing),
         liveness' = liveness
  PROVE  /\ RegistryInv' /\ Server!OwnEntryJudgesBinding'
         /\ DOMAIN registry \ DOMAIN registry' = Server!Invalidated(failing)
         /\ \A c \in Server!Invalidated(failing) : c \in DOMAIN registry
         /\ failing # 0 => registry' # registry
<1> DEFINE gone == Server!Invalidated(failing)
<1>1. gone \subseteq Server!Expired /\ Server!Expired \subseteq DOMAIN registry
      /\ (failing # 0 => failing \in gone)
  BY RemovedAndTold, ExpiredFinite DEF SweepInv
<1>2. registry' = [c \in DOMAIN registry \ gone |-> registry[c]] /\ own' = own \ gone
  BY DEF Server!Sweep
<1> HIDE DEF gone
<1>3. DOMAIN registry' = DOMAIN registry \ gone /\ \A c \in DOMAIN registry' : registry'[c] = registry[c]
  BY <1>2
<1>4. RegistryInv'
  <2>1. IsFiniteSet(DOMAIN registry')
    BY <1>3, FS_Subset DEF SweepInv, RegistryInv
  <2>2. /\ DOMAIN registry' \subseteq Clients
        /\ \A c \in DOMAIN registry' : registry'[c] \in Server!Binding
        /\ own' \subseteq DOMAIN registry'
    BY <1>2, <1>3 DEF SweepInv, RegistryInv
  <2>3. registry' = [c \in DOMAIN registry' |-> registry'[c]]
    BY <1>2
  <2> QED BY <2>1, <2>2, <2>3 DEF RegistryInv
<1>5. Server!OwnEntryJudgesBinding'
  <2>1. ASSUME NEW c \in own'
        PROVE  /\ c \in DOMAIN liveness' /\ liveness'[c].source = registry'[c].source
               /\ liveness'[c].run = registry'[c].run
    <3>1. c \in own /\ c \in DOMAIN registry'
      BY <1>2, <1>3 DEF SweepInv, RegistryInv
    <3> QED BY <1>3, <3>1 DEF SweepInv, Server!OwnEntryJudgesBinding
  <2> QED BY <2>1 DEF Server!OwnEntryJudgesBinding
<1>6. DOMAIN registry \ DOMAIN registry' = gone
  BY <1>1, <1>3
<1>7. failing # 0 => registry' # registry
  BY <1>1, <1>3
<1> QED BY <1>1, <1>4, <1>5, <1>6, <1>7 DEF gone

LEMMA OutcomesAddUp ==
  ASSUME NEW t \in TallyType, t.expired = t.told + t.full + t.unlogged,
         NEW k \in Nat, NEW i \in Nat, i <= k, NEW u \in Nat,
         NEW n, n = [expired |-> t.expired + (k + u), told |-> t.told + i,
                     full |-> t.full + k - i, unlogged |-> t.unlogged + u,
                     rejected |-> t.rejected]
  PROVE  n \in TallyType /\ n.expired = n.told + n.full + n.unlogged
<1>1. /\ t.expired \in Nat /\ t.told \in Nat /\ t.full \in Nat
      /\ t.unlogged \in Nat /\ t.rejected \in Nat
  BY DEF TallyType
<1>3. t.full + k - i \in Nat
  BY <1>1
<1>4. n \in TallyType
  BY <1>1, <1>3 DEF TallyType
<1>5. t.expired + (k + u) = (t.told + i) + (t.full + k - i) + (t.unlogged + u)
  BY <1>1
<1> QED BY <1>4, <1>5

\* Each removal has its outcome, and each notice taken is for a removed client.
LEMMA PassTells ==
  ASSUME Server!SweepAssumption, SweepInv, NEW failing \in Server!Expired \cup {0},
         Server!Sweep(failing),
         liveness' = liveness
  PROVE  NoticesInv' /\ TallyInv' /\ Server!NoticesReachOwnBinding
<1> DEFINE told == Told(failing)
           stored == Server!Stored(told)
<1>1. /\ told \subseteq Server!Invalidated(failing) /\ told \subseteq Server!Expired
      /\ IsFiniteSet(told) /\ told \in SUBSET Nat /\ Cardinality(told) \in Nat
      /\ Cardinality(Server!Invalidated(failing)) = Cardinality(told) + (IF failing = 0 THEN 0 ELSE 1)
  BY RemovedAndTold DEF SweepInv
<1>2. /\ notices' = notices \o stored
      /\ tally' = [tally EXCEPT !.expired = @ + Cardinality(Server!Invalidated(failing)),
                                !.told = @ + Len(stored),
                                !.full = @ + Cardinality(told) - Len(stored),
                                !.unlogged = @ + (IF failing = 0 THEN 0 ELSE 1)]
  BY ServerCounts DEF Server!Sweep, Told
<1>3. notices \in Seq(NoticeType) /\ Len(notices) \in Nat /\ Len(notices) <= QueueCap /\ QueueCap \in Nat
  BY DEF SweepInv, NoticesInv, Server!SweepAssumption
<1>4. /\ Len(stored) \in Nat /\ stored = [i \in 1 .. Len(stored) |-> stored[i]]
      /\ Len(stored) <= Cardinality(told) /\ Len(notices) + Len(stored) <= QueueCap
      /\ \A i \in 1 .. Len(stored) : \E c \in told : stored[i] = Server!Notice(c)
  <2> HIDE DEF told
  <2> QED BY <1>1, <1>3, StoredNotices
<1> HIDE DEF told, stored
<1>5. ASSUME NEW c \in told
      PROVE  /\ Server!Notice(c) \in NoticeType /\ c \in DOMAIN liveness
             /\ (c \in own => Server!Notice(c).source = registry[c].source)
  <2>1. c \in DOMAIN liveness /\ liveness[c].source \in Sources /\ liveness[c].run \in Runs
        /\ c \in Clients
    BY <1>1, ExpiredWasSilent DEF SweepInv, LivenessInv
  <2>2. c \in own => liveness[c].source = registry[c].source
    BY DEF SweepInv, Server!OwnEntryJudgesBinding
  <2> QED BY <2>1, <2>2 DEF Server!Notice, NoticeType
<1>6. stored \in Seq(NoticeType)
  <2>1. \A i \in 1 .. Len(stored) : stored[i] \in NoticeType
    BY <1>4, <1>5
  <2>2. stored \in [1 .. Len(stored) -> NoticeType]
    BY <1>4, <2>1
  <2> QED BY <1>4, <2>2
<1>7. notices' \in Seq(NoticeType) /\ Len(notices') = Len(notices) + Len(stored)
  BY <1>2, <1>3, <1>6
<1>8. NoticesInv'
  BY <1>4, <1>7 DEF NoticesInv
<1>9. TallyInv'
  <2> DEFINE unlogged == IF failing = 0 THEN 0 ELSE 1
  <2>1. unlogged \in Nat /\ Cardinality(Server!Invalidated(failing)) = Cardinality(told) + unlogged
    BY <1>1
  <2>2. tally \in TallyType /\ tally.expired = tally.told + tally.full + tally.unlogged
    BY DEF SweepInv, TallyInv, Server!EveryTimeoutHasOneOutcome
  <2>3. tally' = [expired |-> tally.expired + (Cardinality(told) + unlogged),
                  told |-> tally.told + Len(stored),
                  full |-> tally.full + Cardinality(told) - Len(stored),
                  unlogged |-> tally.unlogged + unlogged, rejected |-> tally.rejected]
    BY <1>2, <2>1, <2>2 DEF TallyType
  <2> HIDE DEF unlogged
  <2>4. /\ tally' \in TallyType
        /\ tally'.expired = tally'.told + tally'.full + tally'.unlogged
    <3>1. /\ Cardinality(told) \in Nat /\ Len(stored) \in Nat /\ unlogged \in Nat
          /\ Len(stored) <= Cardinality(told)
      BY <1>1, <1>4, <2>1
    <3> DEFINE k == Cardinality(told)
               i == Len(stored)
    <3> HIDE DEF k, i
    <3>2. k \in Nat /\ i \in Nat /\ i <= k
      BY <3>1 DEF k, i
    <3>3. tally' = [expired |-> tally.expired + (k + unlogged), told |-> tally.told + i,
                    full |-> tally.full + k - i, unlogged |-> tally.unlogged + unlogged,
                    rejected |-> tally.rejected]
      BY <2>3 DEF k, i
    <3> QED BY <2>2, <3>1, <3>2, <3>3, OutcomesAddUp
  <2> QED BY <2>4 DEF TallyInv, Server!EveryTimeoutHasOneOutcome
<1>10. Server!NoticesReachOwnBinding
  <2>1. ASSUME NEW i \in Len(notices) + 1 .. Len(notices')
        PROVE  /\ notices'[i].client \in DOMAIN registry \ DOMAIN registry'
               /\ notices'[i].source = liveness[notices'[i].client].source
               /\ notices'[i].run = liveness[notices'[i].client].run
               /\ notices'[i].client \in own =>
                    notices'[i].source = registry[notices'[i].client].source
    <3>1. i - Len(notices) \in 1 .. Len(stored) /\ notices'[i] = stored[i - Len(notices)]
      BY <1>2, <1>3, <1>4, <1>6, <1>7
    <3>2. PICK c \in told : notices'[i] = Server!Notice(c)
      BY <1>4, <3>1
    <3>3. c \in DOMAIN registry \ DOMAIN registry'
      BY <1>1, PassRegistry
    <3> QED BY <1>5, <3>2, <3>3 DEF Server!Notice
  <2> QED BY <2>1 DEF Server!NoticesReachOwnBinding
<1> QED BY <1>8, <1>9, <1>10

\* Only a client that was silent for the whole timeout is removed.
LEMMA PassRemovesSilent ==
  ASSUME Server!SweepAssumption, SweepInv, NEW failing \in Server!Expired \cup {0},
         Server!Sweep(failing),
         liveness' = liveness
  PROVE  Server!SweptOnlyWhenSilent
<1>1. DOMAIN registry \ DOMAIN registry' = Server!Invalidated(failing) /\ Server!Invalidated(failing) \subseteq Server!Expired
  BY PassRegistry, RemovedAndTold DEF SweepInv
<1>2. \A c \in Server!Expired : c \in DOMAIN heard /\ serverNow >= heard[c] + Timeout
  BY ExpiredWasSilent DEF SweepInv
<1> QED BY <1>1, <1>2 DEF Server!SweptOnlyWhenSilent

-----------------------------------------------------------------------------
(***************************************************************************)
(* The steps between two turns of the loop.                                *)
(***************************************************************************)

\* A step that leaves a part of the state alone.
LEMMA Untouched ==
  ASSUME SweepInv
  PROVE  /\ UNCHANGED serverNow => ClockInv'
         /\ UNCHANGED <<registry, own>> => RegistryInv'
         /\ UNCHANGED <<serverNow, liveness, heard>> => LivenessInv'
         /\ UNCHANGED <<registry, liveness, own>> => Server!OwnEntryJudgesBinding'
         /\ UNCHANGED notices => NoticesInv'
         /\ UNCHANGED loop => SweepLoopInv'
         /\ UNCHANGED tally => TallyInv'
         /\ UNCHANGED <<serverMetrics, loop>> => MetricsInv'
<1> USE DEF SweepInv
<1>1. UNCHANGED serverNow => ClockInv'
  BY DEF ClockInv
<1>2. UNCHANGED <<registry, own>> => RegistryInv'
  BY DEF RegistryInv
<1>3. UNCHANGED <<serverNow, liveness, heard>> => LivenessInv'
  BY DEF LivenessInv
<1>4. UNCHANGED <<registry, liveness, own>> => Server!OwnEntryJudgesBinding'
  BY DEF Server!OwnEntryJudgesBinding
<1>5. UNCHANGED notices => NoticesInv'
  BY DEF NoticesInv
<1>6. UNCHANGED loop => SweepLoopInv'
  BY DEF SweepLoopInv, Server!WakesForNextWork
<1>7. UNCHANGED tally => TallyInv'
  BY DEF TallyInv, Server!EveryTimeoutHasOneOutcome
<1>8. UNCHANGED <<serverMetrics, loop>> => MetricsInv'
  BY DEF MetricsInv, Server!SnapshotsAddUp, Server!Counted
<1> QED BY <1>1, <1>2, <1>3, <1>4, <1>5, <1>6, <1>7, <1>8

\* A step that removes no client, takes no notice and retries nothing.
LEMMA NothingSwept ==
  ASSUME SweepInv, DOMAIN registry \subseteq DOMAIN registry',
         Len(notices') <= Len(notices), Len(notices') \in Nat,
         loop'.attempts <= loop.attempts, loop'.attempts \in Nat,
         loop'.pc = "gaveUp" => loop.pc = "gaveUp"
  PROVE  Server!SweepStep
<1>1. Len(notices) \in Nat /\ loop.attempts \in Nat
  BY DEF SweepInv, NoticesInv, SweepLoopInv, SweepLoopType
<1>2. Server!SweptOnlyWhenSilent
  BY DEF Server!SweptOnlyWhenSilent
<1>3. Server!NoticesReachOwnBinding
  <2>1. Len(notices) + 1 .. Len(notices') = {}
    BY <1>1
  <2> QED BY <2>1 DEF Server!NoticesReachOwnBinding
<1>4. Server!EachFailureRemoves
  BY <1>1 DEF Server!EachFailureRemoves
<1> QED BY <1>2, <1>3, <1>4 DEF Server!SweepStep

LEMMA AuthenticateKeeps ==
  ASSUME Server!SweepAssumption, SweepInv, NEW c \in Clients, NEW s \in Sources, NEW r \in Runs,
         Server!Authenticate(c, s, r)
  PROVE  SweepInv' /\ Server!SweepStep
<1>1. /\ registry' = Server!MapInsert(registry, c, [source |-> s, run |-> r])
      /\ own' = own \ {c}
      /\ UNCHANGED <<serverNow, liveness, notices, serverMetrics, loop, serverStop, tally, heard>>
  BY DEF Server!Authenticate
<1>2. /\ DOMAIN registry' = DOMAIN registry \cup {c}
      /\ registry'[c] = [source |-> s, run |-> r]
      /\ \A d \in DOMAIN registry \ {c} : registry'[d] = registry[d]
      /\ registry' = [d \in DOMAIN registry' |-> registry'[d]]
  BY <1>1 DEF Server!MapInsert
<1>3. RegistryInv'
  <2>1. IsFiniteSet(DOMAIN registry')
    BY <1>2, FS_AddElement DEF SweepInv, RegistryInv
  <2>2. /\ DOMAIN registry' \subseteq Clients /\ own' \subseteq DOMAIN registry'
        /\ \A d \in DOMAIN registry' : registry'[d] \in Server!Binding
    BY <1>1, <1>2 DEF SweepInv, RegistryInv, Server!Binding
  <2> QED BY <1>2, <2>1, <2>2 DEF RegistryInv
<1>4. Server!OwnEntryJudgesBinding'
  <2>1. ASSUME NEW d \in own'
        PROVE  /\ d \in DOMAIN liveness' /\ liveness'[d].source = registry'[d].source
               /\ liveness'[d].run = registry'[d].run
    <3>1. d \in own /\ d # c /\ registry'[d] = registry[d]
      BY <1>1, <1>2 DEF SweepInv, RegistryInv
    <3> QED BY <1>1, <3>1 DEF SweepInv, Server!OwnEntryJudgesBinding
  <2> QED BY <2>1 DEF Server!OwnEntryJudgesBinding
<1>5. SweepInv'
  BY <1>1, <1>3, <1>4, Untouched DEF SweepInv
<1>6. Server!SweepStep
  BY <1>1, <1>2, NothingSwept DEF SweepInv, NoticesInv, SweepLoopInv, SweepLoopType
<1> QED BY <1>5, <1>6

LEMMA HeartbeatKeeps ==
  ASSUME Server!SweepAssumption, SweepInv, NEW c \in Clients, Server!Heartbeat(c)
  PROVE  SweepInv' /\ Server!SweepStep
<1> DEFINE entry == [source |-> registry[c].source, run |-> registry[c].run, received |-> serverNow]
<1>1. /\ c \in DOMAIN registry
      /\ liveness' = Server!MapInsert(liveness, c, entry)
      /\ own' = own \cup {c}
      /\ heard' = Server!MapInsert(heard, c, serverNow)
      /\ UNCHANGED <<serverNow, registry, notices, serverMetrics, loop, serverStop, tally>>
  BY DEF Server!Heartbeat, Server!commit
<1>2. entry \in [source : Sources, run : Runs, received : 1 .. serverNow]
      /\ entry.source = registry[c].source /\ entry.run = registry[c].run /\ entry.received = serverNow
  BY <1>1 DEF SweepInv, RegistryInv, Server!Binding, ClockInv
<1> HIDE DEF entry
<1>3. /\ DOMAIN liveness' = DOMAIN liveness \cup {c} /\ liveness'[c] = entry
      /\ DOMAIN heard' = DOMAIN heard \cup {c} /\ heard'[c] = serverNow
      /\ \A d \in DOMAIN liveness \ {c} : liveness'[d] = liveness[d]
      /\ \A d \in DOMAIN heard \ {c} : heard'[d] = heard[d]
  BY <1>1 DEF Server!MapInsert
<1>4. RegistryInv'
  BY <1>1 DEF SweepInv, RegistryInv
<1>5. LivenessInv'
  BY <1>1, <1>2, <1>3 DEF SweepInv, LivenessInv
<1>6. Server!OwnEntryJudgesBinding'
  BY <1>1, <1>2, <1>3 DEF SweepInv, Server!OwnEntryJudgesBinding
<1>7. SweepInv'
  BY <1>1, <1>4, <1>5, <1>6, Untouched DEF SweepInv
<1>8. Server!SweepStep
  BY <1>1, NothingSwept DEF SweepInv, NoticesInv, SweepLoopInv, SweepLoopType
<1> QED BY <1>7, <1>8

\* A rejected candidate is counted once in each column of its record.
LEMMA RejectKeeps ==
  ASSUME Server!SweepAssumption, SweepInv, NEW c \in Clients,
         NEW why \in {"RttDeltaExceeded", "ClockOffsetDeltaExceeded"}, Server!Reject(c, why)
  PROVE  SweepInv' /\ Server!SweepStep
<1> DEFINE key == <<c, registry[c].run>>
           old == IF key \in DOMAIN serverMetrics THEN serverMetrics[key] ELSE Server!NoRejections
           entry == Server!commit_rejection(old, why)
<1>1. /\ c \in DOMAIN registry
      /\ serverMetrics' = Server!MapInsert(serverMetrics, key, entry)
      /\ tally' = [tally EXCEPT !.rejected = @ + 1]
      /\ UNCHANGED <<serverNow, registry, liveness, notices, loop, serverStop, own, heard>>
  BY DEF Server!Reject
<1>2. /\ DOMAIN serverMetrics \subseteq Clients \X Runs
      /\ \A k \in DOMAIN serverMetrics :
           /\ serverMetrics[k] \in RejectionCounters
           /\ serverMetrics[k].total = serverMetrics[k].rtt + serverMetrics[k].offset
           /\ serverMetrics[k].skipped = serverMetrics[k].total
      /\ \A k \in DOMAIN loop.snapshot :
           k \in DOMAIN serverMetrics /\ loop.snapshot[k].total <= serverMetrics[k].total
  BY DEF SweepInv, MetricsInv, Metrics, Server!SnapshotsAddUp, Server!Counted
<1>3. key \in Clients \X Runs
  BY <1>1 DEF SweepInv, RegistryInv, Server!Binding
<1>4. old \in RejectionCounters /\ old.total = old.rtt + old.offset /\ old.skipped = old.total
      /\ (key \in DOMAIN serverMetrics => old = serverMetrics[key])
  <2>1. Server!NoRejections \in RejectionCounters /\ Server!NoRejections.total = Server!NoRejections.rtt + Server!NoRejections.offset
        /\ Server!NoRejections.skipped = Server!NoRejections.total
    BY DEF Server!NoRejections, RejectionCounters
  <2>2. CASE key \in DOMAIN serverMetrics
    BY <1>2, <2>2
  <2>3. CASE key \notin DOMAIN serverMetrics
    BY <2>1, <2>3
  <2> QED BY <2>2, <2>3
<1> HIDE DEF old
<1>5. entry \in RejectionCounters /\ entry.total = entry.rtt + entry.offset /\ entry.skipped = entry.total
      /\ entry.total = old.total + 1
  <2>1. CASE why = "RttDeltaExceeded"
    <3>1. entry = [total |-> old.total + 1, skipped |-> old.skipped + 1, rtt |-> old.rtt + 1,
                   offset |-> old.offset]
      BY <1>4, <2>1 DEF Server!commit_rejection, RejectionCounters
    <3>2. old.total \in Nat /\ old.skipped \in Nat /\ old.rtt \in Nat /\ old.offset \in Nat
      BY <1>4 DEF RejectionCounters
    <3> HIDE DEF entry
    <3> QED BY <1>4, <3>1, <3>2 DEF RejectionCounters
  <2>2. CASE why # "RttDeltaExceeded"
    <3>1. entry = [total |-> old.total + 1, skipped |-> old.skipped + 1, rtt |-> old.rtt,
                   offset |-> old.offset + 1]
      BY <1>4, <2>2 DEF Server!commit_rejection, RejectionCounters
    <3>2. old.total \in Nat /\ old.skipped \in Nat /\ old.rtt \in Nat /\ old.offset \in Nat
      BY <1>4 DEF RejectionCounters
    <3> HIDE DEF entry
    <3> QED BY <1>4, <3>1, <3>2 DEF RejectionCounters
  <2> QED BY <2>1, <2>2
<1> HIDE DEF entry, key
<1>6. /\ DOMAIN serverMetrics' = DOMAIN serverMetrics \cup {key} /\ serverMetrics'[key] = entry
      /\ \A k \in DOMAIN serverMetrics \ {key} : serverMetrics'[k] = serverMetrics[k]
      /\ serverMetrics' = [k \in DOMAIN serverMetrics' |-> serverMetrics'[k]]
  BY <1>1 DEF Server!MapInsert
<1>7. serverMetrics' \in Metrics
  <2>1. DOMAIN serverMetrics' \in SUBSET (Clients \X Runs)
    BY <1>2, <1>3, <1>6
  <2>2. \A k \in DOMAIN serverMetrics' : serverMetrics'[k] \in RejectionCounters
    BY <1>2, <1>5, <1>6
  <2>3. serverMetrics' \in [DOMAIN serverMetrics' -> RejectionCounters]
    BY <1>6, <2>2
  <2> QED BY <2>1, <2>3 DEF Metrics
<1>8. Server!SnapshotsAddUp'
  <2>1. ASSUME NEW k \in DOMAIN serverMetrics'
        PROVE  serverMetrics'[k].total = serverMetrics'[k].rtt + serverMetrics'[k].offset
               /\ serverMetrics'[k].skipped = serverMetrics'[k].total
    BY <1>2, <1>5, <1>6
  <2>2. ASSUME NEW k \in DOMAIN loop'.snapshot
        PROVE  k \in DOMAIN serverMetrics' /\ loop'.snapshot[k].total <= serverMetrics'[k].total
    <3>1. loop' = loop /\ k \in DOMAIN serverMetrics /\ loop.snapshot[k].total <= serverMetrics[k].total
      BY <1>1, <1>2, <2>2
    <3>2. CASE k # key
      BY <1>6, <3>1, <3>2
    <3>3. CASE k = key
      <4>1. serverMetrics'[k].total = serverMetrics[k].total + 1
        BY <1>4, <1>5, <1>6, <3>1, <3>3
      <4>2. serverMetrics[k].total \in Nat /\ loop.snapshot[k].total \in Nat
        <5>1. loop.snapshot \in Metrics
          BY DEF SweepInv, SweepLoopInv, SweepLoopType
        <5> QED BY <1>2, <3>1, <1>1, <2>2, <5>1 DEF Metrics, RejectionCounters
      <4> QED BY <1>6, <3>1, <3>3, <4>1, <4>2
    <3> QED BY <3>2, <3>3
  <2>3. \A k \in DOMAIN serverMetrics' : Server!Counted(serverMetrics)'[k] = serverMetrics'[k].rtt + serverMetrics'[k].offset
    BY DEF Server!Counted
  <2> QED BY <2>1, <2>2, <2>3 DEF Server!SnapshotsAddUp
<1>9. TallyInv'
  BY <1>1 DEF SweepInv, TallyInv, TallyType, Server!EveryTimeoutHasOneOutcome
<1>10. SweepInv'
  BY <1>1, <1>7, <1>8, <1>9, Untouched DEF SweepInv, MetricsInv
<1>11. Server!SweepStep
  BY <1>1, NothingSwept DEF SweepInv, NoticesInv, SweepLoopInv, SweepLoopType
<1> QED BY <1>10, <1>11

LEMMA SurroundingsKeep ==
  ASSUME Server!SweepAssumption, SweepInv, Server!SendNotice \/ Server!RequestStop \/ Server!Tick
  PROVE  SweepInv' /\ Server!SweepStep
<1>1. CASE Server!SendNotice
  <2>1. /\ notices # <<>> /\ notices' = Tail(notices)
        /\ UNCHANGED <<serverNow, registry, liveness, serverMetrics, loop, serverStop, tally, own, heard, auths>>
    BY <1>1 DEF Server!SendNotice, Server!history
  <2>2. notices \in Seq(NoticeType) /\ Len(notices) <= QueueCap /\ QueueCap \in Nat
    BY DEF SweepInv, NoticesInv, Server!SweepAssumption
  <2>3. notices' \in Seq(NoticeType) /\ Len(notices') = Len(notices) - 1 /\ Len(notices) \in Nat
        /\ Len(notices') \in Nat
    BY <2>1, <2>2
  <2>4. NoticesInv'
    BY <2>2, <2>3 DEF NoticesInv
  <2>5. SweepInv'
    BY <2>1, <2>4, Untouched DEF SweepInv
  <2>6. Server!SweepStep
    BY <2>1, <2>3, NothingSwept DEF SweepInv, SweepLoopInv, SweepLoopType
  <2> QED BY <2>5, <2>6
<1>2. CASE Server!RequestStop
  <2>1. UNCHANGED <<serverNow, registry, liveness, notices, serverMetrics, loop, tally, own, heard>>
    BY <1>2 DEF Server!RequestStop, Server!records, Server!history
  <2>2. SweepInv'
    BY <2>1, Untouched DEF SweepInv
  <2>3. Server!SweepStep
    BY <2>1, NothingSwept DEF SweepInv, NoticesInv, SweepLoopInv, SweepLoopType
  <2> QED BY <2>2, <2>3
<1>3. CASE Server!Tick
  <2>1. /\ serverNow < SweepMaxNow /\ serverNow' = serverNow + 1
        /\ UNCHANGED <<registry, liveness, notices, serverMetrics, loop, tally, own, heard>>
    BY <1>3 DEF Server!Tick, Server!records, Server!history
  <2>2. serverNow \in 1 .. SweepMaxNow /\ SweepMaxNow \in Nat
    BY DEF SweepInv, ClockInv, Server!SweepAssumption
  <2>3. ClockInv' /\ 1 .. serverNow \subseteq 1 .. serverNow'
    BY <2>1, <2>2 DEF ClockInv
  <2>4. LivenessInv'
    BY <2>1, <2>3 DEF SweepInv, LivenessInv
  <2>5. SweepInv'
    BY <2>1, <2>3, <2>4, Untouched DEF SweepInv
  <2>6. Server!SweepStep
    BY <2>1, NothingSwept DEF SweepInv, NoticesInv, SweepLoopInv, SweepLoopType
  <2> QED BY <2>5, <2>6
<1> QED BY <1>1, <1>2, <1>3

-----------------------------------------------------------------------------
(***************************************************************************)
(* The steps of the loop.                                                  *)
(***************************************************************************)

\* Every step of the loop leaves the exported counters behind the counters.
LEMMA LoopKeepsSnapshot ==
  ASSUME SweepInv, UNCHANGED serverMetrics,
         loop'.snapshot = loop.snapshot \/ loop'.snapshot = serverMetrics
  PROVE  MetricsInv'
<1>1. /\ serverMetrics \in Metrics
      /\ \A k \in DOMAIN serverMetrics : serverMetrics[k].total = Server!Counted(serverMetrics)[k]
                                      /\ serverMetrics[k].skipped = serverMetrics[k].total
      /\ \A k \in DOMAIN loop.snapshot :
           k \in DOMAIN serverMetrics /\ loop.snapshot[k].total <= serverMetrics[k].total
  BY DEF SweepInv, MetricsInv, Server!SnapshotsAddUp
<1>2. \A k \in DOMAIN serverMetrics : serverMetrics[k].total \in Nat
  BY <1>1 DEF Metrics, RejectionCounters
<1>3. \A k \in DOMAIN loop'.snapshot :
        k \in DOMAIN serverMetrics /\ loop'.snapshot[k].total <= serverMetrics[k].total
  <2>1. CASE loop'.snapshot = loop.snapshot
    BY <1>1, <2>1
  <2>2. CASE loop'.snapshot = serverMetrics
    BY <1>2, <2>2
  <2> QED BY <2>1, <2>2
<1>4. \A k \in DOMAIN serverMetrics : serverMetrics'[k].total = Server!Counted(serverMetrics)'[k]
                                     /\ serverMetrics'[k].skipped = serverMetrics'[k].total
  BY <1>1 DEF Server!Counted
<1> QED BY <1>1, <1>3, <1>4 DEF MetricsInv, Server!SnapshotsAddUp

\* When nothing is due, both clocks have run before, and the wake-up is no
\* later than the work that is due first.
LEMMA WaitEndsInTime ==
  ASSUME Server!SweepAssumption, SweepInv, Server!EvaluatesTo("Wait")
  PROVE  /\ Server!NextWork \in Nat /\ Server!NextWork <= loop.lastTick + TickInterval
         /\ SweepExportInterval # 0 => Server!NextWork <= loop.lastExport + SweepExportInterval
<1>1. /\ serverNow \in Nat /\ loop.lastTick \in Nat /\ loop.lastExport \in Nat
      /\ TickInterval \in Nat /\ SweepExportInterval \in Nat
  BY DEF SweepInv, ClockInv, SweepLoopInv, SweepLoopType, Server!SweepAssumption
<1>2. ~Server!TickDue /\ ~Server!ExportDue
  BY DEF Server!EvaluatesTo
<1>3. ~(serverNow >= Server!NextTick) /\ (SweepExportInterval # 0 => ~(serverNow >= Server!NextExport))
  BY <1>2 DEF Server!TickDue, Server!ExportDue
<1>4. Server!NextTick = loop.lastTick + TickInterval
  BY <1>1, <1>3 DEF Server!NextTick
<1>5. SweepExportInterval # 0 => Server!NextExport = loop.lastExport + SweepExportInterval
  BY <1>1, <1>3 DEF Server!NextExport
<1> HIDE DEF Server!NextTick, Server!NextExport
<1>6. CASE SweepExportInterval # 0 /\ Server!NextExport < Server!NextTick
  <2>1. Server!NextWork = Server!NextExport
    BY <1>6 DEF Server!NextWork
  <2> QED BY <1>1, <1>4, <1>5, <1>6, <2>1
<1>7. CASE ~(SweepExportInterval # 0 /\ Server!NextExport < Server!NextTick)
  <2>1. Server!NextWork = Server!NextTick
    BY <1>7 DEF Server!NextWork
  <2> QED BY <1>1, <1>4, <1>5, <1>7, <2>1
<1> QED BY <1>6, <1>7

LEMMA IdleKeeps ==
  ASSUME Server!SweepAssumption, SweepInv, Server!StopLoop \/ Server!Wait \/ Server!Wake \/ Server!Retry
  PROVE  SweepInv' /\ Server!SweepStep
<1>1. UNCHANGED <<serverNow, registry, liveness, notices, serverMetrics, tally, own, heard>>
  BY DEF Server!StopLoop, Server!Wait, Server!Wake, Server!Retry, Server!records, Server!history
<1>2. loop \in SweepLoopType
  BY DEF SweepInv, SweepLoopInv
<1>3. /\ loop' \in SweepLoopType /\ loop'.snapshot = loop.snapshot
      /\ loop'.attempts = loop.attempts /\ loop'.pc # "gaveUp" /\ Server!WakesForNextWork'
  <2>1. CASE Server!StopLoop
    BY <1>2, <2>1 DEF Server!StopLoop, SweepLoopType, Server!WakesForNextWork
  <2>2. CASE Server!Wait
    <3>1. /\ Server!NextWork \in Nat /\ Server!NextWork <= loop.lastTick + TickInterval
          /\ SweepExportInterval # 0 => Server!NextWork <= loop.lastExport + SweepExportInterval
      BY <2>2, WaitEndsInTime DEF Server!Wait
    <3>2. loop' = [loop EXCEPT !.pc = "waiting", !.wake = Server!NextWork]
      BY <2>2 DEF Server!Wait
    <3> QED BY <1>2, <3>1, <3>2 DEF SweepLoopType, Server!WakesForNextWork
  <2>3. CASE Server!Wake
    BY <1>2, <2>3 DEF Server!Wake, SweepLoopType, Server!WakesForNextWork
  <2>4. CASE Server!Retry
    BY <1>2, <2>4 DEF Server!Retry, SweepLoopType, Server!WakesForNextWork
  <2> QED BY <2>1, <2>2, <2>3, <2>4
<1>4. MetricsInv'
  BY <1>1, <1>3, LoopKeepsSnapshot
<1>5. SweepInv'
  BY <1>1, <1>3, <1>4, Untouched DEF SweepInv, SweepLoopInv
<1>6. Server!SweepStep
  BY <1>1, <1>2, <1>3, NothingSwept DEF SweepInv, NoticesInv, SweepLoopType
<1> QED BY <1>5, <1>6

\* What a turn hands out after its tick.
LEMMA ExportedType ==
  ASSUME Server!SweepAssumption, SweepInv, NEW l \in SweepLoopType
  PROVE  /\ Server!Exported(l) \in SweepLoopType /\ Server!Exported(l).pc = l.pc
         /\ Server!Exported(l).attempts = l.attempts
         /\ Server!Exported(l).snapshot = l.snapshot \/ Server!Exported(l).snapshot = serverMetrics
<1>1. serverNow \in Nat /\ serverMetrics \in Metrics
  BY DEF SweepInv, ClockInv, MetricsInv
<1>2. CASE ~Server!ExportDue
  BY <1>2 DEF Server!Exported
<1>3. CASE Server!ExportDue /\ serverMetrics = Server!EmptyMap
  BY <1>1, <1>3 DEF Server!Exported, SweepLoopType
<1>4. CASE Server!ExportDue /\ serverMetrics # Server!EmptyMap
  <2> DEFINE counted == [l EXCEPT !.exports = @ + 1]
             timed == [counted EXCEPT !.lastExport = serverNow]
             e == [timed EXCEPT !.snapshot = serverMetrics]
  <2>1. counted \in SweepLoopType /\ counted.pc = l.pc /\ counted.attempts = l.attempts
    BY DEF SweepLoopType
  <2>e. Server!Exported(l) = e
    BY <1>4 DEF Server!Exported
  <2> HIDE DEF counted
  <2>2. timed \in SweepLoopType /\ timed.pc = l.pc /\ timed.attempts = l.attempts
    BY <1>1, <2>1 DEF SweepLoopType
  <2> HIDE DEF timed
  <2>3. e \in SweepLoopType /\ e.pc = l.pc /\ e.attempts = l.attempts /\ e.snapshot = serverMetrics
    BY <1>1, <2>2 DEF SweepLoopType
  <2> QED BY <2>e, <2>3
<1> QED BY <1>2, <1>3, <1>4

LEMMA RunKeeps ==
  ASSUME Server!SweepAssumption, SweepInv, Server!Run
  PROVE  SweepInv' /\ Server!SweepStep
<1>1. loop.pc = "policy" /\ UNCHANGED <<serverNow, liveness, serverMetrics, heard>>
  BY DEF Server!Run, Server!EvaluatesTo
<1>2. loop \in SweepLoopType /\ serverNow \in Nat /\ SweepAttempts \in Nat
  BY DEF SweepInv, SweepLoopInv, ClockInv, Server!SweepAssumption
<1>3. CASE Server!TickDue
  <2> DEFINE l == [loop EXCEPT !.ticks = @ + 1, !.lastTick = serverNow, !.attempts = 0]
  <2>1. Server!Sweep(0) /\ loop' = Server!Exported(l)
    BY <1>3 DEF Server!Run
  <2>2. l \in SweepLoopType /\ l.pc = "policy" /\ l.attempts = 0 /\ l.snapshot = loop.snapshot
    <3> DEFINE ticked == [loop EXCEPT !.ticks = @ + 1]
               timed == [ticked EXCEPT !.lastTick = serverNow]
    <3>1. ticked \in SweepLoopType /\ ticked.pc = "policy" /\ ticked.snapshot = loop.snapshot
      BY <1>1, <1>2 DEF SweepLoopType
    <3>2. l = [timed EXCEPT !.attempts = 0]
      OBVIOUS
    <3> HIDE DEF ticked, l
    <3>3. timed \in SweepLoopType /\ timed.pc = "policy" /\ timed.snapshot = loop.snapshot
      BY <1>2, <3>1 DEF SweepLoopType
    <3> HIDE DEF timed
    <3>4. 0 \in 0 .. SweepAttempts
      BY <1>2
    <3> QED BY <3>2, <3>3, <3>4 DEF SweepLoopType
  <2> HIDE DEF l
  <2>3. /\ loop' \in SweepLoopType /\ loop'.pc = "policy" /\ loop'.attempts = 0
        /\ loop'.snapshot = loop.snapshot \/ loop'.snapshot = serverMetrics
    BY <2>1, <2>2, ExportedType
  <2>4. SweepLoopInv' /\ MetricsInv'
    BY <1>1, <2>3, LoopKeepsSnapshot DEF SweepLoopInv, Server!WakesForNextWork
  <2>5. RegistryInv' /\ Server!OwnEntryJudgesBinding'
    BY <1>1, <2>1, PassRegistry
  <2>6. NoticesInv' /\ TallyInv' /\ Server!NoticesReachOwnBinding
    BY <1>1, <2>1, PassTells
  <2>7. Server!SweptOnlyWhenSilent
    BY <1>1, <2>1, PassRemovesSilent
  <2>8. Server!EachFailureRemoves
    <3>1. ~(loop'.attempts > loop.attempts)
      BY <1>2, <2>3 DEF SweepLoopType
    <3> QED BY <2>3, <3>1 DEF Server!EachFailureRemoves
  <2>9. SweepInv'
    BY <1>1, <2>4, <2>5, <2>6, Untouched DEF SweepInv
  <2> QED BY <2>6, <2>7, <2>8, <2>9 DEF Server!SweepStep
<1>4. CASE ~Server!TickDue
  <2>1. loop' = Server!Exported(loop) /\ UNCHANGED <<registry, notices, own, tally>>
    BY <1>4 DEF Server!Run
  <2>2. /\ loop' \in SweepLoopType /\ loop'.pc = "policy" /\ loop'.attempts = loop.attempts
        /\ loop'.snapshot = loop.snapshot \/ loop'.snapshot = serverMetrics
    BY <1>1, <1>2, <2>1, ExportedType
  <2>3. SweepLoopInv' /\ MetricsInv'
    BY <1>1, <2>2, LoopKeepsSnapshot DEF SweepLoopInv, Server!WakesForNextWork
  <2>4. SweepInv'
    BY <1>1, <2>1, <2>3, Untouched DEF SweepInv
  <2>5. Server!SweepStep
    BY <1>2, <2>1, <2>2, NothingSwept DEF SweepInv, NoticesInv, SweepLoopType
  <2> QED BY <2>4, <2>5
<1> QED BY <1>3, <1>4

\* A pass that fails at a client has removed that client.
LEMMA RunFailsKeeps ==
  ASSUME Server!SweepAssumption, SweepInv, Server!RunFails
  PROVE  SweepInv' /\ Server!SweepStep
<1>1. /\ loop.pc = "policy" /\ UNCHANGED <<serverNow, liveness, serverMetrics, heard>> /\ loop' = Server!decide
  BY DEF Server!RunFails, Server!EvaluatesTo
<1>2. PICK failing \in Server!Expired : Server!Sweep(failing)
  BY DEF Server!RunFails
<1>3. failing # 0 /\ failing \in Server!Expired \cup {0}
  BY ExpiredFinite DEF SweepInv
<1>4. /\ loop \in SweepLoopType /\ serverNow \in Nat /\ SweepAttempts \in Nat /\ SweepRetryDelay \in Nat
      /\ SweepMaxNow \in Nat
  BY DEF SweepInv, SweepLoopInv, ClockInv, Server!SweepAssumption
<1>5. Server!RetryAt \in Nat
  BY <1>4 DEF Server!RetryAt
<1>6. loop' \in SweepLoopType /\ loop'.pc # "waiting" /\ loop'.snapshot = loop.snapshot
  <2>1. CASE loop.attempts >= SweepAttempts
    BY <1>1, <1>4, <2>1 DEF Server!decide, SweepLoopType
  <2>2. CASE ~(loop.attempts >= SweepAttempts)
    <3>1. loop' = [loop EXCEPT !.pc = "retry", !.attempts = @ + 1, !.wake = Server!RetryAt]
      BY <1>1, <2>2 DEF Server!decide
    <3>2. loop.attempts + 1 \in 0 .. SweepAttempts
      BY <1>4, <2>2 DEF SweepLoopType
    <3> QED BY <1>4, <1>5, <3>1, <3>2 DEF SweepLoopType
  <2> QED BY <2>1, <2>2
<1>7. SweepLoopInv' /\ MetricsInv'
  BY <1>1, <1>6, LoopKeepsSnapshot DEF SweepLoopInv, Server!WakesForNextWork
<1>8. RegistryInv' /\ Server!OwnEntryJudgesBinding' /\ registry' # registry
  BY <1>1, <1>2, <1>3, PassRegistry
<1>9. NoticesInv' /\ TallyInv' /\ Server!NoticesReachOwnBinding /\ Server!SweptOnlyWhenSilent
  BY <1>1, <1>2, <1>3, PassTells, PassRemovesSilent
<1>10. SweepInv'
  BY <1>1, <1>7, <1>8, <1>9, Untouched DEF SweepInv
<1>11. Server!SweepStep
  BY <1>8, <1>9 DEF Server!SweepStep, Server!EachFailureRemoves
<1> QED BY <1>10, <1>11

-----------------------------------------------------------------------------
LEMMA SweepStarts == ASSUME Server!SweepAssumption, Server!Init PROVE SweepInv
<1> USE DEF Server!Init, Server!EmptyMap
<1>1. ClockInv /\ NoticesInv
  BY DEF ClockInv, NoticesInv, Server!SweepAssumption
<1>2. RegistryInv /\ LivenessInv /\ Server!OwnEntryJudgesBinding
  BY FS_EmptySet DEF RegistryInv, LivenessInv, Server!OwnEntryJudgesBinding
<1>3. serverMetrics \in Metrics
  <2>1. serverMetrics \in [{} -> RejectionCounters] /\ {} \in SUBSET (Clients \X Runs)
    OBVIOUS
  <2> QED BY <2>1 DEF Metrics
<1>4. SweepLoopInv
  <2>1. loop.pc = "policy"
    OBVIOUS
  <2>2. loop \in SweepLoopType
    BY <1>3 DEF SweepLoopType, Server!SweepAssumption
  <2> QED BY <2>1, <2>2 DEF SweepLoopInv, Server!WakesForNextWork
<1>5. TallyInv
  BY DEF TallyInv, TallyType, Server!EveryTimeoutHasOneOutcome
<1>6. MetricsInv
  BY <1>3 DEF MetricsInv, Server!SnapshotsAddUp
<1> QED BY <1>1, <1>2, <1>4, <1>5, <1>6 DEF SweepInv

LEMMA NextKeeps ==
  ASSUME Server!SweepAssumption, SweepInv, [Server!Next]_(Server!vars)
  PROVE  SweepInv' /\ (Server!SweepStep \/ UNCHANGED Server!vars)
<1>1. CASE Server!Next
  BY <1>1, AuthenticateKeeps, HeartbeatKeeps, RejectKeeps, SurroundingsKeep, IdleKeeps,
     RunKeeps, RunFailsKeeps DEF Server!Next, Server!LoopStep
<1>2. CASE UNCHANGED Server!vars
  BY <1>2, Untouched DEF Server!vars, SweepInv
<1> QED BY <1>1, <1>2

\* What the state promises: an entry judges the binding it was heard under, every
\* timeout has one outcome, the loop wakes for its next work, and the counters
\* agree with each other and with the exported snapshot (run_all_registered,
\* plan_wait, export_for_consumer).
THEOREM SweepIsSound ==
  ASSUME Server!SweepAssumption
  PROVE  Server!Spec => [](/\ Server!SweepTypeOK /\ Server!OwnEntryJudgesBinding
                           /\ Server!EveryTimeoutHasOneOutcome
                           /\ Server!WakesForNextWork /\ Server!SnapshotsAddUp)
<1>1. Server!Init => SweepInv
  BY SweepStarts
<1>2. SweepInv /\ [Server!Next]_(Server!vars) => SweepInv'
  BY NextKeeps
<1>3. SweepInv => /\ Server!SweepTypeOK /\ Server!OwnEntryJudgesBinding
                  /\ Server!EveryTimeoutHasOneOutcome
                  /\ Server!WakesForNextWork /\ Server!SnapshotsAddUp
  <2> SUFFICES ASSUME SweepInv PROVE Server!SweepTypeOK
    BY DEF SweepInv, SweepLoopInv, TallyInv, MetricsInv
  <2>1. loop.pc \in {"policy", "waiting", "retry", "gaveUp", "stopped"} /\ loop.attempts <= SweepAttempts
    BY DEF SweepInv, SweepLoopInv, SweepLoopType, Server!SweepAssumption
  <2>2. \A i \in DOMAIN notices : notices[i] \in [client : Clients, source : Sources, run : Runs]
    <3>1. notices \in Seq(NoticeType)
      BY DEF SweepInv, NoticesInv
    <3>2. \A i \in DOMAIN notices : notices[i] \in NoticeType
      BY <3>1, ElementOfSeq
    <3> QED BY <3>2 DEF NoticeType
  <2> QED
    BY <2>1, <2>2 DEF SweepInv, Server!SweepTypeOK, ClockInv, RegistryInv, LivenessInv, NoticesInv
<1> QED BY <1>1, <1>2, <1>3, PTL DEF Server!Spec

\* What a step may do: it removes only a client that was silent for the whole
\* timeout, tells each client it takes a notice for where it was heard, and a
\* failed write has removed a client (apply_plan, store_notice, decide).
THEOREM SweepStepsAreAllowed ==
  ASSUME Server!SweepAssumption
  PROVE  Server!Spec => [][Server!SweepStep]_(Server!vars)
<1>1. Server!Init => SweepInv
  BY SweepStarts
<1>2. SweepInv /\ [Server!Next]_(Server!vars) => SweepInv' /\ [Server!SweepStep]_(Server!vars)
  BY NextKeeps
<1> QED BY <1>1, <1>2, PTL DEF Server!Spec
=============================================================================
