--------------------------- MODULE HeartbeatSweep ---------------------------
(***************************************************************************)
(* The server's heartbeat timeout sweep and the continuous loop around it: *)
(* policy and cadence, the pass over every registered client (evaluate,    *)
(* invalidate, log, notify), the notice queue, the retry decision after a  *)
(* failed log write, and the snapshot of rejected round-trip candidates.   *)
(* Authentication and heartbeats arrive between two turns of the loop.     *)
(*                                                                         *)
(* A liveness entry is keyed by client and outlives the registration it    *)
(* was heard under, so a sweep may judge a new binding by an old entry.    *)
(* Client ids are numbers: the registry is walked in their order.  Clocks  *)
(* start at 1, so that 0 stands for an Option that is None.                *)
(***************************************************************************)
EXTENDS ServerBase, FiniteSets, Functions

CONSTANTS
  Timeout,          \* timeout_after_micros
  TickInterval,     \* timeout_tick_interval_micros
  ExportInterval,   \* metrics_snapshot_interval_micros; 0 when None
  MaxTicks,         \* MaxTimeoutTicks; 0 when RunUntilStopped
  MaxAttempts,      \* ServerHeartbeatContinuousLoopRetryPolicy
  RetryDelay,
  QueueCap,         \* items the outbound queue stores
  LogMayFail,       \* the timeout log writer may return an error
  MaxNow,           \* bound on the clock
  QuietAfter,       \* bound on the time at which clients still send
  MaxAuths,         \* bound on accepted authentications
  MaxRejections     \* bound on rejected candidates

SweepAssumption ==
  /\ Clients \subseteq Nat \ {0}
  /\ Timeout \in Nat /\ TickInterval \in Nat \ {0} /\ ExportInterval \in Nat
  /\ MaxTicks \in Nat /\ MaxAttempts \in Nat /\ RetryDelay \in Nat
  /\ QueueCap \in Nat /\ LogMayFail \in BOOLEAN
  /\ MaxNow \in Nat \ {0} /\ QuietAfter \in Nat /\ MaxAuths \in Nat /\ MaxRejections \in Nat

VARIABLES
  now,        \* the clock
  registry,   \* AuthenticatedSenderRegistry: client -> source and run
  liveness,   \* ServerHeartbeatLivenessState: client -> source, run, received
  notices,    \* AuthExpired notices in the outbound queue
  metrics,    \* rejected candidates: <<client, run>> -> counters
  loop,       \* state snapshot of the loop, its retry, its last turn
  stop,       \* stop_requested
  tally,      \* history: what became of the timeouts applied so far
  own,        \* history: clients heard from under their current binding
  heard,      \* history: when each client was heard from last
  auths       \* history: accepted authentications

vars == <<now, registry, liveness, notices, metrics, loop, stop, tally, own, heard, auths>>
records == <<registry, liveness, notices, metrics>>
history == <<tally, own, heard, auths>>

NoRejections == [total |-> 0, skipped |-> 0, rtt |-> 0, offset |-> 0]

Init ==
  /\ now = 1
  /\ registry = EmptyMap /\ liveness = EmptyMap /\ metrics = EmptyMap
  /\ notices = <<>>
  /\ loop = [pc |-> "policy", ticks |-> 0, lastTick |-> 0, exports |-> 0,
             lastExport |-> 0, attempts |-> 0, wake |-> 0, snapshot |-> EmptyMap]
  /\ stop = FALSE
  /\ tally = [expired |-> 0, told |-> 0, full |-> 0, unlogged |-> 0, rejected |-> 0]
  /\ own = {}
  /\ heard = EmptyMap
  /\ auths = 0
-----------------------------------------------------------------------------
(* What happens between two turns.                                         *)

\* An accepted AuthRequest takes the client id over; no liveness entry is
\* touched.
Authenticate(c, s, r) ==
  /\ auths < MaxAuths /\ now <= QuietAfter
  /\ registry' = MapInsert(registry, c, [source |-> s, run |-> r])
  /\ own' = own \ {c}
  /\ auths' = auths + 1
  /\ UNCHANGED <<now, liveness, notices, metrics, loop, stop, tally, heard>>

\* A heartbeat that passes the gate comes from the registered endpoint and run.
commit_FirstBinding(c) ==
  IF c \in DOMAIN liveness
  THEN [liveness EXCEPT ![c].received = now]
  ELSE MapInsert(liveness, c, [source |-> registry[c].source,
                               run |-> registry[c].run, received |-> now])

commit_FirstTime(c) ==
  IF c \in DOMAIN liveness
  THEN [liveness EXCEPT ![c].source = registry[c].source, ![c].run = registry[c].run]
  ELSE MapInsert(liveness, c, [source |-> registry[c].source,
                               run |-> registry[c].run, received |-> now])

commit(c) ==
  MapInsert(liveness, c, [source |-> registry[c].source,
                          run |-> registry[c].run, received |-> now])

Heartbeat(c) ==
  /\ c \in DOMAIN registry /\ now <= QuietAfter
  /\ liveness' = commit(c)
  /\ own' = own \cup {c}
  /\ heard' = MapInsert(heard, c, now)
  /\ UNCHANGED <<now, registry, notices, metrics, loop, stop, tally, auths>>

\* The outlier policy rejected a candidate of the client's current run.
commit_rejection(entry, why) ==
  LET counted == [entry EXCEPT !.total = @ + 1, !.skipped = @ + 1]
  IN  IF why = "RttDeltaExceeded" THEN [counted EXCEPT !.rtt = @ + 1]
      ELSE [counted EXCEPT !.offset = @ + 1]

Reject(c, why) ==
  /\ c \in DOMAIN registry
  /\ tally.rejected < MaxRejections
  /\ LET key == <<c, registry[c].run>>
         old == IF key \in DOMAIN metrics THEN metrics[key] ELSE NoRejections
     IN  metrics' = MapInsert(metrics, key, commit_rejection(old, why))
  /\ tally' = [tally EXCEPT !.rejected = @ + 1]
  /\ UNCHANGED <<now, registry, liveness, notices, loop, stop, own, heard, auths>>

\* The send loop takes the oldest notice.
SendNotice ==
  /\ notices # <<>>
  /\ notices' = Tail(notices)
  /\ UNCHANGED <<now, registry, liveness, metrics, loop, stop, history>>

RequestStop ==
  /\ ~stop
  /\ stop' = TRUE
  /\ UNCHANGED <<now, records, loop, history>>
-----------------------------------------------------------------------------
(* One pass over the registered clients.                                   *)

\* u64::saturating_sub
Elapsed(t) == IF now > t THEN now - t ELSE 0

\* evaluate_timeout and plan_actions: without an entry there is nothing to do.
TimedOut(c) ==
  c \in DOMAIN liveness /\ Elapsed(liveness[c].received) >= Timeout

Expired == {c \in DOMAIN registry : TimedOut(c)}

\* The notice goes where the liveness entry says, not where the binding does.
Notice(c) == [client |-> c, source |-> liveness[c].source,
              run |-> liveness[c].run]

\* store_notice: a full queue drops the newcomer, whatever its priority.
Room == IF Len(notices) < QueueCap THEN QueueCap - Len(notices) ELSE 0

\* BTreeMap::iter
InOrder(told) ==
  CHOOSE q \in [1 .. Cardinality(told) -> told] :
    \A i, j \in 1 .. Cardinality(told) : i < j => q[i] < q[j]

Stored(told) ==
  LET kept == IF Room < Cardinality(told) THEN Room ELSE Cardinality(told)
  IN  [i \in 1 .. kept |-> Notice(InOrder(told)[i])]

\* The clients a pass invalidates before the log write for `failing` fails;
\* 0 stands for a pass whose writes all succeed.
Invalidated_AfterLog(failing) ==
  {c \in Expired : failing = 0 \/ c < failing}

Invalidated(failing) == {c \in Expired : failing = 0 \/ c <= failing}

\* run_all_registered: the invalidation of a client precedes its log write,
\* the notice follows it, and a failed write abandons the rest of the pass.
Sweep(failing) ==
  LET gone == Invalidated(failing)
      told == {c \in Expired : failing = 0 \/ c < failing}
      stored == Stored(told)
  IN  /\ registry' = [c \in DOMAIN registry \ gone |-> registry[c]]
      /\ notices' = notices \o stored
      /\ own' = own \ gone
      /\ tally' = [tally EXCEPT !.expired = @ + Cardinality(gone),
                                !.told = @ + Len(stored),
                                !.full = @ + Cardinality(told) - Len(stored),
                                !.unlogged = @ + (IF failing = 0 THEN 0 ELSE 1)]
-----------------------------------------------------------------------------
(* The continuous loop.                                                    *)

NextTick == IF loop.lastTick = 0 THEN now ELSE loop.lastTick + TickInterval
NextExport == IF loop.lastExport = 0 THEN now ELSE loop.lastExport + ExportInterval
TickDue == now >= NextTick

ExportDue == ExportInterval # 0 /\ now >= NextExport

LimitReached == MaxTicks # 0 /\ loop.ticks >= MaxTicks

EvaluatesTo(action) ==
  /\ loop.pc = "policy"
  /\ action = IF stop \/ LimitReached THEN "Stop"
              ELSE IF ~TickDue /\ ~ExportDue THEN "Wait" ELSE "Run"

StopLoop ==
  /\ EvaluatesTo("Stop")
  /\ loop' = [loop EXCEPT !.pc = "stopped"]
  /\ UNCHANGED <<now, records, stop, history>>

\* plan_wait: the receive timeout ends no later than the next work is due.
NextWork ==
  IF ExportInterval # 0 /\ NextExport < NextTick THEN NextExport ELSE NextTick

Wait ==
  /\ EvaluatesTo("Wait")
  /\ loop' = [loop EXCEPT !.pc = "waiting", !.wake = NextWork]
  /\ UNCHANGED <<now, records, stop, history>>

\* The receive returns with a packet or at its timeout.
Wake ==
  /\ loop.pc = "waiting"
  /\ loop' = [loop EXCEPT !.pc = "policy", !.wake = 0]
  /\ UNCHANGED <<now, records, stop, history>>

\* export_for_consumer: without records there is no handoff, and no export is
\* counted; the caller notes the time of either.
Exported(l) ==
  IF ~ExportDue THEN l
  ELSE IF metrics = EmptyMap THEN [l EXCEPT !.lastExport = now]
  ELSE [l EXCEPT !.exports = @ + 1, !.lastExport = now, !.snapshot = metrics]

\* The tick and the export that one turn hands out, all writes succeeding.
Run ==
  /\ EvaluatesTo("Run")
  /\ IF TickDue
     THEN /\ Sweep(0)
          /\ loop' = Exported([loop EXCEPT !.ticks = @ + 1, !.lastTick = now,
                                           !.attempts = 0])
     ELSE loop' = Exported(loop) /\ UNCHANGED <<registry, notices, own, tally>>
  /\ UNCHANGED <<now, liveness, metrics, stop, heard, auths>>

\* A log write fails: the decision is a later retry of the tick, or to give up.
RetryAt == IF now + RetryDelay < MaxNow THEN now + RetryDelay ELSE MaxNow

decide ==
  IF loop.attempts >= MaxAttempts THEN [loop EXCEPT !.pc = "gaveUp"]
  ELSE [loop EXCEPT !.pc = "retry", !.attempts = @ + 1, !.wake = RetryAt]

RunFails ==
  /\ LogMayFail
  /\ EvaluatesTo("Run")
  /\ TickDue
  /\ \E failing \in Expired : Sweep(failing)
  /\ loop' = decide
  /\ UNCHANGED <<now, liveness, metrics, stop, heard, auths>>

Retry ==
  /\ loop.pc = "retry"
  /\ now >= loop.wake
  /\ loop' = [loop EXCEPT !.pc = "policy", !.wake = 0]
  /\ UNCHANGED <<now, records, stop, history>>

Tick ==
  /\ now < MaxNow
  /\ now' = now + 1
  /\ UNCHANGED <<records, loop, stop, history>>

LoopStep == StopLoop \/ Wait \/ Wake \/ Run \/ RunFails \/ Retry

Next ==
  \/ \E c \in Clients, s \in Sources, r \in Runs : Authenticate(c, s, r)
  \/ \E c \in Clients : Heartbeat(c)
  \/ \E c \in Clients, why \in {"RttDeltaExceeded", "ClockOffsetDeltaExceeded"} :
       Reject(c, why)
  \/ SendNotice
  \/ RequestStop
  \/ LoopStep
  \/ Tick

Spec == Init /\ [][Next]_vars

\* Time passes and the loop keeps being called.
FairSpec == Spec /\ WF_vars(Tick) /\ WF_vars(LoopStep)
-----------------------------------------------------------------------------
(* Properties.                                                             *)

Binding == [source : Sources, run : Runs]

\* The type invariant of the sweep's state (ServerHeartbeatLivenessState,
\* AuthenticatedSenderRegistry and the loop's state snapshot).
SweepTypeOK ==
  /\ now \in 1 .. MaxNow
  /\ DOMAIN registry \subseteq Clients
  /\ \A c \in DOMAIN registry : registry[c] \in Binding
  /\ DOMAIN liveness \subseteq Clients
  /\ \A c \in DOMAIN liveness :
       liveness[c] \in [source : Sources, run : Runs, received : 1 .. now]
  /\ Len(notices) <= QueueCap
  /\ \A i \in DOMAIN notices :
       notices[i] \in [client : Clients, source : Sources, run : Runs]
  /\ loop.pc \in {"policy", "waiting", "retry", "gaveUp", "stopped"}
  /\ loop.attempts <= MaxAttempts
  /\ own \subseteq DOMAIN registry

\* A client that has been heard under its current binding is judged by that
\* binding: its liveness entry names the registered endpoint and run, although
\* evaluate_timeout and invalidate look at the client id alone.  A client that
\* has only authenticated has no such protection.
OwnEntryJudgesBinding ==
  \A c \in own :
    /\ c \in DOMAIN liveness
    /\ liveness[c].source = registry[c].source
    /\ liveness[c].run = registry[c].run

\* The server sweeps a client away only when it has been silent for the whole
\* timeout and some heartbeat was heard before; one that was heard in time is
\* still registered when the pass is over, a failed log write or not.
SweptOnlyWhenSilent ==
  \A c \in DOMAIN registry \ DOMAIN registry' :
    c \in DOMAIN heard /\ now >= heard[c] + Timeout

\* Every timeout applied to the registry is told to a client, dropped by a full
\* queue, or cut short by its own failed log write: one outcome each, so a
\* retried pass neither repeats a notice nor makes up for a lost one.
EveryTimeoutHasOneOutcome ==
  tally.expired = tally.told + tally.full + tally.unlogged

\* A notice the queue takes is for a client the same step removed, addressed to
\* the endpoint of the last heartbeat (apply_plan), and a client silent under
\* its own binding is told at that binding.
NoticesReachOwnBinding ==
  \A i \in Len(notices) + 1 .. Len(notices') :
    LET n == notices'[i]
    IN  /\ n.client \in DOMAIN registry \ DOMAIN registry'
        /\ n.source = liveness[n.client].source /\ n.run = liveness[n.client].run
        /\ n.client \in own => n.source = registry[n.client].source

\* A failing log writer cannot keep a timed-out client registered: the pass
\* that fails has removed a client first, so no retry is spent on nothing.
EachFailureRemoves ==
  loop'.attempts > loop.attempts \/ (loop'.pc = "gaveUp" /\ loop.pc # "gaveUp") =>
    registry' # registry

\* What a step of the server may do to the registrations.
SweepStep == SweptOnlyWhenSilent /\ NoticesReachOwnBinding /\ EachFailureRemoves

\* The waiting loop is never asked to sleep past the next timeout tick or the
\* next snapshot, whichever comes first (server_min_timestamp, plan_wait).
WakesForNextWork ==
  loop.pc = "waiting" =>
    /\ loop.wake <= loop.lastTick + TickInterval
    /\ ExportInterval # 0 => loop.wake <= loop.lastExport + ExportInterval

Counted(f) == [k \in DOMAIN f |-> f[k].rtt + f[k].offset]

\* What the dashboard sees adds up: a rejected candidate is counted under one
\* reason of one client and run, and an exported snapshot never runs ahead of
\* the counters.
SnapshotsAddUp ==
  /\ \A k \in DOMAIN metrics : metrics[k].total = Counted(metrics)[k]
                            /\ metrics[k].skipped = metrics[k].total
  /\ \A k \in DOMAIN loop.snapshot :
       k \in DOMAIN metrics /\ loop.snapshot[k].total <= metrics[k].total

\* ... and none is lost or counted twice.
EveryRejectionCounted == FoldFunction(+, 0, Counted(metrics)) = tally.rejected

\* What the sweep keeps of its clients, tells them and reports agrees.
SweepInvariant ==
  /\ SweepTypeOK /\ OwnEntryJudgesBinding /\ EveryTimeoutHasOneOutcome
  /\ WakesForNextWork /\ SnapshotsAddUp /\ EveryRejectionCounted

\* Whatever the log writer does, a registered client that is timed out does not
\* stay so: it is heard, it is removed, or the loop was told to stop.  Each
\* failed pass has removed a client, so as many retries as there are
\* authentications are enough never to give up.
SilentClientExpires ==
  \A c \in Clients :
    (c \in Expired) ~> (c \notin Expired \/ loop.pc = "stopped")
=============================================================================
