-------------------------- MODULE HeartbeatState --------------------------
(***************************************************************************)
(* What the server keeps of the heartbeats of its clients: when it heard   *)
(* from a client last, the exchange a returned observation is checked      *)
(* against, and the round-trip and clock-offset estimates.                 *)
(*                                                                         *)
(* Timestamps of the server and of a client are readings of two clocks.    *)
(* An Option is a set with at most one element.                            *)
(***************************************************************************)
EXTENDS ServerBase, Integers

CONSTANTS
    HeartbeatTimeout,   \* ServerHeartbeatTimeoutPolicy, an Option
    MaxRttDelta,        \* outlier policy: max_rtt_delta_micros, an Option
    MaxOffsetDelta,     \* outlier policy: max_clock_offset_delta_micros, an Option
    I64Max              \* the largest clock offset an i64 holds

ASSUME HeartbeatAssumption ==
    /\ HeartbeatTimeout \subseteq Nat
    /\ \A s, t \in HeartbeatTimeout : s = t
    /\ MaxRttDelta \subseteq Nat
    /\ MaxOffsetDelta \subseteq Nat
    /\ I64Max \in Nat

VARIABLES
    liveness,   \* ServerHeartbeatLivenessState: client -> last heartbeat
    handoffs,   \* heartbeat_handoffs_by_client: <<client, run>> -> its timestamps
    offsets     \* ServerHeartbeatRttOffsetState: client -> estimates

heartbeatVars == << liveness, handoffs, offsets >>

LivenessEntry == [source : Sources, run : Runs, sent : Int, received : Int, count : Nat]

\* The three timestamps of an exchange that the server knows.
TimebaseSample == [client_sent : Int, server_received : Int, server_sent : Int]

Estimate == [rtt : Nat, offset : Int]

OffsetEntry == [run : Runs, latest : Estimate, smoothed : Estimate, samples : Nat]

HeartbeatTypeOK ==
    /\ DOMAIN liveness \subseteq Clients
    /\ \A c \in DOMAIN liveness : liveness[c] \in LivenessEntry
    /\ DOMAIN handoffs \subseteq Clients \X Runs
    /\ \A k \in DOMAIN handoffs : handoffs[k] \in TimebaseSample
    /\ DOMAIN offsets \subseteq Clients
    /\ \A c \in DOMAIN offsets : offsets[c] \in OffsetEntry

HeartbeatInit ==
    /\ liveness = EmptyMap
    /\ handoffs = EmptyMap
    /\ offsets = EmptyMap

---------------------------------------------------------------------------
(***************************************************************************)
(* Liveness.                                                               *)
(***************************************************************************)
\* ServerHeartbeatLivenessCommitBoundary::commit: one entry per client_id,
\* whatever the run it was heard with before.
commit_liveness(p, timing) ==
    MapInsert(liveness, p.client,
        [source |-> p.source, run |-> p.run, sent |-> p.sent, received |-> timing,
         count |-> IF p.client \in DOMAIN liveness THEN liveness[p.client].count + 1 ELSE 1])

\* evaluate_timeout: the time since the last heartbeat, saturating at zero; a
\* client that never sent a heartbeat is not timed out.
evaluate_timeout(entries, c, now, timeout) ==
    IF c \notin DOMAIN entries THEN "NoHeartbeat"
    ELSE IF now - entries[c].received >= timeout \/ timeout = 0 THEN "TimedOut"
    ELSE "Alive"

---------------------------------------------------------------------------
(***************************************************************************)
(* Round-trip time and clock offset.                                       *)
(***************************************************************************)

\* The division of i128: it truncates toward zero.
TruncDiv(a, b) == IF a >= 0 THEN a \div b ELSE -((-a) \div b)

Distance(a, b) == IF a >= b THEN a - b ELSE b - a

\* HeartbeatRttOffsetCalculator::calculate, an Option: t0 and t3 are the
\* client's send and receive time, t1 and t2 the server's receive and send
\* time; the offset is the server's clock minus the client's.
calculate(t0, t1, t2, t3) ==
    LET elapsed    == t3 - t0
        processing == t2 - t1
        offset     == TruncDiv((t1 - t0) + (t2 - t3), 2)
    IN  IF /\ elapsed >= 0
           /\ processing >= 0
           /\ elapsed >= processing
           /\ -I64Max - 1 <= offset /\ offset <= I64Max
        THEN {[rtt |-> elapsed - processing, offset |-> offset]}
        ELSE {}

matches_AnyServerReceipt(sample, o) == sample.client_sent = o.echoed

\* The observation is of the very exchange the server remembers.
matches(sample, o) ==
    /\ sample.client_sent = o.echoed
    /\ sample.server_received = o.received
    /\ sample.server_sent = o.sent

\* calculate_from_client_stats: an Option, from an Option.
calculate_from_client_stats(sample, observation) ==
    UNION { IF matches(sample, o)
            THEN calculate(sample.client_sent, sample.server_received, sample.server_sent,
                           o.client_received)
            ELSE {} : o \in observation }

\* ema_u64 and ema_i64 with the weight 1/4; the result lies between its
\* arguments, so neither clamp of the code is reached.
ema(previous, latest) == previous + TruncDiv(latest - previous, 4)

smooth(previous, e) ==
    [rtt |-> ema(previous.rtt, e.rtt), offset |-> ema(previous.offset, e.offset)]

SameRun(c, r) == c \in DOMAIN offsets /\ offsets[c].run = r

\* ServerHeartbeatRttOffsetCandidatePolicyBoundary::evaluate: a candidate is
\* compared with the latest estimate of its own run only.
evaluate_outlier(c, r, e) ==
    /\ SameRun(c, r)
    /\ \/ \E m \in MaxRttDelta : Distance(offsets[c].latest.rtt, e.rtt) > m
       \/ \E m \in MaxOffsetDelta : Distance(offsets[c].latest.offset, e.offset) > m

commit_offset_AcrossRuns(c, r, e) ==
    MapInsert(offsets, c,
        [run |-> r, latest |-> e,
         smoothed |-> IF c \in DOMAIN offsets THEN smooth(offsets[c].smoothed, e) ELSE e,
         samples |-> IF c \in DOMAIN offsets THEN offsets[c].samples + 1 ELSE 1])

\* ServerHeartbeatRttOffsetCommitBoundary::commit: another run starts anew.
commit_offset(c, r, e) ==
    MapInsert(offsets, c,
        [run |-> r, latest |-> e,
         smoothed |-> IF SameRun(c, r) THEN smooth(offsets[c].smoothed, e) ELSE e,
         samples |-> IF SameRun(c, r) THEN offsets[c].samples + 1 ELSE 1])

\* The estimate that a ClientStats packet of c and r commits, an Option.
Candidate(c, r, observation) ==
    IF << c, r >> \in DOMAIN handoffs
    THEN { e \in calculate_from_client_stats(handoffs[<< c, r >>], observation) :
             ~evaluate_outlier(c, r, e) }
    ELSE {}

===========================================================================
