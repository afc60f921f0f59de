------------------------ MODULE ReceiveSend_proofs ------------------------
(***************************************************************************)
(* Proofs about the receive/send runtime, for every clock skew, timeout,   *)
(* drain limit and set of packets: the error of a clock offset is bounded, *)
(* smoothing neither overshoots nor mixes runs, heartbeats leave their     *)
(* trace only for authenticated clients, and the loop's reports, answers   *)
(* and counters say what it did.                                           *)
(***************************************************************************)
EXTENDS ReceiveSendRuntime, VideoIngest_proofs

(***************************************************************************)
(* Arithmetic of the estimates.                                            *)
(***************************************************************************)

\* Halving with truncation is off by less than one unit.
LEMMA TruncHalf ==
    ASSUME NEW a \in Int
    PROVE  /\ TruncDiv(a, 2) \in Int
           /\ 2 * TruncDiv(a, 2) <= a + 1
           /\ a - 1 <= 2 * TruncDiv(a, 2)
  BY DEF TruncDiv

\* ema_i64: the moving average lies between the previous value and the sample.
LEMMA EmaBetween ==
    ASSUME NEW previous \in Int, NEW latest \in Int
    PROVE  ema(previous, latest) \in Int /\ Between(ema(previous, latest), previous, latest)
  BY DEF ema, TruncDiv, Between

\* ema_u64: so it does not leave the naturals either.
LEMMA EmaNat ==
    ASSUME NEW previous \in Nat, NEW latest \in Nat
    PROVE  ema(previous, latest) \in Nat
<1>1. ema(previous, latest) \in Int /\ Between(ema(previous, latest), previous, latest)
  BY EmaBetween
<1> QED BY <1>1 DEF Between

\* The calculator's estimate of an exchange whose ack left at time "at", at most
\* ReceiveTimeout after the timestamp t1 it carries, is within the bounds.
LEMMA CalculateBounded ==
    ASSUME NEW t0 \in Int, NEW t1 \in Int, NEW t3 \in Int, NEW at \in Int,
           t0 - Skew <= at, t1 <= at, at <= t1 + ReceiveTimeout, at <= t3 - Skew,
           NEW e \in calculate(t0, t1, t1, t3)
    PROVE  e \in Estimate /\ ErrorWithinBounds(e)
<1> DEFINE offset == TruncDiv((t1 - t0) + (t1 - t3), 2)
<1>1. /\ t3 - t0 >= 0
      /\ e = [rtt |-> (t3 - t0) - (t1 - t1), offset |-> offset]
  BY DEF calculate
<1>2. /\ offset \in Int
      /\ 2 * offset <= ((t1 - t0) + (t1 - t3)) + 1
      /\ ((t1 - t0) + (t1 - t3)) - 1 <= 2 * offset
  <2>1. (t1 - t0) + (t1 - t3) \in Int
    OBVIOUS
  <2> QED BY <2>1, TruncHalf, Zenon
<1> HIDE DEF offset
<1>3. e.rtt = t3 - t0 /\ e.offset = offset /\ e.rtt \in Nat
  BY <1>1, <1>2
<1>4. e \in Estimate
  BY <1>1, <1>2, <1>3 DEF Estimate
<1>5. ErrorWithinBounds(e)
  BY <1>2, <1>3, ReceiveSendAssumption DEF ErrorWithinBounds
<1> QED BY <1>4, <1>5

---------------------------------------------------------------------------
(***************************************************************************)
(* The runtime implements the video core.                                  *)
(***************************************************************************)

LEMMA ReceiveIsIngest ==
    ASSUME NEW p, p \in Packets \/ p.type \in {"Heartbeat", "ClientStats"}, Receive(p)
    PROVE  [Next]_vars
<1>1. CASE p \in Packets
  <2>1. Registers(p) => [Next]_vars
    <3>1. CASE Handled(p, "AuthRequest")
      <4>1. Handled(p, "AuthRequest") /\ Registers(p) => ProcessPacket(p)
        BY DEF Registers, Handled, ProcessPacket
      <4> QED BY <1>1, <3>1, <4>1 DEF Next
    <3>2. CASE ~Handled(p, "AuthRequest")
      BY <3>2 DEF Registers
    <3> QED BY <3>1, <3>2
  <2>2. ProcessPacket(p) => Next
    BY <1>1 DEF Next
  <2>3. ProcessPacket(p) \/ Registers(p) \/ UNCHANGED vars
    BY DEF Receive, CompleteIteration, FailIteration
  <2> QED BY <2>1, <2>2, <2>3
<1>2. CASE p.type \in {"Heartbeat", "ClientStats"}
  <2>1. Registers(p) => UNCHANGED vars
    BY <1>2 DEF Registers, Handled
  <2>2. ProcessPacket(p) => UNCHANGED vars
    BY <1>2 DEF ProcessPacket, ReceiveAuthRequest, HandleAuthRequest, ReceiveVideoFrame,
                ReceiveVideoFrameFragment, ReceiveOther
  <2>3. ProcessPacket(p) \/ Registers(p) \/ UNCHANGED vars
    BY DEF Receive, CompleteIteration, FailIteration
  <2> QED BY <2>1, <2>2, <2>3
<1> QED BY <1>1, <1>2

LEMMA StepIsIngest ==
    ASSUME ReceiveSendNext
    PROVE  [Next]_vars
<1>1. CASE ServerStep \/ ReceiveFails \/ Tick
  BY <1>1 DEF ServerStep, BeginCycle, BeginIteration, StopAtLimit, EndCycle, ReceiveTimesOut,
              ReceiveFails, Tick, LeavesState
<1>2. CASE ReceivePacket
  BY <1>2, ReceiveIsIngest DEF ReceivePacket
<1>3. CASE ReceiveHeartbeat
  <2>1. PICK s \in Senders, t \in Epoch .. clock :
          Receive([type |-> "Heartbeat", source |-> s.source, client |-> s.client,
                   run |-> s.run, sent |-> t + Skew])
    BY <1>3 DEF ReceiveHeartbeat
  <2> QED BY <2>1, ReceiveIsIngest
<1>4. CASE ReceiveClientStats
  <2>1. PICK s \in Senders : \E o \in Observation(s.client, s.run) :
          Receive([type |-> "ClientStats", source |-> s.source, client |-> s.client,
                   run |-> s.run, observation |-> o])
    BY <1>4 DEF ReceiveClientStats
  <2>2. PICK o \in Observation(s.client, s.run) :
          Receive([type |-> "ClientStats", source |-> s.source, client |-> s.client,
                   run |-> s.run, observation |-> o])
    BY <2>1
  <2> QED BY <2>2, ReceiveIsIngest
<1>5. CASE Stopped
  BY <1>5 DEF Stopped, allVars
<1> QED BY <1>1, <1>2, <1>3, <1>4, <1>5 DEF ReceiveSendNext

\* Every behaviour of the receive/send runtime, whatever fails in it, is one of
\* the video core.
THEOREM ReceiveSendImplementsIngest == ReceiveSendSpec => ImplementsVideoIngest
<1>1. ReceiveSendInit => Init
  BY DEF ReceiveSendInit
<1>2. [ReceiveSendNext]_allVars => [Next]_vars
  BY StepIsIngest DEF allVars
<1> QED BY <1>1, <1>2, PTL DEF ReceiveSendSpec, Spec, ImplementsVideoIngest

\* What is proved of the core's stored video therefore holds in the runtime.
THEOREM ReceiveSendKeepsVideo ==
    ReceiveSendSpec => [](OnlyAuthenticatedVideo /\ PayloadIsOneCapture)
  BY ReceiveSendImplementsIngest, AuthenticatedVideoOnly, FramesAreCaptures, PTL
     DEF ImplementsVideoIngest

---------------------------------------------------------------------------
(***************************************************************************)
(* Clock offsets.  The invariant follows an exchange: the iteration's      *)
(* timestamp is at most ReceiveTimeout old while the receive blocks, so    *)
(* every ack leaves within ReceiveTimeout of the timestamp it carries, and *)
(* an estimate is computed from the timestamps of one ack only.            *)
(***************************************************************************)
AckTimed(a) ==
    /\ a.echoed \in Int /\ a.received \in Int /\ a.at \in Int
    /\ a.sent = a.received
    /\ a.echoed - Skew <= a.at
    /\ a.received <= a.at
    /\ a.at <= a.received + ReceiveTimeout

EstimateOK(o) ==
    /\ o.latest \in Estimate
    /\ o.smoothed \in Estimate
    /\ ErrorWithinBounds(o.latest)

ClockInv ==
    /\ clock \in Int /\ stamp \in Int
    /\ stamp <= clock
    /\ pc = "Receive" => clock <= stamp + ReceiveTimeout
    /\ outbound = << >>
    /\ \A a \in acks : AckTimed(a)
    /\ \A c \in DOMAIN offsets : EstimateOK(offsets[c])

\* What the runtime may receive as p.
WellFormed(p) ==
    /\ p.type \in {"Heartbeat", "ClientStats"} =>
          p.source \in Sources /\ p.client \in Clients /\ p.run \in Runs
    /\ p.type = "Heartbeat" => p.sent \in Int /\ p.sent - Skew <= clock
    /\ p.type = "ClientStats" =>
          \A o \in p.observation : \E a \in acks, t \in Int :
              /\ a.at <= t
              /\ o = [echoed |-> a.echoed, received |-> a.received, sent |-> a.sent,
                      client_received |-> t + Skew]

\* The item an iteration takes from the queue is the answer it has just put in.
LEMMA DequeuedIsAnswer ==
    ASSUME NEW p, outbound = << >>
    PROVE  /\ Dequeued(p) \subseteq answer(p)
           /\ Dequeue(p) => outbound' = << >>
<1>1. CASE accepts_candidate /\ answer(p) # {}
  <2> DEFINE x == CHOOSE item \in answer(p) : TRUE
  <2>1. x \in answer(p)
    BY <1>1
  <2>2. push_from_output_apply(p) = Append(<< >>, x)
    BY <1>1 DEF push_from_output_apply
  <2> HIDE DEF x
  <2>3. push_from_output_apply(p) = << x >>
    BY <2>2
  <2>4. Dequeued(p) = {x}
    BY <2>3 DEF Dequeued
  <2>5. Dequeue(p) => outbound' = << >>
    BY <2>3 DEF Dequeue
  <2> QED BY <2>1, <2>4, <2>5
<1>2. CASE ~(accepts_candidate /\ answer(p) # {})
  <2>1. push_from_output_apply(p) = << >>
    BY <1>2 DEF push_from_output_apply
  <2> QED BY <2>1 DEF Dequeued, Dequeue
<1> QED BY <1>1, <1>2

\* An ack that leaves in this iteration carries its timestamp.
LEMMA SentAckTimed ==
    ASSUME ClockInv, pc = "Receive", NEW p, WellFormed(p), Sends(p), NEW a \in acks'
    PROVE  AckTimed(a)
<1>1. CASE a \in acks
  BY <1>1 DEF ClockInv
<1>2. CASE a \notin acks
  <2>1. PICK x \in Dequeued(p) :
          /\ x.type = "HeartbeatAck"
          /\ a = [client |-> x.client, run |-> x.run, echoed |-> x.echoed,
                  received |-> x.received, sent |-> x.sent, at |-> clock]
    BY <1>2 DEF Sends
  <2>2. x \in answer(p)
    BY <2>1, DequeuedIsAnswer DEF ClockInv
  <2>3. /\ p.type = "Heartbeat"
        /\ x.echoed = p.sent /\ x.received = stamp /\ x.sent = stamp
    BY <2>1, <2>2 DEF answer, Handled
  <2>4. a.echoed = p.sent /\ a.received = stamp /\ a.sent = stamp /\ a.at = clock
    BY <2>1, <2>3
  <2> QED BY <2>3, <2>4 DEF AckTimed, ClockInv, WellFormed
<1> QED BY <1>1, <1>2

\* A returned estimate comes from one ack and is within its bounds.
LEMMA ReturnedBounded ==
    ASSUME ClockInv, NEW p, WellFormed(p), NEW e \in Returned(p)
    PROVE  e \in Estimate /\ ErrorWithinBounds(e)
<1>1. /\ p.type = "ClientStats"
      /\ e \in Candidate(p.client, p.run, p.observation)
  BY DEF Returned, Handled
<1> DEFINE sample == handoffs[<< p.client, p.run >>]
<1>2. e \in calculate_from_client_stats(sample, p.observation)
  BY <1>1 DEF Candidate
<1> HIDE DEF sample
<1>3. PICK o \in p.observation :
        /\ matches(sample, o)
        /\ e \in calculate(sample.client_sent, sample.server_received, sample.server_sent,
                           o.client_received)
  BY <1>2 DEF calculate_from_client_stats
<1>4. PICK a \in acks, t \in Int :
        /\ a.at <= t
        /\ o = [echoed |-> a.echoed, received |-> a.received, sent |-> a.sent,
                client_received |-> t + Skew]
  BY <1>1, <1>3 DEF WellFormed
<1>5. AckTimed(a)
  BY <1>4 DEF ClockInv
<1>6. /\ sample.client_sent = a.echoed
      /\ sample.server_received = a.received
      /\ sample.server_sent = a.received
  BY <1>3, <1>4, <1>5 DEF matches, AckTimed
<1>7. e \in calculate(a.echoed, a.received, a.received, t + Skew)
  BY <1>3, <1>4, <1>6
<1>8. t + Skew \in Int /\ a.at <= (t + Skew) - Skew
  BY <1>4, <1>5, ReceiveSendAssumption DEF AckTimed
<1>9. /\ a.echoed \in Int /\ a.received \in Int /\ a.at \in Int
      /\ a.echoed - Skew <= a.at /\ a.received <= a.at
      /\ a.at <= a.received + ReceiveTimeout
  BY <1>5 DEF AckTimed
<1> QED BY <1>7, <1>8, <1>9, CalculateBounded

\* The entry that a commit stores for the client, and that it stores no other.
LEMMA CommitOffsetEntry ==
    ASSUME NEW c, NEW r, NEW e \in Estimate,
           \A d \in DOMAIN offsets : EstimateOK(offsets[d]),
           offsets' = commit_offset(c, r, e), NEW d \in DOMAIN offsets'
    PROVE  \/ d # c /\ d \in DOMAIN offsets /\ offsets'[d] = offsets[d]
           \/ /\ d = c
              /\ offsets'[d].run = r
              /\ offsets'[d].latest = e
              /\ offsets'[d].smoothed \in Estimate
              /\ \/ /\ SameRun(c, r)
                    /\ Between(offsets'[d].smoothed.rtt, offsets[d].smoothed.rtt, e.rtt)
                    /\ Between(offsets'[d].smoothed.offset, offsets[d].smoothed.offset, e.offset)
                 \/ ~SameRun(c, r) /\ offsets'[d].smoothed = e
<1> DEFINE entry == [run |-> r, latest |-> e,
             smoothed |-> IF SameRun(c, r) THEN smooth(offsets[c].smoothed, e) ELSE e,
             samples |-> IF SameRun(c, r) THEN offsets[c].samples + 1 ELSE 1]
<1>1. offsets' = MapInsert(offsets, c, entry)
  BY DEF commit_offset
<1> HIDE DEF entry
<1>2. DOMAIN offsets' = DOMAIN offsets \cup {c}
  BY <1>1 DEF MapInsert
<1>3. CASE d # c
  BY <1>1, <1>2, <1>3 DEF MapInsert
<1>4. CASE d = c
  <2>1. offsets'[d] = entry
    BY <1>1, <1>2, <1>4 DEF MapInsert
  <2>2. /\ entry.run = r
        /\ entry.latest = e
        /\ entry.smoothed = IF SameRun(c, r) THEN smooth(offsets[c].smoothed, e) ELSE e
    BY DEF entry
  <2>3. CASE SameRun(c, r)
    <3> DEFINE old == offsets[c].smoothed
    <3>1. old \in Estimate
      BY <2>3 DEF SameRun, EstimateOK
    <3> HIDE DEF old
    <3>2. old.rtt \in Nat /\ old.offset \in Int /\ e.rtt \in Nat /\ e.offset \in Int
      BY <3>1 DEF Estimate
    <3>3. ema(old.rtt, e.rtt) \in Nat /\ Between(ema(old.rtt, e.rtt), old.rtt, e.rtt)
      <4>1. old.rtt \in Int /\ e.rtt \in Int
        BY <3>2
      <4>2. Between(ema(old.rtt, e.rtt), old.rtt, e.rtt)
        BY <4>1, EmaBetween
      <4>3. ema(old.rtt, e.rtt) \in Nat
        BY <3>2, EmaNat
      <4> QED BY <4>2, <4>3
    <3>4. ema(old.offset, e.offset) \in Int /\ Between(ema(old.offset, e.offset), old.offset, e.offset)
      BY <3>2, EmaBetween
    <3>5. entry.smoothed = [rtt |-> ema(old.rtt, e.rtt), offset |-> ema(old.offset, e.offset)]
      BY <2>2, <2>3 DEF smooth, old
    <3>6. /\ entry.smoothed \in Estimate
          /\ entry.smoothed.rtt = ema(old.rtt, e.rtt)
          /\ entry.smoothed.offset = ema(old.offset, e.offset)
      BY <3>3, <3>4, <3>5 DEF Estimate
    <3>7. offsets[d].smoothed = old
      BY <1>4 DEF old
    <3> QED BY <1>4, <2>1, <2>2, <2>3, <3>3, <3>4, <3>6, <3>7
  <2>4. CASE ~SameRun(c, r)
    BY <1>4, <2>1, <2>2, <2>4
  <2> QED BY <2>3, <2>4
<1> QED BY <1>3, <1>4

\* An iteration stores either nothing or one estimate that is within its bounds.
LEMMA IterationCommits ==
    ASSUME ClockInv, NEW p, WellFormed(p), Receive(p)
    PROVE  \/ UNCHANGED offsets
           \/ \E e \in Estimate : /\ ErrorWithinBounds(e)
                                  /\ offsets' = commit_offset(p.client, p.run, e)
<1>1. CASE CompleteIteration(p) /\ Returned(p) # {}
  <2> DEFINE e == CHOOSE x \in Returned(p) : TRUE
  <2>1. e \in Returned(p)
    BY <1>1
  <2>2. offsets' = commit_offset(p.client, p.run, e)
    BY <1>1 DEF CompleteIteration, CommitOffset
  <2> HIDE DEF e
  <2>3. e \in Estimate /\ ErrorWithinBounds(e)
    BY <2>1, ReturnedBounded
  <2> QED BY <2>2, <2>3
<1>2. CASE ~(CompleteIteration(p) /\ Returned(p) # {})
  BY <1>2 DEF Receive, CompleteIteration, CommitOffset, FailIteration, heartbeatVars
<1> QED BY <1>1, <1>2

LEMMA ReceiveKeepsClockInv ==
    ASSUME ClockInv, NEW p, WellFormed(p), Receive(p)
    PROVE  ClockInv'
<1>1. /\ pc = "Receive" /\ pc' # "Receive"
      /\ clock' = clock /\ stamp' = stamp
  BY DEF Receive, CompleteIteration, FailIteration, Ends
<1>2. outbound' = << >>
  <2>1. Dequeue(p) \/ UNCHANGED outbound
    BY DEF Receive, CompleteIteration, FailIteration
  <2> QED BY <2>1, DequeuedIsAnswer DEF ClockInv
<1>3. \A a \in acks' : AckTimed(a)
  <2>1. Sends(p) \/ UNCHANGED acks
    BY DEF Receive, CompleteIteration, FailIteration
  <2>2. CASE Sends(p)
    BY <1>1, <2>2, SentAckTimed
  <2>3. CASE UNCHANGED acks
    BY <2>3 DEF ClockInv
  <2> QED BY <2>1, <2>2, <2>3
<1>4. \A d \in DOMAIN offsets' : EstimateOK(offsets'[d])
  <2>1. CASE UNCHANGED offsets
    BY <2>1 DEF ClockInv
  <2>2. CASE \E e \in Estimate : /\ ErrorWithinBounds(e)
                                 /\ offsets' = commit_offset(p.client, p.run, e)
    <3>1. PICK e \in Estimate : /\ ErrorWithinBounds(e)
                                /\ offsets' = commit_offset(p.client, p.run, e)
      BY <2>2
    <3>2. SUFFICES ASSUME NEW d \in DOMAIN offsets' PROVE EstimateOK(offsets'[d])
      OBVIOUS
    <3>3. \A x \in DOMAIN offsets : EstimateOK(offsets[x])
      BY DEF ClockInv
    <3>4. \/ d \in DOMAIN offsets /\ offsets'[d] = offsets[d]
          \/ offsets'[d].latest = e /\ offsets'[d].smoothed \in Estimate
      BY <3>1, <3>3, CommitOffsetEntry
    <3> QED BY <3>1, <3>3, <3>4 DEF EstimateOK
  <2> QED BY <2>1, <2>2, IterationCommits
<1> QED BY <1>1, <1>2, <1>3, <1>4 DEF ClockInv, AckTimed, EstimateOK, ErrorWithinBounds

\* Every packet the runtime receives is well formed.
LEMMA ReceivedIsWellFormed ==
    ASSUME ClockInv, ReceivePacket \/ ReceiveHeartbeat \/ ReceiveClientStats
    PROVE  \E p : WellFormed(p) /\ Receive(p)
<1>1. CASE ReceivePacket
  BY <1>1, ReceiveSendAssumption DEF ReceivePacket, WellFormed
<1>2. CASE ReceiveHeartbeat
  <2>1. PICK s \in Senders, t \in Epoch .. clock :
          Receive([type |-> "Heartbeat", source |-> s.source, client |-> s.client,
                   run |-> s.run, sent |-> t + Skew])
    BY <1>2 DEF ReceiveHeartbeat
  <2>2. t \in Int /\ t <= clock
    BY ReceiveSendAssumption DEF ClockInv
  <2>3. t + Skew \in Int /\ (t + Skew) - Skew <= clock
    BY <2>2, ReceiveSendAssumption DEF ClockInv
  <2>4. WellFormed([type |-> "Heartbeat", source |-> s.source, client |-> s.client,
                    run |-> s.run, sent |-> t + Skew])
    BY <2>3, ReceiveSendAssumption DEF WellFormed
  <2> QED BY <2>1, <2>4
<1>3. CASE ReceiveClientStats
  <2>1. PICK s \in Senders : \E o \in Observation(s.client, s.run) :
          Receive([type |-> "ClientStats", source |-> s.source, client |-> s.client,
                   run |-> s.run, observation |-> o])
    BY <1>3 DEF ReceiveClientStats
  <2>2. PICK o \in Observation(s.client, s.run) :
          Receive([type |-> "ClientStats", source |-> s.source, client |-> s.client,
                   run |-> s.run, observation |-> o])
    BY <2>1
  <2>3. \A x \in o : \E a \in acks, t \in Int :
          /\ a.at <= t
          /\ x = [echoed |-> a.echoed, received |-> a.received, sent |-> a.sent,
                  client_received |-> t + Skew]
    <3>1. SUFFICES ASSUME NEW x \in o
                   PROVE  \E a \in acks, t \in Int :
                            /\ a.at <= t
                            /\ x = [echoed |-> a.echoed, received |-> a.received,
                                    sent |-> a.sent, client_received |-> t + Skew]
      OBVIOUS
    <3>2. PICK a \in acks : \E t \in a.at .. clock :
            o = {[echoed |-> a.echoed, received |-> a.received, sent |-> a.sent,
                  client_received |-> t + Skew]}
      BY <2>2 DEF Observation
    <3>3. PICK t \in a.at .. clock :
            o = {[echoed |-> a.echoed, received |-> a.received, sent |-> a.sent,
                  client_received |-> t + Skew]}
      BY <3>2
    <3>4. a.at \in Int /\ clock \in Int
      BY DEF ClockInv, AckTimed
    <3>5. t \in Int /\ a.at <= t
      BY <3>4
    <3> QED BY <3>3, <3>5
  <2>4. WellFormed([type |-> "ClientStats", source |-> s.source, client |-> s.client,
                    run |-> s.run, observation |-> o])
    BY <2>3, ReceiveSendAssumption DEF WellFormed
  <2> QED BY <2>2, <2>4
<1> QED BY <1>1, <1>2, <1>3

LEMMA ClockInvInit ==
    ASSUME ReceiveSendInit
    PROVE  ClockInv
  BY ReceiveSendAssumption DEF ReceiveSendInit, HeartbeatInit, ClockInv, EmptyMap

LEMMA ClockInvStep ==
    ASSUME ClockInv, [ReceiveSendNext]_allVars
    PROVE  ClockInv'
<1> USE DEF AckTimed, EstimateOK, ErrorWithinBounds
<1>1. CASE BeginCycle \/ StopAtLimit \/ EndCycle \/ ReceiveTimesOut \/ ReceiveFails
  BY <1>1 DEF ClockInv, BeginCycle, StopAtLimit, EndCycle, ReceiveTimesOut, ReceiveFails,
              FailedIteration, Ends, LeavesState, heartbeatVars, historyVars
<1>2. CASE BeginIteration
  BY <1>2, ReceiveSendAssumption
     DEF ClockInv, BeginIteration, Ends, LeavesState, heartbeatVars, historyVars
<1>3. CASE Tick
  BY <1>3, ReceiveSendAssumption
     DEF ClockInv, Tick, NothingArrived, LeavesState, heartbeatVars, historyVars
<1>4. CASE ReceivePacket \/ ReceiveHeartbeat \/ ReceiveClientStats
  BY <1>4, ReceivedIsWellFormed, ReceiveKeepsClockInv
<1>5. CASE UNCHANGED allVars
  BY <1>5 DEF ClockInv, allVars, heartbeatVars, loopVars, historyVars
<1> QED BY <1>1, <1>2, <1>3, <1>4, <1>5 DEF ReceiveSendNext, ServerStep, Stopped

LEMMA ClockInvariant == ReceiveSendSpec => []ClockInv
<1>1. ReceiveSendInit => ClockInv
  BY ClockInvInit
<1>2. ClockInv /\ [ReceiveSendNext]_allVars => ClockInv'
  BY ClockInvStep
<1> QED BY <1>1, <1>2, PTL DEF ReceiveSendSpec

\* The latest clock offset of every client is wrong by no more than half the
\* round trip, a rounding, and the receive timeout on one side, for every skew
\* and whatever the network does to heartbeats, acks and statistics.
THEOREM OffsetsAreBounded == ReceiveSendSpec => []OffsetErrorBounded
<1>1. ClockInv => OffsetErrorBounded
  BY DEF ClockInv, EstimateOK, OffsetErrorBounded
<1> QED BY <1>1, ClockInvariant, PTL

\* What SmoothingStaysBetween says of a step.
SmoothedStep ==
    \A c \in DOMAIN offsets' :
        LET new == offsets'[c]
        IN  \/ c \in DOMAIN offsets /\ offsets[c] = new
            \/ /\ SameRun(c, new.run)
               /\ Between(new.smoothed.rtt, offsets[c].smoothed.rtt, new.latest.rtt)
               /\ Between(new.smoothed.offset, offsets[c].smoothed.offset, new.latest.offset)
            \/ ~SameRun(c, new.run) /\ new.smoothed = new.latest

LEMMA ReceiveSmooths ==
    ASSUME ClockInv, NEW p, WellFormed(p), Receive(p)
    PROVE  SmoothedStep
<1>1. CASE UNCHANGED offsets
  BY <1>1 DEF SmoothedStep
<1>2. CASE \E e \in Estimate : /\ ErrorWithinBounds(e)
                               /\ offsets' = commit_offset(p.client, p.run, e)
  <2>1. PICK e \in Estimate : offsets' = commit_offset(p.client, p.run, e)
    BY <1>2
  <2>2. \A x \in DOMAIN offsets : EstimateOK(offsets[x])
    BY DEF ClockInv
  <2> QED BY <2>1, <2>2, CommitOffsetEntry DEF SmoothedStep
<1> QED BY <1>1, <1>2, IterationCommits

\* Smoothing moves an estimate toward the sample and never past it, and starts
\* anew with another run.
THEOREM SmoothingIsSound == ReceiveSendSpec => SmoothingStaysBetween
<1>1. ClockInv /\ [ReceiveSendNext]_allVars => [SmoothedStep]_allVars
  <2>1. SUFFICES ASSUME ClockInv, ReceiveSendNext
                 PROVE  SmoothedStep
    OBVIOUS
  <2>2. CASE ReceivePacket \/ ReceiveHeartbeat \/ ReceiveClientStats
    BY <2>1, <2>2, ReceivedIsWellFormed, ReceiveSmooths
  <2>3. CASE ServerStep \/ ReceiveFails \/ Tick \/ Stopped
    <3>1. UNCHANGED offsets
      BY <2>3 DEF ServerStep, BeginCycle, BeginIteration, StopAtLimit, EndCycle,
                  ReceiveTimesOut, ReceiveFails, Tick, Stopped, LeavesState, heartbeatVars,
                  allVars
    <3> QED BY <3>1 DEF SmoothedStep
  <2> QED BY <2>1, <2>2, <2>3 DEF ReceiveSendNext
<1> QED BY <1>1, ClockInvariant, PTL DEF ReceiveSendSpec, SmoothingStaysBetween, SmoothedStep

---------------------------------------------------------------------------
(***************************************************************************)
(* Whose heartbeats leave a trace.  The gate compares a packet with the    *)
(* registry, and the registry holds what was granted (RegistryGranted, an  *)
(* invariant of the video core); an estimate needs a remembered exchange.  *)
(***************************************************************************)

\* A heartbeat or a statistics packet that reaches its handler is of a granted
\* client, run and endpoint.
LEMMA HandledIsGranted ==
    ASSUME RegistryGranted, NEW p, Handled(p, "Heartbeat") \/ Handled(p, "ClientStats")
    PROVE  \E g \in granted : g.client = p.client /\ g.run = p.run /\ g.source = p.source
<1>1. evaluate_client_packet(p) = "Accepted"
  BY DEF Handled, GateOutcome
<1>2. /\ p.client \in DOMAIN registry
      /\ registry[p.client].source = p.source
      /\ registry[p.client].run = p.run
  BY <1>1 DEF evaluate_client_packet
<1> QED BY <1>2 DEF RegistryGranted

\* A step forgets no accepted AuthRequest.
LEMMA GrantsStay ==
    ASSUME [Next]_vars
    PROVE  granted \subseteq granted'
<1>1. ASSUME NEW p \in Packets, ProcessPacket(p) PROVE granted \subseteq granted'
  BY <1>1 DEF ProcessPacket, ReceiveAuthRequest, HandleAuthRequest, ReceiveVideoFrame,
              ReceiveVideoFrameFragment, ReceiveOther, authVars, vars
<1>2. ASSUME NEW c, NEW r, NEW mode, handle_request(c, r, mode) PROVE granted \subseteq granted'
  BY <1>2 DEF handle_request, authVars
<1> QED BY <1>1, <1>2 DEF Next, vars, authVars

\* The trace of an iteration's packet is of granted clients.
LEMMA ReceiveKeepsTraces ==
    ASSUME OnlyAuthenticatedHeartbeats, RegistryGranted, granted \subseteq granted',
           NEW p, Receive(p)
    PROVE  OnlyAuthenticatedHeartbeats'
<1>1. ASSUME NEW c \in DOMAIN liveness'
      PROVE  \E g \in granted' : /\ g.client = c
                                 /\ g.run = liveness'[c].run
                                 /\ g.source = liveness'[c].source
  <2>1. CASE c \in DOMAIN liveness /\ liveness'[c] = liveness[c]
    BY <2>1 DEF OnlyAuthenticatedHeartbeats
  <2>2. CASE ~(c \in DOMAIN liveness /\ liveness'[c] = liveness[c])
    <3>1. Handled(p, "Heartbeat") /\ liveness' = commit_liveness(p, stamp)
      BY <1>1, <2>2 DEF Receive, CompleteIteration, CommitHeartbeat, FailIteration, heartbeatVars
    <3>2. c = p.client
      BY <1>1, <2>2, <3>1 DEF commit_liveness, MapInsert
    <3>3. liveness'[c].run = p.run /\ liveness'[c].source = p.source
      BY <1>1, <3>1, <3>2 DEF commit_liveness, MapInsert
    <3> QED BY <3>1, <3>2, <3>3, HandledIsGranted
  <2> QED BY <2>1, <2>2
<1>2. ASSUME NEW k \in DOMAIN handoffs'
      PROVE  \E g \in granted' : g.client = k[1] /\ g.run = k[2]
  <2>1. CASE k \in DOMAIN handoffs
    BY <2>1 DEF OnlyAuthenticatedHeartbeats
  <2>2. CASE k \notin DOMAIN handoffs
    <3>1. Handled(p, "Heartbeat") /\ k = << p.client, p.run >>
      BY <1>2, <2>2 DEF Receive, CompleteIteration, CommitHeartbeat, FailIteration,
                        heartbeatVars, MapInsert
    <3> QED BY <3>1, HandledIsGranted
  <2> QED BY <2>1, <2>2
<1>3. ASSUME NEW c \in DOMAIN offsets'
      PROVE  \E g \in granted' : g.client = c /\ g.run = offsets'[c].run
  <2>1. CASE c \in DOMAIN offsets /\ offsets'[c] = offsets[c]
    BY <2>1 DEF OnlyAuthenticatedHeartbeats
  <2>2. CASE ~(c \in DOMAIN offsets /\ offsets'[c] = offsets[c])
    <3>1. /\ Returned(p) # {}
          /\ offsets' = commit_offset(p.client, p.run, CHOOSE e \in Returned(p) : TRUE)
      BY <1>3, <2>2 DEF Receive, CompleteIteration, CommitOffset, FailIteration, heartbeatVars
    <3>2. Handled(p, "ClientStats")
      BY <3>1 DEF Returned
    <3>3. c = p.client
      BY <1>3, <2>2, <3>1 DEF commit_offset, MapInsert
    <3>4. offsets'[c].run = p.run
      BY <1>3, <3>1, <3>3 DEF commit_offset, MapInsert
    <3> QED BY <3>2, <3>3, <3>4, HandledIsGranted
  <2> QED BY <2>1, <2>2
<1> QED BY <1>1, <1>2, <1>3 DEF OnlyAuthenticatedHeartbeats

\* Liveness, exchanges and estimates are of clients that authenticated with that
\* very run, whatever is received and whatever fails.
THEOREM AuthenticatedHeartbeatsOnly == ReceiveSendSpec => []OnlyAuthenticatedHeartbeats
<1>1. ReceiveSendInit => OnlyAuthenticatedHeartbeats
  BY DEF ReceiveSendInit, HeartbeatInit, EmptyMap, OnlyAuthenticatedHeartbeats
<1>2. OnlyAuthenticatedHeartbeats /\ RegistryGranted /\ [ReceiveSendNext]_allVars
        => OnlyAuthenticatedHeartbeats'
  <2>1. SUFFICES ASSUME OnlyAuthenticatedHeartbeats, RegistryGranted, [ReceiveSendNext]_allVars
                 PROVE  OnlyAuthenticatedHeartbeats'
    OBVIOUS
  <2>2. granted \subseteq granted'
    BY <2>1, StepIsIngest, GrantsStay DEF allVars
  <2>3. CASE ReceivePacket \/ ReceiveHeartbeat \/ ReceiveClientStats
    <3>1. PICK p : Receive(p)
      BY <2>3 DEF ReceivePacket, ReceiveHeartbeat, ReceiveClientStats
    <3> QED BY <2>1, <2>2, <3>1, ReceiveKeepsTraces
  <2>4. CASE ServerStep \/ ReceiveFails \/ Tick \/ Stopped \/ UNCHANGED allVars
    <3>1. UNCHANGED << liveness, handoffs, offsets >>
      BY <2>4 DEF ServerStep, BeginCycle, BeginIteration, StopAtLimit, EndCycle,
                  ReceiveTimesOut, ReceiveFails, Tick, Stopped, LeavesState, heartbeatVars,
                  allVars
    <3> QED BY <2>1, <2>2, <3>1 DEF OnlyAuthenticatedHeartbeats
  <2> QED BY <2>1, <2>3, <2>4 DEF ReceiveSendNext
<1>3. HeldInv => RegistryGranted
  BY DEF HeldInv
<1> QED BY <1>1, <1>2, <1>3, ReceiveSendImplementsIngest, HeldInvariant, PTL
        DEF ReceiveSendSpec, ImplementsVideoIngest

---------------------------------------------------------------------------
(***************************************************************************)
(* What the loop reports.  The invariant that is kept has five parts: the  *)
(* control points and the socket's mode, the counters, the relation        *)
(* between a report and what was heard, the answers, and the types.        *)
(***************************************************************************)

\* A cycle that has not yet received a packet blocks in its receive: the mode
\* is changed after the first packet and changed back at the end of the cycle.
PathInv ==
    /\ clock \in Nat /\ stamp \in Nat /\ last_packet \in Nat
    /\ pc \in {"Top", "Drain", "Receive", "EndCycle", "Done"}
    /\ drain \in 0 .. DrainLimit
    /\ pc = "Receive" => drain < DrainLimit
    /\ nonblocking \in BOOLEAN
    /\ nonblocking => MaxPacketsPerDrainCycle > 1 /\ drain >= 1 /\ pc # "Top"
    /\ result \in {"None", "Err", "MaxIterationsReached", "ReceiveTimedOut",
                   "SocketReceiveFailed"}
    /\ pc \in {"Top", "Drain", "Receive"} => result = "None"
    /\ result = "Err" => pc = "Done"
    /\ last_packet <= clock
    /\ pc = "Receive" => last_packet <= stamp
    /\ StopsOnlyAfterSilence

CountInv ==
    /\ index \in Nat
    /\ count \in [Counter -> Nat]
    /\ CountersAddUp
    /\ count["heartbeats_received"] = count["heartbeat_acks_sent"]

\* A heartbeat's timestamp in the liveness entry is at most ReceiveTimeout older
\* than its arrival, and so is that of a report.
HeardInv ==
    /\ DOMAIN heard = DOMAIN liveness
    /\ \A c \in DOMAIN heard :
         /\ heard[c] \in Int /\ liveness[c].received \in Int
         /\ liveness[c].received <= heard[c] /\ heard[c] <= clock
         /\ heard[c] <= liveness[c].received + ReceiveTimeout
    /\ \A r \in report :
         /\ r.at \in Int /\ r.now \in Int
         /\ r.at <= r.now /\ r.now <= r.at + ReceiveTimeout
         /\ \A c \in DOMAIN heard : heard[c] <= r.now
         /\ \A timeout \in HeartbeatTimeout :
              r.timed_out = { c \in r.evaluated :
                                evaluate_timeout(liveness, c, r.at, timeout) = "TimedOut" }

AnswerInv ==
    /\ IsFiniteSet(DOMAIN registry)
    /\ result # "Err" => Cardinality(DOMAIN registry) <= count["auth_responses_sent"]

\* What an iteration that received p counts.
LEMMA CountedForPacket ==
    ASSUME NEW p, outbound = << >>
    PROVE  /\ "iterations_completed" \in CountedFor(p)
           /\ "packets_received" \in CountedFor(p)
           /\ "iterations_attempted" \notin CountedFor(p)
           /\ "receive_would_block_count" \notin CountedFor(p)
           /\ "accepted_packets" \in CountedFor(p) <=> "rejected_packets" \notin CountedFor(p)
           /\ "heartbeats_received" \in CountedFor(p) <=> "heartbeat_acks_sent" \in CountedFor(p)
           /\ Handled(p, "AuthRequest") /\ decide_resolved(p.client, p.token) = "Ok"
                => "auth_responses_sent" \in CountedFor(p)
<1>1. answer(p) # {} => \E x : answer(p) = {x} /\ Dequeued(p) = {x}
  <2>1. SUFFICES ASSUME answer(p) # {}
                 PROVE  \E x : answer(p) = {x} /\ Dequeued(p) = {x}
    OBVIOUS
  <2> DEFINE x == CHOOSE item \in answer(p) : TRUE
  <2>2. answer(p) = {x}
    BY <2>1 DEF answer
  <2>3. accepts_candidate
    BY ReceiveSendAssumption DEF accepts_candidate
  <2>4. push_from_output_apply(p) = Append(<< >>, x)
    BY <2>1, <2>3 DEF push_from_output_apply
  <2> HIDE DEF x
  <2>5. push_from_output_apply(p) = << x >>
    BY <2>4
  <2>6. Dequeued(p) = {x}
    BY <2>5 DEF Dequeued
  <2> QED BY <2>2, <2>6
<1>2. Dequeued(p) = answer(p)
  BY <1>1, DequeuedIsAnswer
<1>3. \A item \in answer(p) :
        /\ item.type = "AuthResponse" => Handled(p, "AuthRequest")
        /\ item.type # "AuthResponse" => Handled(p, "Heartbeat")
  BY DEF answer
<1>4. /\ Handled(p, "Heartbeat") => \E item \in answer(p) : item.type # "AuthResponse"
      /\ Handled(p, "AuthRequest") /\ decide_resolved(p.client, p.token) = "Ok"
           => \E item \in answer(p) : item.type = "AuthResponse"
  BY DEF answer, Handled
<1> DEFINE table == { << "AuthRequest", "auth_requests_received" >>,
                      << "Heartbeat", "heartbeats_received" >>,
                      << "ClientStats", "client_stats_received" >> }
           handled == { pair[2] : pair \in { x \in table : Handled(p, x[1]) } }
           sent == { IF item.type = "AuthResponse" THEN "auth_responses_sent"
                     ELSE "heartbeat_acks_sent" : item \in answer(p) }
           gate == IF GateOutcome(p) = "Accepted" THEN {"accepted_packets"}
                   ELSE {"rejected_packets"}
           video == (IF Returned(p) # {} THEN {"heartbeat_observations_committed"} ELSE {})
                    \cup (IF FrameQueued(p) THEN {"frames_queued"} ELSE {})
<1>5. CountedFor(p) =
        {"iterations_completed", "packets_received"} \cup gate \cup handled \cup video \cup sent
  BY <1>2, Zenon DEF CountedFor
<1>6. /\ handled \subseteq {"auth_requests_received", "heartbeats_received", "client_stats_received"}
      /\ "heartbeats_received" \in handled <=> Handled(p, "Heartbeat")
  <2>1. handled = (IF Handled(p, "AuthRequest") THEN {"auth_requests_received"} ELSE {})
                  \cup (IF Handled(p, "Heartbeat") THEN {"heartbeats_received"} ELSE {})
                  \cup (IF Handled(p, "ClientStats") THEN {"client_stats_received"} ELSE {})
    <3>1. ASSUME NEW n
          PROVE  n \in handled <=> \E x \in table : Handled(p, x[1]) /\ n = x[2]
      BY Zenon
    <3>2. ASSUME NEW n
          PROVE  n \in handled <=>
                   \/ Handled(p, "AuthRequest") /\ n = "auth_requests_received"
                   \/ Handled(p, "Heartbeat") /\ n = "heartbeats_received"
                   \/ Handled(p, "ClientStats") /\ n = "client_stats_received"
      BY <3>1
    <3> HIDE DEF handled
    <3> QED BY <3>2
  <2> HIDE DEF handled
  <2> QED BY <2>1
<1>7. /\ sent \subseteq {"auth_responses_sent", "heartbeat_acks_sent"}
      /\ "heartbeat_acks_sent" \in sent <=> Handled(p, "Heartbeat")
      /\ Handled(p, "AuthRequest") /\ decide_resolved(p.client, p.token) = "Ok"
           => "auth_responses_sent" \in sent
  BY <1>3, <1>4
<1>8. /\ gate \subseteq {"accepted_packets", "rejected_packets"}
      /\ "accepted_packets" \in gate <=> "rejected_packets" \notin gate
      /\ video \subseteq {"heartbeat_observations_committed", "frames_queued"}
  OBVIOUS
<1> HIDE DEF handled, sent, gate, video
<1> QED BY <1>5, <1>6, <1>7, <1>8

\* The count of names after a bump of others.
LEMMA BumpCounts ==
    ASSUME count \in [Counter -> Nat], NEW names
    PROVE  /\ Bump(names) \in [Counter -> Nat]
           /\ \A n \in Counter :
                Bump(names)[n] = IF n \in names THEN count[n] + 1 ELSE count[n]
  BY DEF Bump

LEMMA PathInvStep ==
    ASSUME PathInv, [ReceiveSendNext]_allVars
    PROVE  PathInv'
<1>0. /\ DrainLimit \in Nat \ {0} /\ ReceiveTimeout \in Nat
      /\ DrainLimit > 1 => MaxPacketsPerDrainCycle > 1
      /\ MaxPacketsPerDrainCycle \in Nat
  BY ReceiveSendAssumption DEF DrainLimit
<1> USE <1>0 DEF PathInv, StopsOnlyAfterSilence
<1>1. CASE BeginCycle
  BY <1>1 DEF BeginCycle, Ends, LeavesState, historyVars
<1>2. CASE BeginIteration
  <2>1. /\ pc = "Drain" /\ drain < DrainLimit /\ UNCHANGED << clock, drain, last_packet >>
        /\ \/ pc' = "Receive" /\ stamp' = clock /\ result' = result
           \/ pc' = "Done" /\ result' = "Err" /\ stamp' = stamp
    BY <1>2 DEF BeginIteration, CycleOver, Ends, LeavesState, historyVars
  <2>2. nonblocking' \in BOOLEAN /\ (nonblocking' => nonblocking \/ drain = 1)
    BY <1>2 DEF BeginIteration
  <2> QED BY <2>1, <2>2
<1>3. CASE StopAtLimit
  BY <1>3 DEF StopAtLimit, LeavesState, historyVars
<1>4. CASE EndCycle
  <2>1. /\ pc \in {"Drain", "EndCycle"} /\ UNCHANGED << clock, stamp, drain, last_packet >>
        /\ \/ /\ pc' = IF result = "None" THEN "Top" ELSE "Done"
              /\ nonblocking' => MaxPacketsPerDrainCycle <= 1 /\ nonblocking
              /\ result' = result
           \/ pc' = "Done" /\ result' = "Err" /\ nonblocking' = nonblocking
    BY <1>4 DEF EndCycle, Ends, LeavesState, historyVars
  <2>2. nonblocking' \in BOOLEAN
    BY <1>4 DEF EndCycle
  <2> QED BY <2>1, <2>2
<1>5. CASE ReceiveTimesOut
  BY <1>5 DEF ReceiveTimesOut, NothingArrived, FailedIteration, LeavesState, historyVars
<1>6. CASE ReceiveFails
  BY <1>6 DEF ReceiveFails, FailedIteration, LeavesState, historyVars
<1>7. CASE Tick
  BY <1>7 DEF Tick, LeavesState, historyVars
<1>8. CASE ReceivePacket \/ ReceiveHeartbeat \/ ReceiveClientStats
  <2>1. PICK p : Receive(p)
    BY <1>8 DEF ReceivePacket, ReceiveHeartbeat, ReceiveClientStats
  <2>2. /\ pc = "Receive" /\ last_packet' = clock
        /\ UNCHANGED << clock, stamp, nonblocking >>
        /\ \/ pc' = "Drain" /\ drain' = drain + 1 /\ result' = result
           \/ pc' = "Done" /\ drain' = drain /\ result' = "Err"
    BY <2>1 DEF Receive, CompleteIteration, FailIteration, Ends
  <2> QED BY <2>2
<1>9. CASE UNCHANGED allVars
  BY <1>9 DEF allVars, loopVars, historyVars
<1> QED BY <1>1, <1>2, <1>3, <1>4, <1>5, <1>6, <1>7, <1>8, <1>9
        DEF ReceiveSendNext, ServerStep, Stopped

LEMMA CountInvStep ==
    ASSUME PathInv, CountInv, ClockInv, [ReceiveSendNext]_allVars
    PROVE  CountInv'
<1> USE DEF CountInv, CountersAddUp
<1>0. /\ count \in [Counter -> Nat] /\ index \in Nat
      /\ \A n \in {"iterations_attempted", "iterations_completed", "receive_would_block_count",
                   "packets_received", "accepted_packets", "rejected_packets",
                   "heartbeats_received", "heartbeat_acks_sent"} :
           n \in Counter /\ count[n] \in Nat
  BY DEF Counter
<1>1. CASE BeginCycle \/ StopAtLimit
  BY <1>0, <1>1 DEF BeginCycle, StopAtLimit, Ends, PathInv
<1>2. CASE BeginIteration
  <2>1. CASE count' = Bump({"iterations_attempted"}) /\ pc' = "Receive" /\ result' = result
    BY <1>0, <1>2, <2>1, BumpCounts DEF BeginIteration, PathInv
  <2>2. CASE count' = count /\ Ends("Err")
    BY <1>0, <1>2, <2>2 DEF BeginIteration, Ends, PathInv
  <2> QED BY <1>2, <2>1, <2>2 DEF BeginIteration
<1>3. CASE EndCycle
  BY <1>0, <1>3 DEF EndCycle, Ends, PathInv
<1>4. CASE ReceiveTimesOut
  <2>1. CASE drain > 0
    <3>1. /\ count' = Bump({"iterations_completed", "receive_would_block_count"})
          /\ index' = index /\ result' = result /\ pc' = "EndCycle" /\ pc = "Receive"
      BY <1>4, <2>1 DEF ReceiveTimesOut
    <3>2. /\ count' \in [Counter -> Nat]
          /\ \A n \in Counter :
               count'[n] = IF n \in {"iterations_completed", "receive_would_block_count"}
                           THEN count[n] + 1 ELSE count[n]
      BY <1>0, <3>1 DEF Bump
    <3>3. /\ count'["iterations_completed"] = count["iterations_completed"] + 1
          /\ count'["receive_would_block_count"] = count["receive_would_block_count"] + 1
          /\ \A n \in {"iterations_attempted", "packets_received", "accepted_packets",
                       "rejected_packets", "heartbeats_received", "heartbeat_acks_sent"} :
               count'[n] = count[n]
      BY <1>0, <3>2
    <3> QED BY <1>0, <3>1, <3>2, <3>3 DEF PathInv
  <2>2. CASE ~(drain > 0)
    <3>1. /\ count' = Bump({"iterations_completed"})
          /\ index' = index + 1 /\ result' = "ReceiveTimedOut" /\ pc' = "EndCycle"
          /\ pc = "Receive"
      BY <1>4, <2>2 DEF ReceiveTimesOut, FailedIteration
    <3> QED BY <1>0, <3>1, BumpCounts DEF PathInv
  <2> QED BY <2>1, <2>2
<1>5. CASE ReceiveFails
  <2>1. /\ count' = Bump({"iterations_completed"})
        /\ index' = index + 1 /\ result' = "SocketReceiveFailed" /\ pc' = "EndCycle"
        /\ pc = "Receive"
    BY <1>5 DEF ReceiveFails, FailedIteration
  <2> QED BY <1>0, <2>1, BumpCounts DEF PathInv
<1>6. CASE ReceivePacket \/ ReceiveHeartbeat \/ ReceiveClientStats
  <2>1. PICK p : Receive(p)
    BY <1>6 DEF ReceivePacket, ReceiveHeartbeat, ReceiveClientStats
  <2>2. CASE CompleteIteration(p)
    <3>1. /\ count' = Bump(CountedFor(p)) /\ index' = index + 1 /\ result' = result
          /\ pc' = "Drain" /\ pc = "Receive"
      BY <2>1, <2>2 DEF Receive, CompleteIteration
    <3>2. outbound = << >>
      BY DEF ClockInv
    <3>3. /\ count'["iterations_completed"] = count["iterations_completed"] + 1
          /\ count'["packets_received"] = count["packets_received"] + 1
          /\ count'["iterations_attempted"] = count["iterations_attempted"]
          /\ count'["receive_would_block_count"] = count["receive_would_block_count"]
          /\ count'["accepted_packets"] + count'["rejected_packets"] =
               count["accepted_packets"] + count["rejected_packets"] + 1
          /\ count'["heartbeats_received"] = count'["heartbeat_acks_sent"]
          /\ count' \in [Counter -> Nat]
      <4>1. /\ count' \in [Counter -> Nat]
            /\ \A n \in Counter :
                 count'[n] = IF n \in CountedFor(p) THEN count[n] + 1 ELSE count[n]
        BY <1>0, <3>1 DEF Bump
      <4> HIDE DEF CountersAddUp, CountInv
      <4>2. count["heartbeats_received"] = count["heartbeat_acks_sent"]
        BY DEF CountInv
      <4>3. /\ "iterations_completed" \in CountedFor(p)
            /\ "packets_received" \in CountedFor(p)
            /\ "iterations_attempted" \notin CountedFor(p)
            /\ "receive_would_block_count" \notin CountedFor(p)
            /\ "accepted_packets" \in CountedFor(p) <=> "rejected_packets" \notin CountedFor(p)
            /\ "heartbeats_received" \in CountedFor(p)
                 <=> "heartbeat_acks_sent" \in CountedFor(p)
        BY <3>2, CountedForPacket
      <4> QED BY <1>0, <4>1, <4>2, <4>3
    <3> QED BY <1>0, <3>1, <3>3 DEF PathInv
  <2>3. CASE FailIteration(p)
    <3>1. UNCHANGED << count, index >> /\ pc = "Receive" /\ pc' = "Done" /\ result' = "Err"
      BY <2>1, <2>3 DEF Receive, FailIteration, Ends
    <3> QED BY <1>0, <3>1 DEF PathInv
  <2> QED BY <2>1, <2>2, <2>3 DEF Receive
<1>7. CASE Tick \/ UNCHANGED allVars
  BY <1>0, <1>7 DEF Tick, allVars, loopVars
<1> QED BY <1>1, <1>2, <1>3, <1>4, <1>5, <1>6, <1>7 DEF ReceiveSendNext, ServerStep, Stopped

\* A report is made at a timestamp that is at most ReceiveTimeout old, of the
\* liveness it is given.
LEMMA ReportAgrees ==
    ASSUME ClockInv, pc = "Receive", NEW reg, NEW entries,
           NEW r \in summarize_heartbeat_timeouts(reg, entries)
    PROVE  /\ r.at \in Int /\ r.now \in Int
           /\ r.at <= r.now /\ r.now <= r.at + ReceiveTimeout
           /\ r.now = clock /\ r.evaluated = DOMAIN reg
           /\ r.timed_out \subseteq DOMAIN reg
           /\ \A timeout \in HeartbeatTimeout :
                r.timed_out = { c \in r.evaluated :
                                  evaluate_timeout(entries, c, r.at, timeout) = "TimedOut" }
<1>1. PICK t \in HeartbeatTimeout :
        r = [at |-> stamp, now |-> clock, evaluated |-> DOMAIN reg,
             timed_out |-> { c \in DOMAIN reg :
                               evaluate_timeout(entries, c, stamp, t) = "TimedOut" }]
  BY DEF summarize_heartbeat_timeouts
<1>2. \A timeout \in HeartbeatTimeout : timeout = t
  BY HeartbeatAssumption
<1>3. /\ r.at = stamp /\ r.now = clock /\ r.evaluated = DOMAIN reg
      /\ r.timed_out = { c \in DOMAIN reg : evaluate_timeout(entries, c, stamp, t) = "TimedOut" }
  BY <1>1
<1> QED BY <1>2, <1>3 DEF ClockInv

\* The reports of the state, whatever the step did, agree with the liveness if
\* those that are new do.
LEMMA ReportsStay ==
    ASSUME HeardInv, ClockInv, pc = "Receive",
           report' = summarize_heartbeat_timeouts(registry', liveness')
    PROVE  \A r \in report' :
             /\ r.at \in Int /\ r.now \in Int
             /\ r.at <= r.now /\ r.now <= r.at + ReceiveTimeout /\ r.now = clock
             /\ \A timeout \in HeartbeatTimeout :
                  r.timed_out = { c \in r.evaluated :
                                    evaluate_timeout(liveness', c, r.at, timeout) = "TimedOut" }
  BY ReportAgrees

LEMMA ClockMovesOn ==
    ASSUME ClockInv, [ReceiveSendNext]_allVars
    PROVE  clock' \in Int /\ clock <= clock'
<1>1. CASE Tick
  BY <1>1 DEF Tick, ClockInv
<1>2. CASE UNCHANGED clock
  BY <1>2 DEF ClockInv
<1> QED BY <1>1, <1>2
        DEF ReceiveSendNext, ServerStep, BeginCycle, BeginIteration, StopAtLimit, EndCycle,
            ReceiveTimesOut, ReceiveFails, ReceivePacket, ReceiveHeartbeat, ReceiveClientStats,
            Receive, Stopped, allVars, loopVars

LEMMA HeardInvStep ==
    ASSUME HeardInv, ClockInv, [ReceiveSendNext]_allVars
    PROVE  HeardInv'
<1>0. clock' \in Int /\ clock \in Int /\ clock <= clock'
  BY ClockMovesOn DEF ClockInv
<1>1. CASE UNCHANGED << heard, liveness, report >>
  BY <1>0, <1>1 DEF HeardInv, evaluate_timeout
<1>2. CASE /\ UNCHANGED << heard, liveness, registry, clock >>
           /\ pc = "Receive" /\ report' = summarize_heartbeat_timeouts(registry, liveness)
  <2>1. report' = summarize_heartbeat_timeouts(registry', liveness')
    BY <1>2
  <2> QED BY <1>2, <2>1, ReportsStay DEF HeardInv, evaluate_timeout
<1>3. CASE ReceivePacket \/ ReceiveHeartbeat \/ ReceiveClientStats
  <2>1. PICK p : Receive(p)
    BY <1>3 DEF ReceivePacket, ReceiveHeartbeat, ReceiveClientStats
  <2>2. CASE FailIteration(p)
    BY <1>1, <2>2 DEF FailIteration, heartbeatVars
  <2>3. CASE CompleteIteration(p)
    <3>1. pc = "Receive" /\ clock' = clock /\ report' = summarize_heartbeat_timeouts(registry', liveness')
      BY <2>1, <2>3 DEF Receive, CompleteIteration
    <3>2. CASE UNCHANGED << liveness, heard >>
      BY <3>1, <3>2, ReportsStay DEF HeardInv, evaluate_timeout
    <3>3. CASE /\ liveness' = commit_liveness(p, stamp)
               /\ heard' = MapInsert(heard, p.client, clock)
      <4>1. /\ DOMAIN liveness' = DOMAIN liveness \cup {p.client}
            /\ DOMAIN heard' = DOMAIN heard \cup {p.client}
        BY <3>3 DEF commit_liveness, MapInsert
      <4>2. heard'[p.client] = clock /\ liveness'[p.client].received = stamp
        BY <3>3 DEF commit_liveness, MapInsert
      <4>3. \A c \in DOMAIN heard : c # p.client =>
              heard'[c] = heard[c] /\ liveness'[c] = liveness[c]
        BY <3>3 DEF commit_liveness, MapInsert, HeardInv
      <4>4. /\ stamp \in Int /\ clock \in Int
            /\ stamp <= clock /\ clock <= stamp + ReceiveTimeout
        BY <3>1 DEF ClockInv
      <4>5. \A c \in DOMAIN heard' :
              /\ heard'[c] \in Int /\ liveness'[c].received \in Int
              /\ liveness'[c].received <= heard'[c] /\ heard'[c] <= clock
              /\ heard'[c] <= liveness'[c].received + ReceiveTimeout
        BY <4>1, <4>2, <4>3, <4>4 DEF HeardInv
      <4> QED BY <3>1, <4>1, <4>5, ReportsStay DEF HeardInv, evaluate_timeout
    <3> QED BY <2>3, <3>2, <3>3 DEF CompleteIteration, CommitHeartbeat
  <2> QED BY <2>1, <2>2, <2>3 DEF Receive
<1>4. CASE ServerStep \/ ReceiveFails \/ Tick \/ UNCHANGED allVars
  BY <1>1, <1>2, <1>4
     DEF ServerStep, BeginCycle, BeginIteration, StopAtLimit, EndCycle, ReceiveTimesOut,
         ReceiveFails, FailedIteration, Tick, LeavesState, allVars, vars, authVars,
         heartbeatVars, loopVars, historyVars
<1> QED BY <1>3, <1>4 DEF ReceiveSendNext, Stopped

\* So a report is right within one receive timeout.
LEMMA ReportIsAccurate ==
    ASSUME HeardInv
    PROVE  TimeoutReportIsAccurate
<1>1. SUFFICES ASSUME NEW r \in report, NEW timeout \in HeartbeatTimeout
               PROVE  /\ \A c \in r.timed_out : r.now - heard[c] >= timeout - ReceiveTimeout
                      /\ \A c \in r.evaluated \cap DOMAIN heard :
                           r.now - heard[c] >= timeout + ReceiveTimeout => c \in r.timed_out
  BY DEF TimeoutReportIsAccurate
<1>2. /\ r.at \in Int /\ r.now \in Int
      /\ r.at <= r.now /\ r.now <= r.at + ReceiveTimeout
      /\ \A c \in DOMAIN heard : heard[c] <= r.now
      /\ r.timed_out = { c \in r.evaluated :
                           evaluate_timeout(liveness, c, r.at, timeout) = "TimedOut" }
  BY DEF HeardInv
<1>3. timeout \in Nat /\ ReceiveTimeout \in Nat
  BY HeartbeatAssumption, ReceiveSendAssumption
<1>4. \A c \in DOMAIN heard : /\ heard[c] \in Int /\ liveness[c].received \in Int
                              /\ liveness[c].received <= heard[c]
                              /\ heard[c] <= liveness[c].received + ReceiveTimeout
                              /\ c \in DOMAIN liveness
  BY DEF HeardInv
<1>5. ASSUME NEW c \in r.timed_out
      PROVE  r.now - heard[c] >= timeout - ReceiveTimeout
  <2>1. /\ c \in DOMAIN liveness
        /\ r.at - liveness[c].received >= timeout \/ timeout = 0
    BY <1>2 DEF evaluate_timeout
  <2>2. c \in DOMAIN heard
    BY <2>1 DEF HeardInv
  <2> QED BY <1>2, <1>3, <1>4, <2>1, <2>2
<1>6. ASSUME NEW c \in r.evaluated \cap DOMAIN heard,
             r.now - heard[c] >= timeout + ReceiveTimeout
      PROVE  c \in r.timed_out
  <2>1. r.at - liveness[c].received >= timeout /\ c \in DOMAIN liveness
    BY <1>2, <1>3, <1>4, <1>6
  <2> QED BY <1>2, <2>1 DEF evaluate_timeout
<1> QED BY <1>5, <1>6

\* A registration is answered by the iteration that makes it.
LEMMA AnswerInvStep ==
    ASSUME AnswerInv, PathInv, CountInv, ClockInv, [ReceiveSendNext]_allVars
    PROVE  AnswerInv'
<1> DEFINE told == count["auth_responses_sent"]
<1>0. told \in Nat /\ "auth_responses_sent" \in Counter
  BY DEF CountInv, Counter
<1>1. CASE /\ UNCHANGED registry /\ told' \in Nat /\ told <= told'
           /\ result' # "Err" => result # "Err"
  BY <1>0, <1>1, FS_CardinalityType DEF AnswerInv
<1>2. CASE ReceivePacket \/ ReceiveHeartbeat \/ ReceiveClientStats
  <2>1. PICK p : Receive(p)
    BY <1>2 DEF ReceivePacket, ReceiveHeartbeat, ReceiveClientStats
  <2>2. \/ UNCHANGED registry
        \/ registry' = register(p) /\ p.type = "AuthRequest"
           /\ decide_resolved(p.client, p.token) = "Ok"
    BY <2>1 DEF Receive, CompleteIteration, FailIteration, ProcessPacket, Registers,
                ReceiveAuthRequest, HandleAuthRequest, ReceiveVideoFrame,
                ReceiveVideoFrameFragment, ReceiveOther, vars, authVars
  <2>3. UNCHANGED registry \/ DOMAIN registry' = DOMAIN registry \cup {p.client}
    BY <2>2 DEF register, MapInsert
  <2>4. /\ IsFiniteSet(DOMAIN registry')
        /\ Cardinality(DOMAIN registry') \in Nat
        /\ Cardinality(DOMAIN registry) \in Nat
        /\ Cardinality(DOMAIN registry') <= Cardinality(DOMAIN registry) + 1
    <3> DEFINE S == DOMAIN registry
               T == DOMAIN registry \cup {p.client}
    <3>1. IsFiniteSet(S)
      BY DEF AnswerInv
    <3>2. /\ IsFiniteSet(T)
          /\ Cardinality(T) = Cardinality(S) \/ Cardinality(T) = Cardinality(S) + 1
      BY <3>1, FS_AddElement
    <3>3. Cardinality(S) \in Nat
      BY <3>1, FS_CardinalityType
    <3>4. DOMAIN registry' = S \/ DOMAIN registry' = T
      BY <2>3
    <3> HIDE DEF T
    <3>5. CASE DOMAIN registry' = S
      BY <3>1, <3>3, <3>5
    <3>6. CASE DOMAIN registry' = T
      BY <3>2, <3>3, <3>6
    <3> QED BY <3>4, <3>5, <3>6
  <2>5. CASE CompleteIteration(p)
    <3>1. /\ pc = "Receive" /\ result' = result /\ result = "None"
          /\ count' = Bump(CountedFor(p))
      BY <2>1, <2>5 DEF Receive, CompleteIteration, PathInv
    <3>2. told' \in Nat /\ told <= told'
          /\ ("auth_responses_sent" \in CountedFor(p) => told' = told + 1)
      BY <1>0, <3>1 DEF Bump
    <3>3. CASE UNCHANGED registry
      BY <1>1, <3>1, <3>2, <3>3
    <3>4. CASE registry' # registry
      <4>1. GateOutcome(p) = "Accepted"
        BY <2>5, <3>4 DEF CompleteIteration, ProcessPacket, vars, authVars
      <4>2. Handled(p, "AuthRequest") /\ decide_resolved(p.client, p.token) = "Ok"
        BY <2>2, <3>4, <4>1 DEF Handled
      <4>3. outbound = << >>
        BY DEF ClockInv
      <4>4. told' = told + 1
        BY <3>2, <4>2, <4>3, CountedForPacket
      <4> QED BY <1>0, <2>4, <3>1, <4>4 DEF AnswerInv
    <3> QED BY <3>3, <3>4
  <2>6. CASE FailIteration(p)
    <3>1. result' = "Err"
      BY <2>6 DEF FailIteration, Ends
    <3> QED BY <2>4, <3>1 DEF AnswerInv
  <2> QED BY <2>1, <2>5, <2>6 DEF Receive
<1>3. CASE ServerStep \/ ReceiveFails \/ Tick \/ UNCHANGED allVars
  <2>1. UNCHANGED registry
    BY <1>3 DEF ServerStep, BeginCycle, BeginIteration, StopAtLimit, EndCycle, ReceiveTimesOut,
                ReceiveFails, Tick, LeavesState, allVars, vars, authVars
  <2>2. \/ UNCHANGED count
        \/ \E names : count' = Bump(names) /\ "auth_responses_sent" \notin names
    <3>1. CASE BeginCycle \/ StopAtLimit \/ EndCycle \/ Tick \/ UNCHANGED allVars
      BY <3>1 DEF BeginCycle, StopAtLimit, EndCycle, Tick, allVars, loopVars
    <3>2. CASE BeginIteration
      BY <3>2 DEF BeginIteration
    <3>3. CASE ReceiveTimesOut \/ ReceiveFails
      BY <3>3 DEF ReceiveTimesOut, ReceiveFails, FailedIteration
    <3> QED BY <1>3, <3>1, <3>2, <3>3 DEF ServerStep
  <2>3. told' = told
    BY <1>0, <2>2 DEF Bump
  <2>4. result' # "Err" => result # "Err"
    BY <1>3 DEF ServerStep, BeginCycle, BeginIteration, StopAtLimit, EndCycle, ReceiveTimesOut,
                ReceiveFails, FailedIteration, Tick, Ends, PathInv, allVars, loopVars
  <2> QED BY <1>0, <1>1, <2>1, <2>3, <2>4
<1> QED BY <1>2, <1>3 DEF ReceiveSendNext, Stopped

---------------------------------------------------------------------------
\* The types of what the iterations store and report.
TypesInv ==
    /\ HeartbeatTypeOK
    /\ \A a \in acks : a \in SentAck
    /\ DOMAIN heard \subseteq Clients
    /\ Cardinality(report) <= 1 /\ \A r \in report : r \in HeartbeatReport

\* There is at most one report, since there is at most one timeout.
LEMMA ReportTyped ==
    ASSUME ClockInv, pc = "Receive", NEW reg, NEW entries, DOMAIN reg \subseteq Clients
    PROVE  LET s == summarize_heartbeat_timeouts(reg, entries)
           IN  Cardinality(s) <= 1 /\ \A r \in s : r \in HeartbeatReport
<1> DEFINE s == summarize_heartbeat_timeouts(reg, entries)
           of(t) == [at |-> stamp, now |-> clock, evaluated |-> DOMAIN reg,
                     timed_out |-> { c \in DOMAIN reg :
                                       evaluate_timeout(entries, c, stamp, t) = "TimedOut" }]
<1>1. s = { of(t) : t \in HeartbeatTimeout }
  BY DEF summarize_heartbeat_timeouts
<1>2. \A t \in HeartbeatTimeout : of(t) \in HeartbeatReport
  BY DEF ClockInv, HeartbeatReport
<1> HIDE DEF s, of
<1>3. Cardinality(s) <= 1
  <2>1. CASE HeartbeatTimeout = {}
    <3>1. s = {}
      BY <1>1, <2>1
    <3>2. Cardinality(s) = 0
      BY <3>1, FS_EmptySet
    <3> QED BY <3>2
  <2>2. CASE HeartbeatTimeout # {}
    <3>1. PICK t \in HeartbeatTimeout : TRUE
      BY <2>2
    <3>2. s = {of(t)}
      BY <1>1, HeartbeatAssumption
    <3>3. Cardinality(s) = 1
      BY <3>2, FS_Singleton
    <3> QED BY <3>3
  <2> QED BY <2>1, <2>2
<1>4. \A r \in s : r \in HeartbeatReport
  BY <1>1, <1>2
<1>5. Cardinality(s) <= 1 /\ \A r \in s : r \in HeartbeatReport
  BY <1>3, <1>4
<1> QED BY <1>5 DEF s

LEMMA SentAckTyped ==
    ASSUME ClockInv, NEW p, WellFormed(p), Sends(p), NEW a \in acks', a \notin acks
    PROVE  a \in SentAck
<1>1. PICK x \in Dequeued(p) :
        /\ x.type = "HeartbeatAck"
        /\ a = [client |-> x.client, run |-> x.run, echoed |-> x.echoed,
                received |-> x.received, sent |-> x.sent, at |-> clock]
  BY DEF Sends
<1>2. x \in answer(p)
  BY <1>1, DequeuedIsAnswer DEF ClockInv
<1>3. /\ p.type = "Heartbeat"
      /\ x.client = p.client /\ x.run = p.run
      /\ x.echoed = p.sent /\ x.received = stamp /\ x.sent = stamp
  BY <1>1, <1>2 DEF answer, Handled
<1>4. a = [client |-> p.client, run |-> p.run, echoed |-> p.sent, received |-> stamp,
           sent |-> stamp, at |-> clock]
  BY <1>1, <1>3
<1> QED BY <1>3, <1>4 DEF SentAck, ClockInv, WellFormed

\* A heartbeat that is taken in leaves entries of the right types.
LEMMA HeartbeatTyped ==
    ASSUME TypesInv, ClockInv, NEW p, WellFormed(p), Handled(p, "Heartbeat"),
           handoffs' = MapInsert(handoffs, << p.client, p.run >>,
                [client_sent |-> p.sent, server_received |-> stamp, server_sent |-> stamp]),
           liveness' = commit_liveness(p, stamp),
           heard' = MapInsert(heard, p.client, clock)
    PROVE  /\ DOMAIN liveness' \subseteq Clients
           /\ \A c \in DOMAIN liveness' : liveness'[c] \in LivenessEntry
           /\ DOMAIN handoffs' \subseteq Clients \X Runs
           /\ \A k \in DOMAIN handoffs' : handoffs'[k] \in TimebaseSample
           /\ DOMAIN heard' \subseteq Clients
<1>1. /\ p.source \in Sources /\ p.client \in Clients /\ p.run \in Runs
      /\ p.sent \in Int /\ stamp \in Int
  BY DEF WellFormed, Handled, ClockInv
<1>2. DOMAIN heard' \subseteq Clients
  BY <1>1 DEF TypesInv, MapInsert
<1>3. DOMAIN handoffs' \subseteq Clients \X Runs
  BY <1>1 DEF TypesInv, HeartbeatTypeOK, MapInsert
<1>4. ASSUME NEW k \in DOMAIN handoffs'
      PROVE  handoffs'[k] \in TimebaseSample
  <2> DEFINE sample == [client_sent |-> p.sent, server_received |-> stamp, server_sent |-> stamp]
  <2>1. sample \in TimebaseSample
    BY <1>1 DEF TimebaseSample
  <2> HIDE DEF sample
  <2>2. handoffs' = MapInsert(handoffs, << p.client, p.run >>, sample)
    BY DEF sample
  <2> QED BY <1>4, <2>1, <2>2 DEF TypesInv, HeartbeatTypeOK, MapInsert
<1>5. /\ DOMAIN liveness' \subseteq Clients
      /\ \A c \in DOMAIN liveness' : liveness'[c] \in LivenessEntry
  <2> DEFINE n == IF p.client \in DOMAIN liveness THEN liveness[p.client].count + 1 ELSE 1
             entry == [source |-> p.source, run |-> p.run, sent |-> p.sent,
                       received |-> stamp, count |-> n]
  <2>1. n \in Nat
    BY DEF TypesInv, HeartbeatTypeOK, LivenessEntry
  <2> HIDE DEF n
  <2>2. entry \in LivenessEntry
    BY <1>1, <2>1 DEF LivenessEntry
  <2>3. liveness' = MapInsert(liveness, p.client, entry)
    BY DEF commit_liveness, n
  <2> HIDE DEF entry
  <2> QED BY <1>1, <2>2, <2>3 DEF TypesInv, HeartbeatTypeOK, MapInsert
<1> QED BY <1>2, <1>3, <1>4, <1>5

\* So does an estimate that is committed.
LEMMA OffsetTyped ==
    ASSUME TypesInv, NEW c \in Clients, NEW r \in Runs, NEW e \in Estimate,
           offsets' = commit_offset(c, r, e)
    PROVE  /\ DOMAIN offsets' \subseteq Clients
           /\ \A d \in DOMAIN offsets' : offsets'[d] \in OffsetEntry
<1> DEFINE s == IF SameRun(c, r) THEN smooth(offsets[c].smoothed, e) ELSE e
           n == IF SameRun(c, r) THEN offsets[c].samples + 1 ELSE 1
           entry == [run |-> r, latest |-> e, smoothed |-> s, samples |-> n]
<1>1. n \in Nat
  BY DEF SameRun, TypesInv, HeartbeatTypeOK, OffsetEntry
<1>2. s \in Estimate
  <2>1. CASE SameRun(c, r)
    <3> DEFINE old == offsets[c].smoothed
    <3>1. old \in Estimate
      BY <2>1 DEF SameRun, TypesInv, HeartbeatTypeOK, OffsetEntry
    <3> HIDE DEF old
    <3>2. old.rtt \in Nat /\ old.offset \in Int /\ e.rtt \in Nat /\ e.offset \in Int
      BY <3>1 DEF Estimate
    <3>3. ema(old.rtt, e.rtt) \in Nat /\ ema(old.offset, e.offset) \in Int
      BY <3>2, EmaNat, EmaBetween
    <3>4. s = [rtt |-> ema(old.rtt, e.rtt), offset |-> ema(old.offset, e.offset)]
      BY <2>1 DEF smooth, old
    <3> QED BY <3>3, <3>4 DEF Estimate
  <2>2. CASE ~SameRun(c, r)
    BY <2>2
  <2> QED BY <2>1, <2>2
<1>3. offsets' = MapInsert(offsets, c, entry)
  BY DEF commit_offset
<1> HIDE DEF s, n
<1>4. entry \in OffsetEntry
  BY <1>1, <1>2 DEF OffsetEntry
<1> HIDE DEF entry
<1> QED BY <1>3, <1>4 DEF TypesInv, HeartbeatTypeOK, MapInsert

LEMMA ReceiveKeepsTypes ==
    ASSUME TypesInv, ClockInv, DOMAIN registry' \subseteq Clients, NEW p, WellFormed(p), Receive(p)
    PROVE  TypesInv'
<1>1. \A a \in acks' : a \in SentAck
  <2>1. Sends(p) \/ UNCHANGED acks
    BY DEF Receive, CompleteIteration, FailIteration
  <2> QED BY <2>1, SentAckTyped DEF TypesInv
<1>2. /\ DOMAIN liveness' \subseteq Clients
      /\ \A c \in DOMAIN liveness' : liveness'[c] \in LivenessEntry
      /\ DOMAIN handoffs' \subseteq Clients \X Runs
      /\ \A k \in DOMAIN handoffs' : handoffs'[k] \in TimebaseSample
      /\ DOMAIN heard' \subseteq Clients
  <2>1. CASE UNCHANGED << handoffs, liveness, heard >>
    BY <2>1 DEF TypesInv, HeartbeatTypeOK
  <2>2. CASE CommitHeartbeat(p)
    BY <2>1, <2>2, HeartbeatTyped DEF CommitHeartbeat
  <2> QED BY <2>1, <2>2 DEF Receive, CompleteIteration, FailIteration, heartbeatVars
<1>3. /\ DOMAIN offsets' \subseteq Clients
      /\ \A c \in DOMAIN offsets' : offsets'[c] \in OffsetEntry
  <2>1. CASE UNCHANGED offsets
    BY <2>1 DEF TypesInv, HeartbeatTypeOK
  <2>2. CASE ~UNCHANGED offsets
    <3>1. PICK e \in Estimate : offsets' = commit_offset(p.client, p.run, e)
      BY <2>2, IterationCommits
    <3>2. Returned(p) # {}
      BY <2>2 DEF Receive, CompleteIteration, CommitOffset, FailIteration, heartbeatVars
    <3>3. p.client \in Clients /\ p.run \in Runs
      BY <3>2 DEF Returned, Handled, WellFormed
    <3> QED BY <3>1, <3>3, OffsetTyped
  <2> QED BY <2>1, <2>2
<1>4. Cardinality(report') <= 1 /\ \A r \in report' : r \in HeartbeatReport
  <2>1. CASE UNCHANGED report
    BY <2>1 DEF TypesInv
  <2>2. CASE report' = summarize_heartbeat_timeouts(registry', liveness')
    <3>1. pc = "Receive"
      BY DEF Receive
    <3> QED BY <2>2, <3>1, ReportTyped
  <2> QED BY <2>1, <2>2 DEF Receive, CompleteIteration, FailIteration
<1> QED BY <1>1, <1>2, <1>3, <1>4 DEF TypesInv, HeartbeatTypeOK

LEMMA TypesInvStep ==
    ASSUME TypesInv, ClockInv, TypeOK, TypeOK', [ReceiveSendNext]_allVars
    PROVE  TypesInv'
<1>1. DOMAIN registry \subseteq Clients /\ DOMAIN registry' \subseteq Clients
  BY DEF TypeOK, AuthTypeOK
<1>2. CASE ReceivePacket \/ ReceiveHeartbeat \/ ReceiveClientStats
  BY <1>1, <1>2, ReceivedIsWellFormed, ReceiveKeepsTypes
<1>3. CASE ServerStep \/ ReceiveFails \/ Tick \/ UNCHANGED allVars
  <2>1. UNCHANGED << heartbeatVars, heard, acks >>
    BY <1>3 DEF ServerStep, BeginCycle, BeginIteration, StopAtLimit, EndCycle, ReceiveTimesOut,
                ReceiveFails, Tick, LeavesState, allVars, historyVars
  <2>2. \/ UNCHANGED report
        \/ pc = "Receive" /\ report' = summarize_heartbeat_timeouts(registry, liveness)
    BY <1>3 DEF ServerStep, BeginCycle, BeginIteration, StopAtLimit, EndCycle, ReceiveTimesOut,
                ReceiveFails, FailedIteration, Tick, LeavesState, allVars, loopVars
  <2>3. Cardinality(report') <= 1 /\ \A r \in report' : r \in HeartbeatReport
    BY <1>1, <2>2, ReportTyped DEF TypesInv
  <2> QED BY <2>1, <2>3 DEF TypesInv, HeartbeatTypeOK, heartbeatVars
<1> QED BY <1>2, <1>3 DEF ReceiveSendNext, Stopped

---------------------------------------------------------------------------
ReportInv == PathInv /\ CountInv /\ HeardInv /\ AnswerInv /\ TypesInv

LEMMA ReportInvInit ==
    ASSUME ReceiveSendInit
    PROVE  ReportInv
<1>1. PathInv
  <2>1. DrainLimit \in Nat /\ Epoch \in Nat
    BY ReceiveSendAssumption DEF DrainLimit
  <2>2. nonblocking \in BOOLEAN /\ ~nonblocking
    BY DEF ReceiveSendInit
  <2>3. /\ clock = Epoch /\ stamp = Epoch /\ last_packet = Epoch
        /\ pc = "Top" /\ drain = 0 /\ result = "None"
    BY DEF ReceiveSendInit
  <2> QED BY <2>1, <2>2, <2>3 DEF PathInv, StopsOnlyAfterSilence
<1>2. CountInv
  <2>1. /\ index = 0 /\ pc = "Top" /\ result = "None"
        /\ count \in [Counter -> Nat]
        /\ \A n \in {"iterations_attempted", "iterations_completed",
                    "receive_would_block_count", "packets_received", "accepted_packets",
                    "rejected_packets", "heartbeats_received", "heartbeat_acks_sent"} :
             count[n] = 0
    BY DEF ReceiveSendInit, Counter
  <2> QED BY <2>1 DEF CountInv, CountersAddUp
<1>3. HeardInv
  BY DEF ReceiveSendInit, HeartbeatInit, HeardInv, EmptyMap
<1>4. AnswerInv
  <2>1. DOMAIN registry = {}
    BY DEF ReceiveSendInit, Init, AuthInit, EmptyMap
  <2>2. IsFiniteSet(DOMAIN registry) /\ Cardinality(DOMAIN registry) = 0
    BY <2>1, FS_EmptySet
  <2>3. count["auth_responses_sent"] = 0
    BY DEF ReceiveSendInit, Counter
  <2> QED BY <2>2, <2>3 DEF AnswerInv
<1>5. TypesInv
  <2>1. report = {} /\ Cardinality(report) = 0
    BY FS_EmptySet DEF ReceiveSendInit
  <2> QED BY <2>1 DEF ReceiveSendInit, HeartbeatInit, TypesInv, HeartbeatTypeOK, EmptyMap
<1> QED BY <1>1, <1>2, <1>3, <1>4, <1>5 DEF ReportInv

\* The parts of the invariant give what the summary promises.
LEMMA ReportInvImplies ==
    ASSUME ReportInv, ClockInv, TypeOK
    PROVE  ReceiveSendInvariant
<1> USE DEF ReportInv
<1>1. ReceiveSendTypeOK
  <2>1. outbound \in Seq(AuthResponse \cup HeartbeatAck)
    BY DEF ClockInv
  <2> QED BY <2>1 DEF PathInv, CountInv, TypesInv, ReceiveSendTypeOK
<1>2. TimeoutReportIsAccurate
  BY ReportIsAccurate
<1>3. StopsOnlyAfterSilence
  BY DEF PathInv
<1>4. AnsweredInItsIteration
  BY DEF AnswerInv, CountInv, ClockInv, AnsweredInItsIteration
<1>5. CountersAddUp
  BY DEF CountInv
<1> QED BY <1>1, <1>2, <1>3, <1>4, <1>5 DEF ReceiveSendInvariant

\* For every drain limit, timeout, skew and set of packets, and whatever fails:
\* a timeout report is right within one receive timeout, the run gives up only
\* after a whole receive timeout of silence, every answer leaves in the
\* iteration that owes it, and the counters of the summary account for each
\* other.
THEOREM ReceiveSendIsSound == ReceiveSendSpec => []ReceiveSendInvariant
<1>1. ReceiveSendInit => ReportInv
  BY ReportInvInit
<1>2. ReportInv /\ ClockInv /\ ClockInv' /\ TypeOK /\ TypeOK' /\ [ReceiveSendNext]_allVars
        => ReportInv'
  BY PathInvStep, CountInvStep, HeardInvStep, AnswerInvStep, TypesInvStep DEF ReportInv
<1>3. ReportInv /\ ClockInv /\ TypeOK => ReceiveSendInvariant
  BY ReportInvImplies
<1>4. ReceiveSendSpec => []TypeOK
  BY ReceiveSendImplementsIngest, TypeCorrect, PTL DEF ImplementsVideoIngest
<1> QED BY <1>1, <1>2, <1>3, <1>4, ClockInvariant, PTL DEF ReceiveSendSpec

===========================================================================
