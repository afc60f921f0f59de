------------------------- MODULE EncodeSendLoop_proofs -------------------------
(***************************************************************************)
(* Proofs about the client's capture, encode and send loop, for both       *)
(* encoder runtimes, every limit, interval, wait, picture size, encoder    *)
(* delay and pipe, and every frame, encoding and send that fails: what is  *)
(* sent is a whole picture, each once and in the order captured, every     *)
(* attempt has one outcome and every captured frame one fate, the summary  *)
(* adds up, the reason to stop is true, and the loop keeps its cadence.    *)
(***************************************************************************)
EXTENDS EncodeSendLoop, FiniteSetTheorems, SequenceTheorems, WellFoundedInduction, TLAPS

(***************************************************************************)
(* The inductive invariant.  A picture in the pipeline is known by the     *)
(* frame it was captured from.  Its blocks lie in four places, in the      *)
(* order in which they will leave: the reader's buffer, the output pipe,   *)
(* the encoder's output and the frames it holds.  Line says that names     *)
(* only grow along that way, so a reader that cuts the buffer where the    *)
(* name changes has a whole picture; Left says that what has been sent,    *)
(* and the unit about to be sent, left before everything still there.      *)
(* Sums is each equation of the summary, with the attempt and the picture  *)
(* under way on the side that still owes them; Session and Stops say what  *)
(* the encoder's life and the reason to stop tell of the phase.            *)
(***************************************************************************)
MidTick == {"Acquire", "Encode", "Start", "Write", "Read", "Prepare", "Send"}
Ended == {"Shutdown", "Done"}
Phases == MidTick \cup Ended \cup {"Top", "Cadence"}
Counters == {"noFrame", "captureFail", "encodeFail", "sendFail",
             "captured", "encoded", "emitted", "noComplete", "missing", "starts"}
Reasons == {"None", "MaxFramesReached", "MaxTicksReached", "FrameWaitTimeout",
            "CaptureFailure", "SendFailure", "EncodeFailure"}
Units == [of : Nat, whole : BOOLEAN]
SentUnits == [id : Nat, of : Nat, whole : BOOLEAN]

TypeInv ==
  /\ phase \in Phases
  /\ now \in Nat /\ attempts \in Nat /\ wait \in Nat
  /\ count \in [Counters -> Nat]
  /\ stop \in Reasons
  /\ unit \in Units
  /\ sent \in Seq(SentUnits)
  /\ session \in {"None", "Open", "Closed"}
  /\ encoder \in [held : Seq(Nat), out : Seq(Nat), exited : BOOLEAN]
  /\ pipe \in Seq(Nat) /\ buffer \in Seq(Nat)

Bounds ==
  /\ attempts <= MaxTicks
  /\ phase \in MidTick => attempts > 0 /\ Sends < MaxFrames
  /\ phase = "Cadence" => Sends < MaxFrames
  /\ session # "None" => attempts > 0
  /\ Sends <= MaxFrames
  /\ Len(pipe) <= PipeSize

\* An attempt that has no outcome yet, and a unit that is not yet sent.
Ticking == IF phase \in MidTick THEN 1 ELSE 0
Holding == IF phase \in {"Prepare", "Send"} THEN 1 ELSE 0

\* The outcomes of the attempts, and the fates of the captured frames.
Outcomes == count.noFrame + count.captureFail + count.captured
Fates == count.encoded + count.encodeFail + count.noComplete + count.missing

SumAttempts == attempts = Outcomes + Ticking
SumCaptured == count.captured = Fates
SumEncoded == count.encoded = Sends + count.sendFail
SumEmitted ==
  IF Persistent THEN count.emitted = count.encoded + count.missing + Holding
  ELSE count.emitted = 0 /\ count.missing = 0 /\ count.noComplete = 0
Sums == SumAttempts /\ SumCaptured /\ SumEncoded /\ SumEmitted

Session ==
  /\ Persistent => phase # "Encode"
  /\ ~Persistent => phase \notin {"Start", "Write", "Read", "Prepare"} /\ session = "None"
  /\ session = "None" => count.starts = 0 /\ phase \notin {"Write", "Read", "Prepare"}
                         /\ (Persistent => sent = <<>> /\ phase # "Send")
  /\ session # "None" => count.starts = 1
  /\ phase = "Start" => session = "None"
  /\ session = "Closed" => phase \in {"Prepare", "Send"} \cup Ended
  /\ session = "Closed" => stop # "None"
  /\ phase \in {"Write", "Read"} => session = "Open"
  /\ Persistent /\ count.encodeFail # 0 =>
       count.encodeFail = 1 /\ phase \in Ended /\ stop = "EncodeFailure"

Stops ==
  /\ phase \in Ended => stop # "None" /\ (stop = "MaxFramesReached" <=> Sends >= MaxFrames)
  /\ phase \in {"Prepare", "Send"} => stop \in {"None", "EncodeFailure"}
  /\ phase \notin Ended \cup {"Prepare", "Send"} => stop = "None"
  /\ stop = "MaxTicksReached" => attempts = MaxTicks
  /\ stop = "FrameWaitTimeout" => count.noFrame > 0 /\ now - wait >= FrameWait
  /\ stop = "CaptureFailure" => count.captureFail > 0 /\ StopOnCaptureFailure
  /\ stop = "SendFailure" => count.sendFail > 0 /\ StopOnSendFailure
  /\ phase \notin Ended => (StopOnSendFailure => count.sendFail = 0)
                           /\ (StopOnCaptureFailure => count.captureFail = 0)

\* The pictures named in a sequence of blocks, and orders between two sequences:
\* every name in s comes before, or is, every name in t.
Named(s) == {s[i] : i \in DOMAIN s}
UpTo(s, t) == \A x \in Named(s), y \in Named(t) : x <= y
Before(s, t) == \A x \in Named(s), y \in Named(t) : x < y
Sorted(s) == \A i, j \in DOMAIN s : i < j => s[i] <= s[j]
Rising(s) == \A i, j \in DOMAIN s : i < j => s[i] < s[j]

\* From the reader's buffer back to the frames the encoder holds, names only grow.
Lined(b, p, o, h) ==
  /\ Sorted(b) /\ Sorted(p) /\ Sorted(o) /\ Rising(h)
  /\ UpTo(b, p) /\ UpTo(b, o) /\ UpTo(p, o)
  /\ Before(b, h) /\ Before(p, h) /\ Before(o, h)

AllNamed(b, p, o, h) == Named(b) \cup Named(p) \cup Named(o) \cup Named(h)
InPipeline == AllNamed(buffer, pipe, encoder.out, encoder.held)

\* The newest picture there can be in the pipeline.
Captured == IF phase \in {"Acquire", "Start", "Write"} THEN attempts - 1 ELSE attempts

\* The blocks of a picture reach the reader in one run: a read finds all that was
\* left of the pictures before the one just written.
Line ==
  /\ Lined(buffer, pipe, encoder.out, encoder.held)
  /\ \A y \in InPipeline : 0 < y /\ y <= Captured
  /\ phase = "Read" => Before(buffer, encoder.out)

\* The unit about to be sent.
Pending == phase \in {"Prepare", "Send"}
UnitLeft ==
  Pending =>
    /\ unit.whole /\ unit.of > 0 /\ unit.of <= attempts
    /\ Persistent /\ session = "Open" => unit.of < attempts
    /\ Persistent => \A y \in InPipeline : unit.of < y

\* What was sent left before all that is to come.
SentLeft(r) ==
  /\ r.of > 0 /\ r.whole /\ r.of <= r.id /\ r.id <= attempts
  /\ phase \in MidTick => r.id < attempts
  /\ Persistent /\ session = "Open" => r.of < r.id
  /\ Persistent => \A y \in InPipeline : r.of < y
  /\ Pending => r.of < unit.of

Left ==
  /\ UnitLeft
  /\ \A k \in DOMAIN sent : SentLeft(sent[k])
  /\ \A i, j \in DOMAIN sent : i < j => sent[i].id < sent[j].id /\ sent[i].of < sent[j].of

IInv == TypeInv /\ Bounds /\ Sums /\ Session /\ Stops /\ Line /\ Left

-----------------------------------------------------------------------------
(* Types.                                                                  *)

LEMMA Parameters ==
  ASSUME LoopAssumption
  PROVE  /\ Persistent \in BOOLEAN /\ DeadlineMode \in BOOLEAN /\ Faults \in BOOLEAN
         /\ StopOnCaptureFailure \in BOOLEAN /\ StopOnSendFailure \in BOOLEAN
         /\ MaxFrames \in Nat /\ MaxTicks \in Nat /\ Interval \in Nat
         /\ FrameWait \in Nat /\ Hold \in Nat
         /\ ReadLen \in Nat \ {0} /\ PipeSize \in Nat \ {0} /\ Ahead \in Nat \ {0}
         /\ Sizes \subseteq Nat \ {0} /\ Delays \subseteq Nat
  BY DEF LoopAssumption

LEMMA PlusCounts ==
  ASSUME NEW c \in [Counters -> Nat], NEW keys
  PROVE  /\ Plus(c, keys) \in [Counters -> Nat]
         /\ \A k \in Counters : Plus(c, keys)[k] = IF k \in keys THEN c[k] + 1 ELSE c[k]
  BY DEF Plus

\* What the result of a tick does to the loop's own state.
LEMMA ResultEffect ==
  ASSUME TypeInv, NEW keys, NEW reason \in Reasons, Result(keys, reason)
  PROVE  /\ count' \in [Counters -> Nat]
         /\ \A k \in Counters : count'[k] = IF k \in keys THEN count[k] + 1 ELSE count[k]
         /\ wait' = 0 /\ sent' = sent
         /\ stop' = IF Sends >= MaxFrames THEN "MaxFramesReached" ELSE reason
         /\ phase' = IF stop' = "None" THEN "Cadence" ELSE "Shutdown"
         /\ stop' \in Reasons /\ phase' \in {"Cadence", "Shutdown"}
  <1>1. count \in [Counters -> Nat]
    BY DEF TypeInv
  <1>2. count' = Plus(count, keys)
    BY DEF Result
  <1>3. /\ count' \in [Counters -> Nat]
        /\ \A k \in Counters : count'[k] = IF k \in keys THEN count[k] + 1 ELSE count[k]
    BY <1>1, <1>2, PlusCounts
  <1>4. wait' = 0 /\ sent' = sent
        /\ stop' = (IF Sends >= MaxFrames THEN "MaxFramesReached" ELSE reason)
        /\ phase' = (IF stop' = "None" THEN "Cadence" ELSE "Shutdown")
    BY DEF Result, AfterTick
  <1> QED BY <1>3, <1>4 DEF Reasons

LEMMA BlocksType ==
  ASSUME NEW p \in Nat, NEW size \in Nat
  PROVE  /\ Blocks(p, size) \in Seq(Nat)
         /\ DOMAIN Blocks(p, size) = 1 .. size
         /\ \A i \in 1 .. size : Blocks(p, size)[i] = p
  BY DEF Blocks

\* A nonempty set of naturals has a least element.
LEMMA LeastNat ==
  ASSUME NEW T \in SUBSET Nat, T # {}
  PROVE  \E n \in T : \A m \in T : n <= m
  <1> DEFINE R == OpToRel(<, Nat)
  <1>1. \E x \in T : \A y \in T : ~(<<y, x>> \in R)
    <2>1. IsWellFoundedOn(R, Nat)
      BY NatLessThanWellFounded
    <2> HIDE DEF R
    <2> QED BY <2>1, WFMin
  <1>2. ASSUME NEW x \in Nat, NEW y \in Nat, ~(<<y, x>> \in R) PROVE x <= y
    BY <1>2 DEF OpToRel
  <1> HIDE DEF R
  <1> QED BY <1>1, <1>2

\* The blocks after those of the oldest picture, where a later one has begun.
LEMMA RestOf ==
  ASSUME NEW b \in Seq(Nat), LoopAssumption, Complete(b)
  PROVE  \E n \in 2 .. Len(b) :
           /\ b[n] # b[1] /\ \A j \in 1 .. n - 1 : b[j] = b[1]
           /\ Rest(b) = SubSeq(b, n, Len(b))
  <1> DEFINE P(i) == i \in DOMAIN b /\ b[i] # b[1]
             next == CHOOSE i \in DOMAIN b : b[i] # b[1] /\ \A j \in 1 .. i - 1 : b[j] = b[1]
             T == {i \in DOMAIN b : b[i] # b[1]}
  <1>1. DOMAIN b = 1 .. Len(b) /\ Len(b) \in Nat /\ b # <<>>
    BY DEF Complete
  <1>2. PICK i \in DOMAIN b : b[i] # b[1]
    <2> SUFFICES ASSUME \A i \in DOMAIN b : b[i] = b[1] PROVE FALSE
      OBVIOUS
    <2>1. 1 \in DOMAIN b
      BY <1>1
    <2>2. {b[i] : i \in DOMAIN b} = {b[1]}
      BY <2>1
    <2>3. Cardinality({b[1]}) = 1
      BY FS_Singleton
    <2>4. Ahead \in Nat \ {0}
      BY DEF LoopAssumption
    <2>5. Cardinality({b[1]}) > Ahead
      BY <2>2 DEF Complete
    <2> QED BY <2>3, <2>4, <2>5
  <1>3. \E n \in T : \A m \in T : n <= m
    <2>1. T \subseteq Nat /\ T # {}
      BY <1>1, <1>2
    <2> QED BY <2>1, LeastNat
  <1>4. PICK n \in T : \A m \in T : n <= m
    BY <1>3
  <1>5. n \in DOMAIN b /\ b[n] # b[1] /\ \A j \in 1 .. n - 1 : b[j] = b[1]
    BY <1>1, <1>4
  <1>6. next \in DOMAIN b /\ b[next] # b[1] /\ \A j \in 1 .. next - 1 : b[j] = b[1]
    BY <1>5
  <1>7. next \in 2 .. Len(b)
    BY <1>1, <1>6
  <1> QED BY <1>6, <1>7 DEF Rest

LEMMA EncoderTypes ==
  ASSUME NEW e \in [held : Seq(Nat), out : Seq(Nat), exited : BOOLEAN],
         NEW h \in Seq(Nat), NEW o \in Seq(Nat)
  PROVE  /\ [e EXCEPT !.held = h, !.out = o] \in [held : Seq(Nat), out : Seq(Nat), exited : BOOLEAN]
         /\ [e EXCEPT !.held = h] \in [held : Seq(Nat), out : Seq(Nat), exited : BOOLEAN]
         /\ [e EXCEPT !.out = o] \in [held : Seq(Nat), out : Seq(Nat), exited : BOOLEAN]
         /\ [e EXCEPT !.exited = TRUE] \in [held : Seq(Nat), out : Seq(Nat), exited : BOOLEAN]
  <1> DEFINE S == Seq(Nat)
  <1>1. e \in [held : S, out : S, exited : BOOLEAN] /\ h \in S /\ o \in S
    OBVIOUS
  <1> HIDE DEF S
  <1>2. [e EXCEPT !.held = h, !.out = o] \in [held : S, out : S, exited : BOOLEAN]
    BY <1>1
  <1>3. [e EXCEPT !.held = h] \in [held : S, out : S, exited : BOOLEAN]
    BY <1>1
  <1>4. [e EXCEPT !.out = o] \in [held : S, out : S, exited : BOOLEAN]
    BY <1>1
  <1>5. [e EXCEPT !.exited = TRUE] \in [held : S, out : S, exited : BOOLEAN]
    BY <1>1
  <1> QED BY <1>2, <1>3, <1>4, <1>5 DEF S

LEMMA ProductNat ==
  ASSUME NEW a \in Nat, NEW b \in Nat
  PROVE  1 + a * b \in Nat
  OBVIOUS

LEMMA SubSeqTyped ==
  ASSUME NEW s \in Seq(Nat), NEW n \in 1 .. Len(s)
  PROVE  /\ SubSeq(s, 1, n) \in Seq(Nat) /\ SubSeq(s, n + 1, Len(s)) \in Seq(Nat)
         /\ Len(SubSeq(s, 1, n)) = n /\ Len(SubSeq(s, n + 1, Len(s))) = Len(s) - n
         /\ \A i \in 1 .. n : SubSeq(s, 1, n)[i] = s[i]
         /\ \A i \in 1 .. Len(s) - n : SubSeq(s, n + 1, Len(s))[i] = s[n + i]
  <1>1. \A i \in 1 .. Len(s) : s[i] \in Nat
    OBVIOUS
  <1>2. /\ SubSeq(s, 1, n) \in Seq(Nat) /\ Len(SubSeq(s, 1, n)) = n
        /\ \A i \in 1 .. n : SubSeq(s, 1, n)[i] = s[i]
    BY <1>1
  <1>3. CASE n < Len(s)
    <2>1. /\ SubSeq(s, n + 1, Len(s)) \in Seq(Nat) /\ Len(SubSeq(s, n + 1, Len(s))) = Len(s) - n
          /\ \A i \in 1 .. Len(s) - n : SubSeq(s, n + 1, Len(s))[i] = s[n + i]
      BY <1>1, <1>3
    <2> QED BY <1>2, <2>1
  <1>4. CASE n = Len(s)
    <2>1. SubSeq(s, n + 1, Len(s)) = <<>>
      BY <1>4
    <2> QED BY <1>2, <1>4, <2>1
  <1> QED BY <1>3, <1>4

\* The types of what a result assigns.
LEMMA ResultTypes ==
  ASSUME TypeInv, NEW keys, NEW reason \in Reasons, Result(keys, reason)
  PROVE  /\ count' \in [Counters -> Nat] /\ wait' \in Nat /\ sent' \in Seq(SentUnits)
         /\ stop' \in Reasons /\ phase' \in Phases
  <1>1. /\ count' \in [Counters -> Nat] /\ wait' = 0 /\ sent' = sent
        /\ stop' \in Reasons /\ phase' \in {"Cadence", "Shutdown"}
    BY ResultEffect
  <1> QED BY <1>1 DEF TypeInv, Phases, Ended

\* Each step keeps the types.
LEMMA InitTyped ==
  ASSUME Init PROVE TypeInv
  <1>1. /\ phase \in Phases /\ now \in Nat /\ attempts \in Nat /\ wait \in Nat
        /\ stop \in Reasons /\ unit \in Units /\ sent \in Seq(SentUnits)
        /\ session \in {"None", "Open", "Closed"}
        /\ encoder \in [held : Seq(Nat), out : Seq(Nat), exited : BOOLEAN]
        /\ pipe \in Seq(Nat) /\ buffer \in Seq(Nat)
    BY DEF Init, Phases, Reasons, Units, NoUnit
  <1>2. count \in [Counters -> Nat]
    BY DEF Init, Counters
  <1> QED BY <1>1, <1>2 DEF TypeInv

LEMMA TypeStep ==
  ASSUME LoopAssumption, TypeInv, [Next]_vars
  PROVE  TypeInv'
  <1>p. /\ MaxFrames \in Nat /\ MaxTicks \in Nat /\ Interval \in Nat
        /\ FrameWait \in Nat /\ Hold \in Nat
        /\ Sizes \subseteq Nat \ {0} /\ Delays \subseteq Nat
        /\ ReadLen \in Nat \ {0} /\ PipeSize \in Nat \ {0}
    BY Parameters
  <1> USE <1>p
  <1>0. /\ phase \in Phases /\ now \in Nat /\ attempts \in Nat /\ wait \in Nat
        /\ count \in [Counters -> Nat] /\ stop \in Reasons /\ unit \in Units
        /\ sent \in Seq(SentUnits) /\ session \in {"None", "Open", "Closed"}
        /\ encoder \in [held : Seq(Nat), out : Seq(Nat), exited : BOOLEAN]
        /\ pipe \in Seq(Nat) /\ buffer \in Seq(Nat)
    BY DEF TypeInv
  <1>r. /\ {"None", "EncodeFailure", "CaptureFailure", "SendFailure", "FrameWaitTimeout",
            "MaxFramesReached", "MaxTicksReached"} \subseteq Reasons
        /\ {"Cadence", "Shutdown"} \subseteq Phases
    BY DEF Reasons, Phases, Ended
  <1>1. CASE Top
    BY <1>0, <1>1 DEF Top, TypeInv, loopVars, pipeVars, Phases, MidTick, Ended, Reasons
  <1>2. CASE NoFrameAvailable
    <2>1. now' \in Nat /\ wait' \in Nat
      BY <1>0, <1>2 DEF NoFrameAvailable
    <2>2. count' \in [Counters -> Nat]
      BY <1>0, <1>2, PlusCounts DEF NoFrameAvailable
    <2>3. stop' \in Reasons /\ phase' \in Phases
      BY <1>2, <1>r DEF NoFrameAvailable, AfterTick
    <2> QED BY <1>0, <1>2, <2>1, <2>2, <2>3 DEF NoFrameAvailable, TypeInv, pipeVars
  <1>3. CASE CaptureUnavailable
    <2>1. now' \in Nat
      BY <1>0, <1>3 DEF CaptureUnavailable
    <2>2. PICK reason \in Reasons : Result({"captureFail"}, reason)
      BY <1>3, <1>r DEF CaptureUnavailable
    <2>3. /\ count' \in [Counters -> Nat] /\ wait' \in Nat /\ sent' \in Seq(SentUnits)
          /\ stop' \in Reasons /\ phase' \in Phases
      BY <2>2, ResultTypes
    <2> QED BY <1>0, <1>3, <2>1, <2>3 DEF CaptureUnavailable, TypeInv, pipeVars
  <1>4. CASE FrameAcquired
    <2>1. now' \in Nat
      BY <1>0, <1>4 DEF FrameAcquired
    <2> QED BY <1>0, <1>4, <2>1 DEF FrameAcquired, TypeInv, pipeVars, loopVars, Phases, MidTick
  <1>5. CASE EncodeOnce
    BY <1>0, <1>5 DEF EncodeOnce, TypeInv, pipeVars, loopVars, Phases, MidTick, Units
  <1>6. CASE EncodeDeferred
    <2>1. Result({"captured", "encodeFail"}, "None")
      BY <1>6 DEF EncodeDeferred
    <2>2. /\ count' \in [Counters -> Nat] /\ wait' \in Nat /\ sent' \in Seq(SentUnits)
          /\ stop' \in Reasons /\ phase' \in Phases
      BY <2>1, <1>r, ResultTypes
    <2> QED BY <1>0, <1>6, <2>2 DEF EncodeDeferred, TypeInv, pipeVars
  <1>7. CASE StartSession
    <2>1. count' \in [Counters -> Nat]
      BY <1>0, <1>7, PlusCounts DEF StartSession
    <2> QED BY <1>0, <1>7, <2>1 DEF StartSession, TypeInv, pipeVars, Phases, MidTick
  <1>8. CASE StartFails
    <2>1. Result({"captured", "encodeFail"}, "EncodeFailure")
      BY <1>8 DEF StartFails
    <2>2. /\ count' \in [Counters -> Nat] /\ wait' \in Nat /\ sent' \in Seq(SentUnits)
          /\ stop' \in Reasons /\ phase' \in Phases
      BY <2>1, <1>r, ResultTypes
    <2> QED BY <1>0, <1>8, <2>2 DEF StartFails, TypeInv, pipeVars
  <1>9. CASE FrameAccepted
    <2> DEFINE held == Append(encoder.held, attempts)
    <2>1. held \in Seq(Nat) /\ Len(held) > 0
      BY <1>0
    <2>2. held # <<>> => Tail(held) \in Seq(Nat) /\ Head(held) \in Nat
      BY <2>1
    <2>3. encoder' \in [held : Seq(Nat), out : Seq(Nat), exited : BOOLEAN]
      <3>1. PICK size \in Sizes :
              encoder' = IF Len(held) > Hold
                         THEN [encoder EXCEPT !.held = Tail(held), !.out = Blocks(Head(held), size)]
                         ELSE [encoder EXCEPT !.held = held]
        BY <1>9 DEF FrameAccepted
      <3>2. size \in Nat
        OBVIOUS
      <3> HIDE DEF held
      <3>3. held # <<>>
        BY <2>1
      <3>4. Blocks(Head(held), size) \in Seq(Nat) /\ Tail(held) \in Seq(Nat)
        BY <2>2, <3>2, <3>3, BlocksType
      <3>5. CASE Len(held) > Hold
        BY <1>0, <3>1, <3>4, <3>5, EncoderTypes
      <3>6. CASE ~(Len(held) > Hold)
        BY <1>0, <2>1, <3>1, <3>6, EncoderTypes
      <3> QED BY <3>5, <3>6
    <2> QED BY <1>0, <1>9, <2>3 DEF FrameAccepted, TypeInv, loopVars, Phases, MidTick
  <1>10. CASE SessionFails
    <2>1. Result({"captured", "encodeFail"}, "EncodeFailure")
      BY <1>10 DEF SessionFails
    <2>2. /\ count' \in [Counters -> Nat] /\ wait' \in Nat /\ sent' \in Seq(SentUnits)
          /\ stop' \in Reasons /\ phase' \in Phases
      BY <2>1, <1>r, ResultTypes
    <2>3. encoder' \in [held : Seq(Nat), out : Seq(Nat), exited : BOOLEAN]
      BY <1>10 DEF SessionFails
    <2> QED BY <1>0, <1>10, <2>2, <2>3 DEF SessionFails, TypeInv
  <1>11. CASE ReadUnit
    <2>1. PICK n \in 1 .. ReadLen :
            /\ n <= Len(pipe) /\ pipe' = SubSeq(pipe, n + 1, Len(pipe))
            /\ LET b == buffer \o SubSeq(pipe, 1, n) IN
               IF Complete(b)
               THEN /\ unit' = [of |-> b[1], whole |-> TRUE]
                    /\ buffer' = Rest(b) /\ phase' = "Prepare"
                    /\ count' = Plus(count, {"emitted"})
                    /\ UNCHANGED <<wait, stop, sent>>
               ELSE /\ buffer' = b /\ Result({"captured", "noComplete"}, "None")
                    /\ UNCHANGED unit
      BY <1>11 DEF ReadUnit
    <2> DEFINE b == buffer \o SubSeq(pipe, 1, n)
    <2>2. b \in Seq(Nat) /\ pipe' \in Seq(Nat)
      <3>1. SubSeq(pipe, 1, n) \in Seq(Nat) /\ SubSeq(pipe, n + 1, Len(pipe)) \in Seq(Nat)
        <4>1. pipe \in Seq(Nat) /\ n \in Nat /\ 1 <= n /\ n <= Len(pipe) /\ Len(pipe) \in Nat
          BY <1>0, <2>1
        <4> QED BY <4>1, SubSeqTyped
      <3> QED BY <1>0, <2>1, <3>1, ConcatProperties
    <2>3. now' = now /\ attempts' = attempts /\ session' = session /\ encoder' = encoder
      BY <1>11 DEF ReadUnit
    <2>4. CASE Complete(b)
      <3>1. b # <<>> /\ Rest(b) \in Seq(Nat) /\ b[1] \in Nat
        <4> HIDE DEF b
        <4>1. PICK m \in 2 .. Len(b) : Rest(b) = SubSeq(b, m, Len(b))
          BY <2>2, <2>4, RestOf
        <4>2. b # <<>>
          BY <2>4 DEF Complete
        <4>3. Rest(b) \in Seq(Nat)
          BY <2>2, <4>1
        <4> QED BY <2>2, <4>2, <4>3
      <3>2. /\ unit' = [of |-> b[1], whole |-> TRUE]
            /\ buffer' = Rest(b) /\ phase' = "Prepare"
            /\ count' = Plus(count, {"emitted"})
            /\ wait' = wait /\ stop' = stop /\ sent' = sent
        BY <2>1, <2>4
      <3>3. count' \in [Counters -> Nat]
        BY <1>0, <3>2, PlusCounts
      <3> HIDE DEF b
      <3>4. unit' \in Units /\ phase' \in Phases
        BY <3>1, <3>2 DEF Units, Phases, MidTick
      <3> QED BY <1>0, <2>2, <2>3, <3>1, <3>2, <3>3, <3>4 DEF TypeInv
    <2>5. CASE ~Complete(b)
      <3>1. buffer' = b /\ unit' = unit /\ Result({"captured", "noComplete"}, "None")
        BY <2>1, <2>5
      <3> HIDE DEF b
      <3>2. /\ count' \in [Counters -> Nat] /\ wait' \in Nat /\ sent' \in Seq(SentUnits)
            /\ stop' \in Reasons /\ phase' \in Phases
        BY <3>1, <1>r, ResultTypes
      <3> QED BY <1>0, <2>2, <2>3, <3>1, <3>2 DEF TypeInv
    <2> QED BY <2>4, <2>5
  <1>12. CASE StreamEnded
    <2>1. /\ now' = now /\ attempts' = attempts /\ pipe' = pipe
          /\ session' = "Closed" /\ buffer' = <<>>
          /\ encoder' = [encoder EXCEPT !.held = <<>>, !.out = <<>>]
      BY <1>12 DEF StreamEnded
    <2>2. encoder' \in [held : Seq(Nat), out : Seq(Nat), exited : BOOLEAN]
      <3>1. <<>> \in Seq(Nat)
        OBVIOUS
      <3> QED BY <1>0, <2>1, <3>1, EncoderTypes
    <2>3. CASE buffer = <<>>
      <3>1. Result({"captured", "encodeFail"}, "EncodeFailure") /\ unit' = unit
        BY <1>12, <2>3 DEF StreamEnded
      <3>2. /\ count' \in [Counters -> Nat] /\ wait' \in Nat /\ sent' \in Seq(SentUnits)
            /\ stop' \in Reasons /\ phase' \in Phases
        BY <3>1, <1>r, ResultTypes
      <3> QED BY <1>0, <2>1, <2>2, <3>1, <3>2 DEF TypeInv
    <2>4. CASE buffer # <<>>
      <3>1. /\ unit' = [of |-> buffer[1],
                        whole |-> Complete(buffer) \/ ~Contains(encoder.out, buffer[1])]
            /\ count' = Plus(count, {"emitted"})
            /\ phase' = "Prepare" /\ stop' = "EncodeFailure"
            /\ wait' = wait /\ sent' = sent
        BY <1>12, <2>4 DEF StreamEnded
      <3>2. buffer[1] \in Nat
        BY <1>0, <2>4
      <3>3. (Complete(buffer) \/ ~Contains(encoder.out, buffer[1])) \in BOOLEAN
        BY DEF Complete, Contains
      <3>4. unit' \in Units
        BY <3>1, <3>2, <3>3 DEF Units
      <3>5. count' \in [Counters -> Nat]
        BY <1>0, <3>1, PlusCounts
      <3> QED BY <1>0, <1>r, <2>1, <2>2, <3>1, <3>4, <3>5 DEF TypeInv, Phases, MidTick
    <2> QED BY <2>3, <2>4
  <1>13. CASE Prepare
    <2>1. CASE phase' = "Send" /\ UNCHANGED <<loopVars, unit>>
      BY <1>0, <1>13, <2>1 DEF Prepare, TypeInv, loopVars, pipeVars, Phases, MidTick
    <2>2. CASE /\ unit' = NoUnit /\ Result({"captured", "missing"}, stop)
               /\ UNCHANGED attempts
      <3>1. /\ count' \in [Counters -> Nat] /\ wait' \in Nat /\ sent' \in Seq(SentUnits)
            /\ stop' \in Reasons /\ phase' \in Phases
        BY <1>0, <2>2, ResultTypes
      <3>2. unit' \in Units
        BY <2>2 DEF NoUnit, Units
      <3> QED BY <1>0, <1>13, <2>2, <3>1, <3>2 DEF Prepare, TypeInv, pipeVars
    <2> QED BY <1>13, <2>1, <2>2 DEF Prepare
  <1>14. CASE Sent
    <2>1. now' \in Nat
      BY <1>0, <1>14 DEF Sent
    <2>2. count' \in [Counters -> Nat]
      BY <1>0, <1>14, PlusCounts DEF Sent
    <2>3. stop' \in Reasons /\ phase' \in Phases
      BY <1>0, <1>14, <1>r DEF Sent, AfterTick
    <2>4. unit.of \in Nat /\ unit.whole \in BOOLEAN
      BY <1>0 DEF Units
    <2>5. [id |-> attempts, of |-> unit.of, whole |-> unit.whole] \in SentUnits
      BY <1>0, <2>4 DEF SentUnits
    <2>6. sent' \in Seq(SentUnits)
      BY <1>0, <1>14, <2>5 DEF Sent
    <2> QED BY <1>0, <1>14, <2>1, <2>2, <2>3, <2>6 DEF Sent, TypeInv, pipeVars, NoUnit, Units
  <1>15. CASE SendFails
    <2>1. now' \in Nat
      BY <1>0, <1>15 DEF SendFails
    <2>2. PICK reason \in Reasons : Result({"captured", "encoded", "sendFail"}, reason)
      BY <1>0, <1>15, <1>r DEF SendFails
    <2>3. /\ count' \in [Counters -> Nat] /\ wait' \in Nat /\ sent' \in Seq(SentUnits)
          /\ stop' \in Reasons /\ phase' \in Phases
      BY <2>2, ResultTypes
    <2>4. unit' \in Units
      BY <1>15 DEF SendFails, NoUnit, Units
    <2> QED BY <1>0, <1>15, <2>1, <2>3, <2>4 DEF SendFails, TypeInv, pipeVars
  <1>16. CASE Cadence
    <2>1. \A x \in Nat : Clamped(x) \in Nat
      BY <1>0 DEF Clamped, Least
    <2>2. 1 + Interval * attempts \in Nat
      BY <1>0, ProductNat
    <2> DEFINE deadline == 1 + Interval * attempts
    <2>3. now' = now + SleepFor(deadline)
      BY <1>16 DEF Cadence
    <2> HIDE DEF deadline
    <2>5. SleepFor(deadline) \in Nat
      <3>1. deadline \in Nat
        BY <2>2 DEF deadline
      <3>2. ASSUME now < deadline PROVE Clamped(deadline - now) \in Nat
        <4>1. deadline - now \in Nat
          BY <1>0, <3>1, <3>2
        <4> HIDE DEF Clamped
        <4> QED BY <4>1, <2>1
      <3>5. Clamped(Interval) \in Nat
        BY <2>1
      <3>3. CASE DeadlineMode
        BY <1>0, <3>1, <3>2, <3>3 DEF SleepFor
      <3>4. CASE ~DeadlineMode
        BY <3>5, <3>4 DEF SleepFor
      <3> QED BY <3>3, <3>4
    <2>4. now' \in Nat
      BY <1>0, <2>3, <2>5
    <2> QED BY <1>0, <1>16, <2>4 DEF Cadence, TypeInv, loopVars, pipeVars, Phases
  <1>17. CASE Shutdown
    <2>1. encoder' \in [held : Seq(Nat), out : Seq(Nat), exited : BOOLEAN]
      <3>1. <<>> \in Seq(Nat) /\ encoder' = [encoder EXCEPT !.held = <<>>, !.out = <<>>]
        BY <1>17 DEF Shutdown
      <3> QED BY <1>0, <3>1, EncoderTypes
    <2>2. phase' \in Phases
      BY <1>17 DEF Shutdown, Phases, Ended
    <2> QED BY <1>0, <1>17, <2>1, <2>2 DEF Shutdown, TypeInv, loopVars
  <1>18. CASE Encoder_Writes
    <2>1. encoder.out \in Seq(Nat) /\ encoder.out # <<>>
      BY <1>0, <1>18 DEF Encoder_Writes
    <2>2. Tail(encoder.out) \in Seq(Nat) /\ Head(encoder.out) \in Nat
      BY <2>1
    <2>3. encoder' \in [held : Seq(Nat), out : Seq(Nat), exited : BOOLEAN]
      BY <1>0, <1>18, <2>2, EncoderTypes DEF Encoder_Writes
    <2>4. pipe' \in Seq(Nat)
      BY <1>0, <1>18, <2>2 DEF Encoder_Writes
    <2> QED BY <1>0, <1>18, <2>3, <2>4 DEF Encoder_Writes, TypeInv, loopVars
  <1>19. CASE Encoder_Exits
    <2>1. encoder' \in [held : Seq(Nat), out : Seq(Nat), exited : BOOLEAN]
      BY <1>0, <1>19, EncoderTypes DEF Encoder_Exits
    <2> QED BY <1>0, <1>19, <2>1 DEF Encoder_Exits, TypeInv, loopVars
  <1>20. CASE UNCHANGED vars
    BY <1>0, <1>20 DEF vars, TypeInv, loopVars, pipeVars
  <1> QED BY <1>1, <1>2, <1>3, <1>4, <1>5, <1>6, <1>7, <1>8, <1>9, <1>10, <1>11, <1>12,
             <1>13, <1>14, <1>15, <1>16, <1>17, <1>18, <1>19, <1>20
          DEF Next, Works, Fails, WriteFails, ReadFails

-----------------------------------------------------------------------------
(* Counters, session and stop reasons.                                     *)

\* Counters and stop reasons: what a step adds to.
Adds(keys) == \A k \in Counters : count'[k] = IF k \in keys THEN count[k] + 1 ELSE count[k]

\* Inside a tick the frame limit is not reached, so a result's own reason counts.
LEMMA MidResult ==
  ASSUME LoopAssumption, TypeInv, Bounds, phase \in MidTick,
         NEW keys, NEW reason \in Reasons, Result(keys, reason)
  PROVE  /\ Adds(keys) /\ wait' = 0 /\ sent' = sent /\ stop' = reason
         /\ phase' = IF reason = "None" THEN "Cadence" ELSE "Shutdown"
  <1>1. /\ Adds(keys) /\ wait' = 0 /\ sent' = sent
        /\ stop' = IF Sends >= MaxFrames THEN "MaxFramesReached" ELSE reason
        /\ phase' = IF stop' = "None" THEN "Cadence" ELSE "Shutdown"
    BY ResultEffect DEF Adds
  <1>2. Sends < MaxFrames /\ Sends \in Nat /\ MaxFrames \in Nat
    BY Parameters DEF Bounds, TypeInv, Sends
  <1> QED BY <1>1, <1>2

Books == Bounds /\ Sums /\ Session /\ Stops

LEMMA AppendLonger ==
  ASSUME NEW S, NEW s \in Seq(S), NEW e
  PROVE  Len(Append(s, e)) = Len(s) + 1 /\ Append(s, e) # <<>>
  <1>1. s \in Seq(S \cup {e}) /\ e \in S \cup {e}
    OBVIOUS
  <1>2. Len(Append(s, e)) = Len(s) + 1 /\ Len(s) \in Nat
    BY <1>1
  <1> QED BY <1>2

LEMMA TotalsTyped ==
  ASSUME TypeInv
  PROVE  /\ Outcomes \in Nat /\ Fates \in Nat /\ Ticking \in Nat /\ Holding \in Nat
  <1>1. \A k \in Counters : count[k] \in Nat
    BY DEF TypeInv
  <1>2. /\ count.noFrame \in Nat /\ count.captureFail \in Nat /\ count.captured \in Nat
        /\ count.encoded \in Nat /\ count.encodeFail \in Nat /\ count.noComplete \in Nat
        /\ count.missing \in Nat
    BY <1>1 DEF Counters
  <1>3. Outcomes \in Nat
    BY <1>2 DEF Outcomes
  <1>4. Fates \in Nat
    BY <1>2 DEF Fates
  <1> QED BY <1>3, <1>4 DEF Ticking, Holding

\* A result counts one outcome, and a captured frame one fate.
LEMMA OneOutcome ==
  ASSUME TypeInv, NEW keys, Adds(keys), NEW k \in {"noFrame", "captureFail", "captured"},
         keys \cap {"noFrame", "captureFail", "captured"} = {k}
  PROVE  Outcomes' = Outcomes + 1
  <1> DEFINE x == count.noFrame  y == count.captureFail  z == count.captured
             p == count'.noFrame q == count'.captureFail r == count'.captured
  <1>1. \A c \in Counters : count[c] \in Nat
    BY DEF TypeInv
  <1>2. x \in Nat /\ y \in Nat /\ z \in Nat
    BY <1>1 DEF Counters
  <1>3. /\ p = IF "noFrame" \in keys THEN x + 1 ELSE x
        /\ q = IF "captureFail" \in keys THEN y + 1 ELSE y
        /\ r = IF "captured" \in keys THEN z + 1 ELSE z
    BY DEF Adds, Counters
  <1>4. Outcomes = x + y + z /\ Outcomes' = p + q + r
    BY DEF Outcomes
  <1> HIDE DEF x, y, z, p, q, r
  <1>5. p + q + r = x + y + z + 1
    <2>1. CASE k = "noFrame"
      <3>1. p = x + 1 /\ q = y /\ r = z
        BY <1>3, <2>1
      <3> QED BY <1>2, <3>1
    <2>2. CASE k = "captureFail"
      <3>1. p = x /\ q = y + 1 /\ r = z
        BY <1>3, <2>2
      <3> QED BY <1>2, <3>1
    <2>3. CASE k = "captured"
      <3>1. p = x /\ q = y /\ r = z + 1
        BY <1>3, <2>3
      <3> QED BY <1>2, <3>1
    <2> QED BY <2>1, <2>2, <2>3
  <1> QED BY <1>4, <1>5

LEMMA OneFate ==
  ASSUME TypeInv, NEW keys, Adds(keys),
         NEW k \in {"encoded", "encodeFail", "noComplete", "missing"},
         keys \cap {"encoded", "encodeFail", "noComplete", "missing"} = {k}
  PROVE  Fates' = Fates + 1
  <1> DEFINE w == count.encoded  x == count.encodeFail  y == count.noComplete  z == count.missing
             s == count'.encoded p == count'.encodeFail q == count'.noComplete r == count'.missing
  <1>1. \A c \in Counters : count[c] \in Nat
    BY DEF TypeInv
  <1>2. w \in Nat /\ x \in Nat /\ y \in Nat /\ z \in Nat
    BY <1>1 DEF Counters
  <1>3. /\ s = IF "encoded" \in keys THEN w + 1 ELSE w
        /\ p = IF "encodeFail" \in keys THEN x + 1 ELSE x
        /\ q = IF "noComplete" \in keys THEN y + 1 ELSE y
        /\ r = IF "missing" \in keys THEN z + 1 ELSE z
    BY DEF Adds, Counters
  <1>4. Fates = w + x + y + z /\ Fates' = s + p + q + r
    BY DEF Fates
  <1> HIDE DEF w, x, y, z, s, p, q, r
  <1>5. s + p + q + r = w + x + y + z + 1
    <2>1. CASE k = "encoded"
      <3>1. s = w + 1 /\ p = x /\ q = y /\ r = z
        BY <1>3, <2>1
      <3> QED BY <1>2, <3>1
    <2>2. CASE k = "encodeFail"
      <3>1. s = w /\ p = x + 1 /\ q = y /\ r = z
        BY <1>3, <2>2
      <3> QED BY <1>2, <3>1
    <2>3. CASE k = "noComplete"
      <3>1. s = w /\ p = x /\ q = y + 1 /\ r = z
        BY <1>3, <2>3
      <3> QED BY <1>2, <3>1
    <2>4. CASE k = "missing"
      <3>1. s = w /\ p = x /\ q = y /\ r = z + 1
        BY <1>3, <2>4
      <3> QED BY <1>2, <3>1
    <2> QED BY <2>1, <2>2, <2>3, <2>4
  <1> QED BY <1>4, <1>5

LEMMA PlusAdds ==
  ASSUME TypeInv, NEW keys, count' = Plus(count, keys)
  PROVE  Adds(keys)
  <1>1. count \in [Counters -> Nat]
    BY DEF TypeInv
  <1> QED BY <1>1, PlusCounts DEF Adds

LEMMA BooksStep ==
  ASSUME LoopAssumption, TypeInv, TypeInv', Books, [Next]_vars
  PROVE  Books'
  <1>p. /\ MaxFrames \in Nat /\ MaxTicks \in Nat /\ FrameWait \in Nat /\ PipeSize \in Nat
        /\ Persistent \in BOOLEAN /\ StopOnCaptureFailure \in BOOLEAN
        /\ StopOnSendFailure \in BOOLEAN
    BY Parameters
  <1>0. /\ now \in Nat /\ attempts \in Nat /\ wait \in Nat /\ Sends \in Nat /\ Len(pipe) \in Nat
        /\ \A k \in Counters : count[k] \in Nat
        /\ phase \in Phases /\ session \in {"None", "Open", "Closed"} /\ stop \in Reasons
    BY DEF TypeInv, Sends
  <1>9. now' \in Nat /\ wait' \in Nat /\ \A k \in Counters : count'[k] \in Nat
    BY DEF TypeInv
  <1>b. Bounds /\ Sums /\ Session /\ Stops
    BY DEF Books
  <1>q. ASSUME Bounds', Sums', Session', Stops' PROVE Books'
    BY <1>q DEF Books
  <1>r. /\ {"None", "EncodeFailure", "CaptureFailure", "SendFailure", "FrameWaitTimeout"} \subseteq Reasons
        /\ {"noFrame", "captureFail", "encodeFail", "sendFail",
             "captured", "encoded", "emitted", "noComplete", "missing", "starts"} \subseteq Counters
    BY DEF Reasons, Counters
  <1>c. /\ count.noFrame \in Nat /\ count.captureFail \in Nat /\ count.encodeFail \in Nat
        /\ count.sendFail \in Nat /\ count.captured \in Nat /\ count.encoded \in Nat
        /\ count.emitted \in Nat /\ count.noComplete \in Nat /\ count.missing \in Nat
        /\ count.starts \in Nat
    BY <1>0, <1>r
  <1>o. Outcomes \in Nat /\ Fates \in Nat /\ Ticking \in Nat /\ Holding \in Nat
    BY TotalsTyped
  <1>101. CASE Top
    <2>1. /\ phase = "Top" /\ now' = now /\ session' = session /\ Len(pipe') = Len(pipe)
          /\ count' = count /\ wait' = wait /\ sent' = sent /\ Sends' = Sends
          /\ IF Sends >= MaxFrames
             THEN stop' = "MaxFramesReached" /\ phase' = "Shutdown" /\ attempts' = attempts
             ELSE IF attempts >= MaxTicks
             THEN stop' = "MaxTicksReached" /\ phase' = "Shutdown" /\ attempts' = attempts
             ELSE attempts' = attempts + 1 /\ phase' = "Acquire" /\ stop' = stop
      BY <1>101 DEF Top, pipeVars, Sends
    <2>2. /\ count'.noFrame = count.noFrame /\ count'.captureFail = count.captureFail
          /\ count'.encodeFail = count.encodeFail /\ count'.sendFail = count.sendFail
          /\ count'.captured = count.captured /\ count'.encoded = count.encoded
          /\ count'.emitted = count.emitted /\ count'.noComplete = count.noComplete
          /\ count'.missing = count.missing /\ count'.starts = count.starts
      BY <2>1
    <2>3. Bounds'
      BY <1>p, <1>0, <1>b, <2>1 DEF Bounds, Phases, MidTick, Ended
    <2>g. phase = "Top"
      BY <2>1
    <2>t. Ticking = 0 /\ Ticking' = (IF phase' = "Acquire" THEN 1 ELSE 0) /\ Holding = 0 /\ Holding' = 0
      BY <2>1 DEF Ticking, Holding, MidTick
    <2>4. Sums'
      <3>1. attempts' = attempts + Ticking' /\ Sends' = Sends
        BY <1>0, <2>1, <2>t
      <3>2. Outcomes' = Outcomes
        BY <2>2 DEF Outcomes
      <3>3. Fates' = Fates
        BY <2>2 DEF Fates
      <3>4. SumAttempts'
        BY <1>0, <1>b, <1>o, <2>t, <3>1, <3>2 DEF Sums, SumAttempts
      <3>5. SumCaptured'
        BY <1>b, <1>o, <2>2, <3>3 DEF Sums, SumCaptured
      <3>6. SumEncoded'
        BY <1>0, <1>b, <1>c, <2>2, <3>1 DEF Sums, SumEncoded
      <3>7. SumEmitted'
        BY <1>b, <1>c, <1>o, <2>2, <2>t, <2>g DEF Sums, SumEmitted, Session
      <3> QED BY <3>4, <3>5, <3>6, <3>7 DEF Sums
    <2>5. Session'
      BY <1>0, <1>b, <1>c, <2>1, <2>2 DEF Session, Stops, Phases, MidTick, Ended
    <2>6. Stops'
      BY <1>p, <1>0, <1>9, <1>b, <1>c, <2>1, <2>2 DEF Stops, Bounds, Phases, MidTick, Ended
    <2> QED BY <1>q, <2>3, <2>4, <2>5, <2>6
  <1>102. CASE NoFrameAvailable
    <2>7. Sends < MaxFrames
      BY <1>b, <1>102 DEF Bounds, NoFrameAvailable, MidTick
    <2>8. ~(Sends >= MaxFrames)
      BY <2>7, <1>0, <1>p
    <2>1. /\ phase = "Acquire" /\ phase \in MidTick
          /\ attempts' = attempts /\ session' = session /\ Len(pipe') = Len(pipe)
          /\ sent' = sent /\ Sends' = Sends
          /\ Adds({"noFrame"})
          /\ stop' = "FrameWaitTimeout" => now' - wait' >= FrameWait
          /\ stop' \in {"None", "FrameWaitTimeout"}
          /\ phase' = IF stop' = "None" THEN "Cadence" ELSE "Shutdown"
      BY <1>102, <2>7, <2>8, PlusAdds DEF NoFrameAvailable, AfterTick, Waited, pipeVars, MidTick, Sends
    <2>2. /\ count'.noFrame = count.noFrame + 1 /\ count'.captureFail = count.captureFail
          /\ count'.encodeFail = count.encodeFail /\ count'.sendFail = count.sendFail
          /\ count'.captured = count.captured /\ count'.encoded = count.encoded
          /\ count'.emitted = count.emitted /\ count'.noComplete = count.noComplete
          /\ count'.missing = count.missing /\ count'.starts = count.starts
      BY <1>r, <2>1 DEF Adds
    <2>3. Bounds'
      BY <1>p, <1>0, <1>b, <2>1 DEF Bounds, Phases, MidTick, Ended
    <2>g. phase = "Acquire"
      BY <2>1
    <2>t. Ticking = 1 /\ Ticking' = 0 /\ Holding = 0 /\ Holding' = 0
      BY <2>1 DEF Ticking, Holding, MidTick
    <2>4. Sums'
      <3>1. attempts' = attempts /\ Sends' = Sends
        BY <1>0, <2>1
      <3>2. Outcomes' = Outcomes + 1
        <4>1. {"noFrame"} \cap {"noFrame", "captureFail", "captured"} = {"noFrame"}
          OBVIOUS
        <4>2. Adds({"noFrame"})
          BY <2>1
        <4> QED BY <4>1, <4>2, OneOutcome
      <3>3. Fates' = Fates
        BY <2>2 DEF Fates
      <3>4. SumAttempts'
        BY <1>0, <1>b, <1>o, <2>t, <3>1, <3>2 DEF Sums, SumAttempts
      <3>5. SumCaptured'
        BY <1>b, <1>o, <2>2, <3>3 DEF Sums, SumCaptured
      <3>6. SumEncoded'
        BY <1>0, <1>b, <1>c, <2>2, <3>1 DEF Sums, SumEncoded
      <3>7. SumEmitted'
        BY <1>b, <1>c, <1>o, <2>2, <2>t, <2>g DEF Sums, SumEmitted, Session
      <3> QED BY <3>4, <3>5, <3>6, <3>7 DEF Sums
    <2>5. Session'
      BY <1>0, <1>b, <1>c, <2>1, <2>2 DEF Session, Stops, Phases, MidTick, Ended
    <2>6. Stops'
      <3>1. /\ Sends < MaxFrames /\ Sends' = Sends /\ count'.noFrame > 0
            /\ count'.sendFail = count.sendFail /\ count'.captureFail = count.captureFail
            /\ (StopOnSendFailure => count.sendFail = 0)
            /\ (StopOnCaptureFailure => count.captureFail = 0)
        BY <1>b, <1>c, <2>1, <2>2, <2>7 DEF Bounds, Stops, MidTick, Ended
      <3> QED BY <1>p, <1>0, <2>1, <3>1 DEF Stops, Ended
    <2> QED BY <1>q, <2>3, <2>4, <2>5, <2>6
  <1>103. CASE CaptureUnavailable
    <2>7. phase \in MidTick /\ phase = "Acquire" /\ Result({"captureFail"}, IF StopOnCaptureFailure THEN "CaptureFailure" ELSE "None") /\ (IF StopOnCaptureFailure THEN "CaptureFailure" ELSE "None") \in Reasons
      BY <1>103, <1>0, <1>r DEF CaptureUnavailable, MidTick
    <2>1. /\ phase = "Acquire"
          /\ attempts' = attempts /\ session' = session /\ Len(pipe') = Len(pipe)
          /\ Adds({"captureFail"}) /\ wait' = 0 /\ sent' = sent /\ Sends' = Sends
          /\ stop' = IF StopOnCaptureFailure THEN "CaptureFailure" ELSE "None"
          /\ phase' = IF stop' = "None" THEN "Cadence" ELSE "Shutdown"
      BY <1>103, <1>b, <2>7, MidResult DEF CaptureUnavailable, pipeVars, Sends
    <2>2. /\ count'.noFrame = count.noFrame /\ count'.captureFail = count.captureFail + 1
          /\ count'.encodeFail = count.encodeFail /\ count'.sendFail = count.sendFail
          /\ count'.captured = count.captured /\ count'.encoded = count.encoded
          /\ count'.emitted = count.emitted /\ count'.noComplete = count.noComplete
          /\ count'.missing = count.missing /\ count'.starts = count.starts
      BY <1>r, <2>1 DEF Adds
    <2>3. Bounds'
      BY <1>p, <1>0, <1>b, <2>1 DEF Bounds, Phases, MidTick, Ended
    <2>g. phase = "Acquire"
      BY <2>1
    <2>t. Ticking = 1 /\ Ticking' = 0 /\ Holding = 0 /\ Holding' = 0
      BY <2>1 DEF Ticking, Holding, MidTick
    <2>4. Sums'
      <3>1. attempts' = attempts /\ Sends' = Sends
        BY <1>0, <2>1
      <3>2. Outcomes' = Outcomes + 1
        <4>1. {"captureFail"} \cap {"noFrame", "captureFail", "captured"} = {"captureFail"}
          OBVIOUS
        <4>2. Adds({"captureFail"})
          BY <2>1
        <4> QED BY <4>1, <4>2, OneOutcome
      <3>3. Fates' = Fates
        BY <2>2 DEF Fates
      <3>4. SumAttempts'
        BY <1>0, <1>b, <1>o, <2>t, <3>1, <3>2 DEF Sums, SumAttempts
      <3>5. SumCaptured'
        BY <1>b, <1>o, <2>2, <3>3 DEF Sums, SumCaptured
      <3>6. SumEncoded'
        BY <1>0, <1>b, <1>c, <2>2, <3>1 DEF Sums, SumEncoded
      <3>7. SumEmitted'
        BY <1>b, <1>c, <1>o, <2>2, <2>t, <2>g DEF Sums, SumEmitted, Session
      <3> QED BY <3>4, <3>5, <3>6, <3>7 DEF Sums
    <2>5. Session'
      BY <1>0, <1>b, <1>c, <2>1, <2>2 DEF Session, Stops, Phases, MidTick, Ended
    <2>6. Stops'
      BY <1>p, <1>0, <1>9, <1>b, <1>c, <2>1, <2>2 DEF Stops, Bounds, Phases, MidTick, Ended
    <2> QED BY <1>q, <2>3, <2>4, <2>5, <2>6
  <1>104. CASE FrameAcquired
    <2>1. /\ phase = "Acquire"
          /\ attempts' = attempts /\ session' = session /\ Len(pipe') = Len(pipe)
          /\ count' = count /\ wait' = wait /\ stop' = stop /\ sent' = sent /\ Sends' = Sends
          /\ phase' = IF ~Persistent THEN "Encode" ELSE IF session = "None" THEN "Start" ELSE "Write"
      BY <1>104 DEF FrameAcquired, loopVars, pipeVars, Sends
    <2>2. /\ count'.noFrame = count.noFrame /\ count'.captureFail = count.captureFail
          /\ count'.encodeFail = count.encodeFail /\ count'.sendFail = count.sendFail
          /\ count'.captured = count.captured /\ count'.encoded = count.encoded
          /\ count'.emitted = count.emitted /\ count'.noComplete = count.noComplete
          /\ count'.missing = count.missing /\ count'.starts = count.starts
      BY <2>1
    <2>3. Bounds'
      BY <1>p, <1>0, <1>b, <2>1 DEF Bounds, Phases, MidTick, Ended
    <2>g. phase = "Acquire"
      BY <2>1
    <2>t. Ticking = 1 /\ Ticking' = 1 /\ Holding = 0 /\ Holding' = 0
      BY <2>1 DEF Ticking, Holding, MidTick
    <2>4. Sums'
      <3>1. attempts' = attempts /\ Sends' = Sends
        BY <1>0, <2>1
      <3>2. Outcomes' = Outcomes
        BY <2>2 DEF Outcomes
      <3>3. Fates' = Fates
        BY <2>2 DEF Fates
      <3>4. SumAttempts'
        BY <1>0, <1>b, <1>o, <2>t, <3>1, <3>2 DEF Sums, SumAttempts
      <3>5. SumCaptured'
        BY <1>b, <1>o, <2>2, <3>3 DEF Sums, SumCaptured
      <3>6. SumEncoded'
        BY <1>0, <1>b, <1>c, <2>2, <3>1 DEF Sums, SumEncoded
      <3>7. SumEmitted'
        BY <1>b, <1>c, <1>o, <2>2, <2>t, <2>g DEF Sums, SumEmitted, Session
      <3> QED BY <3>4, <3>5, <3>6, <3>7 DEF Sums
    <2>5. Session'
      BY <1>0, <1>b, <1>c, <2>1, <2>2 DEF Session, Stops, Phases, MidTick, Ended
    <2>6. Stops'
      BY <1>p, <1>0, <1>9, <1>b, <1>c, <2>1, <2>2 DEF Stops, Bounds, Phases, MidTick, Ended
    <2> QED BY <1>q, <2>3, <2>4, <2>5, <2>6
  <1>105. CASE EncodeOnce
    <2>1. /\ phase = "Encode" /\ phase' = "Send"
          /\ now' = now /\ attempts' = attempts /\ session' = session /\ Len(pipe') = Len(pipe)
          /\ count' = count /\ wait' = wait /\ stop' = stop /\ sent' = sent /\ Sends' = Sends
      BY <1>105 DEF EncodeOnce, loopVars, pipeVars, Sends
    <2>2. /\ count'.noFrame = count.noFrame /\ count'.captureFail = count.captureFail
          /\ count'.encodeFail = count.encodeFail /\ count'.sendFail = count.sendFail
          /\ count'.captured = count.captured /\ count'.encoded = count.encoded
          /\ count'.emitted = count.emitted /\ count'.noComplete = count.noComplete
          /\ count'.missing = count.missing /\ count'.starts = count.starts
      BY <2>1
    <2>3. Bounds'
      BY <1>p, <1>0, <1>b, <2>1 DEF Bounds, Phases, MidTick, Ended
    <2>g. phase = "Encode"
      BY <2>1
    <2>t. Ticking = 1 /\ Ticking' = 1 /\ Holding = 0 /\ Holding' = 1
      BY <2>1 DEF Ticking, Holding, MidTick
    <2>4. Sums'
      <3>1. attempts' = attempts /\ Sends' = Sends
        BY <1>0, <2>1
      <3>2. Outcomes' = Outcomes
        BY <2>2 DEF Outcomes
      <3>3. Fates' = Fates
        BY <2>2 DEF Fates
      <3>4. SumAttempts'
        BY <1>0, <1>b, <1>o, <2>t, <3>1, <3>2 DEF Sums, SumAttempts
      <3>5. SumCaptured'
        BY <1>b, <1>o, <2>2, <3>3 DEF Sums, SumCaptured
      <3>6. SumEncoded'
        BY <1>0, <1>b, <1>c, <2>2, <3>1 DEF Sums, SumEncoded
      <3>7. SumEmitted'
        BY <1>b, <1>c, <1>o, <2>2, <2>t, <2>g DEF Sums, SumEmitted, Session
      <3> QED BY <3>4, <3>5, <3>6, <3>7 DEF Sums
    <2>5. Session'
      BY <1>0, <1>b, <1>c, <2>1, <2>2 DEF Session, Stops, Phases, MidTick, Ended
    <2>6. Stops'
      BY <1>p, <1>0, <1>9, <1>b, <1>c, <2>1, <2>2 DEF Stops, Bounds, Phases, MidTick, Ended
    <2> QED BY <1>q, <2>3, <2>4, <2>5, <2>6
  <1>106. CASE EncodeDeferred
    <2>7. phase \in MidTick /\ phase = "Encode" /\ Result({"captured", "encodeFail"}, "None") /\ ("None") \in Reasons
      BY <1>106, <1>0, <1>r DEF EncodeDeferred, MidTick
    <2>1. /\ phase = "Encode"
          /\ now' = now /\ attempts' = attempts /\ session' = session /\ Len(pipe') = Len(pipe)
          /\ Adds({"captured", "encodeFail"}) /\ wait' = 0 /\ sent' = sent /\ Sends' = Sends
          /\ stop' = "None"
          /\ phase' = IF stop' = "None" THEN "Cadence" ELSE "Shutdown"
      BY <1>106, <1>b, <2>7, MidResult DEF EncodeDeferred, pipeVars, Sends
    <2>2. /\ count'.noFrame = count.noFrame /\ count'.captureFail = count.captureFail
          /\ count'.encodeFail = count.encodeFail + 1 /\ count'.sendFail = count.sendFail
          /\ count'.captured = count.captured + 1 /\ count'.encoded = count.encoded
          /\ count'.emitted = count.emitted /\ count'.noComplete = count.noComplete
          /\ count'.missing = count.missing /\ count'.starts = count.starts
      BY <1>r, <2>1 DEF Adds
    <2>3. Bounds'
      BY <1>p, <1>0, <1>b, <2>1 DEF Bounds, Phases, MidTick, Ended
    <2>g. phase = "Encode"
      BY <2>1
    <2>t. Ticking = 1 /\ Ticking' = 0 /\ Holding = 0 /\ Holding' = 0
      BY <2>1 DEF Ticking, Holding, MidTick
    <2>4. Sums'
      <3>1. attempts' = attempts /\ Sends' = Sends
        BY <1>0, <2>1
      <3>2. Outcomes' = Outcomes + 1
        <4>1. {"captured", "encodeFail"} \cap {"noFrame", "captureFail", "captured"} = {"captured"}
          OBVIOUS
        <4>2. Adds({"captured", "encodeFail"})
          BY <2>1
        <4> QED BY <4>1, <4>2, OneOutcome
      <3>3. Fates' = Fates + 1
        <4>1. {"captured", "encodeFail"} \cap {"encoded", "encodeFail", "noComplete", "missing"} = {"encodeFail"}
          OBVIOUS
        <4>2. Adds({"captured", "encodeFail"})
          BY <2>1
        <4> QED BY <4>1, <4>2, OneFate
      <3>4. SumAttempts'
        BY <1>0, <1>b, <1>o, <2>t, <3>1, <3>2 DEF Sums, SumAttempts
      <3>5. SumCaptured'
        BY <1>b, <1>o, <2>2, <3>3 DEF Sums, SumCaptured
      <3>6. SumEncoded'
        BY <1>0, <1>b, <1>c, <2>2, <3>1 DEF Sums, SumEncoded
      <3>7. SumEmitted'
        BY <1>b, <1>c, <1>o, <2>2, <2>t, <2>g DEF Sums, SumEmitted, Session
      <3> QED BY <3>4, <3>5, <3>6, <3>7 DEF Sums
    <2>5. Session'
      BY <1>0, <1>b, <1>c, <2>1, <2>2 DEF Session, Stops, Phases, MidTick, Ended
    <2>6. Stops'
      BY <1>p, <1>0, <1>9, <1>b, <1>c, <2>1, <2>2 DEF Stops, Bounds, Phases, MidTick, Ended
    <2> QED BY <1>q, <2>3, <2>4, <2>5, <2>6
  <1>107. CASE StartSession
    <2>1. /\ phase = "Start" /\ phase' = "Write" /\ session' = "Open"
          /\ now' = now /\ attempts' = attempts /\ Len(pipe') = Len(pipe)
          /\ wait' = wait /\ stop' = stop /\ sent' = sent /\ Sends' = Sends
          /\ Adds({"starts"})
      BY <1>107, PlusAdds DEF StartSession, pipeVars, Sends
    <2>2. /\ count'.noFrame = count.noFrame /\ count'.captureFail = count.captureFail
          /\ count'.encodeFail = count.encodeFail /\ count'.sendFail = count.sendFail
          /\ count'.captured = count.captured /\ count'.encoded = count.encoded
          /\ count'.emitted = count.emitted /\ count'.noComplete = count.noComplete
          /\ count'.missing = count.missing /\ count'.starts = count.starts + 1
      BY <1>r, <2>1 DEF Adds
    <2>3. Bounds'
      BY <1>p, <1>0, <1>b, <2>1 DEF Bounds, Phases, MidTick, Ended
    <2>g. phase = "Start"
      BY <2>1
    <2>t. Ticking = 1 /\ Ticking' = 1 /\ Holding = 0 /\ Holding' = 0
      BY <2>1 DEF Ticking, Holding, MidTick
    <2>4. Sums'
      <3>1. attempts' = attempts /\ Sends' = Sends
        BY <1>0, <2>1
      <3>2. Outcomes' = Outcomes
        BY <2>2 DEF Outcomes
      <3>3. Fates' = Fates
        BY <2>2 DEF Fates
      <3>4. SumAttempts'
        BY <1>0, <1>b, <1>o, <2>t, <3>1, <3>2 DEF Sums, SumAttempts
      <3>5. SumCaptured'
        BY <1>b, <1>o, <2>2, <3>3 DEF Sums, SumCaptured
      <3>6. SumEncoded'
        BY <1>0, <1>b, <1>c, <2>2, <3>1 DEF Sums, SumEncoded
      <3>7. SumEmitted'
        BY <1>b, <1>c, <1>o, <2>2, <2>t, <2>g DEF Sums, SumEmitted, Session
      <3> QED BY <3>4, <3>5, <3>6, <3>7 DEF Sums
    <2>5. Session'
      BY <1>0, <1>b, <1>c, <2>1, <2>2 DEF Session, Stops, Phases, MidTick, Ended
    <2>6. Stops'
      BY <1>p, <1>0, <1>9, <1>b, <1>c, <2>1, <2>2 DEF Stops, Bounds, Phases, MidTick, Ended
    <2> QED BY <1>q, <2>3, <2>4, <2>5, <2>6
  <1>108. CASE StartFails
    <2>7. phase \in MidTick /\ phase = "Start" /\ Result({"captured", "encodeFail"}, "EncodeFailure") /\ ("EncodeFailure") \in Reasons
      BY <1>108, <1>0, <1>r DEF StartFails, MidTick
    <2>1. /\ phase = "Start"
          /\ now' = now /\ attempts' = attempts /\ session' = session /\ Len(pipe') = Len(pipe)
          /\ Adds({"captured", "encodeFail"}) /\ wait' = 0 /\ sent' = sent /\ Sends' = Sends
          /\ stop' = "EncodeFailure"
          /\ phase' = IF stop' = "None" THEN "Cadence" ELSE "Shutdown"
      BY <1>108, <1>b, <2>7, MidResult DEF StartFails, pipeVars, Sends
    <2>2. /\ count'.noFrame = count.noFrame /\ count'.captureFail = count.captureFail
          /\ count'.encodeFail = count.encodeFail + 1 /\ count'.sendFail = count.sendFail
          /\ count'.captured = count.captured + 1 /\ count'.encoded = count.encoded
          /\ count'.emitted = count.emitted /\ count'.noComplete = count.noComplete
          /\ count'.missing = count.missing /\ count'.starts = count.starts
      BY <1>r, <2>1 DEF Adds
    <2>3. Bounds'
      BY <1>p, <1>0, <1>b, <2>1 DEF Bounds, Phases, MidTick, Ended
    <2>g. phase = "Start"
      BY <2>1
    <2>t. Ticking = 1 /\ Ticking' = 0 /\ Holding = 0 /\ Holding' = 0
      BY <2>1 DEF Ticking, Holding, MidTick
    <2>4. Sums'
      <3>1. attempts' = attempts /\ Sends' = Sends
        BY <1>0, <2>1
      <3>2. Outcomes' = Outcomes + 1
        <4>1. {"captured", "encodeFail"} \cap {"noFrame", "captureFail", "captured"} = {"captured"}
          OBVIOUS
        <4>2. Adds({"captured", "encodeFail"})
          BY <2>1
        <4> QED BY <4>1, <4>2, OneOutcome
      <3>3. Fates' = Fates + 1
        <4>1. {"captured", "encodeFail"} \cap {"encoded", "encodeFail", "noComplete", "missing"} = {"encodeFail"}
          OBVIOUS
        <4>2. Adds({"captured", "encodeFail"})
          BY <2>1
        <4> QED BY <4>1, <4>2, OneFate
      <3>4. SumAttempts'
        BY <1>0, <1>b, <1>o, <2>t, <3>1, <3>2 DEF Sums, SumAttempts
      <3>5. SumCaptured'
        BY <1>b, <1>o, <2>2, <3>3 DEF Sums, SumCaptured
      <3>6. SumEncoded'
        BY <1>0, <1>b, <1>c, <2>2, <3>1 DEF Sums, SumEncoded
      <3>7. SumEmitted'
        BY <1>b, <1>c, <1>o, <2>2, <2>t, <2>g DEF Sums, SumEmitted, Session
      <3> QED BY <3>4, <3>5, <3>6, <3>7 DEF Sums
    <2>5. Session'
      BY <1>0, <1>b, <1>c, <2>1, <2>2 DEF Session, Stops, Phases, MidTick, Ended
    <2>6. Stops'
      BY <1>p, <1>0, <1>9, <1>b, <1>c, <2>1, <2>2 DEF Stops, Bounds, Phases, MidTick, Ended
    <2> QED BY <1>q, <2>3, <2>4, <2>5, <2>6
  <1>109. CASE FrameAccepted
    <2>1. /\ phase = "Write" /\ phase' = "Read"
          /\ now' = now /\ attempts' = attempts /\ session' = session /\ Len(pipe') = Len(pipe)
          /\ count' = count /\ wait' = wait /\ stop' = stop /\ sent' = sent /\ Sends' = Sends
      BY <1>109 DEF FrameAccepted, loopVars, Sends
    <2>2. /\ count'.noFrame = count.noFrame /\ count'.captureFail = count.captureFail
          /\ count'.encodeFail = count.encodeFail /\ count'.sendFail = count.sendFail
          /\ count'.captured = count.captured /\ count'.encoded = count.encoded
          /\ count'.emitted = count.emitted /\ count'.noComplete = count.noComplete
          /\ count'.missing = count.missing /\ count'.starts = count.starts
      BY <2>1
    <2>3. Bounds'
      BY <1>p, <1>0, <1>b, <2>1 DEF Bounds, Phases, MidTick, Ended
    <2>g. phase = "Write"
      BY <2>1
    <2>t. Ticking = 1 /\ Ticking' = 1 /\ Holding = 0 /\ Holding' = 0
      BY <2>1 DEF Ticking, Holding, MidTick
    <2>4. Sums'
      <3>1. attempts' = attempts /\ Sends' = Sends
        BY <1>0, <2>1
      <3>2. Outcomes' = Outcomes
        BY <2>2 DEF Outcomes
      <3>3. Fates' = Fates
        BY <2>2 DEF Fates
      <3>4. SumAttempts'
        BY <1>0, <1>b, <1>o, <2>t, <3>1, <3>2 DEF Sums, SumAttempts
      <3>5. SumCaptured'
        BY <1>b, <1>o, <2>2, <3>3 DEF Sums, SumCaptured
      <3>6. SumEncoded'
        BY <1>0, <1>b, <1>c, <2>2, <3>1 DEF Sums, SumEncoded
      <3>7. SumEmitted'
        BY <1>b, <1>c, <1>o, <2>2, <2>t, <2>g DEF Sums, SumEmitted, Session
      <3> QED BY <3>4, <3>5, <3>6, <3>7 DEF Sums
    <2>5. Session'
      BY <1>0, <1>b, <1>c, <2>1, <2>2 DEF Session, Stops, Phases, MidTick, Ended
    <2>6. Stops'
      BY <1>p, <1>0, <1>9, <1>b, <1>c, <2>1, <2>2 DEF Stops, Bounds, Phases, MidTick, Ended
    <2> QED BY <1>q, <2>3, <2>4, <2>5, <2>6
  <1>110. CASE WriteFails
    <2>7. phase \in MidTick /\ phase = "Write" /\ Result({"captured", "encodeFail"}, "EncodeFailure") /\ ("EncodeFailure") \in Reasons
      BY <1>110, <1>0, <1>r DEF WriteFails, SessionFails, MidTick
    <2>1. /\ phase = "Write"
          /\ now' = now /\ attempts' = attempts /\ session' = "Closed" /\ Len(pipe') = 0
          /\ Adds({"captured", "encodeFail"}) /\ wait' = 0 /\ sent' = sent /\ Sends' = Sends
          /\ stop' = "EncodeFailure"
          /\ phase' = IF stop' = "None" THEN "Cadence" ELSE "Shutdown"
      BY <1>110, <1>b, <2>7, MidResult DEF WriteFails, SessionFails, pipeVars, Sends
    <2>2. /\ count'.noFrame = count.noFrame /\ count'.captureFail = count.captureFail
          /\ count'.encodeFail = count.encodeFail + 1 /\ count'.sendFail = count.sendFail
          /\ count'.captured = count.captured + 1 /\ count'.encoded = count.encoded
          /\ count'.emitted = count.emitted /\ count'.noComplete = count.noComplete
          /\ count'.missing = count.missing /\ count'.starts = count.starts
      BY <1>r, <2>1 DEF Adds
    <2>3. Bounds'
      BY <1>p, <1>0, <1>b, <2>1 DEF Bounds, Phases, MidTick, Ended
    <2>g. phase = "Write"
      BY <2>1
    <2>t. Ticking = 1 /\ Ticking' = 0 /\ Holding = 0 /\ Holding' = 0
      BY <2>1 DEF Ticking, Holding, MidTick
    <2>4. Sums'
      <3>1. attempts' = attempts /\ Sends' = Sends
        BY <1>0, <2>1
      <3>2. Outcomes' = Outcomes + 1
        <4>1. {"captured", "encodeFail"} \cap {"noFrame", "captureFail", "captured"} = {"captured"}
          OBVIOUS
        <4>2. Adds({"captured", "encodeFail"})
          BY <2>1
        <4> QED BY <4>1, <4>2, OneOutcome
      <3>3. Fates' = Fates + 1
        <4>1. {"captured", "encodeFail"} \cap {"encoded", "encodeFail", "noComplete", "missing"} = {"encodeFail"}
          OBVIOUS
        <4>2. Adds({"captured", "encodeFail"})
          BY <2>1
        <4> QED BY <4>1, <4>2, OneFate
      <3>4. SumAttempts'
        BY <1>0, <1>b, <1>o, <2>t, <3>1, <3>2 DEF Sums, SumAttempts
      <3>5. SumCaptured'
        BY <1>b, <1>o, <2>2, <3>3 DEF Sums, SumCaptured
      <3>6. SumEncoded'
        BY <1>0, <1>b, <1>c, <2>2, <3>1 DEF Sums, SumEncoded
      <3>7. SumEmitted'
        BY <1>b, <1>c, <1>o, <2>2, <2>t, <2>g DEF Sums, SumEmitted, Session
      <3> QED BY <3>4, <3>5, <3>6, <3>7 DEF Sums
    <2>5. Session'
      BY <1>0, <1>b, <1>c, <2>1, <2>2 DEF Session, Stops, Phases, MidTick, Ended
    <2>6. Stops'
      BY <1>p, <1>0, <1>9, <1>b, <1>c, <2>1, <2>2 DEF Stops, Bounds, Phases, MidTick, Ended
    <2> QED BY <1>q, <2>3, <2>4, <2>5, <2>6
  <1>111. CASE ReadFails
    <2>7. phase \in MidTick /\ phase = "Read" /\ Result({"captured", "encodeFail"}, "EncodeFailure") /\ ("EncodeFailure") \in Reasons
      BY <1>111, <1>0, <1>r DEF ReadFails, SessionFails, MidTick
    <2>1. /\ phase = "Read"
          /\ now' = now /\ attempts' = attempts /\ session' = "Closed" /\ Len(pipe') = 0
          /\ Adds({"captured", "encodeFail"}) /\ wait' = 0 /\ sent' = sent /\ Sends' = Sends
          /\ stop' = "EncodeFailure"
          /\ phase' = IF stop' = "None" THEN "Cadence" ELSE "Shutdown"
      BY <1>111, <1>b, <2>7, MidResult DEF ReadFails, SessionFails, pipeVars, Sends
    <2>2. /\ count'.noFrame = count.noFrame /\ count'.captureFail = count.captureFail
          /\ count'.encodeFail = count.encodeFail + 1 /\ count'.sendFail = count.sendFail
          /\ count'.captured = count.captured + 1 /\ count'.encoded = count.encoded
          /\ count'.emitted = count.emitted /\ count'.noComplete = count.noComplete
          /\ count'.missing = count.missing /\ count'.starts = count.starts
      BY <1>r, <2>1 DEF Adds
    <2>3. Bounds'
      BY <1>p, <1>0, <1>b, <2>1 DEF Bounds, Phases, MidTick, Ended
    <2>g. phase = "Read"
      BY <2>1
    <2>t. Ticking = 1 /\ Ticking' = 0 /\ Holding = 0 /\ Holding' = 0
      BY <2>1 DEF Ticking, Holding, MidTick
    <2>4. Sums'
      <3>1. attempts' = attempts /\ Sends' = Sends
        BY <1>0, <2>1
      <3>2. Outcomes' = Outcomes + 1
        <4>1. {"captured", "encodeFail"} \cap {"noFrame", "captureFail", "captured"} = {"captured"}
          OBVIOUS
        <4>2. Adds({"captured", "encodeFail"})
          BY <2>1
        <4> QED BY <4>1, <4>2, OneOutcome
      <3>3. Fates' = Fates + 1
        <4>1. {"captured", "encodeFail"} \cap {"encoded", "encodeFail", "noComplete", "missing"} = {"encodeFail"}
          OBVIOUS
        <4>2. Adds({"captured", "encodeFail"})
          BY <2>1
        <4> QED BY <4>1, <4>2, OneFate
      <3>4. SumAttempts'
        BY <1>0, <1>b, <1>o, <2>t, <3>1, <3>2 DEF Sums, SumAttempts
      <3>5. SumCaptured'
        BY <1>b, <1>o, <2>2, <3>3 DEF Sums, SumCaptured
      <3>6. SumEncoded'
        BY <1>0, <1>b, <1>c, <2>2, <3>1 DEF Sums, SumEncoded
      <3>7. SumEmitted'
        BY <1>b, <1>c, <1>o, <2>2, <2>t, <2>g DEF Sums, SumEmitted, Session
      <3> QED BY <3>4, <3>5, <3>6, <3>7 DEF Sums
    <2>5. Session'
      BY <1>0, <1>b, <1>c, <2>1, <2>2 DEF Session, Stops, Phases, MidTick, Ended
    <2>6. Stops'
      BY <1>p, <1>0, <1>9, <1>b, <1>c, <2>1, <2>2 DEF Stops, Bounds, Phases, MidTick, Ended
    <2> QED BY <1>q, <2>3, <2>4, <2>5, <2>6
  <1>112. CASE ReadUnit /\ phase' = "Prepare"
    <2>8. PICK n \in 1 .. ReadLen :
            /\ n <= Len(pipe) /\ pipe' = SubSeq(pipe, n + 1, Len(pipe))
            /\ LET b == buffer \o SubSeq(pipe, 1, n) IN
               IF Complete(b)
               THEN /\ unit' = [of |-> b[1], whole |-> TRUE]
                    /\ buffer' = Rest(b) /\ phase' = "Prepare"
                    /\ count' = Plus(count, {"emitted"})
                    /\ UNCHANGED <<wait, stop, sent>>
               ELSE /\ buffer' = b /\ Result({"captured", "noComplete"}, "None")
                    /\ UNCHANGED unit
      BY <1>112 DEF ReadUnit
    <2>9. /\ phase = "Read" /\ phase \in MidTick
          /\ now' = now /\ attempts' = attempts /\ session' = session
      BY <1>112 DEF ReadUnit, MidTick
    <2>10. Len(pipe') <= Len(pipe) /\ Len(pipe') \in Nat
      <3>1. pipe \in Seq(Nat) /\ n \in 1 .. Len(pipe)
        BY <2>8 DEF TypeInv
      <3> QED BY <2>8, <3>1, SubSeqTyped
    <2>11. /\ count' = Plus(count, {"emitted"})
           /\ wait' = wait /\ stop' = stop /\ sent' = sent
      BY <1>112, <2>8 DEF Result, AfterTick
    <2>1. /\ phase = "Read" /\ phase' = "Prepare"
          /\ now' = now /\ attempts' = attempts /\ session' = session /\ Len(pipe') <= Len(pipe) /\ Len(pipe') \in Nat
          /\ wait' = wait /\ stop' = stop /\ sent' = sent /\ Sends' = Sends
          /\ Adds({"emitted"})
      BY <1>112, <2>8, <2>9, <2>10, <2>11, PlusAdds DEF Sends
    <2>2. /\ count'.noFrame = count.noFrame /\ count'.captureFail = count.captureFail
          /\ count'.encodeFail = count.encodeFail /\ count'.sendFail = count.sendFail
          /\ count'.captured = count.captured /\ count'.encoded = count.encoded
          /\ count'.emitted = count.emitted + 1 /\ count'.noComplete = count.noComplete
          /\ count'.missing = count.missing /\ count'.starts = count.starts
      BY <1>r, <2>1 DEF Adds
    <2>3. Bounds'
      BY <1>p, <1>0, <1>b, <2>1 DEF Bounds, Phases, MidTick, Ended
    <2>g. phase = "Read"
      BY <2>1
    <2>t. Ticking = 1 /\ Ticking' = 1 /\ Holding = 0 /\ Holding' = 1
      BY <2>1 DEF Ticking, Holding, MidTick
    <2>4. Sums'
      <3>1. attempts' = attempts /\ Sends' = Sends
        BY <1>0, <2>1
      <3>2. Outcomes' = Outcomes
        BY <2>2 DEF Outcomes
      <3>3. Fates' = Fates
        BY <2>2 DEF Fates
      <3>4. SumAttempts'
        BY <1>0, <1>b, <1>o, <2>t, <3>1, <3>2 DEF Sums, SumAttempts
      <3>5. SumCaptured'
        BY <1>b, <1>o, <2>2, <3>3 DEF Sums, SumCaptured
      <3>6. SumEncoded'
        BY <1>0, <1>b, <1>c, <2>2, <3>1 DEF Sums, SumEncoded
      <3>7. SumEmitted'
        BY <1>b, <1>c, <1>o, <2>2, <2>t, <2>g DEF Sums, SumEmitted, Session
      <3> QED BY <3>4, <3>5, <3>6, <3>7 DEF Sums
    <2>5. Session'
      BY <1>0, <1>b, <1>c, <2>1, <2>2 DEF Session, Stops, Phases, MidTick, Ended
    <2>6. Stops'
      BY <1>p, <1>0, <1>9, <1>b, <1>c, <2>1, <2>2 DEF Stops, Bounds, Phases, MidTick, Ended
    <2> QED BY <1>q, <2>3, <2>4, <2>5, <2>6
  <1>113. CASE ReadUnit /\ phase' # "Prepare"
    <2>8. PICK n \in 1 .. ReadLen :
            /\ n <= Len(pipe) /\ pipe' = SubSeq(pipe, n + 1, Len(pipe))
            /\ LET b == buffer \o SubSeq(pipe, 1, n) IN
               IF Complete(b)
               THEN /\ unit' = [of |-> b[1], whole |-> TRUE]
                    /\ buffer' = Rest(b) /\ phase' = "Prepare"
                    /\ count' = Plus(count, {"emitted"})
                    /\ UNCHANGED <<wait, stop, sent>>
               ELSE /\ buffer' = b /\ Result({"captured", "noComplete"}, "None")
                    /\ UNCHANGED unit
      BY <1>113 DEF ReadUnit
    <2>9. /\ phase = "Read" /\ phase \in MidTick
          /\ now' = now /\ attempts' = attempts /\ session' = session
      BY <1>113 DEF ReadUnit, MidTick
    <2>10. Len(pipe') <= Len(pipe) /\ Len(pipe') \in Nat
      <3>1. pipe \in Seq(Nat) /\ n \in 1 .. Len(pipe)
        BY <2>8 DEF TypeInv
      <3> QED BY <2>8, <3>1, SubSeqTyped
    <2>11. Result({"captured", "noComplete"}, "None")
      BY <1>113, <2>8
    <2>1. /\ phase = "Read" /\ phase' = "Cadence"
          /\ now' = now /\ attempts' = attempts /\ session' = session /\ Len(pipe') <= Len(pipe) /\ Len(pipe') \in Nat
          /\ wait' = 0 /\ stop' = "None" /\ sent' = sent /\ Sends' = Sends
          /\ Adds({"captured", "noComplete"})
      BY <1>b, <2>9, <2>10, <2>11, <1>r, MidResult DEF Sends
    <2>2. /\ count'.noFrame = count.noFrame /\ count'.captureFail = count.captureFail
          /\ count'.encodeFail = count.encodeFail /\ count'.sendFail = count.sendFail
          /\ count'.captured = count.captured + 1 /\ count'.encoded = count.encoded
          /\ count'.emitted = count.emitted /\ count'.noComplete = count.noComplete + 1
          /\ count'.missing = count.missing /\ count'.starts = count.starts
      BY <1>r, <2>1 DEF Adds
    <2>3. Bounds'
      BY <1>p, <1>0, <1>b, <2>1 DEF Bounds, Phases, MidTick, Ended
    <2>g. phase = "Read"
      BY <2>1
    <2>t. Ticking = 1 /\ Ticking' = 0 /\ Holding = 0 /\ Holding' = 0
      BY <2>1 DEF Ticking, Holding, MidTick
    <2>4. Sums'
      <3>1. attempts' = attempts /\ Sends' = Sends
        BY <1>0, <2>1
      <3>2. Outcomes' = Outcomes + 1
        <4>1. {"captured", "noComplete"} \cap {"noFrame", "captureFail", "captured"} = {"captured"}
          OBVIOUS
        <4>2. Adds({"captured", "noComplete"})
          BY <2>1
        <4> QED BY <4>1, <4>2, OneOutcome
      <3>3. Fates' = Fates + 1
        <4>1. {"captured", "noComplete"} \cap {"encoded", "encodeFail", "noComplete", "missing"} = {"noComplete"}
          OBVIOUS
        <4>2. Adds({"captured", "noComplete"})
          BY <2>1
        <4> QED BY <4>1, <4>2, OneFate
      <3>4. SumAttempts'
        BY <1>0, <1>b, <1>o, <2>t, <3>1, <3>2 DEF Sums, SumAttempts
      <3>5. SumCaptured'
        BY <1>b, <1>o, <2>2, <3>3 DEF Sums, SumCaptured
      <3>6. SumEncoded'
        BY <1>0, <1>b, <1>c, <2>2, <3>1 DEF Sums, SumEncoded
      <3>7. SumEmitted'
        BY <1>b, <1>c, <1>o, <2>2, <2>t, <2>g DEF Sums, SumEmitted, Session
      <3> QED BY <3>4, <3>5, <3>6, <3>7 DEF Sums
    <2>5. Session'
      BY <1>0, <1>b, <1>c, <2>1, <2>2 DEF Session, Stops, Phases, MidTick, Ended
    <2>6. Stops'
      BY <1>p, <1>0, <1>9, <1>b, <1>c, <2>1, <2>2 DEF Stops, Bounds, Phases, MidTick, Ended
    <2> QED BY <1>q, <2>3, <2>4, <2>5, <2>6
  <1>114. CASE StreamEnded /\ buffer = <<>>
    <2>7. phase \in MidTick /\ phase = "Read" /\ Result({"captured", "encodeFail"}, "EncodeFailure") /\ ("EncodeFailure") \in Reasons
      BY <1>114, <1>0, <1>r DEF StreamEnded, MidTick
    <2>1. /\ phase = "Read"
          /\ now' = now /\ attempts' = attempts /\ session' = "Closed" /\ Len(pipe') = Len(pipe)
          /\ Adds({"captured", "encodeFail"}) /\ wait' = 0 /\ sent' = sent /\ Sends' = Sends
          /\ stop' = "EncodeFailure"
          /\ phase' = IF stop' = "None" THEN "Cadence" ELSE "Shutdown"
      BY <1>114, <1>b, <2>7, MidResult DEF StreamEnded, pipeVars, Sends
    <2>2. /\ count'.noFrame = count.noFrame /\ count'.captureFail = count.captureFail
          /\ count'.encodeFail = count.encodeFail + 1 /\ count'.sendFail = count.sendFail
          /\ count'.captured = count.captured + 1 /\ count'.encoded = count.encoded
          /\ count'.emitted = count.emitted /\ count'.noComplete = count.noComplete
          /\ count'.missing = count.missing /\ count'.starts = count.starts
      BY <1>r, <2>1 DEF Adds
    <2>3. Bounds'
      BY <1>p, <1>0, <1>b, <2>1 DEF Bounds, Phases, MidTick, Ended
    <2>g. phase = "Read"
      BY <2>1
    <2>t. Ticking = 1 /\ Ticking' = 0 /\ Holding = 0 /\ Holding' = 0
      BY <2>1 DEF Ticking, Holding, MidTick
    <2>4. Sums'
      <3>1. attempts' = attempts /\ Sends' = Sends
        BY <1>0, <2>1
      <3>2. Outcomes' = Outcomes + 1
        <4>1. {"captured", "encodeFail"} \cap {"noFrame", "captureFail", "captured"} = {"captured"}
          OBVIOUS
        <4>2. Adds({"captured", "encodeFail"})
          BY <2>1
        <4> QED BY <4>1, <4>2, OneOutcome
      <3>3. Fates' = Fates + 1
        <4>1. {"captured", "encodeFail"} \cap {"encoded", "encodeFail", "noComplete", "missing"} = {"encodeFail"}
          OBVIOUS
        <4>2. Adds({"captured", "encodeFail"})
          BY <2>1
        <4> QED BY <4>1, <4>2, OneFate
      <3>4. SumAttempts'
        BY <1>0, <1>b, <1>o, <2>t, <3>1, <3>2 DEF Sums, SumAttempts
      <3>5. SumCaptured'
        BY <1>b, <1>o, <2>2, <3>3 DEF Sums, SumCaptured
      <3>6. SumEncoded'
        BY <1>0, <1>b, <1>c, <2>2, <3>1 DEF Sums, SumEncoded
      <3>7. SumEmitted'
        BY <1>b, <1>c, <1>o, <2>2, <2>t, <2>g DEF Sums, SumEmitted, Session
      <3> QED BY <3>4, <3>5, <3>6, <3>7 DEF Sums
    <2>5. Session'
      BY <1>0, <1>b, <1>c, <2>1, <2>2 DEF Session, Stops, Phases, MidTick, Ended
    <2>6. Stops'
      BY <1>p, <1>0, <1>9, <1>b, <1>c, <2>1, <2>2 DEF Stops, Bounds, Phases, MidTick, Ended
    <2> QED BY <1>q, <2>3, <2>4, <2>5, <2>6
  <1>115. CASE StreamEnded /\ buffer # <<>>
    <2>1. /\ phase = "Read" /\ phase' = "Prepare" /\ session' = "Closed"
          /\ now' = now /\ attempts' = attempts /\ Len(pipe') = Len(pipe)
          /\ wait' = wait /\ stop' = "EncodeFailure" /\ sent' = sent /\ Sends' = Sends
          /\ Adds({"emitted"})
      BY <1>115, PlusAdds DEF StreamEnded, Sends
    <2>2. /\ count'.noFrame = count.noFrame /\ count'.captureFail = count.captureFail
          /\ count'.encodeFail = count.encodeFail /\ count'.sendFail = count.sendFail
          /\ count'.captured = count.captured /\ count'.encoded = count.encoded
          /\ count'.emitted = count.emitted + 1 /\ count'.noComplete = count.noComplete
          /\ count'.missing = count.missing /\ count'.starts = count.starts
      BY <1>r, <2>1 DEF Adds
    <2>3. Bounds'
      BY <1>p, <1>0, <1>b, <2>1 DEF Bounds, Phases, MidTick, Ended
    <2>g. phase = "Read"
      BY <2>1
    <2>t. Ticking = 1 /\ Ticking' = 1 /\ Holding = 0 /\ Holding' = 1
      BY <2>1 DEF Ticking, Holding, MidTick
    <2>4. Sums'
      <3>1. attempts' = attempts /\ Sends' = Sends
        BY <1>0, <2>1
      <3>2. Outcomes' = Outcomes
        BY <2>2 DEF Outcomes
      <3>3. Fates' = Fates
        BY <2>2 DEF Fates
      <3>4. SumAttempts'
        BY <1>0, <1>b, <1>o, <2>t, <3>1, <3>2 DEF Sums, SumAttempts
      <3>5. SumCaptured'
        BY <1>b, <1>o, <2>2, <3>3 DEF Sums, SumCaptured
      <3>6. SumEncoded'
        BY <1>0, <1>b, <1>c, <2>2, <3>1 DEF Sums, SumEncoded
      <3>7. SumEmitted'
        BY <1>b, <1>c, <1>o, <2>2, <2>t, <2>g DEF Sums, SumEmitted, Session
      <3> QED BY <3>4, <3>5, <3>6, <3>7 DEF Sums
    <2>5. Session'
      BY <1>0, <1>b, <1>c, <2>1, <2>2 DEF Session, Stops, Phases, MidTick, Ended
    <2>6. Stops'
      BY <1>p, <1>0, <1>9, <1>b, <1>c, <2>1, <2>2 DEF Stops, Bounds, Phases, MidTick, Ended
    <2> QED BY <1>q, <2>3, <2>4, <2>5, <2>6
  <1>116. CASE Prepare /\ phase' = "Send"
    <2>1. /\ phase = "Prepare" /\ phase' = "Send"
          /\ now' = now /\ attempts' = attempts /\ session' = session /\ Len(pipe') = Len(pipe)
          /\ count' = count /\ wait' = wait /\ stop' = stop /\ sent' = sent /\ Sends' = Sends
      BY <1>116 DEF Prepare, Result, AfterTick, loopVars, pipeVars, Sends
    <2>2. /\ count'.noFrame = count.noFrame /\ count'.captureFail = count.captureFail
          /\ count'.encodeFail = count.encodeFail /\ count'.sendFail = count.sendFail
          /\ count'.captured = count.captured /\ count'.encoded = count.encoded
          /\ count'.emitted = count.emitted /\ count'.noComplete = count.noComplete
          /\ count'.missing = count.missing /\ count'.starts = count.starts
      BY <2>1
    <2>3. Bounds'
      BY <1>p, <1>0, <1>b, <2>1 DEF Bounds, Phases, MidTick, Ended
    <2>g. phase = "Prepare"
      BY <2>1
    <2>t. Ticking = 1 /\ Ticking' = 1 /\ Holding = 1 /\ Holding' = 1
      BY <2>1 DEF Ticking, Holding, MidTick
    <2>4. Sums'
      <3>1. attempts' = attempts /\ Sends' = Sends
        BY <1>0, <2>1
      <3>2. Outcomes' = Outcomes
        BY <2>2 DEF Outcomes
      <3>3. Fates' = Fates
        BY <2>2 DEF Fates
      <3>4. SumAttempts'
        BY <1>0, <1>b, <1>o, <2>t, <3>1, <3>2 DEF Sums, SumAttempts
      <3>5. SumCaptured'
        BY <1>b, <1>o, <2>2, <3>3 DEF Sums, SumCaptured
      <3>6. SumEncoded'
        BY <1>0, <1>b, <1>c, <2>2, <3>1 DEF Sums, SumEncoded
      <3>7. SumEmitted'
        BY <1>b, <1>c, <1>o, <2>2, <2>t, <2>g DEF Sums, SumEmitted, Session
      <3> QED BY <3>4, <3>5, <3>6, <3>7 DEF Sums
    <2>5. Session'
      BY <1>0, <1>b, <1>c, <2>1, <2>2 DEF Session, Stops, Phases, MidTick, Ended
    <2>6. Stops'
      BY <1>p, <1>0, <1>9, <1>b, <1>c, <2>1, <2>2 DEF Stops, Bounds, Phases, MidTick, Ended
    <2> QED BY <1>q, <2>3, <2>4, <2>5, <2>6
  <1>117. CASE Prepare /\ phase' # "Send"
    <2>7. phase \in MidTick /\ phase = "Prepare" /\ Result({"captured", "missing"}, stop) /\ (stop) \in Reasons
      BY <1>117, <1>0, <1>r DEF Prepare, MidTick
    <2>1. /\ phase = "Prepare"
          /\ now' = now /\ attempts' = attempts /\ session' = session /\ Len(pipe') = Len(pipe)
          /\ Adds({"captured", "missing"}) /\ wait' = 0 /\ sent' = sent /\ Sends' = Sends
          /\ stop' = stop
          /\ phase' = IF stop' = "None" THEN "Cadence" ELSE "Shutdown"
      BY <1>117, <1>b, <2>7, MidResult DEF Prepare, pipeVars, Sends
    <2>2. /\ count'.noFrame = count.noFrame /\ count'.captureFail = count.captureFail
          /\ count'.encodeFail = count.encodeFail /\ count'.sendFail = count.sendFail
          /\ count'.captured = count.captured + 1 /\ count'.encoded = count.encoded
          /\ count'.emitted = count.emitted /\ count'.noComplete = count.noComplete
          /\ count'.missing = count.missing + 1 /\ count'.starts = count.starts
      BY <1>r, <2>1 DEF Adds
    <2>3. Bounds'
      BY <1>p, <1>0, <1>b, <2>1 DEF Bounds, Phases, MidTick, Ended
    <2>g. phase = "Prepare"
      BY <2>1
    <2>t. Ticking = 1 /\ Ticking' = 0 /\ Holding = 1 /\ Holding' = 0
      BY <2>1 DEF Ticking, Holding, MidTick
    <2>4. Sums'
      <3>1. attempts' = attempts /\ Sends' = Sends
        BY <1>0, <2>1
      <3>2. Outcomes' = Outcomes + 1
        <4>1. {"captured", "missing"} \cap {"noFrame", "captureFail", "captured"} = {"captured"}
          OBVIOUS
        <4>2. Adds({"captured", "missing"})
          BY <2>1
        <4> QED BY <4>1, <4>2, OneOutcome
      <3>3. Fates' = Fates + 1
        <4>1. {"captured", "missing"} \cap {"encoded", "encodeFail", "noComplete", "missing"} = {"missing"}
          OBVIOUS
        <4>2. Adds({"captured", "missing"})
          BY <2>1
        <4> QED BY <4>1, <4>2, OneFate
      <3>4. SumAttempts'
        BY <1>0, <1>b, <1>o, <2>t, <3>1, <3>2 DEF Sums, SumAttempts
      <3>5. SumCaptured'
        BY <1>b, <1>o, <2>2, <3>3 DEF Sums, SumCaptured
      <3>6. SumEncoded'
        BY <1>0, <1>b, <1>c, <2>2, <3>1 DEF Sums, SumEncoded
      <3>7. SumEmitted'
        BY <1>b, <1>c, <1>o, <2>2, <2>t, <2>g DEF Sums, SumEmitted, Session
      <3> QED BY <3>4, <3>5, <3>6, <3>7 DEF Sums
    <2>5. Session'
      BY <1>0, <1>b, <1>c, <2>1, <2>2 DEF Session, Stops, Phases, MidTick, Ended
    <2>6. Stops'
      BY <1>p, <1>0, <1>9, <1>b, <1>c, <2>1, <2>2 DEF Stops, Bounds, Phases, MidTick, Ended
    <2> QED BY <1>q, <2>3, <2>4, <2>5, <2>6
  <1>118. CASE Sent
    <2>7. Len(sent') = Len(sent) + 1 /\ sent' # <<>>
      BY <1>118, AppendLonger DEF Sent, TypeInv
    <2>1. /\ phase = "Send"
          /\ attempts' = attempts /\ session' = session /\ Len(pipe') = Len(pipe)
          /\ wait' = 0 /\ Sends' = Sends + 1 /\ sent' # <<>>
          /\ Adds({"captured", "encoded"})
          /\ stop' = IF Sends + 1 >= MaxFrames THEN "MaxFramesReached" ELSE stop
          /\ phase' = IF stop' = "None" THEN "Cadence" ELSE "Shutdown"
      BY <1>118, <2>7, PlusAdds DEF Sent, AfterTick, pipeVars, Sends
    <2>2. /\ count'.noFrame = count.noFrame /\ count'.captureFail = count.captureFail
          /\ count'.encodeFail = count.encodeFail /\ count'.sendFail = count.sendFail
          /\ count'.captured = count.captured + 1 /\ count'.encoded = count.encoded + 1
          /\ count'.emitted = count.emitted /\ count'.noComplete = count.noComplete
          /\ count'.missing = count.missing /\ count'.starts = count.starts
      BY <1>r, <2>1 DEF Adds
    <2>3. Bounds'
      BY <1>p, <1>0, <1>b, <2>1 DEF Bounds, Phases, MidTick, Ended
    <2>g. phase = "Send"
      BY <2>1
    <2>t. Ticking = 1 /\ Ticking' = 0 /\ Holding = 1 /\ Holding' = 0
      BY <2>1 DEF Ticking, Holding, MidTick
    <2>4. Sums'
      <3>1. attempts' = attempts /\ Sends' = Sends + 1
        BY <1>0, <2>1
      <3>2. Outcomes' = Outcomes + 1
        <4>1. {"captured", "encoded"} \cap {"noFrame", "captureFail", "captured"} = {"captured"}
          OBVIOUS
        <4>2. Adds({"captured", "encoded"})
          BY <2>1
        <4> QED BY <4>1, <4>2, OneOutcome
      <3>3. Fates' = Fates + 1
        <4>1. {"captured", "encoded"} \cap {"encoded", "encodeFail", "noComplete", "missing"} = {"encoded"}
          OBVIOUS
        <4>2. Adds({"captured", "encoded"})
          BY <2>1
        <4> QED BY <4>1, <4>2, OneFate
      <3>4. SumAttempts'
        BY <1>0, <1>b, <1>o, <2>t, <3>1, <3>2 DEF Sums, SumAttempts
      <3>5. SumCaptured'
        BY <1>b, <1>o, <2>2, <3>3 DEF Sums, SumCaptured
      <3>6. SumEncoded'
        <4> DEFINE n == Sends  e == count.encoded  f == count.sendFail
                   m == Sends'  d == count'.encoded
        <4>1. n \in Nat /\ f \in Nat /\ e = n + f /\ d = e + 1 /\ m = n + 1 /\ count'.sendFail = f
          BY <1>0, <1>b, <1>c, <2>2, <3>1 DEF Sums, SumEncoded
        <4> HIDE DEF n, e, f, m, d
        <4>2. d = m + f
          BY <4>1
        <4> QED BY <4>1, <4>2 DEF SumEncoded, m, d
      <3>7. SumEmitted'
        BY <1>b, <1>c, <1>o, <2>2, <2>t, <2>g DEF Sums, SumEmitted, Session
      <3> QED BY <3>4, <3>5, <3>6, <3>7 DEF Sums
    <2>5. Session'
      BY <1>0, <1>b, <1>c, <2>1, <2>2 DEF Session, Stops, Phases, MidTick, Ended
    <2>6. Stops'
      BY <1>p, <1>0, <1>9, <1>b, <1>c, <2>1, <2>2 DEF Stops, Bounds, Phases, MidTick, Ended
    <2> QED BY <1>q, <2>3, <2>4, <2>5, <2>6
  <1>119. CASE SendFails
    <2>7. phase \in MidTick /\ phase = "Send" /\ Result({"captured", "encoded", "sendFail"}, IF StopOnSendFailure THEN "SendFailure" ELSE stop) /\ (IF StopOnSendFailure THEN "SendFailure" ELSE stop) \in Reasons
      BY <1>119, <1>0, <1>r DEF SendFails, MidTick
    <2>1. /\ phase = "Send"
          /\ attempts' = attempts /\ session' = session /\ Len(pipe') = Len(pipe)
          /\ Adds({"captured", "encoded", "sendFail"}) /\ wait' = 0 /\ sent' = sent /\ Sends' = Sends
          /\ stop' = IF StopOnSendFailure THEN "SendFailure" ELSE stop
          /\ phase' = IF stop' = "None" THEN "Cadence" ELSE "Shutdown"
      BY <1>119, <1>b, <2>7, MidResult DEF SendFails, pipeVars, Sends
    <2>2. /\ count'.noFrame = count.noFrame /\ count'.captureFail = count.captureFail
          /\ count'.encodeFail = count.encodeFail /\ count'.sendFail = count.sendFail + 1
          /\ count'.captured = count.captured + 1 /\ count'.encoded = count.encoded + 1
          /\ count'.emitted = count.emitted /\ count'.noComplete = count.noComplete
          /\ count'.missing = count.missing /\ count'.starts = count.starts
      BY <1>r, <2>1 DEF Adds
    <2>3. Bounds'
      BY <1>p, <1>0, <1>b, <2>1 DEF Bounds, Phases, MidTick, Ended
    <2>g. phase = "Send"
      BY <2>1
    <2>t. Ticking = 1 /\ Ticking' = 0 /\ Holding = 1 /\ Holding' = 0
      BY <2>1 DEF Ticking, Holding, MidTick
    <2>4. Sums'
      <3>1. attempts' = attempts /\ Sends' = Sends
        BY <1>0, <2>1
      <3>2. Outcomes' = Outcomes + 1
        <4>1. {"captured", "encoded", "sendFail"} \cap {"noFrame", "captureFail", "captured"} = {"captured"}
          OBVIOUS
        <4>2. Adds({"captured", "encoded", "sendFail"})
          BY <2>1
        <4> QED BY <4>1, <4>2, OneOutcome
      <3>3. Fates' = Fates + 1
        <4>1. {"captured", "encoded", "sendFail"} \cap {"encoded", "encodeFail", "noComplete", "missing"} = {"encoded"}
          OBVIOUS
        <4>2. Adds({"captured", "encoded", "sendFail"})
          BY <2>1
        <4> QED BY <4>1, <4>2, OneFate
      <3>4. SumAttempts'
        BY <1>0, <1>b, <1>o, <2>t, <3>1, <3>2 DEF Sums, SumAttempts
      <3>5. SumCaptured'
        BY <1>b, <1>o, <2>2, <3>3 DEF Sums, SumCaptured
      <3>6. SumEncoded'
        BY <1>0, <1>b, <1>c, <2>2, <3>1 DEF Sums, SumEncoded
      <3>7. SumEmitted'
        BY <1>b, <1>c, <1>o, <2>2, <2>t, <2>g DEF Sums, SumEmitted, Session
      <3> QED BY <3>4, <3>5, <3>6, <3>7 DEF Sums
    <2>5. Session'
      BY <1>0, <1>b, <1>c, <2>1, <2>2 DEF Session, Stops, Phases, MidTick, Ended
    <2>6. Stops'
      <3>1. /\ Sends < MaxFrames /\ Sends' = Sends /\ stop \in {"None", "EncodeFailure"}
            /\ count'.sendFail > 0 /\ count'.captureFail = count.captureFail
            /\ (StopOnCaptureFailure => count.captureFail = 0)
        BY <1>b, <1>c, <2>1, <2>2 DEF Bounds, Stops, MidTick, Ended
      <3>2. CASE StopOnSendFailure
        BY <1>p, <1>0, <2>1, <3>1, <3>2 DEF Stops, Ended
      <3>3. CASE ~StopOnSendFailure
        BY <1>p, <1>0, <2>1, <3>1, <3>3 DEF Stops, Ended
      <3> QED BY <3>2, <3>3
    <2> QED BY <1>q, <2>3, <2>4, <2>5, <2>6
  <1>120. CASE Cadence
    <2>1. /\ phase = "Cadence" /\ phase' = "Top"
          /\ attempts' = attempts /\ session' = session /\ Len(pipe') = Len(pipe)
          /\ count' = count /\ wait' = wait /\ stop' = stop /\ sent' = sent /\ Sends' = Sends
      BY <1>120 DEF Cadence, loopVars, pipeVars, Sends
    <2>2. /\ count'.noFrame = count.noFrame /\ count'.captureFail = count.captureFail
          /\ count'.encodeFail = count.encodeFail /\ count'.sendFail = count.sendFail
          /\ count'.captured = count.captured /\ count'.encoded = count.encoded
          /\ count'.emitted = count.emitted /\ count'.noComplete = count.noComplete
          /\ count'.missing = count.missing /\ count'.starts = count.starts
      BY <2>1
    <2>3. Bounds'
      BY <1>p, <1>0, <1>b, <2>1 DEF Bounds, Phases, MidTick, Ended
    <2>g. phase = "Cadence"
      BY <2>1
    <2>t. Ticking = 0 /\ Ticking' = 0 /\ Holding = 0 /\ Holding' = 0
      BY <2>1 DEF Ticking, Holding, MidTick
    <2>4. Sums'
      <3>1. attempts' = attempts /\ Sends' = Sends
        BY <1>0, <2>1
      <3>2. Outcomes' = Outcomes
        BY <2>2 DEF Outcomes
      <3>3. Fates' = Fates
        BY <2>2 DEF Fates
      <3>4. SumAttempts'
        BY <1>0, <1>b, <1>o, <2>t, <3>1, <3>2 DEF Sums, SumAttempts
      <3>5. SumCaptured'
        BY <1>b, <1>o, <2>2, <3>3 DEF Sums, SumCaptured
      <3>6. SumEncoded'
        BY <1>0, <1>b, <1>c, <2>2, <3>1 DEF Sums, SumEncoded
      <3>7. SumEmitted'
        BY <1>b, <1>c, <1>o, <2>2, <2>t, <2>g DEF Sums, SumEmitted, Session
      <3> QED BY <3>4, <3>5, <3>6, <3>7 DEF Sums
    <2>5. Session'
      BY <1>0, <1>b, <1>c, <2>1, <2>2 DEF Session, Stops, Phases, MidTick, Ended
    <2>6. Stops'
      BY <1>p, <1>0, <1>9, <1>b, <1>c, <2>1, <2>2 DEF Stops, Bounds, Phases, MidTick, Ended
    <2> QED BY <1>q, <2>3, <2>4, <2>5, <2>6
  <1>121. CASE Shutdown
    <2>1. /\ phase = "Shutdown" /\ phase' = "Done" /\ Len(pipe') = 0
          /\ now' = now /\ attempts' = attempts /\ session' = (IF session = "Open" THEN "Closed" ELSE session)
          /\ count' = count /\ wait' = wait /\ stop' = stop /\ sent' = sent /\ Sends' = Sends
      BY <1>121 DEF Shutdown, loopVars, Sends
    <2>2. /\ count'.noFrame = count.noFrame /\ count'.captureFail = count.captureFail
          /\ count'.encodeFail = count.encodeFail /\ count'.sendFail = count.sendFail
          /\ count'.captured = count.captured /\ count'.encoded = count.encoded
          /\ count'.emitted = count.emitted /\ count'.noComplete = count.noComplete
          /\ count'.missing = count.missing /\ count'.starts = count.starts
      BY <2>1
    <2>3. Bounds'
      BY <1>p, <1>0, <1>b, <2>1 DEF Bounds, Phases, MidTick, Ended
    <2>g. phase = "Shutdown"
      BY <2>1
    <2>t. Ticking = 0 /\ Ticking' = 0 /\ Holding = 0 /\ Holding' = 0
      BY <2>1 DEF Ticking, Holding, MidTick
    <2>4. Sums'
      <3>1. attempts' = attempts /\ Sends' = Sends
        BY <1>0, <2>1
      <3>2. Outcomes' = Outcomes
        BY <2>2 DEF Outcomes
      <3>3. Fates' = Fates
        BY <2>2 DEF Fates
      <3>4. SumAttempts'
        BY <1>0, <1>b, <1>o, <2>t, <3>1, <3>2 DEF Sums, SumAttempts
      <3>5. SumCaptured'
        BY <1>b, <1>o, <2>2, <3>3 DEF Sums, SumCaptured
      <3>6. SumEncoded'
        BY <1>0, <1>b, <1>c, <2>2, <3>1 DEF Sums, SumEncoded
      <3>7. SumEmitted'
        BY <1>b, <1>c, <1>o, <2>2, <2>t, <2>g DEF Sums, SumEmitted, Session
      <3> QED BY <3>4, <3>5, <3>6, <3>7 DEF Sums
    <2>5. Session'
      BY <1>0, <1>b, <1>c, <2>1, <2>2 DEF Session, Stops, Phases, MidTick, Ended
    <2>6. Stops'
      BY <1>p, <1>0, <1>9, <1>b, <1>c, <2>1, <2>2 DEF Stops, Bounds, Phases, MidTick, Ended
    <2> QED BY <1>q, <2>3, <2>4, <2>5, <2>6
  <1>122. CASE Encoder_Writes
    <2>7. Len(pipe') <= PipeSize /\ Len(pipe') \in Nat
      <3>1. encoder.out \in Seq(Nat) /\ encoder.out # <<>> /\ pipe \in Seq(Nat)
        BY <1>122 DEF Encoder_Writes, TypeInv
      <3>2. Head(encoder.out) \in Nat
        BY <3>1
      <3>3. Len(Append(pipe, Head(encoder.out))) = Len(pipe) + 1
        BY <3>1, <3>2
      <3> QED BY <1>p, <1>0, <1>122, <3>3 DEF Encoder_Writes
    <2>1. /\ phase' = phase /\ now' = now /\ attempts' = attempts /\ session' = session
          /\ count' = count /\ wait' = wait /\ stop' = stop /\ sent' = sent /\ Sends' = Sends
          /\ Len(pipe') <= PipeSize /\ Len(pipe') \in Nat
      BY <1>122, <2>7 DEF Encoder_Writes, loopVars, Sends
    <2>2. /\ count'.noFrame = count.noFrame /\ count'.captureFail = count.captureFail
          /\ count'.encodeFail = count.encodeFail /\ count'.sendFail = count.sendFail
          /\ count'.captured = count.captured /\ count'.encoded = count.encoded
          /\ count'.emitted = count.emitted /\ count'.noComplete = count.noComplete
          /\ count'.missing = count.missing /\ count'.starts = count.starts
      BY <2>1
    <2>3. Bounds'
      BY <1>p, <1>0, <1>b, <2>1 DEF Bounds, Phases, MidTick, Ended
    <2>g. phase' = phase
      BY <2>1
    <2>t. Ticking' = Ticking /\ Holding' = Holding /\ Ticking \in Nat /\ Holding \in Nat
      BY <2>1 DEF Ticking, Holding, MidTick
    <2>4. Sums'
      <3>1. attempts' = attempts /\ Sends' = Sends
        BY <1>0, <2>1
      <3>2. Outcomes' = Outcomes
        BY <2>2 DEF Outcomes
      <3>3. Fates' = Fates
        BY <2>2 DEF Fates
      <3>4. SumAttempts'
        BY <1>0, <1>b, <1>o, <2>t, <3>1, <3>2 DEF Sums, SumAttempts
      <3>5. SumCaptured'
        BY <1>b, <1>o, <2>2, <3>3 DEF Sums, SumCaptured
      <3>6. SumEncoded'
        BY <1>0, <1>b, <1>c, <2>2, <3>1 DEF Sums, SumEncoded
      <3>7. SumEmitted'
        BY <1>b, <1>c, <1>o, <2>2, <2>t, <2>g DEF Sums, SumEmitted, Session
      <3> QED BY <3>4, <3>5, <3>6, <3>7 DEF Sums
    <2>5. Session'
      BY <1>0, <1>b, <1>c, <2>1, <2>2 DEF Session, Stops, Phases, MidTick, Ended
    <2>6. Stops'
      BY <1>p, <1>0, <1>9, <1>b, <1>c, <2>1, <2>2 DEF Stops, Bounds, Phases, MidTick, Ended
    <2> QED BY <1>q, <2>3, <2>4, <2>5, <2>6
  <1>123. CASE Encoder_Exits
    <2>1. /\ phase' = phase
          /\ now' = now /\ attempts' = attempts /\ session' = session /\ Len(pipe') = Len(pipe)
          /\ count' = count /\ wait' = wait /\ stop' = stop /\ sent' = sent /\ Sends' = Sends
      BY <1>123 DEF Encoder_Exits, loopVars, Sends
    <2>2. /\ count'.noFrame = count.noFrame /\ count'.captureFail = count.captureFail
          /\ count'.encodeFail = count.encodeFail /\ count'.sendFail = count.sendFail
          /\ count'.captured = count.captured /\ count'.encoded = count.encoded
          /\ count'.emitted = count.emitted /\ count'.noComplete = count.noComplete
          /\ count'.missing = count.missing /\ count'.starts = count.starts
      BY <2>1
    <2>3. Bounds'
      BY <1>p, <1>0, <1>b, <2>1 DEF Bounds, Phases, MidTick, Ended
    <2>g. phase' = phase
      BY <2>1
    <2>t. Ticking' = Ticking /\ Holding' = Holding /\ Ticking \in Nat /\ Holding \in Nat
      BY <2>1 DEF Ticking, Holding, MidTick
    <2>4. Sums'
      <3>1. attempts' = attempts /\ Sends' = Sends
        BY <1>0, <2>1
      <3>2. Outcomes' = Outcomes
        BY <2>2 DEF Outcomes
      <3>3. Fates' = Fates
        BY <2>2 DEF Fates
      <3>4. SumAttempts'
        BY <1>0, <1>b, <1>o, <2>t, <3>1, <3>2 DEF Sums, SumAttempts
      <3>5. SumCaptured'
        BY <1>b, <1>o, <2>2, <3>3 DEF Sums, SumCaptured
      <3>6. SumEncoded'
        BY <1>0, <1>b, <1>c, <2>2, <3>1 DEF Sums, SumEncoded
      <3>7. SumEmitted'
        BY <1>b, <1>c, <1>o, <2>2, <2>t, <2>g DEF Sums, SumEmitted, Session
      <3> QED BY <3>4, <3>5, <3>6, <3>7 DEF Sums
    <2>5. Session'
      BY <1>0, <1>b, <1>c, <2>1, <2>2 DEF Session, Stops, Phases, MidTick, Ended
    <2>6. Stops'
      BY <1>p, <1>0, <1>9, <1>b, <1>c, <2>1, <2>2 DEF Stops, Bounds, Phases, MidTick, Ended
    <2> QED BY <1>q, <2>3, <2>4, <2>5, <2>6
  <1>124. CASE UNCHANGED vars
    <2>1. /\ phase' = phase
          /\ now' = now /\ attempts' = attempts /\ session' = session /\ Len(pipe') = Len(pipe)
          /\ count' = count /\ wait' = wait /\ stop' = stop /\ sent' = sent /\ Sends' = Sends
      BY <1>124 DEF vars, loopVars, pipeVars, Sends
    <2>2. /\ count'.noFrame = count.noFrame /\ count'.captureFail = count.captureFail
          /\ count'.encodeFail = count.encodeFail /\ count'.sendFail = count.sendFail
          /\ count'.captured = count.captured /\ count'.encoded = count.encoded
          /\ count'.emitted = count.emitted /\ count'.noComplete = count.noComplete
          /\ count'.missing = count.missing /\ count'.starts = count.starts
      BY <2>1
    <2>3. Bounds'
      BY <1>p, <1>0, <1>b, <2>1 DEF Bounds, Phases, MidTick, Ended
    <2>g. phase' = phase
      BY <2>1
    <2>t. Ticking' = Ticking /\ Holding' = Holding /\ Ticking \in Nat /\ Holding \in Nat
      BY <2>1 DEF Ticking, Holding, MidTick
    <2>4. Sums'
      <3>1. attempts' = attempts /\ Sends' = Sends
        BY <1>0, <2>1
      <3>2. Outcomes' = Outcomes
        BY <2>2 DEF Outcomes
      <3>3. Fates' = Fates
        BY <2>2 DEF Fates
      <3>4. SumAttempts'
        BY <1>0, <1>b, <1>o, <2>t, <3>1, <3>2 DEF Sums, SumAttempts
      <3>5. SumCaptured'
        BY <1>b, <1>o, <2>2, <3>3 DEF Sums, SumCaptured
      <3>6. SumEncoded'
        BY <1>0, <1>b, <1>c, <2>2, <3>1 DEF Sums, SumEncoded
      <3>7. SumEmitted'
        BY <1>b, <1>c, <1>o, <2>2, <2>t, <2>g DEF Sums, SumEmitted, Session
      <3> QED BY <3>4, <3>5, <3>6, <3>7 DEF Sums
    <2>5. Session'
      BY <1>0, <1>b, <1>c, <2>1, <2>2 DEF Session, Stops, Phases, MidTick, Ended
    <2>6. Stops'
      BY <1>p, <1>0, <1>9, <1>b, <1>c, <2>1, <2>2 DEF Stops, Bounds, Phases, MidTick, Ended
    <2> QED BY <1>q, <2>3, <2>4, <2>5, <2>6
  <1> QED BY <1>101, <1>102, <1>103, <1>104, <1>105, <1>106, <1>107, <1>108, <1>109, <1>110, <1>111, <1>112, <1>113, <1>114, <1>115, <1>116, <1>117, <1>118, <1>119, <1>120, <1>121, <1>122, <1>123, <1>124
          DEF Next, Works, Fails

-----------------------------------------------------------------------------
(* The pictures in the pipeline.                                           *)

LEMMA NamedAppend ==
  ASSUME NEW s \in Seq(Nat), NEW e \in Nat
  PROVE  /\ Named(Append(s, e)) = Named(s) \cup {e}
         /\ Sorted(s) /\ (\A x \in Named(s) : x <= e) => Sorted(Append(s, e))
         /\ Rising(s) /\ (\A x \in Named(s) : x < e) => Rising(Append(s, e))
  <1> DEFINE t == Append(s, e)
  <1>1. /\ Len(s) \in Nat /\ DOMAIN s = 1 .. Len(s) /\ DOMAIN t = 1 .. Len(s) + 1
        /\ \A i \in 1 .. Len(s) : t[i] = s[i]
        /\ t[Len(s) + 1] = e
    OBVIOUS
  <1> HIDE DEF t
  <1>2. Named(t) = Named(s) \cup {e}
    BY <1>1 DEF Named
  <1>3. ASSUME Sorted(s), \A x \in Named(s) : x <= e PROVE Sorted(t)
    <2> SUFFICES ASSUME NEW i \in 1 .. Len(s) + 1, NEW j \in 1 .. Len(s) + 1, i < j
                 PROVE  t[i] <= t[j]
      BY <1>1 DEF Sorted
    <2>1. i \in 1 .. Len(s)
      BY <1>1
    <2>2. CASE j = Len(s) + 1
      BY <1>1, <1>3, <2>1, <2>2 DEF Named
    <2>3. CASE j \in 1 .. Len(s)
      BY <1>1, <1>3, <2>1, <2>3 DEF Sorted
    <2> QED BY <1>1, <2>2, <2>3
  <1>4. ASSUME Rising(s), \A x \in Named(s) : x < e PROVE Rising(t)
    <2> SUFFICES ASSUME NEW i \in 1 .. Len(s) + 1, NEW j \in 1 .. Len(s) + 1, i < j
                 PROVE  t[i] < t[j]
      BY <1>1 DEF Rising
    <2>1. i \in 1 .. Len(s)
      BY <1>1
    <2>2. CASE j = Len(s) + 1
      BY <1>1, <1>4, <2>1, <2>2 DEF Named
    <2>3. CASE j \in 1 .. Len(s)
      BY <1>1, <1>4, <2>1, <2>3 DEF Rising
    <2> QED BY <1>1, <2>2, <2>3
  <1> QED BY <1>2, <1>3, <1>4 DEF t

LEMMA NamedTail ==
  ASSUME NEW s \in Seq(Nat), s # <<>>
  PROVE  /\ Tail(s) \in Seq(Nat) /\ Head(s) \in Nat
         /\ Named(s) = Named(Tail(s)) \cup {Head(s)}
         /\ Sorted(s) => Sorted(Tail(s)) /\ \A x \in Named(Tail(s)) : Head(s) <= x
         /\ Rising(s) => Rising(Tail(s)) /\ \A x \in Named(Tail(s)) : Head(s) < x
  <1> DEFINE t == Tail(s)
  <1>1. /\ Len(s) \in Nat /\ Len(s) > 0 /\ DOMAIN s = 1 .. Len(s) /\ DOMAIN t = 1 .. Len(s) - 1
        /\ \A i \in 1 .. Len(s) - 1 : t[i] = s[i + 1]
        /\ Head(s) = s[1] /\ t \in Seq(Nat) /\ Head(s) \in Nat
    OBVIOUS
  <1> HIDE DEF t
  <1>2. Named(s) = Named(t) \cup {Head(s)}
    <2>1. ASSUME NEW i \in 1 .. Len(s) PROVE s[i] \in Named(t) \cup {Head(s)}
      <3>1. CASE i = 1
        BY <1>1, <3>1
      <3>2. CASE i # 1
        <4>1. i - 1 \in 1 .. Len(s) - 1 /\ t[i - 1] = s[i]
          BY <1>1, <3>2
        <4> QED BY <1>1, <4>1 DEF Named
      <3> QED BY <3>1, <3>2
    <2>2. ASSUME NEW i \in 1 .. Len(s) - 1 PROVE t[i] \in Named(s)
      <3>1. i + 1 \in 1 .. Len(s) /\ t[i] = s[i + 1]
        BY <1>1
      <3> QED BY <1>1, <3>1 DEF Named
    <2>3. Head(s) \in Named(s)
      BY <1>1 DEF Named
    <2> QED BY <1>1, <2>1, <2>2, <2>3 DEF Named
  <1>3. ASSUME Sorted(s) PROVE Sorted(t) /\ \A x \in Named(t) : Head(s) <= x
    <2>1. ASSUME NEW i \in 1 .. Len(s) - 1, NEW j \in 1 .. Len(s) - 1, i < j PROVE t[i] <= t[j]
      <3>1. i + 1 \in 1 .. Len(s) /\ j + 1 \in 1 .. Len(s) /\ i + 1 < j + 1
        BY <1>1, <2>1
      <3> QED BY <1>1, <1>3, <3>1 DEF Sorted
    <2>2. ASSUME NEW i \in 1 .. Len(s) - 1 PROVE Head(s) <= t[i]
      <3>1. i + 1 \in 1 .. Len(s) /\ 1 \in 1 .. Len(s) /\ 1 < i + 1
        BY <1>1
      <3> QED BY <1>1, <1>3, <3>1 DEF Sorted
    <2> QED BY <1>1, <2>1, <2>2 DEF Sorted, Named
  <1>4. ASSUME Rising(s) PROVE Rising(t) /\ \A x \in Named(t) : Head(s) < x
    <2>1. ASSUME NEW i \in 1 .. Len(s) - 1, NEW j \in 1 .. Len(s) - 1, i < j PROVE t[i] < t[j]
      <3>1. i + 1 \in 1 .. Len(s) /\ j + 1 \in 1 .. Len(s) /\ i + 1 < j + 1
        BY <1>1, <2>1
      <3> QED BY <1>1, <1>4, <3>1 DEF Rising
    <2>2. ASSUME NEW i \in 1 .. Len(s) - 1 PROVE Head(s) < t[i]
      <3>1. i + 1 \in 1 .. Len(s) /\ 1 \in 1 .. Len(s) /\ 1 < i + 1
        BY <1>1
      <3> QED BY <1>1, <1>4, <3>1 DEF Rising
    <2> QED BY <1>1, <2>1, <2>2 DEF Rising, Named
  <1> QED BY <1>1, <1>2, <1>3, <1>4 DEF t

LEMMA NamedNat ==
  ASSUME NEW s \in Seq(Nat)
  PROVE  Named(s) \subseteq Nat
  <1>1. \A i \in DOMAIN s : s[i] \in Nat
    OBVIOUS
  <1> QED BY <1>1 DEF Named

\* Reading moves the first n blocks of the pipe behind those in the buffer.
LEMMA ReadMoves ==
  ASSUME NEW b \in Seq(Nat), NEW p \in Seq(Nat), NEW n \in 1 .. Len(p),
         Sorted(b), Sorted(p), UpTo(b, p)
  PROVE  /\ (b \o SubSeq(p, 1, n)) \in Seq(Nat) /\ SubSeq(p, n + 1, Len(p)) \in Seq(Nat)
         /\ Sorted(b \o SubSeq(p, 1, n)) /\ Sorted(SubSeq(p, n + 1, Len(p)))
         /\ UpTo(b \o SubSeq(p, 1, n), SubSeq(p, n + 1, Len(p)))
         /\ Named(b \o SubSeq(p, 1, n)) \subseteq Named(b) \cup Named(p)
         /\ Named(SubSeq(p, n + 1, Len(p))) \subseteq Named(p)
  <1> DEFINE f == SubSeq(p, 1, n)
             l == SubSeq(p, n + 1, Len(p))
             c == b \o f
  <1>1. /\ f \in Seq(Nat) /\ l \in Seq(Nat) /\ Len(f) = n /\ Len(l) = Len(p) - n
        /\ \A i \in 1 .. n : f[i] = p[i]
        /\ \A i \in 1 .. Len(p) - n : l[i] = p[n + i]
    BY SubSeqTyped
  <1>2. /\ Len(b) \in Nat /\ Len(p) \in Nat /\ DOMAIN b = 1 .. Len(b) /\ DOMAIN p = 1 .. Len(p)
        /\ n \in 1 .. Len(p)
    OBVIOUS
  <1> HIDE DEF f, l
  <1>3. DOMAIN f = 1 .. n /\ DOMAIN l = 1 .. Len(p) - n
    BY <1>1
  <1>4. /\ c \in Seq(Nat) /\ Len(c) = Len(b) + n
        /\ \A i \in 1 .. Len(b) : c[i] = b[i]
        /\ \A i \in 1 .. n : c[Len(b) + i] = f[i]
    <2>1. /\ c \in Seq(Nat) /\ Len(c) = Len(b) + Len(f)
          /\ \A i \in 1 .. Len(b) + Len(f) : c[i] = IF i <= Len(b) THEN b[i] ELSE f[i - Len(b)]
      BY <1>1, ConcatProperties
    <2> HIDE DEF c
    <2>2. ASSUME NEW i \in 1 .. Len(b) PROVE c[i] = b[i]
      BY <1>1, <1>2, <2>1
    <2>3. ASSUME NEW i \in 1 .. n PROVE c[Len(b) + i] = f[i]
      <3>1. Len(b) + i \in 1 .. Len(b) + Len(f) /\ ~(Len(b) + i <= Len(b)) /\ (Len(b) + i) - Len(b) = i
        BY <1>1, <1>2
      <3> QED BY <2>1, <3>1
    <2> QED BY <1>1, <2>1, <2>2, <2>3
  <1>5. DOMAIN c = 1 .. Len(b) + n
    BY <1>4
  <1>6. \A i \in 1 .. Len(b) + n :
          \/ i \in 1 .. Len(b) /\ c[i] = b[i]
          \/ i - Len(b) \in 1 .. n /\ c[i] = p[i - Len(b)]
    <2> HIDE DEF c
    <2> TAKE i \in 1 .. Len(b) + n
    <2>1. CASE i \in 1 .. Len(b)
      BY <1>4, <2>1
    <2>2. CASE i > Len(b)
      <3>1. i - Len(b) \in 1 .. n /\ Len(b) + (i - Len(b)) = i
        BY <1>2, <2>2
      <3> QED BY <1>1, <1>4, <3>1
    <2> QED BY <1>2, <2>1, <2>2
  <1> HIDE DEF c
  <1>7. Named(c) \subseteq Named(b) \cup Named(p)
    <2>1. ASSUME NEW i \in 1 .. Len(b) + n PROVE c[i] \in Named(b) \cup Named(p)
      <3>1. CASE i \in 1 .. Len(b) /\ c[i] = b[i]
        BY <1>2, <3>1 DEF Named
      <3>2. CASE i - Len(b) \in 1 .. n /\ c[i] = p[i - Len(b)]
        <4>1. i - Len(b) \in DOMAIN p
          BY <1>2, <3>2
        <4> QED BY <3>2, <4>1 DEF Named
      <3> QED BY <1>6, <3>1, <3>2
    <2> QED BY <1>5, <2>1 DEF Named
  <1>8. Named(l) \subseteq Named(p)
    <2>1. ASSUME NEW i \in 1 .. Len(p) - n PROVE l[i] \in Named(p)
      <3>1. n + i \in DOMAIN p /\ l[i] = p[n + i]
        BY <1>1, <1>2
      <3> QED BY <3>1 DEF Named
    <2> QED BY <1>3, <2>1 DEF Named
  <1>9. Sorted(c)
    <2> SUFFICES ASSUME NEW i \in 1 .. Len(b) + n, NEW j \in 1 .. Len(b) + n, i < j
                 PROVE  c[i] <= c[j]
      BY <1>5 DEF Sorted
    <2>1. CASE i \in 1 .. Len(b) /\ c[i] = b[i] /\ j \in 1 .. Len(b) /\ c[j] = b[j]
      BY <1>2, <2>1 DEF Sorted
    <2>2. CASE i \in 1 .. Len(b) /\ c[i] = b[i] /\ j - Len(b) \in 1 .. n /\ c[j] = p[j - Len(b)]
      <3>1. c[i] \in Named(b)
        BY <1>2, <2>2 DEF Named
      <3>2. j - Len(b) \in DOMAIN p
        BY <1>2, <2>2
      <3>3. c[j] \in Named(p)
        BY <2>2, <3>2 DEF Named
      <3> QED BY <3>1, <3>3 DEF UpTo
    <2>3. CASE i - Len(b) \in 1 .. n /\ c[i] = p[i - Len(b)] /\ j - Len(b) \in 1 .. n /\ c[j] = p[j - Len(b)]
      <3>1. i - Len(b) \in DOMAIN p /\ j - Len(b) \in DOMAIN p /\ i - Len(b) < j - Len(b)
        BY <1>2, <2>3
      <3> QED BY <2>3, <3>1 DEF Sorted
    <2>4. i - Len(b) \in 1 .. n /\ j \in 1 .. Len(b) => FALSE
      BY <1>2
    <2> QED BY <1>6, <2>1, <2>2, <2>3, <2>4
  <1>10. Sorted(l)
    <2> SUFFICES ASSUME NEW i \in 1 .. Len(p) - n, NEW j \in 1 .. Len(p) - n, i < j
                 PROVE  l[i] <= l[j]
      BY <1>3 DEF Sorted
    <2>1. n + i \in DOMAIN p /\ n + j \in DOMAIN p /\ n + i < n + j
      BY <1>2
    <2> QED BY <1>1, <2>1 DEF Sorted
  <1>11. UpTo(c, l)
    <2> SUFFICES ASSUME NEW i \in 1 .. Len(b) + n, NEW j \in 1 .. Len(p) - n
                 PROVE  c[i] <= l[j]
      BY <1>3, <1>5 DEF UpTo, Named
    <2>1. n + j \in DOMAIN p /\ l[j] = p[n + j]
      BY <1>1, <1>2
    <2>2. CASE i \in 1 .. Len(b) /\ c[i] = b[i]
      BY <1>2, <2>1, <2>2 DEF UpTo, Named
    <2>3. CASE i - Len(b) \in 1 .. n /\ c[i] = p[i - Len(b)]
      <3>1. i - Len(b) \in DOMAIN p /\ i - Len(b) < n + j
        BY <1>2, <2>3
      <3> QED BY <2>1, <2>3, <3>1 DEF Sorted
    <2> QED BY <1>6, <2>2, <2>3
  <1>12. /\ c \in Seq(Nat) /\ l \in Seq(Nat) /\ Sorted(c) /\ Sorted(l) /\ UpTo(c, l)
         /\ Named(c) \subseteq Named(b) \cup Named(p) /\ Named(l) \subseteq Named(p)
    BY <1>1, <1>4, <1>7, <1>8, <1>9, <1>10, <1>11
  <1> QED BY <1>12 DEF c, f, l

\* Taking the oldest picture out leaves later ones only, and there is one.
LEMMA RestRises ==
  ASSUME LoopAssumption, NEW b \in Seq(Nat), Sorted(b), Complete(b)
  PROVE  /\ Rest(b) \in Seq(Nat) /\ b[1] \in Named(b) /\ Sorted(Rest(b))
         /\ Named(Rest(b)) \subseteq Named(b)
         /\ \A x \in Named(Rest(b)) : b[1] < x
         /\ \E x \in Named(b) : b[1] < x
  <1>1. PICK n \in 2 .. Len(b) : b[n] # b[1] /\ Rest(b) = SubSeq(b, n, Len(b))
    BY RestOf
  <1>2. /\ Len(b) \in Nat /\ DOMAIN b = 1 .. Len(b) /\ \A i \in 1 .. Len(b) : b[i] \in Nat
        /\ n - 1 \in 1 .. Len(b) /\ (n - 1) + 1 = n /\ n \in 1 .. Len(b) /\ 1 \in 1 .. Len(b)
    BY <1>1
  <1>3. b[1] < b[n]
    <2>1. 1 \in DOMAIN b /\ n \in DOMAIN b /\ 1 < n
      BY <1>1, <1>2
    <2>2. b[1] <= b[n] /\ b[1] \in Nat /\ b[n] \in Nat
      BY <1>2, <2>1 DEF Sorted
    <2> QED BY <1>1, <2>2
  <1> DEFINE m == n - 1
             r == SubSeq(b, m + 1, Len(b))
  <1>4. r = Rest(b)
    BY <1>1, <1>2
  <1>5. /\ r \in Seq(Nat) /\ Len(r) = Len(b) - m /\ \A i \in 1 .. Len(b) - m : r[i] = b[m + i]
    BY <1>2, SubSeqTyped
  <1>6. DOMAIN r = 1 .. Len(b) - m
    BY <1>5
  <1>7. m \in 1 .. Len(b) /\ m + 1 = n
    BY <1>2
  <1> HIDE DEF r, m
  <1>8. Sorted(r)
    <2> SUFFICES ASSUME NEW i \in 1 .. Len(b) - m, NEW j \in 1 .. Len(b) - m, i < j
                 PROVE  r[i] <= r[j]
      BY <1>6 DEF Sorted
    <2>1. m + i \in DOMAIN b /\ m + j \in DOMAIN b /\ m + i < m + j
      BY <1>2, <1>7
    <2> QED BY <1>5, <2>1 DEF Sorted
  <1>9. ASSUME NEW i \in 1 .. Len(b) - m PROVE r[i] \in Named(b) /\ b[1] < r[i]
    <2>1. m + i \in DOMAIN b /\ n \in DOMAIN b /\ n <= m + i
      BY <1>2, <1>7
    <2>2. b[n] <= b[m + i]
      <3>1. CASE n = m + i
        BY <1>2, <2>1, <3>1
      <3>2. CASE n < m + i
        BY <2>1, <3>2 DEF Sorted
      <3> QED BY <1>2, <1>7, <2>1, <3>1, <3>2
    <2>3. b[n] \in Nat /\ b[1] \in Nat /\ b[m + i] \in Nat
      BY <1>2, <2>1
    <2> QED BY <1>3, <1>5, <2>1, <2>2, <2>3 DEF Named
  <1>10. b[1] \in Named(b) /\ b[n] \in Named(b)
    BY <1>2 DEF Named
  <1> QED BY <1>3, <1>4, <1>5, <1>6, <1>8, <1>9, <1>10 DEF Named

LEMMA PipelineTyped ==
  ASSUME TypeInv
  PROVE  /\ attempts \in Nat /\ Captured \in Int /\ InPipeline \subseteq Nat
         /\ buffer \in Seq(Nat) /\ pipe \in Seq(Nat)
         /\ encoder.out \in Seq(Nat) /\ encoder.held \in Seq(Nat)
  <1>1. /\ attempts \in Nat /\ buffer \in Seq(Nat) /\ pipe \in Seq(Nat)
        /\ encoder.out \in Seq(Nat) /\ encoder.held \in Seq(Nat)
    BY DEF TypeInv
  <1>2. Captured \in Int
    BY <1>1 DEF Captured
  <1>3. InPipeline \subseteq Nat
    BY <1>1, NamedNat DEF InPipeline, AllNamed
  <1> QED BY <1>1, <1>2, <1>3

LEMMA LineQuiet ==
  ASSUME TypeInv, TypeInv', Line, buffer' = buffer, pipe' = pipe,
         encoder'.out = encoder.out, encoder'.held = encoder.held,
         Captured <= Captured', phase' = "Read" => phase = "Read"
  PROVE  Line' /\ InPipeline' = InPipeline
  <1>1. InPipeline' = InPipeline
    BY DEF InPipeline, AllNamed
  <1>2. Lined(buffer, pipe, encoder.out, encoder.held)'
    BY DEF Line
  <1>3. \A y \in InPipeline' : 0 < y /\ y <= Captured'
    <2> SUFFICES ASSUME NEW y \in InPipeline PROVE 0 < y /\ y <= Captured'
      BY <1>1
    <2>1. y \in Nat /\ Captured \in Int
      BY PipelineTyped
    <2>3. Captured' \in Int
      BY DEF Captured, TypeInv
    <2>2. 0 < y /\ y <= Captured
      BY DEF Line
    <2> QED BY <2>1, <2>2, <2>3
  <1>4. phase' = "Read" => Before(buffer, encoder.out)'
    BY DEF Line
  <1> QED BY <1>1, <1>2, <1>3, <1>4 DEF Line

LEMMA LineEmptied ==
  ASSUME buffer' = <<>>, pipe' = <<>>, encoder'.out = <<>>, encoder'.held = <<>>
  PROVE  Line' /\ InPipeline' = {}
  <1>1. Named(<<>>) = {} /\ Sorted(<<>>) /\ Rising(<<>>)
    BY DEF Named, Sorted, Rising
  <1>2. InPipeline' = {}
    BY <1>1 DEF InPipeline, AllNamed
  <1>3. Lined(buffer, pipe, encoder.out, encoder.held)'
    BY <1>1 DEF Lined, UpTo, Before
  <1>4. Before(buffer, encoder.out)'
    BY <1>1 DEF Before
  <1> QED BY <1>2, <1>3, <1>4 DEF Line

\* What was sent stays behind what is to come.
LEMMA SentKept ==
  ASSUME TypeInv, TypeInv', Left, sent' = sent, attempts <= attempts',
         phase' \in MidTick => phase \in MidTick \/ attempts' = attempts + 1,
         Persistent /\ session' = "Open" => session = "Open" \/ sent = <<>>,
         InPipeline' \subseteq InPipeline \cup {attempts},
         attempts \in InPipeline' => attempts \in InPipeline \/ phase \in MidTick,
         Pending' => \/ Pending /\ unit' = unit
                     \/ \A k \in DOMAIN sent : sent[k].of < unit'.of
  PROVE  /\ \A k \in DOMAIN sent' : SentLeft(sent[k])'
         /\ \A i, j \in DOMAIN sent' : i < j => sent'[i].id < sent'[j].id /\ sent'[i].of < sent'[j].of
  <1>1. \A i, j \in DOMAIN sent' : i < j => sent'[i].id < sent'[j].id /\ sent'[i].of < sent'[j].of
    BY DEF Left
  <1>2. ASSUME NEW k \in DOMAIN sent PROVE SentLeft(sent[k])'
    <2> DEFINE r == sent[k]
    <2>1. r \in SentUnits /\ attempts \in Nat /\ attempts' \in Nat
      BY DEF TypeInv
    <2>2. r.id \in Nat /\ r.of \in Nat /\ r.whole \in BOOLEAN
      BY <2>1 DEF SentUnits
    <2>3. SentLeft(r)
      BY DEF Left
    <2>4. sent'[k] = r
      OBVIOUS
    <2>d. sent # <<>>
      OBVIOUS
    <2> HIDE DEF r
    <2>5. r.of > 0 /\ r.whole /\ r.of <= r.id /\ r.id <= attempts'
      BY <2>1, <2>2, <2>3 DEF SentLeft
    <2>6. phase' \in MidTick => r.id < attempts'
      BY <2>1, <2>2, <2>3 DEF SentLeft
    <2>7. Persistent /\ session' = "Open" => r.of < r.id
      BY <2>3, <2>d DEF SentLeft
    <2>8. ASSUME Persistent, NEW y \in InPipeline' PROVE r.of < y
      <3>1. CASE y \in InPipeline
        BY <2>3, <2>8, <3>1 DEF SentLeft
      <3>2. CASE y = attempts /\ phase \in MidTick
        <4>1. r.id < attempts /\ r.of <= r.id
          BY <2>3, <3>2 DEF SentLeft
        <4> QED BY <2>1, <2>2, <3>2, <4>1
      <3> QED BY <2>8, <3>1, <3>2
    <2>9. Pending' => r.of < unit'.of
      BY <2>3 DEF SentLeft, r
    <2>10. r' = r
      BY <2>4 DEF r
    <2> QED BY <2>4, <2>5, <2>6, <2>7, <2>8, <2>9 DEF SentLeft
  <1> QED BY <1>1, <1>2

\* The frame just captured follows everything in the pipeline.
LEMMA AcceptedLines ==
  ASSUME NEW b \in Seq(Nat), NEW p \in Seq(Nat), NEW h \in Seq(Nat), NEW a \in Nat,
         Lined(b, p, <<>>, h),
         \A y \in Named(b) \cup Named(p) \cup Named(h) : y < a
  PROVE  /\ Lined(b, p, <<>>, Append(h, a))
         /\ \A size \in Nat :
              /\ Lined(b, p, Blocks(Head(Append(h, a)), size), Tail(Append(h, a)))
              /\ Before(b, Blocks(Head(Append(h, a)), size))
              /\ Named(Blocks(Head(Append(h, a)), size)) \subseteq Named(h) \cup {a}
         /\ Named(Tail(Append(h, a))) \subseteq Named(h) \cup {a}
         /\ Named(Append(h, a)) = Named(h) \cup {a}
  <1> DEFINE g == Append(h, a)
  <1>1. g \in Seq(Nat) /\ g # <<>>
    BY AppendLonger
  <1>2. Named(g) = Named(h) \cup {a} /\ Rising(g)
    BY NamedAppend DEF Lined
  <1> HIDE DEF g
  <1>3. \A y \in Named(g), x \in Named(b) \cup Named(p) : x < y
    BY <1>2 DEF Lined, Before
  <1>4. Lined(b, p, <<>>, g)
    <2>1. Before(<<>>, g)
      BY DEF Before, Named
    <2> QED BY <1>2, <1>3, <2>1 DEF Lined, Before
  <1>5. /\ Head(g) \in Nat /\ Tail(g) \in Seq(Nat) /\ Named(g) = Named(Tail(g)) \cup {Head(g)}
        /\ Rising(Tail(g)) /\ \A x \in Named(Tail(g)) : Head(g) < x
    BY <1>1, <1>2, NamedTail
  <1>6. ASSUME NEW size \in Nat
        PROVE  /\ Lined(b, p, Blocks(Head(g), size), Tail(g))
               /\ Before(b, Blocks(Head(g), size))
               /\ Named(Blocks(Head(g), size)) \subseteq Named(h) \cup {a}
    <2> DEFINE o == Blocks(Head(g), size)
    <2>1. DOMAIN o = 1 .. size /\ \A i \in 1 .. size : o[i] = Head(g)
      BY <1>5, BlocksType
    <2> HIDE DEF o
    <2>2. Named(o) \subseteq {Head(g)}
      BY <2>1 DEF Named
    <2>3. Sorted(o)
      BY <1>5, <2>1 DEF Sorted
    <2>4. Head(g) \in Named(g) /\ Named(Tail(g)) \subseteq Named(g)
      BY <1>5
    <2>5. Before(b, o) /\ \A x \in Named(p), y \in Named(o) : x < y
      BY <1>3, <2>2, <2>4 DEF Before
    <2>6. Before(b, Tail(g)) /\ Before(p, Tail(g)) /\ Before(o, Tail(g))
      BY <1>3, <1>5, <2>2, <2>4 DEF Before
    <2>7. UpTo(b, o) /\ UpTo(p, o)
      <3>1. Named(b) \subseteq Nat /\ Named(p) \subseteq Nat /\ Named(o) \subseteq Nat
        BY <1>5, <2>2, NamedNat
      <3>2. ASSUME NEW x \in Named(b), NEW y \in Named(o) PROVE x <= y
        <4>1. x < y /\ x \in Nat /\ y \in Nat
          BY <2>5, <3>1 DEF Before
        <4> QED BY <4>1
      <3>3. ASSUME NEW x \in Named(p), NEW y \in Named(o) PROVE x <= y
        <4>1. x < y /\ x \in Nat /\ y \in Nat
          BY <2>5, <3>1
        <4> QED BY <4>1
      <3> QED BY <3>2, <3>3 DEF UpTo
    <2>8. Lined(b, p, o, Tail(g))
      BY <1>5, <2>3, <2>6, <2>7 DEF Lined
    <2>9. Named(o) \subseteq Named(h) \cup {a}
      BY <1>2, <2>2, <2>4
    <2> QED BY <2>5, <2>8, <2>9 DEF o
  <1>7. Named(Tail(g)) \subseteq Named(h) \cup {a}
    BY <1>2, <1>5
  <1> QED BY <1>2, <1>4, <1>6, <1>7 DEF g

\* The encoder's next block goes behind those in the pipe.
LEMMA WrittenLines ==
  ASSUME NEW b \in Seq(Nat), NEW p \in Seq(Nat), NEW o \in Seq(Nat), NEW h \in Seq(Nat),
         Lined(b, p, o, h), o # <<>>
  PROVE  /\ Lined(b, Append(p, Head(o)), Tail(o), h)
         /\ Named(Append(p, Head(o))) \subseteq Named(p) \cup Named(o)
         /\ Named(Tail(o)) \subseteq Named(o)
  <1> DEFINE e == Head(o)  t == Tail(o)  q == Append(p, Head(o))
  <1>1. /\ t \in Seq(Nat) /\ e \in Nat /\ Named(o) = Named(t) \cup {e} /\ Sorted(t)
        /\ \A x \in Named(t) : e <= x
    BY NamedTail DEF Lined
  <1>2. e \in Named(o) /\ Named(t) \subseteq Named(o)
    BY <1>1
  <1>3. Named(q) = Named(p) \cup {e}
    BY <1>1, NamedAppend
  <1>4. Sorted(q)
    <2>1. \A x \in Named(p) : x <= e
      BY <1>2 DEF Lined, UpTo
    <2> QED BY <1>1, <2>1, NamedAppend DEF Lined
  <1> HIDE DEF e, t, q
  <1>5. UpTo(b, q) /\ UpTo(b, t) /\ UpTo(q, t)
    BY <1>1, <1>2, <1>3 DEF Lined, UpTo
  <1>6. Before(b, h) /\ Before(q, h) /\ Before(t, h)
    BY <1>2, <1>3 DEF Lined, Before
  <1>7. Lined(b, q, t, h)
    BY <1>1, <1>4, <1>5, <1>6 DEF Lined
  <1>8. Named(q) \subseteq Named(p) \cup Named(o) /\ Named(t) \subseteq Named(o)
    BY <1>2, <1>3
  <1> QED BY <1>7, <1>8 DEF e, t, q

ReadInto(b, p, n) == b \o SubSeq(p, 1, n)
LeftIn(p, n) == SubSeq(p, n + 1, Len(p))

\* A read, before the oldest picture is taken out and after.
LEMMA ReadLines ==
  ASSUME LoopAssumption,
         NEW b \in Seq(Nat), NEW p \in Seq(Nat), NEW o \in Seq(Nat), NEW h \in Seq(Nat),
         Lined(b, p, o, h), NEW n \in 1 .. Len(p)
  PROVE  /\ Lined(ReadInto(b, p, n), LeftIn(p, n), o, h)
         /\ Named(ReadInto(b, p, n)) \cup Named(LeftIn(p, n)) \subseteq AllNamed(b, p, o, h)
         /\ Complete(ReadInto(b, p, n)) =>
              /\ Lined(Rest(ReadInto(b, p, n)), LeftIn(p, n), o, h)
              /\ Named(Rest(ReadInto(b, p, n))) \subseteq AllNamed(b, p, o, h)
              /\ ReadInto(b, p, n)[1] \in AllNamed(b, p, o, h)
              /\ \A y \in AllNamed(Rest(ReadInto(b, p, n)), LeftIn(p, n), o, h) :
                   ReadInto(b, p, n)[1] < y
              /\ \E y \in AllNamed(b, p, o, h) : ReadInto(b, p, n)[1] < y
  <1> DEFINE c == ReadInto(b, p, n)
             l == LeftIn(p, n)
             all == AllNamed(b, p, o, h)
             r == Rest(c)
  <1>1. /\ c \in Seq(Nat) /\ l \in Seq(Nat) /\ Sorted(c) /\ Sorted(l) /\ UpTo(c, l)
        /\ Named(c) \subseteq Named(b) \cup Named(p) /\ Named(l) \subseteq Named(p)
    BY ReadMoves DEF Lined, ReadInto, LeftIn
  <1> HIDE DEF c, l
  <1>2. Lined(c, l, o, h)
    <2>1. UpTo(c, o) /\ UpTo(l, o)
      BY <1>1 DEF Lined, UpTo
    <2>2. Before(c, h) /\ Before(l, h)
      BY <1>1 DEF Lined, Before
    <2> QED BY <1>1, <2>1, <2>2 DEF Lined
  <1>3. ASSUME Complete(c)
        PROVE  /\ Lined(r, l, o, h) /\ Named(r) \subseteq all /\ c[1] \in all
               /\ \A y \in AllNamed(r, l, o, h) : c[1] < y
               /\ \E y \in all : c[1] < y
    <2>1. /\ r \in Seq(Nat) /\ c[1] \in Named(c) /\ Sorted(r) /\ Named(r) \subseteq Named(c)
          /\ \A x \in Named(r) : c[1] < x
      BY <1>1, <1>3, RestRises
    <2>0. PICK z \in Named(c) : c[1] < z
      BY <1>1, <1>3, RestRises
    <2> HIDE DEF r
    <2>2. UpTo(r, l) /\ UpTo(r, o) /\ Before(r, h)
      BY <1>2, <2>1 DEF Lined, UpTo, Before
    <2>3. Lined(r, l, o, h)
      BY <1>2, <2>1, <2>2 DEF Lined
    <2>4. Named(c) \subseteq Nat /\ Named(l) \subseteq Nat /\ Named(o) \subseteq Nat
      BY <1>1, NamedNat
    <2>5. ASSUME NEW y \in Named(l) \cup Named(o) PROVE c[1] < y
      <3>1. z <= y /\ z \in Nat /\ y \in Nat /\ c[1] \in Nat
        BY <1>2, <2>0, <2>1, <2>4 DEF Lined, UpTo
      <3> QED BY <2>0, <3>1
    <2>6. ASSUME NEW y \in Named(h) PROVE c[1] < y
      BY <1>2, <2>1 DEF Lined, Before
    <2>7. Named(c) \subseteq all
      BY <1>1 DEF AllNamed
    <2>8. \A y \in AllNamed(r, l, o, h) : c[1] < y
      BY <2>1, <2>5, <2>6 DEF AllNamed
    <2> HIDE DEF all
    <2> QED BY <2>0, <2>1, <2>3, <2>7, <2>8
  <1>4. Named(c) \cup Named(l) \subseteq all
    BY <1>1 DEF AllNamed
  <1> HIDE DEF r, all
  <1>5. /\ Lined(c, l, o, h) /\ Named(c) \cup Named(l) \subseteq all
        /\ Complete(c) =>
             /\ Lined(r, l, o, h) /\ Named(r) \subseteq all /\ c[1] \in all
             /\ \A y \in AllNamed(r, l, o, h) : c[1] < y
             /\ \E y \in all : c[1] < y
    BY <1>2, <1>3, <1>4
  <1> QED BY <1>5 DEF c, l, r, all

LEMMA LeftStep ==
  ASSUME LoopAssumption, TypeInv, TypeInv', Books, Line, Left, [Next]_vars
  PROVE  Line' /\ Left'
  <1>0. /\ attempts \in Nat /\ Captured \in Int /\ InPipeline \subseteq Nat
        /\ buffer \in Seq(Nat) /\ pipe \in Seq(Nat)
        /\ encoder.out \in Seq(Nat) /\ encoder.held \in Seq(Nat) /\ sent \in Seq(SentUnits)
    BY PipelineTyped DEF TypeInv
  <1>e. encoder \in [held : Seq(Nat), out : Seq(Nat), exited : BOOLEAN]
    BY DEF TypeInv
  <1>b. Bounds /\ Session /\ Stops
    BY DEF Books
  <1>u. ASSUME ~Pending' PROVE UnitLeft'
    BY <1>u DEF UnitLeft
  \* A step that leaves the pipeline alone, and sends nothing.
  <1>q. ASSUME buffer' = buffer, pipe' = pipe, encoder'.out = encoder.out,
               encoder'.held = encoder.held, Captured <= Captured',
               phase' = "Read" => phase = "Read",
               sent' = sent, attempts <= attempts',
               phase' \in MidTick => phase \in MidTick \/ attempts' = attempts + 1,
               Persistent /\ session' = "Open" => session = "Open" \/ sent = <<>>,
               \/ ~Pending'
               \/ /\ Pending /\ unit' = unit /\ attempts' = attempts
                  /\ session' = "Open" => session = "Open"
        PROVE  Line' /\ Left'
    <2>1. Line' /\ InPipeline' = InPipeline
      BY <1>q, LineQuiet
    <2>2. UnitLeft'
      BY <1>q, <1>u, <2>1 DEF UnitLeft, Left
    <2>3. /\ \A k \in DOMAIN sent' : SentLeft(sent[k])'
          /\ \A i, j \in DOMAIN sent' : i < j => sent'[i].id < sent'[j].id /\ sent'[i].of < sent'[j].of
      BY <1>q, <2>1, SentKept
    <2> QED BY <2>1, <2>2, <2>3 DEF Left
  \* A step that empties it.
  <1>x. ASSUME buffer' = <<>>, pipe' = <<>>, encoder'.out = <<>>, encoder'.held = <<>>,
               sent' = sent, attempts' = attempts, session' # "Open" \/ session' = session,
               phase' \in MidTick => phase \in MidTick,
               \/ ~Pending'
               \/ UnitLeft' /\ \A k \in DOMAIN sent : sent[k].of < unit'.of
        PROVE  Line' /\ Left'
    <2>1. Line' /\ InPipeline' = {}
      BY <1>x, LineEmptied
    <2>2. UnitLeft'
      BY <1>x, <1>u
    <2>3. attempts <= attempts' /\ InPipeline' \subseteq InPipeline \cup {attempts}
          /\ ~(attempts \in InPipeline')
      BY <1>0, <1>x, <2>1
    <2>4. /\ \A k \in DOMAIN sent' : SentLeft(sent[k])'
          /\ \A i, j \in DOMAIN sent' : i < j => sent'[i].id < sent'[j].id /\ sent'[i].of < sent'[j].of
      BY <1>x, <2>3, SentKept
    <2> QED BY <2>1, <2>2, <2>4 DEF Left
  <1>201. CASE Top
    <2>1. /\ phase = "Top" /\ phase' \in {"Shutdown", "Acquire"}
          /\ buffer' = buffer /\ pipe' = pipe /\ encoder' = encoder /\ sent' = sent
          /\ session' = session
          /\ \/ phase' = "Shutdown" /\ attempts' = attempts
             \/ phase' = "Acquire" /\ attempts' = attempts + 1
      BY <1>201 DEF Top, pipeVars
    <2>2. Captured <= Captured' /\ attempts <= attempts'
      BY <1>0, <1>b, <2>1 DEF Captured, Bounds, MidTick
    <2>3. phase' \in MidTick => phase \in MidTick \/ attempts' = attempts + 1
      BY <2>1 DEF MidTick
    <2> QED BY <1>q, <1>b, <2>1, <2>2, <2>3 DEF Pending, Session
  <1>202. CASE NoFrameAvailable
    <2>1. /\ phase = "Acquire" /\ phase' \in {"Cadence", "Shutdown"}
          /\ buffer' = buffer /\ pipe' = pipe /\ encoder' = encoder /\ sent' = sent
          /\ attempts' = attempts /\ session' = session
      BY <1>202 DEF NoFrameAvailable, Result, AfterTick, pipeVars
    <2>2. Captured <= Captured' /\ attempts <= attempts'
      BY <1>0, <1>b, <2>1 DEF Captured, Bounds, MidTick
    <2>3. phase' \in MidTick => phase \in MidTick \/ attempts' = attempts + 1
      BY <2>1 DEF MidTick
    <2> QED BY <1>q, <1>b, <2>1, <2>2, <2>3 DEF Pending, Session
  <1>203. CASE CaptureUnavailable
    <2>1. /\ phase = "Acquire" /\ phase' \in {"Cadence", "Shutdown"}
          /\ buffer' = buffer /\ pipe' = pipe /\ encoder' = encoder /\ sent' = sent
          /\ attempts' = attempts /\ session' = session
      BY <1>203 DEF CaptureUnavailable, Result, AfterTick, pipeVars
    <2>2. Captured <= Captured' /\ attempts <= attempts'
      BY <1>0, <1>b, <2>1 DEF Captured, Bounds, MidTick
    <2>3. phase' \in MidTick => phase \in MidTick \/ attempts' = attempts + 1
      BY <2>1 DEF MidTick
    <2> QED BY <1>q, <1>b, <2>1, <2>2, <2>3 DEF Pending, Session
  <1>204. CASE FrameAcquired
    <2>1. /\ phase = "Acquire" /\ phase' \in {"Encode", "Start", "Write"}
          /\ buffer' = buffer /\ pipe' = pipe /\ encoder' = encoder /\ sent' = sent
          /\ attempts' = attempts /\ session' = session
      BY <1>204 DEF FrameAcquired, loopVars, pipeVars
    <2>2. Captured <= Captured' /\ attempts <= attempts'
      BY <1>0, <1>b, <2>1 DEF Captured, Bounds, MidTick
    <2>3. phase' \in MidTick => phase \in MidTick \/ attempts' = attempts + 1
      BY <2>1 DEF MidTick
    <2> QED BY <1>q, <1>b, <2>1, <2>2, <2>3 DEF Pending, Session
  <1>230. CASE EncodeOnce
    <2>1. /\ phase = "Encode" /\ phase' = "Send" /\ ~Persistent /\ phase \in MidTick
          /\ buffer' = buffer /\ pipe' = pipe /\ encoder' = encoder /\ sent' = sent
          /\ attempts' = attempts /\ session' = session
          /\ unit' = [of |-> attempts, whole |-> TRUE]
      BY <1>230, <1>b DEF EncodeOnce, loopVars, pipeVars, Session, MidTick
    <2>2. unit'.of = attempts /\ unit'.whole /\ attempts > 0
      BY <1>b, <2>1 DEF Bounds
    <2>3. Captured <= Captured' /\ attempts <= attempts'
      BY <1>0, <2>1 DEF Captured
    <2>4. Line' /\ InPipeline' = InPipeline
      BY <2>1, <2>3, LineQuiet
    <2>5. UnitLeft'
      BY <1>0, <2>1, <2>2 DEF UnitLeft
    <2>6. ASSUME NEW k \in DOMAIN sent PROVE sent[k].of < unit'.of
      <3>1. sent[k].of <= sent[k].id /\ sent[k].id < attempts
        BY <2>1 DEF Left, SentLeft
      <3>3. sent[k] \in SentUnits
        BY <1>0
      <3>2. sent[k].of \in Nat /\ sent[k].id \in Nat
        BY <3>3 DEF SentUnits
      <3> QED BY <1>0, <2>2, <3>1, <3>2
    <2>7. /\ \A k \in DOMAIN sent' : SentLeft(sent[k])'
          /\ \A i, j \in DOMAIN sent' : i < j => sent'[i].id < sent'[j].id /\ sent'[i].of < sent'[j].of
      BY <2>1, <2>3, <2>4, <2>6, SentKept
    <2> QED BY <2>4, <2>5, <2>7 DEF Left
  <1>205. CASE EncodeDeferred
    <2>1. /\ phase = "Encode" /\ phase' \in {"Cadence", "Shutdown"}
          /\ buffer' = buffer /\ pipe' = pipe /\ encoder' = encoder /\ sent' = sent
          /\ attempts' = attempts /\ session' = session
      BY <1>205 DEF EncodeDeferred, Result, AfterTick, pipeVars
    <2>2. Captured <= Captured' /\ attempts <= attempts'
      BY <1>0, <1>b, <2>1 DEF Captured, Bounds, MidTick
    <2>3. phase' \in MidTick => phase \in MidTick \/ attempts' = attempts + 1
      BY <2>1 DEF MidTick
    <2> QED BY <1>q, <1>b, <2>1, <2>2, <2>3 DEF Pending, Session
  <1>206. CASE StartSession
    <2>1. /\ phase = "Start" /\ phase' = "Write"
          /\ buffer' = buffer /\ pipe' = pipe /\ encoder' = encoder /\ sent' = sent
          /\ attempts' = attempts /\ session = "None"
      BY <1>206, <1>b DEF StartSession, pipeVars, Session
    <2>2. Captured <= Captured' /\ attempts <= attempts'
      BY <1>0, <1>b, <2>1 DEF Captured, Bounds, MidTick
    <2>3. phase' \in MidTick => phase \in MidTick \/ attempts' = attempts + 1
      BY <2>1 DEF MidTick
    <2> QED BY <1>q, <1>b, <2>1, <2>2, <2>3 DEF Pending, Session
  <1>207. CASE StartFails
    <2>1. /\ phase = "Start" /\ phase' \in {"Cadence", "Shutdown"}
          /\ buffer' = buffer /\ pipe' = pipe /\ encoder' = encoder /\ sent' = sent
          /\ attempts' = attempts /\ session' = session
      BY <1>207 DEF StartFails, Result, AfterTick, pipeVars
    <2>2. Captured <= Captured' /\ attempts <= attempts'
      BY <1>0, <1>b, <2>1 DEF Captured, Bounds, MidTick
    <2>3. phase' \in MidTick => phase \in MidTick \/ attempts' = attempts + 1
      BY <2>1 DEF MidTick
    <2> QED BY <1>q, <1>b, <2>1, <2>2, <2>3 DEF Pending, Session
  <1>208. CASE Prepare /\ phase' = "Send"
    <2>1. /\ phase = "Prepare" /\ phase' = "Send"
          /\ buffer' = buffer /\ pipe' = pipe /\ encoder' = encoder /\ sent' = sent
          /\ attempts' = attempts /\ session' = session /\ unit' = unit
      BY <1>208 DEF Prepare, Result, AfterTick, loopVars, pipeVars
    <2>2. Captured <= Captured' /\ attempts <= attempts'
      BY <1>0, <1>b, <2>1 DEF Captured, Bounds, MidTick
    <2>3. phase' \in MidTick => phase \in MidTick \/ attempts' = attempts + 1
      BY <2>1 DEF MidTick
    <2> QED BY <1>q, <1>b, <2>1, <2>2, <2>3 DEF Pending, Session
  <1>209. CASE Prepare /\ phase' # "Send"
    <2>1. /\ phase = "Prepare" /\ phase' \in {"Cadence", "Shutdown"}
          /\ buffer' = buffer /\ pipe' = pipe /\ encoder' = encoder /\ sent' = sent
          /\ attempts' = attempts /\ session' = session
      BY <1>209 DEF Prepare, Result, AfterTick, pipeVars
    <2>2. Captured <= Captured' /\ attempts <= attempts'
      BY <1>0, <1>b, <2>1 DEF Captured, Bounds, MidTick
    <2>3. phase' \in MidTick => phase \in MidTick \/ attempts' = attempts + 1
      BY <2>1 DEF MidTick
    <2> QED BY <1>q, <1>b, <2>1, <2>2, <2>3 DEF Pending, Session
  <1>210. CASE SendFails
    <2>1. /\ phase = "Send" /\ phase' \in {"Cadence", "Shutdown"}
          /\ buffer' = buffer /\ pipe' = pipe /\ encoder' = encoder /\ sent' = sent
          /\ attempts' = attempts /\ session' = session
      BY <1>210 DEF SendFails, Result, AfterTick, pipeVars
    <2>2. Captured <= Captured' /\ attempts <= attempts'
      BY <1>0, <1>b, <2>1 DEF Captured, Bounds, MidTick
    <2>3. phase' \in MidTick => phase \in MidTick \/ attempts' = attempts + 1
      BY <2>1 DEF MidTick
    <2> QED BY <1>q, <1>b, <2>1, <2>2, <2>3 DEF Pending, Session
  <1>211. CASE Cadence
    <2>1. /\ phase = "Cadence" /\ phase' = "Top"
          /\ buffer' = buffer /\ pipe' = pipe /\ encoder' = encoder /\ sent' = sent
          /\ attempts' = attempts /\ session' = session
      BY <1>211 DEF Cadence, loopVars, pipeVars
    <2>2. Captured <= Captured' /\ attempts <= attempts'
      BY <1>0, <1>b, <2>1 DEF Captured, Bounds, MidTick
    <2>3. phase' \in MidTick => phase \in MidTick \/ attempts' = attempts + 1
      BY <2>1 DEF MidTick
    <2> QED BY <1>q, <1>b, <2>1, <2>2, <2>3 DEF Pending, Session
  <1>212. CASE Encoder_Exits
    <2>1. /\ phase' = phase /\ unit' = unit
          /\ buffer' = buffer /\ pipe' = pipe /\ sent' = sent
          /\ encoder'.out = encoder.out /\ encoder'.held = encoder.held
          /\ attempts' = attempts /\ session' = session
      BY <1>e, <1>212 DEF Encoder_Exits, loopVars
    <2>2. Captured <= Captured' /\ attempts <= attempts'
      BY <1>0, <1>b, <2>1 DEF Captured, Bounds, MidTick
    <2>3. phase' \in MidTick => phase \in MidTick \/ attempts' = attempts + 1
      BY <2>1 DEF MidTick
    <2> QED BY <1>q, <1>b, <2>1, <2>2, <2>3 DEF Pending, Session
  <1>213. CASE UNCHANGED vars
    <2>1. /\ phase' = phase /\ unit' = unit
          /\ buffer' = buffer /\ pipe' = pipe /\ encoder' = encoder /\ sent' = sent
          /\ attempts' = attempts /\ session' = session
      BY <1>213 DEF vars, loopVars, pipeVars
    <2>2. Captured <= Captured' /\ attempts <= attempts'
      BY <1>0, <1>b, <2>1 DEF Captured, Bounds, MidTick
    <2>3. phase' \in MidTick => phase \in MidTick \/ attempts' = attempts + 1
      BY <2>1 DEF MidTick
    <2> QED BY <1>q, <1>b, <2>1, <2>2, <2>3 DEF Pending, Session
  <1>214. CASE SessionFails
    <2>1. /\ buffer' = <<>> /\ pipe' = <<>> /\ encoder'.out = <<>> /\ encoder'.held = <<>>
          /\ sent' = sent /\ attempts' = attempts /\ session' = "Closed"
          /\ phase' \in {"Cadence", "Shutdown"}
      BY <1>214 DEF SessionFails, Result, AfterTick
    <2>2. session' # "Open" /\ ~Pending' /\ phase' \notin MidTick
      BY <2>1 DEF Pending, MidTick
    <2> QED BY <1>x, <2>1, <2>2
  <1>215. CASE Shutdown
    <2>1. /\ buffer' = <<>> /\ pipe' = <<>> /\ encoder'.out = <<>> /\ encoder'.held = <<>>
          /\ sent' = sent /\ attempts' = attempts /\ phase' = "Done"
          /\ session' # "Open"
      BY <1>e, <1>215 DEF Shutdown, loopVars
    <2>2. session' # "Open" /\ ~Pending' /\ phase' \notin MidTick
      BY <2>1 DEF Pending, MidTick
    <2> QED BY <1>x, <2>1, <2>2
  <1>216. CASE StreamEnded /\ buffer = <<>>
    <2>1. /\ buffer' = <<>> /\ pipe' = <<>> /\ encoder'.out = <<>> /\ encoder'.held = <<>>
          /\ sent' = sent /\ attempts' = attempts /\ session' = "Closed"
          /\ phase' \in {"Cadence", "Shutdown"}
      BY <1>e, <1>216 DEF StreamEnded, Result, AfterTick
    <2>2. session' # "Open" /\ ~Pending' /\ phase' \notin MidTick
      BY <2>1 DEF Pending, MidTick
    <2> QED BY <1>x, <2>1, <2>2
  <1>231. CASE StreamEnded /\ buffer # <<>>
    <2>1. /\ buffer' = <<>> /\ pipe' = <<>> /\ encoder'.out = <<>> /\ encoder'.held = <<>>
          /\ sent' = sent /\ attempts' = attempts /\ session' = "Closed"
          /\ phase = "Read" /\ phase' = "Prepare"
      BY <1>e, <1>231 DEF StreamEnded
    <2>2. unit' = [of |-> buffer[1],
                   whole |-> Complete(buffer) \/ ~Contains(encoder.out, buffer[1])]
      BY <1>231 DEF StreamEnded
    <2>3. buffer[1] \in Named(buffer) /\ buffer[1] \in InPipeline
      BY <1>0, <1>231 DEF Named, InPipeline, AllNamed
    <2>4. ~Contains(encoder.out, buffer[1])
      <3>1. SUFFICES ASSUME NEW i \in 1 .. Len(encoder.out), encoder.out[i] = buffer[1] PROVE FALSE
        BY DEF Contains
      <3>2. encoder.out[i] \in Named(encoder.out)
        BY <1>0 DEF Named
      <3>3. buffer[1] < encoder.out[i]
        BY <2>1, <2>3, <3>2 DEF Line, Before
      <3> QED BY <1>0, <2>3, <3>1, <3>3
    <2>5. unit'.of = buffer[1] /\ unit'.whole
      BY <2>2, <2>4
    <2>6. 0 < buffer[1] /\ buffer[1] <= attempts /\ buffer[1] \in Nat
      BY <1>0, <2>1, <2>3 DEF Line, Captured
    <2>7. InPipeline' = {}
      BY <2>1, LineEmptied
    <2>8. UnitLeft'
      BY <1>0, <2>1, <2>5, <2>6, <2>7 DEF UnitLeft
    <2>9. Persistent
      BY <1>b, <2>1 DEF Session
    <2>10. \A k \in DOMAIN sent : sent[k].of < unit'.of
      BY <2>3, <2>5, <2>9 DEF Left, SentLeft
    <2> QED BY <1>x, <2>1, <2>8, <2>10 DEF MidTick
  <1>232. CASE FrameAccepted
    <2> DEFINE h == encoder.held  a == attempts
    <2>1. /\ phase = "Write" /\ phase' = "Read" /\ encoder.out = <<>>
          /\ buffer' = buffer /\ pipe' = pipe /\ sent' = sent /\ unit' = unit
          /\ attempts' = attempts /\ session' = session
      BY <1>232 DEF FrameAccepted, loopVars
    <2>2. \E size \in Nat :
            \/ encoder'.held = Tail(Append(h, a)) /\ encoder'.out = Blocks(Head(Append(h, a)), size)
            \/ encoder'.held = Append(h, a) /\ encoder'.out = <<>>
      <3>1. PICK size \in Sizes :
              encoder' = IF Len(Append(h, a)) > Hold
                         THEN [encoder EXCEPT !.held = Tail(Append(h, a)),
                                              !.out = Blocks(Head(Append(h, a)), size)]
                         ELSE [encoder EXCEPT !.held = Append(h, a)]
        BY <1>232 DEF FrameAccepted
      <3>2. size \in Nat
        BY Parameters
      <3>3. CASE Len(Append(h, a)) > Hold
        <4>1. /\ encoder'.held = Tail(Append(h, a))
              /\ encoder'.out = Blocks(Head(Append(h, a)), size)
          BY <1>e, <3>1, <3>3
        <4> QED BY <3>2, <4>1
      <3>4. CASE ~(Len(Append(h, a)) > Hold)
        <4>1. encoder'.held = Append(h, a) /\ encoder'.out = <<>>
          BY <1>e, <2>1, <3>1, <3>4
        <4> QED BY <3>2, <4>1
      <3> QED BY <3>3, <3>4
    <2>3. /\ Lined(buffer, pipe, <<>>, h) /\ h \in Seq(Nat) /\ a \in Nat
          /\ \A y \in Named(buffer) \cup Named(pipe) \cup Named(h) : y < a
      <3>1. \A y \in InPipeline : y <= attempts - 1 /\ y \in Nat
        BY <1>0, <2>1 DEF Line, Captured
      <3>2. \A y \in InPipeline : y < attempts
        BY <1>0, <3>1
      <3>3. Lined(buffer, pipe, <<>>, h)
        BY <2>1 DEF Line
      <3> QED BY <1>0, <3>2, <3>3 DEF InPipeline, AllNamed
    <2>4. /\ Lined(buffer, pipe, encoder.out, encoder.held)'
          /\ Before(buffer, encoder.out)'
          /\ Named(encoder'.out) \cup Named(encoder'.held) \subseteq Named(h) \cup {a}
      <3>1. PICK size \in Nat :
            \/ encoder'.held = Tail(Append(h, a)) /\ encoder'.out = Blocks(Head(Append(h, a)), size)
            \/ encoder'.held = Append(h, a) /\ encoder'.out = <<>>
        BY <2>2
      <3> HIDE DEF h, a
      <3>2. CASE encoder'.held = Tail(Append(h, a)) /\ encoder'.out = Blocks(Head(Append(h, a)), size)
        <4>1. /\ Lined(buffer, pipe, Blocks(Head(Append(h, a)), size), Tail(Append(h, a)))
              /\ Before(buffer, Blocks(Head(Append(h, a)), size))
              /\ Named(Blocks(Head(Append(h, a)), size)) \subseteq Named(h) \cup {a}
              /\ Named(Tail(Append(h, a))) \subseteq Named(h) \cup {a}
          BY <1>0, <2>3, AcceptedLines
        <4> QED BY <2>1, <3>2, <4>1
      <3>3. CASE encoder'.held = Append(h, a) /\ encoder'.out = <<>>
        <4>1. Before(buffer, <<>>) /\ Named(<<>>) = {}
          BY DEF Before, Named
        <4>2. Lined(buffer, pipe, <<>>, Append(h, a)) /\ Named(Append(h, a)) = Named(h) \cup {a}
          BY <1>0, <2>3, AcceptedLines
        <4> QED BY <2>1, <3>3, <4>1, <4>2
      <3> QED BY <3>1, <3>2, <3>3
    <2>5. InPipeline' \subseteq InPipeline \cup {attempts}
      BY <2>1, <2>4 DEF InPipeline, AllNamed
    <2>6. attempts > 0 /\ phase \in MidTick /\ phase' \in MidTick /\ ~Pending'
      BY <1>b, <2>1 DEF Bounds, MidTick, Pending
    <2>7. \A y \in InPipeline' : 0 < y /\ y <= attempts
      <3> SUFFICES ASSUME NEW y \in InPipeline \cup {attempts} PROVE 0 < y /\ y <= attempts
        BY <2>5
      <3>1. CASE y \in InPipeline
        <4>1. 0 < y /\ y <= attempts - 1 /\ y \in Nat
          BY <1>0, <2>1, <3>1 DEF Line, Captured
        <4> QED BY <1>0, <4>1
      <3>2. CASE y = attempts
        BY <1>0, <2>6, <3>2
      <3> QED BY <3>1, <3>2
    <2>8. Line'
      BY <2>1, <2>4, <2>7 DEF Line, Captured
    <2>9. attempts <= attempts'
      BY <1>0, <2>1
    <2>10. /\ \A k \in DOMAIN sent' : SentLeft(sent[k])'
           /\ \A i, j \in DOMAIN sent' : i < j => sent'[i].id < sent'[j].id /\ sent'[i].of < sent'[j].of
      BY <2>1, <2>5, <2>6, <2>9, SentKept
    <2> QED BY <1>u, <2>6, <2>8, <2>10 DEF Left
  <1>233. CASE Encoder_Writes
    <2>1. /\ encoder.out # <<>> /\ phase' = phase /\ sent' = sent /\ unit' = unit
          /\ attempts' = attempts /\ session' = session /\ buffer' = buffer
          /\ pipe' = Append(pipe, Head(encoder.out))
          /\ encoder' = [encoder EXCEPT !.out = Tail(encoder.out)]
      BY <1>233 DEF Encoder_Writes, loopVars
    <2>2. encoder'.out = Tail(encoder.out) /\ encoder'.held = encoder.held
      BY <1>e, <2>1
    <2>3. /\ Lined(buffer, pipe, encoder.out, encoder.held)'
          /\ Named(pipe') \subseteq Named(pipe) \cup Named(encoder.out)
          /\ Named(encoder'.out) \subseteq Named(encoder.out)
      <3>1. Lined(buffer, pipe, encoder.out, encoder.held)
        BY DEF Line
      <3> QED BY <1>0, <2>1, <2>2, <3>1, WrittenLines
    <2>4. InPipeline' \subseteq InPipeline
      BY <2>1, <2>2, <2>3 DEF InPipeline, AllNamed
    <2>5. phase' = "Read" => Before(buffer, encoder.out)'
      BY <2>1, <2>3 DEF Line, Before
    <2>6. Line'
      BY <2>1, <2>3, <2>4, <2>5 DEF Line, Captured
    <2>7. UnitLeft'
      BY <2>1, <2>4 DEF Left, UnitLeft, Pending
    <2>8. /\ attempts <= attempts' /\ InPipeline' \subseteq InPipeline \cup {attempts}
          /\ attempts \in InPipeline' => attempts \in InPipeline
          /\ Pending' => Pending
      BY <1>0, <2>1, <2>4 DEF Pending
    <2>9. /\ \A k \in DOMAIN sent' : SentLeft(sent[k])'
          /\ \A i, j \in DOMAIN sent' : i < j => sent'[i].id < sent'[j].id /\ sent'[i].of < sent'[j].of
      BY <2>1, <2>8, SentKept
    <2> QED BY <2>6, <2>7, <2>9 DEF Left
  <1>234. CASE ReadUnit
    <2>1. PICK n \in 1 .. ReadLen :
            /\ n <= Len(pipe) /\ pipe' = SubSeq(pipe, n + 1, Len(pipe))
            /\ LET b == buffer \o SubSeq(pipe, 1, n) IN
               IF Complete(b)
               THEN /\ unit' = [of |-> b[1], whole |-> TRUE]
                    /\ buffer' = Rest(b) /\ phase' = "Prepare"
                    /\ count' = Plus(count, {"emitted"})
                    /\ UNCHANGED <<wait, stop, sent>>
               ELSE /\ buffer' = b /\ Result({"captured", "noComplete"}, "None")
                    /\ UNCHANGED unit
      BY <1>234 DEF ReadUnit
    <2>2. /\ phase = "Read" /\ phase \in MidTick /\ Persistent /\ session = "Open"
          /\ attempts' = attempts /\ session' = session /\ encoder' = encoder
      BY <1>b, <1>234 DEF ReadUnit, MidTick, Session
    <2>3. n \in 1 .. Len(pipe)
      BY <2>1
    <2> DEFINE c == ReadInto(buffer, pipe, n)
               l == LeftIn(pipe, n)
    <2>r. c = buffer \o SubSeq(pipe, 1, n) /\ l = SubSeq(pipe, n + 1, Len(pipe))
      BY DEF ReadInto, LeftIn
    <2>4. pipe' = l /\ Lined(buffer, pipe, encoder.out, encoder.held)
      BY <2>1, <2>r DEF Line
    <2>5. /\ Lined(c, l, encoder.out, encoder.held) /\ Named(c) \cup Named(l) \subseteq InPipeline
          /\ Complete(c) =>
               /\ Lined(Rest(c), l, encoder.out, encoder.held) /\ Named(Rest(c)) \subseteq InPipeline
               /\ c[1] \in InPipeline
               /\ \A y \in AllNamed(Rest(c), l, encoder.out, encoder.held) : c[1] < y
               /\ \E y \in InPipeline : c[1] < y
      BY <1>0, <2>3, <2>4, ReadLines DEF InPipeline
    <2>6. CASE Complete(c)
      <3>1. /\ unit' = [of |-> c[1], whole |-> TRUE] /\ buffer' = Rest(c)
            /\ phase' = "Prepare" /\ sent' = sent
        BY <2>1, <2>r, <2>6
      <3> HIDE DEF c, l
      <3>2. InPipeline' \subseteq InPipeline
        BY <2>2, <2>4, <2>5, <2>6, <3>1 DEF InPipeline, AllNamed
      <3>3. Line'
        BY <2>2, <2>4, <2>5, <2>6, <3>1, <3>2 DEF Line, Captured
      <3>4. PICK z \in InPipeline : c[1] < z
        BY <2>5, <2>6
      <3>5. /\ c[1] \in InPipeline /\ 0 < c[1] /\ z <= attempts /\ c[1] \in Nat /\ z \in Nat
        BY <1>0, <2>2, <2>5, <2>6 DEF Line, Captured
      <3>6. unit'.of = c[1] /\ unit'.whole /\ c[1] < attempts
        BY <1>0, <3>1, <3>4, <3>5
      <3>7. \A y \in InPipeline' : c[1] < y
        BY <2>2, <2>4, <2>5, <2>6, <3>1 DEF InPipeline, AllNamed
      <3>8. UnitLeft'
        BY <1>0, <2>2, <3>5, <3>6, <3>7 DEF UnitLeft
      <3>9. \A k \in DOMAIN sent : sent[k].of < unit'.of
        BY <2>2, <3>5, <3>6 DEF Left, SentLeft
      <3>10. attempts <= attempts'
        BY <1>0, <2>2
      <3>11. /\ \A k \in DOMAIN sent' : SentLeft(sent[k])'
             /\ \A i, j \in DOMAIN sent' : i < j => sent'[i].id < sent'[j].id /\ sent'[i].of < sent'[j].of
        BY <2>2, <3>1, <3>2, <3>9, <3>10, SentKept
      <3> QED BY <3>3, <3>8, <3>11 DEF Left
    <2>7. CASE ~Complete(c)
      <3>1. buffer' = c /\ sent' = sent /\ phase' \in {"Cadence", "Shutdown"}
        BY <2>1, <2>r, <2>7 DEF Result, AfterTick
      <3> HIDE DEF c, l
      <3>2. InPipeline' \subseteq InPipeline
        BY <2>2, <2>4, <2>5, <3>1 DEF InPipeline, AllNamed
      <3>3. Line'
        BY <2>2, <2>4, <2>5, <3>1, <3>2 DEF Line, Captured
      <3>4. ~Pending' /\ attempts <= attempts'
        BY <1>0, <2>2, <3>1 DEF Pending
      <3>5. /\ \A k \in DOMAIN sent' : SentLeft(sent[k])'
            /\ \A i, j \in DOMAIN sent' : i < j => sent'[i].id < sent'[j].id /\ sent'[i].of < sent'[j].of
        BY <2>2, <3>1, <3>2, <3>4, SentKept
      <3> QED BY <1>u, <3>3, <3>4, <3>5 DEF Left
    <2> QED BY <2>6, <2>7
  <1>235. CASE Sent
    <2> DEFINE r == [id |-> attempts, of |-> unit.of, whole |-> unit.whole]
    <2>1. /\ phase = "Send" /\ phase' \in {"Cadence", "Shutdown"} /\ phase \in MidTick
          /\ buffer' = buffer /\ pipe' = pipe /\ encoder' = encoder
          /\ attempts' = attempts /\ session' = session
          /\ sent' = Append(sent, r)
      BY <1>235 DEF Sent, AfterTick, pipeVars, MidTick
    <2>2. ~Pending' /\ attempts <= attempts' /\ Captured <= Captured' /\ ~(phase' \in MidTick)
      BY <1>0, <2>1 DEF Pending, Captured, MidTick
    <2>3. Line' /\ InPipeline' = InPipeline
      BY <2>1, <2>2, LineQuiet
    <2>4. /\ unit.whole /\ unit.of > 0 /\ unit.of <= attempts
          /\ Persistent /\ session = "Open" => unit.of < attempts
          /\ Persistent => \A y \in InPipeline : unit.of < y
      BY <2>1 DEF Left, UnitLeft, Pending
    <2>5. r.id = attempts /\ r.of = unit.of /\ r.whole = unit.whole
      OBVIOUS
    <2>6. unit.of \in Nat
      BY DEF TypeInv, Units
    <2> HIDE DEF r
    <2>7. /\ Len(sent) \in Nat /\ DOMAIN sent = 1 .. Len(sent) /\ DOMAIN sent' = 1 .. Len(sent) + 1
          /\ \A k \in 1 .. Len(sent) : sent'[k] = sent[k]
          /\ sent'[Len(sent) + 1] = r
      <3>1. r \in SentUnits
        BY <1>0, <2>6 DEF r, SentUnits, TypeInv, Units
      <3> QED BY <1>0, <2>1, <3>1
    <2>8. ASSUME NEW k \in 1 .. Len(sent) + 1 PROVE SentLeft(sent[k])'
      <3>1. CASE k \in 1 .. Len(sent)
        <4>1. SentLeft(sent[k]) /\ sent'[k] = sent[k]
          BY <2>7, <3>1 DEF Left
        <4> QED BY <2>1, <2>2, <2>3, <4>1 DEF SentLeft
      <3>2. CASE k = Len(sent) + 1
        <4>1. sent'[k] = r
          BY <2>7, <3>2
        <4> QED BY <1>0, <2>1, <2>2, <2>3, <2>4, <2>5, <2>6, <4>1 DEF SentLeft
      <3> QED BY <2>7, <3>1, <3>2
    <2>9. ASSUME NEW i \in 1 .. Len(sent) + 1, NEW j \in 1 .. Len(sent) + 1, i < j
          PROVE  sent'[i].id < sent'[j].id /\ sent'[i].of < sent'[j].of
      <3>1. i \in 1 .. Len(sent) /\ sent'[i] = sent[i]
        BY <2>7, <2>9
      <3>2. CASE j \in 1 .. Len(sent)
        <4>1. sent'[j] = sent[j]
          BY <2>7, <3>2
        <4> QED BY <2>7, <2>9, <3>1, <3>2, <4>1 DEF Left
      <3>3. CASE j = Len(sent) + 1
        <4>1. SentLeft(sent[i])
          BY <2>7, <3>1 DEF Left
        <4>2. sent[i].id < attempts /\ sent[i].of < unit.of
          BY <2>1, <4>1 DEF SentLeft, Pending
        <4>3. sent'[j] = r
          BY <2>7, <3>3
        <4> QED BY <2>5, <3>1, <4>2, <4>3
      <3> QED BY <2>7, <3>2, <3>3
    <2> QED BY <1>u, <2>2, <2>3, <2>7, <2>8, <2>9 DEF Left
  <1> QED BY <1>201, <1>202, <1>203, <1>204, <1>230, <1>205, <1>206, <1>207, <1>208, <1>209, <1>210, <1>211, <1>212, <1>213, <1>214, <1>215, <1>216, <1>231, <1>232, <1>233, <1>234, <1>235
          DEF Next, Works, Fails, WriteFails, ReadFails

-----------------------------------------------------------------------------
(* The theorems.                                                           *)

LEMMA InitHolds ==
  ASSUME LoopAssumption, Init
  PROVE  IInv
  <1>1. TypeInv
    BY InitTyped
  <1>2. /\ MaxFrames \in Nat /\ MaxTicks \in Nat /\ PipeSize \in Nat /\ Persistent \in BOOLEAN
    BY Parameters
  <1>3. /\ phase = "Top" /\ now = 1 /\ attempts = 0 /\ wait = 0 /\ stop = "None" /\ sent = <<>>
        /\ session = "None" /\ encoder.out = <<>> /\ encoder.held = <<>> /\ pipe = <<>> /\ buffer = <<>>
        /\ Sends = 0
    BY DEF Init, Sends
  <1>4. /\ count.noFrame = 0 /\ count.captureFail = 0 /\ count.encodeFail = 0 /\ count.sendFail = 0
        /\ count.captured = 0 /\ count.encoded = 0 /\ count.emitted = 0 /\ count.noComplete = 0
        /\ count.missing = 0 /\ count.starts = 0
    BY DEF Init
  <1>5. Bounds
    BY <1>2, <1>3 DEF Bounds, MidTick
  <1>6. Sums
    BY <1>3, <1>4 DEF Sums, SumAttempts, SumCaptured, SumEncoded, SumEmitted,
       Outcomes, Fates, Ticking, Holding, MidTick
  <1>7. Session
    BY <1>3, <1>4 DEF Session, Ended
  <1>8. Stops
    BY <1>3, <1>4 DEF Stops, Ended
  <1>9. Line
    <2>1. Named(<<>>) = {} /\ Sorted(<<>>) /\ Rising(<<>>)
      BY DEF Named, Sorted, Rising
    <2> QED BY <1>3, <2>1 DEF Line, Lined, InPipeline, AllNamed, UpTo, Before
  <1>10. Left
    BY <1>3 DEF Left, UnitLeft, Pending
  <1> QED BY <1>1, <1>5, <1>6, <1>7, <1>8, <1>9, <1>10 DEF IInv

LEMMA StepHolds ==
  ASSUME LoopAssumption, IInv, [Next]_vars
  PROVE  IInv'
  <1>1. TypeInv /\ Books /\ Line /\ Left
    BY DEF IInv, Books
  <1>2. TypeInv'
    BY <1>1, TypeStep
  <1>3. Books'
    BY <1>1, <1>2, BooksStep
  <1>4. Line' /\ Left'
    BY <1>1, <1>2, LeftStep
  <1> QED BY <1>2, <1>3, <1>4 DEF IInv, Books

\* Every counter is at most the number of attempts.
LEMMA CountsBounded ==
  ASSUME LoopAssumption, IInv
  PROVE  \A k \in Counters : count[k] \in 0 .. MaxTicks
  <1> DEFINE nf == count.noFrame  cf == count.captureFail  ef == count.encodeFail
             sf == count.sendFail  ca == count.captured  en == count.encoded
             em == count.emitted  nc == count.noComplete  mi == count.missing  st == count.starts
             t == Ticking  h == Holding  n == Sends  a == attempts
  <1>1. /\ nf \in Nat /\ cf \in Nat /\ ef \in Nat /\ sf \in Nat /\ ca \in Nat /\ en \in Nat
        /\ em \in Nat /\ nc \in Nat /\ mi \in Nat /\ st \in Nat
    BY DEF IInv, TypeInv, Counters
  <1>2. t \in {0, 1} /\ h \in {0, 1} /\ h <= t
    BY DEF Ticking, Holding, MidTick
  <1>3. n \in Nat /\ a \in Nat /\ a <= MaxTicks /\ MaxTicks \in Nat
    BY Parameters DEF IInv, TypeInv, Bounds, Sends
  <1>4. a = nf + cf + ca + t /\ ca = en + ef + nc + mi /\ en = n + sf
    BY DEF IInv, Sums, SumAttempts, SumCaptured, SumEncoded, Outcomes, Fates
  <1>5. em = en + mi + h \/ em = 0
    BY DEF IInv, Sums, SumEmitted
  <1>6. st = 0 \/ (st = 1 /\ a > 0)
    BY DEF IInv, Session, Bounds
  <1>7. \A k \in Counters : count[k] \in {nf, cf, ef, sf, ca, en, em, nc, mi, st}
    BY DEF Counters
  <1> HIDE DEF nf, cf, ef, sf, ca, en, em, nc, mi, st, t, h, n, a
  <1>8. nf <= a /\ cf <= a /\ ca + t <= a
    BY <1>1, <1>2, <1>3, <1>4
  <1>9. ca <= a
    BY <1>1, <1>2, <1>3, <1>8
  <1>10. en <= ca /\ ef <= ca /\ nc <= ca /\ mi <= ca /\ en + mi <= ca
    BY <1>1, <1>4
  <1>11. sf <= en
    BY <1>1, <1>3, <1>4
  <1>12. em <= a
    <2>1. CASE em = en + mi + h
      BY <1>1, <1>2, <1>3, <1>8, <1>10, <2>1
    <2>2. CASE em = 0
      BY <1>3, <2>2
    <2> QED BY <1>5, <2>1, <2>2
  <1>13. st <= a
    BY <1>3, <1>6
  <1>14. \A x \in {nf, cf, ef, sf, ca, en, em, nc, mi, st} : x \in Nat /\ x <= a
    <2>1. ef <= a /\ nc <= a /\ mi <= a /\ en <= a /\ sf <= a
      BY <1>1, <1>3, <1>9, <1>10, <1>11
    <2> QED BY <1>1, <1>8, <1>9, <1>12, <1>13, <2>1
  <1>15. \A x \in {nf, cf, ef, sf, ca, en, em, nc, mi, st} : x \in 0 .. MaxTicks
    BY <1>3, <1>14
  <1> QED BY <1>7, <1>15

LEMMA InvariantHolds ==
  ASSUME LoopAssumption, IInv
  PROVE  EncodeLoopInvariant
  <1>0. /\ TypeInv /\ Bounds /\ Sums /\ Session /\ Stops /\ Left
        /\ MaxTicks \in Nat /\ MaxFrames \in Nat
    BY Parameters DEF IInv
  <1>1. ASSUME NEW k \in DOMAIN sent
        PROVE  /\ sent[k].id \in 1 .. MaxTicks /\ sent[k].of \in 1 .. MaxTicks
               /\ SentLeft(sent[k])
    <2>1. sent[k] \in SentUnits /\ attempts \in Nat /\ attempts <= MaxTicks
      BY <1>0 DEF TypeInv, Bounds
    <2>2. sent[k].id \in Nat /\ sent[k].of \in Nat
      BY <2>1 DEF SentUnits
    <2>3. SentLeft(sent[k])
      BY <1>0 DEF Left
    <2> QED BY <1>0, <2>1, <2>2, <2>3 DEF SentLeft
  <1>2. TypeOK
    <2>1. DOMAIN count = Counters
      BY <1>0 DEF TypeInv
    <2>2. \A k \in DOMAIN count : count[k] \in 0 .. MaxTicks
      BY <2>1, CountsBounded
    <2>3. \A s \in {sent[i] : i \in DOMAIN sent} : s.id \in 1 .. MaxTicks /\ s.of \in 1 .. MaxTicks
      BY <1>1
    <2>4. attempts \in 0 .. MaxTicks
      BY <1>0 DEF TypeInv, Bounds
    <2> QED BY <1>0, <2>2, <2>3, <2>4 DEF TypeOK, TypeInv, Bounds, Sends
  <1>3. PicturesInOrder
    BY <1>0, <1>1 DEF PicturesInOrder, Left, SentLeft
  <1>4. NoCutPicture
    BY <1>1 DEF NoCutPicture, SentLeft
  <1>5. AttemptsAddUp
    <2> SUFFICES ASSUME phase \in {"Top", "Cadence", "Shutdown", "Done"}
                 PROVE  /\ attempts = count.noFrame + count.captureFail + count.captured
                        /\ count.captured = count.encoded + count.encodeFail
                                            + count.noComplete + count.missing
                        /\ count.encoded = Sends + count.sendFail
                        /\ Persistent => count.emitted = count.encoded + count.missing
      BY DEF AttemptsAddUp
    <2>1. Ticking = 0 /\ Holding = 0
      BY DEF Ticking, Holding, MidTick
    <2>2. Outcomes \in Nat
      BY <1>0, TotalsTyped
    <2>3. attempts = Outcomes
      BY <1>0, <2>1, <2>2 DEF Sums, SumAttempts
    <2>4. ASSUME Persistent PROVE count.emitted = count.encoded + count.missing
      <3> DEFINE e == count.encoded  m == count.missing
      <3>1. e \in Nat /\ m \in Nat /\ count.emitted = e + m + Holding
        BY <1>0, <2>4 DEF Sums, SumEmitted, TypeInv, Counters
      <3> HIDE DEF e, m
      <3>2. count.emitted = e + m
        BY <2>1, <3>1
      <3> QED BY <3>2 DEF e, m
    <2> QED BY <1>0, <2>3, <2>4 DEF Sums, SumCaptured, SumEncoded, Outcomes, Fates
  <1>6. OneEncoderProcess
    <2>1. count.starts \in Nat /\ count.encodeFail \in Nat
      BY <1>0 DEF TypeInv, Counters
    <2> QED BY <1>0, <2>1 DEF OneEncoderProcess, Session, Ended
  <1>7. StopReasonIsTrue
    BY <1>0 DEF StopReasonIsTrue, Stops, Ended
  <1> QED BY <1>2, <1>3, <1>4, <1>5, <1>6, <1>7 DEF EncodeLoopInvariant

\* What a run sends and reports is what its encoder gave it.
THEOREM LoopSafe ==
  ASSUME LoopAssumption
  PROVE  Spec => []EncodeLoopInvariant
  <1>1. Init => IInv
    BY InitHolds
  <1>2. IInv /\ [Next]_vars => IInv'
    BY StepHolds
  <1>3. IInv => EncodeLoopInvariant
    BY InvariantHolds
  <1> QED BY <1>1, <1>2, <1>3, PTL DEF Spec

\* A sleep is cut to the end of the wait, and otherwise ends at the deadline.
LEMMA SleepBounds ==
  ASSUME LoopAssumption, TypeInv
  PROVE  WaitNotOverslept /\ KeepsDeadlines
  <1>0. now \in Nat /\ wait \in Nat /\ attempts \in Nat /\ FrameWait \in Nat /\ Interval \in Nat
    BY Parameters DEF TypeInv
  <1> DEFINE d == 1 + Interval * attempts
  <1>1. d \in Nat
    BY <1>0, ProductNat
  <1>2. Cadence => now' = now + SleepFor(d)
    BY DEF Cadence
  <1> HIDE DEF d
  <1>3. ASSUME Cadence, wait # 0, FrameWait > 0, now - wait < FrameWait
        PROVE  now' <= wait + FrameWait
    <2>1. \A s \in Nat : Clamped(s) <= FrameWait - (now - wait) /\ Clamped(s) \in Int
      BY <1>0, <1>3 DEF Clamped, Least
    <2>2. SleepFor(d) \in Int /\ SleepFor(d) <= FrameWait - (now - wait)
      <3>1. Clamped(Interval) \in Int /\ Clamped(Interval) <= FrameWait - (now - wait)
        BY <1>0, <2>1
      <3>2. ASSUME now < d
            PROVE  Clamped(d - now) \in Int /\ Clamped(d - now) <= FrameWait - (now - wait)
        <4>1. d - now \in Nat
          BY <1>0, <1>1, <3>2
        <4> HIDE DEF Clamped
        <4> QED BY <2>1, <4>1
      <3>3. CASE DeadlineMode /\ now >= d
        BY <1>0, <1>3, <3>3 DEF SleepFor
      <3>4. CASE DeadlineMode /\ now < d
        BY <1>0, <1>1, <3>2, <3>4 DEF SleepFor
      <3>5. CASE ~DeadlineMode
        BY <3>1, <3>5 DEF SleepFor
      <3> QED BY <1>0, <1>1, <3>3, <3>4, <3>5
    <2> QED BY <1>0, <1>2, <1>3, <2>2
  <1>4. ASSUME DeadlineMode, Cadence
        PROVE  \/ now' = IF now > d THEN now ELSE d
               \/ wait # 0 /\ FrameWait > 0 /\ now' - wait >= FrameWait
    <2>1. CASE now >= d
      <3>1. now' = now
        BY <1>0, <1>2, <1>4, <2>1 DEF SleepFor
      <3> QED BY <1>0, <1>1, <2>1, <3>1
    <2>2. CASE now < d
      <3>1. now' = now + Clamped(d - now)
        BY <1>0, <1>1, <1>2, <1>4, <2>2 DEF SleepFor
      <3>2. CASE wait = 0 \/ FrameWait = 0
        BY <1>0, <1>1, <2>2, <3>1, <3>2 DEF Clamped
      <3>3. CASE wait # 0 /\ FrameWait > 0 /\ now - wait >= FrameWait
        BY <1>0, <1>1, <3>1, <3>3 DEF Clamped
      <3>4. CASE wait # 0 /\ FrameWait > 0 /\ now - wait < FrameWait
        <4>1. Clamped(d - now) = Least(d - now, FrameWait - (now - wait))
          BY <1>0, <3>4 DEF Clamped
        <4> HIDE DEF Clamped
        <4> QED BY <1>0, <1>1, <2>2, <3>1, <3>4, <4>1 DEF Least
      <3> QED BY <1>0, <3>2, <3>3, <3>4
    <2> QED BY <1>0, <1>1, <2>1, <2>2
  <1> QED BY <1>3, <1>4 DEF WaitNotOverslept, KeepsDeadlines, d

\* No sleep outlasts the wait for a frame, and a slow tick is made up for.
THEOREM LoopPaces ==
  ASSUME LoopAssumption
  PROVE  Spec => [][WaitNotOverslept /\ KeepsDeadlines]_vars
  <1>1. Init => IInv
    BY InitHolds
  <1>2. IInv /\ [Next]_vars => IInv'
    BY StepHolds
  <1>3. IInv /\ [Next]_vars => [WaitNotOverslept /\ KeepsDeadlines]_vars
    BY SleepBounds DEF IInv
  <1> QED BY <1>1, <1>2, <1>3, PTL DEF Spec

=============================================================================
