--------------------------- MODULE Switcher_proofs ---------------------------
(***************************************************************************)
(* Proofs about the switcher: the continuous decoder, then the live        *)
(* two-view runtime, the two-view display and the selection by target      *)
(* time.  The last three are the instances Live, Pass and Source, each     *)
(* over variables of its own: nothing is shared between the four.          *)
(***************************************************************************)
EXTENDS ContinuousDecoder, FiniteSetTheorems, SequenceTheorems, WellFoundedInduction, TLAPS

(***************************************************************************)
(* The continuous decoder, for every number of frames, every bound of the  *)
(* queues and pipes, and every order in which the main thread, the writer, *)
(* the reader and the process take their steps.                            *)
(*                                                                         *)
(* The argument has two layers.  The first holds whatever the process      *)
(* does: every accepted input is at one place of the way from the channel  *)
(* through the correspondence queue to the reader, in the order it was     *)
(* fed.  The second is about what the process is given and gives back: as  *)
(* long as it has swallowed nothing, the pictures it still owes are those  *)
(* of the correspondence queue, position by position.                      *)
(***************************************************************************)

Slot0Frames == {Slot0(i) : i \in 1..MaxFrame}
OrNone(S) == S \cup {NoFrame}
Events == [kind : {"Decoded", "RuntimeError"},
           why : {"", "stdin_write_failed", "stdout_read_failed", "output_without_input"},
           key : OrNone(Slot0Frames), pic : OrNone(Slot0Frames)]

RuntimeType ==
  [disabled : BOOLEAN, session : BOOLEAN, enqueued : SUBSET Slot0Frames,
   order : Seq(Slot0Frames), latest : Nat]

SessionType ==
  [open : BOOLEAN, chan : Seq(Slot0Frames), qlen : Nat, corr : Seq(Slot0Frames), events : Seq(Events)]

ProcessType ==
  [state : {"none", "running", "exited", "killed"}, in : Seq(Slot0Frames), out : Seq(Slot0Frames)]

WriterType == [pc : {"none", "recv", "push", "write", "done"}, key : OrNone(Slot0Frames)]

ReaderType ==
  [pc : {"none", "read", "pop", "emit", "done"}, pic : OrNone(Slot0Frames), key : OrNone(Slot0Frames)]

MainType ==
  [pc : {"idle", "preview", "reserve", "send", "drain", "join", "after", "consume",
         "exact", "oneshot", "latest", "ended"},
   frame : OrNone(Frames), origin : {"none", "Feeder", "RenderDemand"},
   purpose : {"none", "PreviewFallback", "ProgramStartupBootstrap"},
   ret : {"none", "after", "exact", "latest", "ended"}, reuse : BOOLEAN, n : Nat,
   result : {"none", "SkippedRuntimeDisabled", "SkippedDuplicate", "SkippedStartupNotReady",
             "Enqueued", "DroppedInputQueueFull", "Disconnected"},
   running : BOOLEAN, budget : Nat]

ShownType ==
  [how : {"none", "exact", "bounded", "deferred", "failed", "oneshot", "latest"},
   req : OrNone(Frames), pic : OrNone(Frames), key : OrNone(Frames)]

HistoryType ==
  [consumed : SUBSET Frames, mismatch : Nat, fed : Seq(Slot0Frames), skips : Nat,
   late : SUBSET Frames, decoded : Nat]

(***************************************************************************)
(* The inductive invariant, by the part of the state it is about.          *)
(***************************************************************************)
ServerInv ==
  /\ queue \in Seq(Slot0Frames) /\ Len(queue) <= ServerBound
  /\ arrived \in 0..MaxFrame /\ target \in 0..MaxFrame

\* Where the main thread is, and what it holds there.
MainInv ==
  /\ main \in MainType
  /\ main.pc \in {"reserve", "send", "drain", "after"} => main.frame \in Slot0Frames
  /\ main.pc = "join" /\ main.ret = "after" => main.frame \in Slot0Frames
  /\ main.pc = "join" /\ main.ret = "exact" => main.frame \in Frames
  /\ main.pc \in {"exact", "oneshot"} => main.frame \in Frames
  /\ main.pc = "oneshot" /\ main.frame.src = "slot0" => main.frame \in Slot0Frames
  /\ main.pc = "send" => rt.session /\ main.frame \notin rt.enqueued
  /\ main.pc \in {"drain", "join", "after", "consume"} /\ main.result = "Enqueued" =>
       main.frame \in rt.enqueued
  /\ main.pc = "consume" => main.result = "Enqueued"
  /\ main.pc = "join" => main.ret # "none" /\ (rt.disabled \/ main.ret = "ended")
  /\ main.ret = "ended" => main.pc \in {"join", "ended"}
  /\ main.pc = "ended" => main.ret = "ended"

\* A decode request is answered once: until then nothing is shown.
ShownInv ==
  /\ shown \in ShownType
  /\ main.pc \notin {"idle", "ended"} /\ main.ret # "ended" => shown = NoShown

\* A runtime starts at most one session, and without one nothing is left of it.
SessionInv ==
  /\ rt \in RuntimeType /\ sess \in SessionType /\ ff \in ProcessType
  /\ wr \in WriterType /\ rd \in ReaderType
  /\ Len(sess.chan) <= QueueBound /\ Len(ff.in) <= PipeBound /\ Len(ff.out) <= PipeBound
  /\ rt.session => wr.pc # "none" /\ rd.pc # "none"
  /\ ~rt.session => /\ wr.pc = "none" /\ rd.pc = "none" /\ ff.state = "none"
                    /\ sess.events = <<>> /\ sess.chan = <<>> /\ sess.corr = <<>>
                    /\ (rt.disabled \/ main.ret = "ended" \/ (hist.fed = <<>> /\ hist.decoded = 0))
  /\ wr.pc \in {"push", "write"} => wr.key \in Slot0Frames
  /\ rd.pc \in {"pop", "emit"} => rd.pic \in Slot0Frames
  /\ rd.pc = "emit" => rd.key \in Slot0Frames
  /\ \A i \in DOMAIN sess.events : sess.events[i].kind = "Decoded" => sess.events[i].pic \in Slot0Frames

Emitted == DecodedIn(sess.events, Len(sess.events))

\* The first layer: the fed inputs are those drained, those emitted and those in
\* the pipeline, in this order.
FeedInv ==
  /\ hist \in HistoryType
  /\ \A i, j \in DOMAIN hist.fed : hist.fed[i] = hist.fed[j] => i = j
  /\ rt.enqueued = Keys(hist.fed)
  /\ hist.decoded + Emitted <= Len(hist.fed)
  /\ \A i \in DOMAIN sess.events : sess.events[i].kind = "Decoded" =>
       sess.events[i].key = hist.fed[hist.decoded + DecodedIn(sess.events, i)]
  /\ rt.session =>
       /\ hist.decoded + Emitted + Len(InPipeline) = Len(hist.fed)
       /\ \A i \in 1..Len(InPipeline) : InPipeline[i] = hist.fed[hist.decoded + Emitted + i]

\* The keys in the order are the last inputs that were drained.
Cached(order, c, d) ==
  /\ order \in Seq(Slot0Frames) /\ Len(order) <= QueueBound /\ Len(order) <= d
  /\ \A i \in 1..Len(order) : order[i] = hist.fed[d - Len(order) + i]
  /\ DOMAIN c \subseteq Frames /\ c = [k \in DOMAIN c |-> c[k]]
  /\ Keys(order) \subseteq DOMAIN c
  /\ \A k \in DOMAIN c : c[k] \in Frames
  /\ hist.skips = 0 => \A k \in DOMAIN c : c[k] = k

CacheInv == Cached(rt.order, cache, hist.decoded)

\* The second layer: the pictures the process still owes.
Owed == One(rd.pc = "pop", rd.pic) \o ff.out \o ff.in \o One(wr.pc = "write", wr.key)

PairInv ==
  /\ rt.session => Len(Owed) <= Len(sess.corr)
  /\ rt.session /\ hist.skips = 0 =>
       /\ \A i \in 1..Len(Owed) : Owed[i] = sess.corr[i]
       /\ wr.pc # "done" => Len(Owed) = Len(sess.corr)
       /\ rd.pc = "emit" => rd.key = rd.pic
       /\ \A i \in DOMAIN sess.events :
            sess.events[i].kind = "Decoded" => sess.events[i].pic = sess.events[i].key

AnswerInv == hist.skips = 0 => ShownPictureIsRecent

LostInv ==
  /\ IsFiniteSet(hist.consumed)
  /\ LostFramesAreCounted

DecoderInv ==
  /\ ServerInv /\ MainInv /\ ShownInv /\ SessionInv /\ FeedInv /\ CacheInv /\ PairInv
  /\ AnswerInv /\ LostInv /\ QueueLenCounts /\ OutputHasInput /\ hist.skips <= MaxSkips

-----------------------------------------------------------------------------
\* Induction over the naturals, for a set.
LEMMA NatInductive ==
  ASSUME NEW T, 0 \in T, \A n \in Nat : n \in T => n + 1 \in T
  PROVE  Nat \subseteq T
<1> SUFFICES ASSUME Nat \ T # {} PROVE FALSE
  OBVIOUS
<1> DEFINE R == OpToRel(<, Nat)
           U == Nat \ T
<1>1. \E x \in U : \A y \in U : ~(<<y, x>> \in R)
  <2>1. IsWellFoundedOn(R, Nat)
    BY NatLessThanWellFounded
  <2>2. U \subseteq Nat /\ U # {}
    OBVIOUS
  <2> HIDE DEF R, U
  <2> QED BY <2>1, <2>2, WFMin
<1>2. PICK m \in U : \A y \in U : ~(<<y, m>> \in R)
  BY <1>1
<1>3. m \in Nat /\ m # 0 /\ m - 1 \in Nat
  OBVIOUS
<1>4. <<m - 1, m>> \in R
  BY <1>3 DEF OpToRel
<1>5. m - 1 \in T
  BY <1>2, <1>3, <1>4
<1>6. (m - 1) + 1 \in T
  BY <1>3, <1>5
<1> QED BY <1>3, <1>6

(***************************************************************************)
(* The pictures among the first events.                                    *)
(***************************************************************************)
LEMMA DecodedCounts ==
  ASSUME NEW evs, NEW n \in Nat
  PROVE  /\ DecodedIn(evs, n) \in Nat /\ DecodedIn(evs, 0) = 0
         /\ DecodedIn(evs, n + 1) = DecodedIn(evs, n) + (IF evs[n + 1].kind = "Decoded" THEN 1 ELSE 0)
<1> DEFINE D(m) == {i \in 1..m : evs[i].kind = "Decoded"}
<1>1. \A m \in Nat : IsFiniteSet(D(m))
  <2> TAKE m \in Nat
  <2>1. IsFiniteSet(1..m) /\ D(m) \subseteq 1..m
    BY FS_Interval
  <2> QED BY <2>1, FS_Subset
<1>2. DecodedIn(evs, n) \in Nat
  BY <1>1, FS_CardinalityType DEF DecodedIn
<1>3. DecodedIn(evs, 0) = 0
  <2>1. D(0) = {}
    OBVIOUS
  <2> QED BY <2>1, FS_EmptySet DEF DecodedIn
<1>4. CASE evs[n + 1].kind = "Decoded"
  <2>1. D(n + 1) = D(n) \cup {n + 1} /\ n + 1 \notin D(n)
    BY <1>4
  <2>2. Cardinality(D(n + 1)) = Cardinality(D(n)) + 1
    BY <1>1, <2>1, FS_AddElement
  <2> QED BY <1>2, <1>3, <1>4, <2>2 DEF DecodedIn
<1>5. CASE evs[n + 1].kind # "Decoded"
  <2>1. D(n + 1) = D(n)
    <3>1. \A i \in 1..(n + 1) : i \in 1..n \/ i = n + 1
      OBVIOUS
    <3>2. 1..n \subseteq 1..(n + 1)
      OBVIOUS
    <3> QED BY <1>5, <3>1, <3>2
  <2> QED BY <1>2, <1>3, <1>5, <2>1 DEF DecodedIn
<1> QED BY <1>4, <1>5

\* Only the events up to a place count there.
LEMMA DecodedDepends ==
  ASSUME NEW evs, NEW more, NEW n \in Nat, \A i \in 1..n : more[i] = evs[i]
  PROVE  DecodedIn(more, n) = DecodedIn(evs, n)
<1>1. {i \in 1..n : more[i].kind = "Decoded"} = {i \in 1..n : evs[i].kind = "Decoded"}
  OBVIOUS
<1> QED BY <1>1 DEF DecodedIn

LEMMA DecodedGrows ==
  ASSUME NEW evs, NEW n \in Nat
  PROVE  \A m \in Nat : m <= n => DecodedIn(evs, m) <= DecodedIn(evs, n)
<1> DEFINE T == {k \in Nat : \A m \in Nat : m <= k => DecodedIn(evs, m) <= DecodedIn(evs, k)}
<1>0. \A k \in Nat : DecodedIn(evs, k) \in Nat
  BY DecodedCounts
<1>1. 0 \in T
  BY <1>0
<1>2. ASSUME NEW k \in Nat, k \in T PROVE k + 1 \in T
  <2>1. DecodedIn(evs, k) <= DecodedIn(evs, k + 1)
    BY <1>0, DecodedCounts
  <2>2. ASSUME NEW m \in Nat, m <= k + 1 PROVE DecodedIn(evs, m) <= DecodedIn(evs, k + 1)
    <3>1. CASE m = k + 1
      BY <1>0, <3>1
    <3>2. CASE m <= k
      <4>1. DecodedIn(evs, m) <= DecodedIn(evs, k)
        BY <1>2, <3>2
      <4>2. DecodedIn(evs, m) \in Nat /\ DecodedIn(evs, k) \in Nat /\ DecodedIn(evs, k + 1) \in Nat
        BY <1>0
      <4> QED BY <2>1, <4>1, <4>2
    <3> QED BY <2>2, <3>1, <3>2
  <2> QED BY <2>2
<1>3. Nat \subseteq T
  <2> HIDE DEF T
  <2> QED BY <1>1, <1>2, NatInductive
<1> QED BY <1>3

(***************************************************************************)
(* Draining: what the main thread has after each event.                    *)
(***************************************************************************)
Start == [order |-> rt.order, latest |-> rt.latest, cache |-> cache]

AfterEvent(g, evs, n) ==
  IF n = 0 THEN Start
  ELSE IF evs[n].kind = "Decoded" THEN ApplyDecoded(g[n - 1], evs[n])
  ELSE g[n - 1]

LEMMA DrainedStepwise ==
  ASSUME NEW evs, Len(evs) \in Nat
  PROVE  \E g : /\ \A n \in 0..Len(evs) : g[n] = AfterEvent(g, evs, n)
               /\ Drained(evs) = g[Len(evs)]
<1> DEFINE T == {n \in Nat : \E g : \A m \in 0..n : g[m] = AfterEvent(g, evs, m)}
           N == Len(evs)
<1>1. 0 \in T
  <2> DEFINE g == [m \in 0..0 |-> Start]
  <2>1. \A m \in 0..0 : g[m] = AfterEvent(g, evs, m)
    BY DEF AfterEvent
  <2> QED BY <2>1
<1>2. ASSUME NEW n \in Nat, n \in T PROVE n + 1 \in T
  <2>1. PICK g : \A m \in 0..n : g[m] = AfterEvent(g, evs, m)
    BY <1>2
  <2> DEFINE h == [m \in 0..(n + 1) |-> IF m = n + 1 THEN AfterEvent(g, evs, m) ELSE g[m]]
  <2>2. ASSUME NEW m \in 0..(n + 1) PROVE h[m] = AfterEvent(h, evs, m)
    <3>1. h[m] = AfterEvent(g, evs, m)
      BY <2>1
    <3>2. CASE m = 0
      BY <3>1, <3>2 DEF AfterEvent
    <3>3. CASE m # 0
      <4>1. m - 1 \in 0..(n + 1) /\ m - 1 # n + 1
        BY <3>3
      <4>2. h[m - 1] = g[m - 1]
        BY <4>1
      <4> HIDE DEF h
      <4> QED BY <3>1, <3>3, <4>2 DEF AfterEvent
    <3> QED BY <3>2, <3>3
  <2> HIDE DEF h
  <2>3. \A m \in 0..(n + 1) : h[m] = AfterEvent(h, evs, m)
    BY <2>2
  <2> QED BY <2>3
<1>3. Nat \subseteq T
  <2> HIDE DEF T
  <2> QED BY <1>1, <1>2, NatInductive
<1>4. PICK g : \A m \in 0..N : g[m] = AfterEvent(g, evs, m)
  BY <1>3
<1> DEFINE Body(f) == [n \in 0..N |-> AfterEvent(f, evs, n)]
           e == [n \in 0..N |-> g[n]]
<1>5. e = Body(e)
  <2>1. ASSUME NEW n \in 0..N PROVE AfterEvent(e, evs, n) = g[n]
    <3>1. CASE n = 0
      BY <1>4, <3>1 DEF AfterEvent
    <3>2. CASE n # 0
      <4>1. n - 1 \in 0..N
        BY <3>2
      <4>2. e[n - 1] = g[n - 1]
        BY <4>1
      <4> HIDE DEF e
      <4> QED BY <1>4, <3>2, <4>2 DEF AfterEvent
    <3> QED BY <3>1, <3>2
  <2> QED BY <2>1
<1> DEFINE after == CHOOSE f : f = Body(f)
<1>6. after = Body(after)
  <2> HIDE DEF Body, e
  <2> QED BY <1>5
<1>7. Drained(evs) = after[N]
  BY DEF Drained, AfterEvent, Start
<1> HIDE DEF after
<1>8. \A n \in 0..N : after[n] = AfterEvent(after, evs, n)
  BY <1>6
<1> QED BY <1>7, <1>8

LEMMA ApplyDecodedKeeps ==
  ASSUME DecoderAssumption, hist \in HistoryType,
         NEW acc, NEW d \in Nat, NEW e, Cached(acc.order, acc.cache, d),
         d + 1 <= Len(hist.fed), e.key = hist.fed[d + 1],
         e.pic \in Slot0Frames, hist.skips = 0 => e.pic = e.key
  PROVE  /\ Cached(ApplyDecoded(acc, e).order, ApplyDecoded(acc, e).cache, d + 1)
         /\ ApplyDecoded(acc, e).latest \in Nat
<1> DEFINE order == Append(acc.order, e.key)
           kept == EvictFrom(order)
           gone == ToSet(order) \ ToSet(kept)
           c == [k \in DOMAIN acc.cache \cup {e.key} |-> IF k = e.key THEN e.pic ELSE acc.cache[k]]
           r == ApplyDecoded(acc, e)
           L == Len(acc.order)
<1>1. r.order = kept /\ r.latest = e.key.id /\ r.cache = [k \in DOMAIN c \ gone |-> c[k]]
  BY DEF ApplyDecoded
<1>2. hist.fed \in Seq(Slot0Frames) /\ e.key \in Slot0Frames
  BY DEF HistoryType
<1>3. e.key.id \in Nat /\ Slot0Frames \subseteq Frames
  BY <1>2 DEF Slot0Frames, Slot0, Frames
<1>4. acc.order \in Seq(Slot0Frames) /\ L \in Nat /\ L <= QueueBound /\ L <= d
      /\ \A i \in 1..L : acc.order[i] = hist.fed[d - L + i]
  <2>1. acc.order \in Seq(Slot0Frames) /\ L <= QueueBound /\ L <= d
    BY DEF Cached
  <2>2. L \in Nat
    BY <2>1
  <2>3. \A i \in 1..L : acc.order[i] = hist.fed[d - L + i]
    BY DEF Cached
  <2> QED BY <2>1, <2>2, <2>3
<1>5. order \in Seq(Slot0Frames) /\ Len(order) = L + 1
      /\ \A i \in 1..(L + 1) : order[i] = hist.fed[(d + 1) - (L + 1) + i]
  <2> DEFINE s == acc.order
             h == hist.fed
             x == e.key
  <2>1. s \in Seq(Slot0Frames) /\ x \in Slot0Frames /\ x = h[d + 1]
        /\ \A i \in 1..Len(s) : s[i] = h[d - Len(s) + i]
    BY <1>2, <1>4
  <2>2. Len(s) \in Nat /\ Len(s) <= d
    BY <1>4
  <2> HIDE DEF s, h, x
  <2>3. Append(s, x) \in Seq(Slot0Frames) /\ Len(Append(s, x)) = Len(s) + 1
        /\ Append(s, x)[Len(s) + 1] = x /\ \A i \in 1..Len(s) : Append(s, x)[i] = s[i]
    BY <2>1
  <2>4. ASSUME NEW i \in 1..(Len(s) + 1) PROVE Append(s, x)[i] = h[(d + 1) - (Len(s) + 1) + i]
    <3>1. CASE i = Len(s) + 1
      <4>1. (d + 1) - (Len(s) + 1) + i = d + 1
        BY <2>2, <3>1
      <4> QED BY <2>1, <2>3, <3>1, <4>1
    <3>2. CASE i # Len(s) + 1
      <4>1. i \in 1..Len(s) /\ (d + 1) - (Len(s) + 1) + i = d - Len(s) + i
        BY <2>2, <3>2
      <4> QED BY <2>1, <2>3, <4>1
    <3> QED BY <3>1, <3>2
  <2> QED BY <2>3, <2>4 DEF s, h, x
<1>6. QueueBound \in Nat \ {0}
  BY DEF DecoderAssumption
<1> HIDE DEF order, L
<1>7. /\ kept \in Seq(Slot0Frames) /\ Len(kept) <= QueueBound /\ Len(kept) <= d + 1
      /\ \A i \in 1..Len(kept) : kept[i] = hist.fed[(d + 1) - Len(kept) + i]
      /\ Keys(kept) \subseteq Keys(order)
  <2>1. CASE L + 1 > QueueBound
    <3>1. kept = Tail(order)
      BY <1>5, <2>1 DEF EvictFrom
    <3>2. Tail(order) \in Seq(Slot0Frames) /\ Len(Tail(order)) = L
          /\ \A i \in 1..L : Tail(order)[i] = order[i + 1]
      BY <1>4, <1>5
    <3>3. \A i \in 1..L : Tail(order)[i] = hist.fed[(d + 1) - L + i]
      <4> TAKE i \in 1..L
      <4>1. i + 1 \in 1..(L + 1) /\ (d + 1) - (L + 1) + (i + 1) = (d + 1) - L + i
        BY <1>4
      <4>2. order[i + 1] = hist.fed[(d + 1) - (L + 1) + (i + 1)]
        BY <1>5, <4>1
      <4> QED BY <3>2, <4>1, <4>2
    <3>4. DOMAIN Tail(order) = 1..L /\ DOMAIN order = 1..(L + 1)
      BY <1>5, <3>2
    <3>5. Keys(Tail(order)) \subseteq Keys(order)
      <4> SUFFICES ASSUME NEW i \in 1..L PROVE Tail(order)[i] \in Keys(order)
        BY <3>4 DEF Keys
      <4>1. i + 1 \in 1..(L + 1)
        BY <1>4
      <4> QED BY <3>2, <3>4, <4>1 DEF Keys
    <3> HIDE DEF kept
    <3>6. Len(kept) = L
      BY <3>1, <3>2
    <3>7. L <= d + 1
      BY <1>4
    <3>8. \A i \in 1..L : kept[i] = hist.fed[(d + 1) - L + i]
      BY <3>1, <3>3
    <3> QED BY <1>4, <3>1, <3>2, <3>5, <3>6, <3>7, <3>8
  <2>2. CASE ~(L + 1 > QueueBound)
    <3>1. kept = order
      BY <1>5, <2>2 DEF EvictFrom
    <3> HIDE DEF kept
    <3>2. L + 1 <= QueueBound /\ L + 1 <= d + 1
      BY <1>4, <1>6, <2>2
    <3> QED BY <1>5, <3>1, <3>2
  <2> QED BY <2>1, <2>2
<1>8. DOMAIN c = DOMAIN acc.cache \cup {e.key} /\ e.key \in Frames
      /\ DOMAIN acc.cache \subseteq Frames /\ Keys(acc.order) \subseteq DOMAIN acc.cache
  BY <1>2, <1>3 DEF Cached
<1>9. Keys(order) \subseteq DOMAIN c
  <2> SUFFICES ASSUME NEW i \in 1..(L + 1) PROVE order[i] \in DOMAIN c
    <3>1. DOMAIN order = 1..(L + 1)
      BY <1>5
    <3> QED BY <3>1 DEF Keys
  <2>1. CASE i = L + 1
    <3>1. order[i] = e.key
      BY <1>4, <2>1 DEF order, L
    <3> QED BY <1>8, <3>1
  <2>2. CASE i # L + 1
    <3>1. i \in 1..L /\ DOMAIN acc.order = 1..L
      <4>1. DOMAIN acc.order = 1..L
        BY <1>4 DEF L
      <4> QED BY <1>4, <2>2, <4>1
    <3>2. order[i] = acc.order[i]
      BY <1>2, <1>4, <3>1 DEF order, L
    <3> QED BY <1>8, <3>1, <3>2 DEF Keys
  <2> QED BY <2>1, <2>2
<1>10. Keys(kept) \cap gone = {}
  BY DEF Keys, ToSet
<1>11. \A k \in DOMAIN c : c[k] \in Frames /\ (hist.skips = 0 => c[k] = k)
  BY <1>3, <1>8 DEF Cached
<1> HIDE DEF kept, c, gone, r
<1>12. /\ DOMAIN r.cache \subseteq Frames /\ r.cache = [k \in DOMAIN r.cache |-> r.cache[k]]
       /\ Keys(kept) \subseteq DOMAIN r.cache
       /\ \A k \in DOMAIN r.cache : r.cache[k] \in Frames
       /\ hist.skips = 0 => \A k \in DOMAIN r.cache : r.cache[k] = k
  BY <1>1, <1>7, <1>8, <1>9, <1>10, <1>11
<1>13. Cached(r.order, r.cache, d + 1)
  BY <1>1, <1>7, <1>12 DEF Cached
<1> QED BY <1>1, <1>3, <1>13 DEF r

\* What draining all waiting events leaves.
LEMMA DrainedKeeps ==
  ASSUME DecoderAssumption, SessionInv, FeedInv, CacheInv, PairInv
  PROVE  LET r == Drained(sess.events)
         IN /\ Cached(r.order, r.cache, hist.decoded + Emitted)
            /\ r.latest \in Nat
<1> DEFINE evs == sess.events
           N == Len(evs)
           D(n) == hist.decoded + DecodedIn(evs, n)
<1>1. evs \in Seq(Events) /\ N \in Nat /\ DOMAIN evs = 1..N
  BY DEF SessionInv, SessionType
<1>2. hist \in HistoryType /\ hist.decoded \in Nat /\ hist.fed \in Seq(Slot0Frames) /\ Len(hist.fed) \in Nat
  BY DEF FeedInv, HistoryType
<1>3. PICK g : (\A n \in 0..N : g[n] = AfterEvent(g, evs, n)) /\ Drained(evs) = g[N]
  BY <1>1, DrainedStepwise
<1>4. \A n \in Nat : DecodedIn(evs, n) \in Nat
  BY DecodedCounts
<1>5. \A n \in 1..N : evs[n].kind = "Decoded" =>
        /\ evs[n].pic \in Slot0Frames
        /\ evs[n].key = hist.fed[D(n)]
        /\ hist.skips = 0 => evs[n].pic = evs[n].key
  <2>1. ~rt.session => N = 0
    BY DEF SessionInv
  <2> QED BY <1>1, <2>1 DEF SessionInv, FeedInv, PairInv
<1>6. \A n \in Nat : n <= N => D(n) <= Len(hist.fed)
  <2>1. D(N) <= Len(hist.fed)
    BY DEF FeedInv, Emitted
  <2>2. \A n \in Nat : n <= N => DecodedIn(evs, n) <= DecodedIn(evs, N)
    BY <1>1, DecodedGrows
  <2>3. DecodedIn(evs, N) \in Nat
    BY <1>1, <1>4
  <2> SUFFICES ASSUME NEW n \in Nat, n <= N PROVE D(n) <= Len(hist.fed)
    OBVIOUS
  <2> DEFINE x == DecodedIn(evs, n)
             y == DecodedIn(evs, N)
  <2>4. x \in Nat /\ y \in Nat /\ x <= y /\ hist.decoded + y <= Len(hist.fed)
    BY <1>4, <2>1, <2>2, <2>3
  <2> HIDE DEF x, y
  <2>5. hist.decoded + x <= Len(hist.fed)
    BY <1>2, <2>4
  <2> QED BY <2>5 DEF x
<1> DEFINE Good(n) == Cached(g[n].order, g[n].cache, D(n)) /\ g[n].latest \in Nat
           T == {n \in Nat : n <= N => Good(n)}
<1>7. 0 \in T
  <2>1. g[0] = Start
    BY <1>1, <1>3 DEF AfterEvent
  <2>2. D(0) = hist.decoded
    BY <1>2, DecodedCounts
  <2>3. Start.order = rt.order /\ Start.latest = rt.latest /\ Start.cache = cache /\ rt.latest \in Nat
    BY DEF Start, SessionInv, RuntimeType
  <2> QED BY <2>1, <2>2, <2>3 DEF CacheInv
<1>8. ASSUME NEW n \in Nat, n \in T PROVE n + 1 \in T
  <2> SUFFICES ASSUME n + 1 <= N PROVE Good(n + 1)
    OBVIOUS
  <2>1. Good(n)
    BY <1>1, <1>8
  <2>2. n + 1 \in 0..N /\ n + 1 \in 1..N /\ n + 1 # 0 /\ (n + 1) - 1 = n
    BY <1>1
  <2>3. g[n + 1] = AfterEvent(g, evs, n + 1)
    BY <1>3, <2>2
  <2>4. DecodedIn(evs, n + 1) = DecodedIn(evs, n) + (IF evs[n + 1].kind = "Decoded" THEN 1 ELSE 0)
    BY DecodedCounts
  <2>5. CASE evs[n + 1].kind = "Decoded"
    <3>1. g[n + 1] = ApplyDecoded(g[n], evs[n + 1])
      BY <2>2, <2>3, <2>5 DEF AfterEvent
    <3>2. D(n + 1) = D(n) + 1 /\ D(n) \in Nat
      <4> DEFINE x == DecodedIn(evs, n)
                 y == DecodedIn(evs, n + 1)
      <4>1. x \in Nat /\ y = x + 1
        BY <1>4, <2>4, <2>5
      <4> HIDE DEF x, y
      <4>2. hist.decoded + y = hist.decoded + x + 1 /\ hist.decoded + x \in Nat
        BY <1>2, <4>1
      <4> QED BY <4>2 DEF x, y
    <3>3. D(n) + 1 <= Len(hist.fed)
      BY <1>6, <2>2, <3>2
    <3>4. /\ evs[n + 1].pic \in Slot0Frames
          /\ evs[n + 1].key = hist.fed[D(n) + 1]
          /\ hist.skips = 0 => evs[n + 1].pic = evs[n + 1].key
      BY <1>5, <2>2, <2>5, <3>2
    <3> DEFINE d == D(n)
               a == g[n]
               e == evs[n + 1]
    <3>5. d \in Nat /\ Cached(a.order, a.cache, d) /\ d + 1 <= Len(hist.fed) /\ e.key = hist.fed[d + 1]
          /\ e.pic \in Slot0Frames /\ (hist.skips = 0 => e.pic = e.key)
      BY <2>1, <3>2, <3>3, <3>4
    <3> HIDE DEF d, a, e
    <3>6. Cached(ApplyDecoded(a, e).order, ApplyDecoded(a, e).cache, d + 1) /\ ApplyDecoded(a, e).latest \in Nat
      BY <1>2, <3>5, ApplyDecodedKeeps
    <3> QED BY <3>1, <3>2, <3>6 DEF d, a, e
  <2>6. CASE evs[n + 1].kind # "Decoded"
    <3>1. g[n + 1] = g[n]
      BY <2>2, <2>3, <2>6 DEF AfterEvent
    <3>2. D(n + 1) = D(n)
      BY <1>2, <1>4, <2>4, <2>6
    <3> QED BY <2>1, <3>1, <3>2
  <2> QED BY <2>5, <2>6
<1>9. Nat \subseteq T
  <2> HIDE DEF T
  <2> QED BY <1>7, <1>8, NatInductive
<1>10. Good(N)
  BY <1>1, <1>9
<1> QED BY <1>3, <1>10 DEF Emitted

(***************************************************************************)
(* Concatenations whose boundaries move.                                   *)
(***************************************************************************)
LEMMA OneIsASeq ==
  ASSUME NEW S, NEW present \in BOOLEAN, NEW k, present => k \in S
  PROVE  One(present, k) \in Seq(S) /\ Len(One(present, k)) = IF present THEN 1 ELSE 0
<1>1. CASE present
  BY <1>1 DEF One
<1>2. CASE ~present
  BY <1>2 DEF One
<1> QED BY <1>1, <1>2

\* The first element of the second part becomes the last of the first.
LEMMA MoveHead ==
  ASSUME NEW S, NEW s \in Seq(S), NEW t \in Seq(S), t # <<>>
  PROVE  s \o t = (s \o <<Head(t)>>) \o Tail(t)
<1>1. Head(t) \in S /\ Tail(t) \in Seq(S) /\ t = <<Head(t)>> \o Tail(t)
  <2>1. Head(t) \in S /\ Tail(t) \in Seq(S) /\ <<Head(t)>> \in Seq(S)
    BY HeadTailProperties
  <2>2. <<Head(t)>> \o Tail(t) = t
    <3> DEFINE u == <<Head(t)>> \o Tail(t)
    <3>1. u \in Seq(S) /\ Len(u) = Len(<<Head(t)>>) + Len(Tail(t))
          /\ \A i \in 1..(Len(<<Head(t)>>) + Len(Tail(t))) :
               u[i] = IF i <= Len(<<Head(t)>>) THEN <<Head(t)>>[i] ELSE Tail(t)[i - Len(<<Head(t)>>)]
      BY <2>1, ConcatProperties
    <3>2. Len(<<Head(t)>>) = 1 /\ <<Head(t)>>[1] = Head(t) /\ Head(t) = t[1]
      OBVIOUS
    <3>3. Len(t) \in Nat \ {0} /\ Len(Tail(t)) = Len(t) - 1
          /\ \A i \in 1..Len(Tail(t)) : Tail(t)[i] = t[i + 1]
      BY EmptySeq, HeadTailProperties
    <3> HIDE DEF u
    <3>4. Len(u) = Len(t)
      BY <3>1, <3>2, <3>3
    <3>5. ASSUME NEW i \in 1..Len(t) PROVE u[i] = t[i]
      <4>1. u[i] = IF i <= 1 THEN <<Head(t)>>[i] ELSE Tail(t)[i - 1]
        BY <3>1, <3>2, <3>3
      <4>2. CASE i = 1
        BY <3>2, <4>1, <4>2
      <4>3. CASE i # 1
        <5>1. i - 1 \in 1..Len(Tail(t)) /\ (i - 1) + 1 = i /\ ~(i <= 1)
          BY <3>3, <4>3
        <5> QED BY <3>3, <4>1, <5>1
      <4> QED BY <4>2, <4>3
    <3>6. u = t
      BY <3>1, <3>4, <3>5, SeqEqual
    <3> QED BY <3>6 DEF u
  <2> QED BY <2>1, <2>2
<1>2. <<Head(t)>> \in Seq(S)
  BY <1>1
<1>3. (s \o <<Head(t)>>) \o Tail(t) = s \o (<<Head(t)>> \o Tail(t))
  BY <1>1, <1>2, ConcatAssociative
<1> QED BY <1>1, <1>3

LEMMA AppendLast ==
  ASSUME NEW S, NEW s \in Seq(S), NEW t \in Seq(S), NEW x \in S
  PROVE  /\ s \o Append(t, x) = Append(s \o t, x)
         /\ s \o <<x>> = Append(s, x)
<1>1. Append(t, x) = t \o <<x>> /\ <<x>> \in Seq(S)
  BY AppendIsConcat
<1>2. s \o t \in Seq(S)
  BY ConcatProperties
<1>3. Append(s \o t, x) = (s \o t) \o <<x>>
  BY <1>2, AppendIsConcat
<1>4. (s \o t) \o <<x>> = s \o (t \o <<x>>)
  BY <1>1, ConcatAssociative
<1>5. Append(s, x) = s \o <<x>>
  BY AppendIsConcat
<1> QED BY <1>1, <1>3, <1>4, <1>5

\* What follows the first element.
LEMMA AfterFirst ==
  ASSUME NEW S, NEW k \in S, NEW t \in Seq(S)
  PROVE  /\ <<k>> \o t \in Seq(S) /\ Len(<<k>> \o t) = Len(t) + 1
         /\ (<<k>> \o t)[1] = k /\ \A i \in 1..Len(t) : (<<k>> \o t)[i + 1] = t[i]
<1>1. <<k>> \in Seq(S) /\ Len(<<k>>) = 1 /\ <<k>>[1] = k /\ Len(t) \in Nat
  OBVIOUS
<1> DEFINE u == <<k>> \o t
<1>2. u \in Seq(S) /\ Len(u) = 1 + Len(t)
      /\ \A i \in 1..(1 + Len(t)) : u[i] = IF i <= 1 THEN <<k>>[i] ELSE t[i - 1]
  <2>1. u \in Seq(S) /\ Len(u) = Len(<<k>>) + Len(t)
        /\ \A i \in 1..(Len(<<k>>) + Len(t)) : u[i] = IF i <= Len(<<k>>) THEN <<k>>[i] ELSE t[i - Len(<<k>>)]
    BY <1>1, ConcatProperties
  <2> HIDE DEF u
  <2> QED BY <1>1, <2>1
<1> HIDE DEF u
<1>3. u[1] = k /\ Len(u) = Len(t) + 1
  BY <1>1, <1>2
<1>4. ASSUME NEW i \in 1..Len(t) PROVE u[i + 1] = t[i]
  <2>1. i + 1 \in 1..(1 + Len(t)) /\ ~(i + 1 <= 1) /\ (i + 1) - 1 = i
    BY <1>1
  <2> QED BY <1>2, <2>1
<1> QED BY <1>2, <1>3, <1>4 DEF u

(***************************************************************************)
(* What keeps each part of the invariant.                                  *)
(***************************************************************************)
LEMMA FeedKept ==
  ASSUME FeedInv, hist' \in HistoryType, hist'.fed = hist.fed, hist'.decoded = hist.decoded,
         rt'.enqueued = rt.enqueued, rt'.session = rt.session,
         sess'.events = sess.events, InPipeline' = InPipeline
  PROVE  FeedInv'
BY DEF FeedInv, Emitted

LEMMA CacheKept ==
  ASSUME CacheInv, rt'.order = rt.order, cache' = cache, hist'.fed = hist.fed,
         hist'.decoded = hist.decoded, hist'.skips = 0 => hist.skips = 0
  PROVE  CacheInv'
BY DEF CacheInv, Cached

LEMMA PairKept ==
  ASSUME PairInv, rt'.session = rt.session, hist'.skips = hist.skips, Owed' = Owed,
         sess'.corr = sess.corr, sess'.events = sess.events,
         wr'.pc # "done" => wr.pc # "done",
         rd'.pc = "emit" => rd.pc = "emit" /\ rd'.key = rd.key /\ rd'.pic = rd.pic
  PROVE  PairInv'
BY DEF PairInv

\* The main thread moves without touching the runtime or its threads.
LEMMA MainMoves ==
  ASSUME DecoderInv, UNCHANGED <<rt, sess, ff, wr, rd>>, hist' \in HistoryType,
         hist'.fed = hist.fed, hist'.decoded = hist.decoded, hist'.skips = hist.skips,
         (main'.pc = "send") = (main.pc = "send"),
         main.ret = "ended" => main'.ret = "ended"
  PROVE  /\ SessionInv' /\ FeedInv' /\ PairInv' /\ QueueLenCounts' /\ OutputHasInput'
         /\ hist'.skips <= MaxSkips
<1>1. SessionInv'
  BY DEF DecoderInv, SessionInv
<1>2. FeedInv'
  <2>1. InPipeline' = InPipeline
    BY DEF InPipeline
  <2> QED BY <2>1, FeedKept DEF DecoderInv
<1>3. PairInv'
  <2>1. Owed' = Owed
    BY DEF Owed
  <2> QED BY <2>1, PairKept DEF DecoderInv
<1>4. QueueLenCounts' /\ OutputHasInput' /\ hist'.skips <= MaxSkips
  BY DEF DecoderInv, QueueLenCounts, OutputHasInput
<1> QED BY <1>1, <1>2, <1>3, <1>4

\* A thread of the session or the process moves.
LEMMA ThreadMoves ==
  ASSUME DecoderInv, UNCHANGED <<queue, arrived, target, rt, cache, main, shown>>,
         hist' = hist
  PROVE  ServerInv' /\ MainInv' /\ ShownInv' /\ CacheInv' /\ AnswerInv' /\ LostInv'
         /\ hist'.skips <= MaxSkips
<1>1. CacheInv'
  BY CacheKept DEF DecoderInv
<1>2. ServerInv' /\ MainInv' /\ ShownInv'
  BY DEF DecoderInv, ServerInv, MainInv, ShownInv
<1>3. AnswerInv' /\ LostInv' /\ hist'.skips <= MaxSkips
  BY DEF DecoderInv, AnswerInv, ShownPictureIsRecent, LostInv, LostFramesAreCounted
<1> QED BY <1>1, <1>2, <1>3

\* The types of the pieces the two layers are put together from.
LEMMA Pieces ==
  ASSUME DecoderInv
  PROVE  /\ sess.chan \in Seq(Slot0Frames) /\ sess.corr \in Seq(Slot0Frames)
         /\ ff.in \in Seq(Slot0Frames) /\ ff.out \in Seq(Slot0Frames)
         /\ One(rd.pc = "emit", rd.key) \in Seq(Slot0Frames)
         /\ One(wr.pc = "push", wr.key) \in Seq(Slot0Frames)
         /\ One(rd.pc = "pop", rd.pic) \in Seq(Slot0Frames)
         /\ One(wr.pc = "write", wr.key) \in Seq(Slot0Frames)
         /\ sess.events \in Seq(Events) /\ sess.qlen \in Nat
<1>1. SessionInv
  BY DEF DecoderInv
<1>2. /\ sess.chan \in Seq(Slot0Frames) /\ sess.corr \in Seq(Slot0Frames)
      /\ sess.events \in Seq(Events) /\ sess.qlen \in Nat
      /\ ff.in \in Seq(Slot0Frames) /\ ff.out \in Seq(Slot0Frames)
  BY <1>1 DEF SessionInv, SessionType, ProcessType
<1>3. /\ rd.pc = "emit" => rd.key \in Slot0Frames
      /\ rd.pc = "pop" => rd.pic \in Slot0Frames
      /\ wr.pc \in {"push", "write"} => wr.key \in Slot0Frames
  BY <1>1 DEF SessionInv
<1> QED BY <1>2, <1>3, OneIsASeq

LEMMA InSession ==
  ASSUME DecoderInv, wr.pc # "none" \/ rd.pc # "none" \/ ff.state # "none"
  PROVE  rt.session
BY DEF DecoderInv, SessionInv

\* One field of the shared state of a session is replaced, and the others stay.
LEMMA SetChan ==
  ASSUME NEW s \in SessionType, NEW x \in Seq(Slot0Frames)
  PROVE  LET t == [s EXCEPT !.chan = x]
         IN /\ t \in SessionType /\ t.chan = x
            /\ t.open = s.open /\ t.qlen = s.qlen /\ t.corr = s.corr /\ t.events = s.events
<1> DEFINE A == Seq(Slot0Frames)
           E == Seq(Events)
           T == [open : BOOLEAN, chan : A, qlen : Nat, corr : A, events : E]
           t == [s EXCEPT !.chan = x]
<1>1. T = SessionType
  BY DEF SessionType
<1>2. s \in T /\ x \in Seq(Slot0Frames)
  BY <1>1
<1> HIDE DEF A, E
<1>3. t \in T /\ t.chan = x /\ t.open = s.open /\ t.qlen = s.qlen /\ t.corr = s.corr /\ t.events = s.events
  BY <1>2 DEF A
<1> QED BY <1>1, <1>3

LEMMA SetQlen ==
  ASSUME NEW s \in SessionType, NEW x \in Nat
  PROVE  LET t == [s EXCEPT !.qlen = x]
         IN /\ t \in SessionType /\ t.qlen = x
            /\ t.open = s.open /\ t.chan = s.chan /\ t.corr = s.corr /\ t.events = s.events
<1> DEFINE A == Seq(Slot0Frames)
           E == Seq(Events)
           T == [open : BOOLEAN, chan : A, qlen : Nat, corr : A, events : E]
           t == [s EXCEPT !.qlen = x]
<1>1. T = SessionType
  BY DEF SessionType
<1>2. s \in T /\ x \in Nat
  BY <1>1
<1> HIDE DEF A, E
<1>3. t \in T /\ t.qlen = x /\ t.open = s.open /\ t.chan = s.chan /\ t.corr = s.corr /\ t.events = s.events
  BY <1>2
<1> QED BY <1>1, <1>3

LEMMA SetCorr ==
  ASSUME NEW s \in SessionType, NEW x \in Seq(Slot0Frames)
  PROVE  LET t == [s EXCEPT !.corr = x]
         IN /\ t \in SessionType /\ t.corr = x
            /\ t.open = s.open /\ t.chan = s.chan /\ t.qlen = s.qlen /\ t.events = s.events
<1> DEFINE A == Seq(Slot0Frames)
           E == Seq(Events)
           T == [open : BOOLEAN, chan : A, qlen : Nat, corr : A, events : E]
           t == [s EXCEPT !.corr = x]
<1>1. T = SessionType
  BY DEF SessionType
<1>2. s \in T /\ x \in Seq(Slot0Frames)
  BY <1>1
<1> HIDE DEF A, E
<1>3. t \in T /\ t.corr = x /\ t.open = s.open /\ t.chan = s.chan /\ t.qlen = s.qlen /\ t.events = s.events
  BY <1>2 DEF A
<1> QED BY <1>1, <1>3

LEMMA SetEvents ==
  ASSUME NEW s \in SessionType, NEW x \in Seq(Events)
  PROVE  LET t == [s EXCEPT !.events = x]
         IN /\ t \in SessionType /\ t.events = x
            /\ t.open = s.open /\ t.chan = s.chan /\ t.qlen = s.qlen /\ t.corr = s.corr
<1> DEFINE A == Seq(Slot0Frames)
           E == Seq(Events)
           T == [open : BOOLEAN, chan : A, qlen : Nat, corr : A, events : E]
           t == [s EXCEPT !.events = x]
<1>1. T = SessionType
  BY DEF SessionType
<1>2. s \in T /\ x \in Seq(Events)
  BY <1>1
<1> HIDE DEF A, E
<1>3. t \in T /\ t.events = x /\ t.open = s.open /\ t.chan = s.chan /\ t.qlen = s.qlen /\ t.corr = s.corr
  BY <1>2 DEF E
<1> QED BY <1>1, <1>3

LEMMA SetOpen ==
  ASSUME NEW s \in SessionType, NEW x \in BOOLEAN
  PROVE  LET t == [s EXCEPT !.open = x]
         IN /\ t \in SessionType /\ t.open = x
            /\ t.chan = s.chan /\ t.qlen = s.qlen /\ t.corr = s.corr /\ t.events = s.events
<1> DEFINE A == Seq(Slot0Frames)
           E == Seq(Events)
           T == [open : BOOLEAN, chan : A, qlen : Nat, corr : A, events : E]
           t == [s EXCEPT !.open = x]
<1>1. T = SessionType
  BY DEF SessionType
<1>2. s \in T /\ x \in BOOLEAN
  BY <1>1
<1> HIDE DEF A, E
<1>3. t \in T /\ t.open = x /\ t.chan = s.chan /\ t.qlen = s.qlen /\ t.corr = s.corr /\ t.events = s.events
  BY <1>2
<1> QED BY <1>1, <1>3

LEMMA WriterRecvKeeps ==
  ASSUME DecoderAssumption, DecoderInv, WriterRecv
  PROVE  DecoderInv'
<1>0. ServerInv' /\ MainInv' /\ ShownInv' /\ CacheInv' /\ AnswerInv' /\ LostInv' /\ hist'.skips <= MaxSkips
  BY ThreadMoves DEF WriterRecv
<1>1. rt.session /\ wr.pc = "recv"
  BY InSession DEF WriterRecv
<1>2. SessionInv /\ FeedInv /\ PairInv /\ QueueLenCounts /\ OutputHasInput
  BY DEF DecoderInv
<1>3. One(wr.pc = "push", wr.key) = <<>> /\ One(wr.pc = "write", wr.key) = <<>>
  BY <1>1 DEF One
<1>4. CASE /\ sess.chan # <<>>
           /\ wr' = [pc |-> "push", key |-> Head(sess.chan)]
           /\ sess' = [sess EXCEPT !.chan = Tail(@), !.qlen = @ - 1]
  <2>1. Head(sess.chan) \in Slot0Frames /\ Tail(sess.chan) \in Seq(Slot0Frames)
        /\ Len(Tail(sess.chan)) = Len(sess.chan) - 1 /\ Len(sess.chan) \in Nat \ {0}
    BY <1>4, Pieces, HeadTailProperties, EmptySeq
  <2>2. sess.qlen \in Nat /\ sess.qlen = Len(sess.chan) + (IF main.pc = "send" THEN 1 ELSE 0)
    BY <1>1, <1>2, Pieces DEF QueueLenCounts
  <2>3. sess \in SessionType
    BY <1>2 DEF SessionInv
  <2>4. /\ sess' \in SessionType /\ sess'.chan = Tail(sess.chan) /\ sess'.qlen = sess.qlen - 1
        /\ sess'.events = sess.events /\ sess'.corr = sess.corr
    <3> DEFINE c == Tail(sess.chan)
               q == sess.qlen - 1
               t == [sess EXCEPT !.chan = c]
    <3>1. c \in Seq(Slot0Frames) /\ q \in Nat
      <4> DEFINE n == Len(sess.chan)
                 b == IF main.pc = "send" THEN 1 ELSE 0
      <4>1. n \in Nat \ {0} /\ b \in {0, 1} /\ sess.qlen = n + b
        BY <2>1, <2>2
      <4> HIDE DEF n, b
      <4>2. sess.qlen - 1 \in Nat
        BY <4>1
      <4> QED BY <2>1, <4>2
    <3>2. sess' = [t EXCEPT !.qlen = q]
      BY <1>4
    <3> HIDE DEF c, q
    <3>3. t \in SessionType /\ t.chan = c /\ t.events = sess.events /\ t.corr = sess.corr
      BY <2>3, <3>1, SetChan
    <3> HIDE DEF t
    <3>4. sess' \in SessionType /\ sess'.chan = t.chan /\ sess'.qlen = q
          /\ sess'.events = t.events /\ sess'.corr = t.corr
      BY <3>1, <3>2, <3>3, SetQlen
    <3> QED BY <3>3, <3>4 DEF c, q
  <2>5. wr'.pc = "push" /\ wr'.key = Head(sess.chan) /\ wr' \in WriterType
    BY <1>4, <2>1 DEF WriterType, OrNone
  <2>6. UNCHANGED <<rt, rd, ff, main, hist>>
    BY DEF WriterRecv
  <2>7. SessionInv'
    <3>1. Len(sess.chan) <= QueueBound /\ rt.session /\ rd.pc # "none"
      BY <1>1, <1>2 DEF SessionInv
    <3>2. rt' = rt /\ ff' = ff /\ rd' = rd
      BY <2>6
    <3>3. rt' \in RuntimeType /\ ff' \in ProcessType /\ rd' \in ReaderType /\ rt'.session
          /\ Len(ff'.in) <= PipeBound /\ Len(ff'.out) <= PipeBound
          /\ (rd'.pc \in {"pop", "emit"} => rd'.pic \in Slot0Frames)
          /\ (rd'.pc = "emit" => rd'.key \in Slot0Frames)
      BY <1>2, <3>1, <3>2 DEF SessionInv
    <3>4. \A i \in DOMAIN sess'.events : sess'.events[i].kind = "Decoded" => sess'.events[i].pic \in Slot0Frames
      BY <1>2, <2>4 DEF SessionInv
    <3>5. Len(sess'.chan) <= QueueBound
      <4> DEFINE n == Len(sess.chan)
      <4>1. n \in Nat /\ n <= QueueBound /\ Len(sess'.chan) = n - 1
        BY <2>1, <2>4, <3>1
      <4> HIDE DEF n
      <4>2. QueueBound \in Nat
        BY DEF DecoderAssumption
      <4> QED BY <4>1, <4>2
    <3>6. wr'.key \in Slot0Frames /\ wr'.pc # "none"
      BY <2>1, <2>5
    <3> QED BY <2>4, <2>5, <3>1, <3>2, <3>3, <3>4, <3>5, <3>6 DEF SessionInv
  <2>8. QueueLenCounts' /\ OutputHasInput'
    <3> DEFINE n == Len(sess.chan)
               b == IF main.pc = "send" THEN 1 ELSE 0
    <3>1. n \in Nat \ {0} /\ b \in {0, 1} /\ sess.qlen = n + b /\ Len(sess'.chan) = n - 1
          /\ sess'.qlen = sess.qlen - 1
      BY <2>1, <2>2, <2>4
    <3>2. b' = b
      BY <2>6
    <3> HIDE DEF n
    <3>3. sess'.qlen = Len(sess'.chan) + b
      <4> HIDE DEF b
      <4> QED BY <3>1
    <3>4. QueueLenCounts'
      BY <2>6, <3>3 DEF QueueLenCounts
    <3> QED BY <1>2, <2>4, <3>4 DEF OutputHasInput
  <2>9. InPipeline' = InPipeline
    <3> DEFINE A == One(rd.pc = "emit", rd.key) \o sess.corr
    <3>1. A \in Seq(Slot0Frames) /\ A \o <<>> = A
      BY Pieces, ConcatProperties, ConcatEmptySeq
    <3>2. A \o sess.chan = (A \o <<Head(sess.chan)>>) \o Tail(sess.chan)
      BY <1>4, <3>1, Pieces, MoveHead
    <3>3. InPipeline' = A \o <<Head(sess.chan)>> \o Tail(sess.chan)
      BY <2>4, <2>5, <2>6 DEF InPipeline, One
    <3>4. InPipeline = A \o <<>> \o sess.chan
      BY <1>3 DEF InPipeline
    <3> HIDE DEF A
    <3> QED BY <3>1, <3>2, <3>3, <3>4
  <2>10. Owed' = Owed
    BY <1>3, <2>5, <2>6 DEF Owed, One
  <2>11. FeedInv'
    BY <1>2, <2>4, <2>6, <2>9, FeedKept DEF FeedInv
  <2>12. PairInv'
    BY <1>1, <1>2, <2>4, <2>5, <2>6, <2>10, PairKept
  <2> QED BY <1>0, <2>7, <2>8, <2>11, <2>12 DEF DecoderInv
<1>5. CASE /\ sess.chan = <<>> /\ ~sess.open
           /\ wr' = [wr EXCEPT !.pc = "done"]
           /\ UNCHANGED sess
  <2>1. UNCHANGED <<rt, rd, ff, main, hist, sess>>
    BY <1>5 DEF WriterRecv
  <2>2. wr' \in WriterType /\ wr'.pc = "done"
    BY <1>2, <1>5 DEF WriterType, SessionInv
  <2>3. SessionInv' /\ QueueLenCounts' /\ OutputHasInput'
    BY <1>1, <1>2, <2>1, <2>2 DEF SessionInv, QueueLenCounts, OutputHasInput
  <2>4. InPipeline' = InPipeline /\ Owed' = Owed
    BY <1>3, <2>1, <2>2 DEF InPipeline, Owed, One
  <2>5. FeedInv' /\ PairInv'
    BY <1>1, <1>2, <2>1, <2>2, <2>4, FeedKept, PairKept DEF FeedInv
  <2> QED BY <1>0, <2>3, <2>5 DEF DecoderInv
<1> QED BY <1>4, <1>5 DEF WriterRecv

LEMMA WriterPushKeeps ==
  ASSUME DecoderInv, WriterPush
  PROVE  DecoderInv'
<1>0. ServerInv' /\ MainInv' /\ ShownInv' /\ CacheInv' /\ AnswerInv' /\ LostInv' /\ hist'.skips <= MaxSkips
  BY ThreadMoves DEF WriterPush
<1>1. rt.session /\ wr.pc = "push"
  BY InSession DEF WriterPush
<1>2. SessionInv /\ FeedInv /\ PairInv /\ QueueLenCounts /\ OutputHasInput
  BY DEF DecoderInv
<1>3. wr.key \in Slot0Frames /\ sess \in SessionType /\ wr \in WriterType
  BY <1>1, <1>2 DEF SessionInv
<1>4. /\ sess' \in SessionType /\ sess'.corr = Append(sess.corr, wr.key) /\ sess'.chan = sess.chan
      /\ sess'.events = sess.events /\ sess'.qlen = sess.qlen
      /\ wr' \in WriterType /\ wr'.pc = "write" /\ wr'.key = wr.key
  <2>1. wr' \in WriterType /\ wr'.pc = "write" /\ wr'.key = wr.key
    BY <1>3 DEF WriterPush, WriterType
  <2> DEFINE x == Append(sess.corr, wr.key)
  <2>2. sess' = [sess EXCEPT !.corr = x] /\ x \in Seq(Slot0Frames)
    BY <1>3, Pieces DEF WriterPush
  <2> HIDE DEF x
  <2>3. sess' \in SessionType /\ sess'.corr = x /\ sess'.chan = sess.chan
        /\ sess'.events = sess.events /\ sess'.qlen = sess.qlen
    BY <1>3, <2>2, SetCorr
  <2> QED BY <2>1, <2>3 DEF x
<1>5. UNCHANGED <<rt, rd, ff, main, hist>>
  BY DEF WriterPush
<1>6. SessionInv' /\ QueueLenCounts' /\ OutputHasInput'
  BY <1>1, <1>2, <1>3, <1>4, <1>5 DEF SessionInv, QueueLenCounts, OutputHasInput
<1>7. InPipeline' = InPipeline
  <2> DEFINE e == One(rd.pc = "emit", rd.key)
             k == wr.key
             c == sess.corr
  <2>1. e \in Seq(Slot0Frames) /\ c \in Seq(Slot0Frames) /\ k \in Slot0Frames
    BY <1>3, Pieces
  <2>2. InPipeline = ((e \o c) \o <<k>>) \o sess.chan
    BY <1>1 DEF InPipeline, One
  <2>3. InPipeline' = ((e \o Append(c, k)) \o <<>>) \o sess.chan
    BY <1>4, <1>5 DEF InPipeline, One
  <2> HIDE DEF e, k, c
  <2>4. e \o c \in Seq(Slot0Frames)
    BY <2>1, ConcatProperties
  <2>5. e \o Append(c, k) = Append(e \o c, k) /\ (e \o c) \o <<k>> = Append(e \o c, k)
    BY <2>1, <2>4, AppendLast
  <2>6. Append(e \o c, k) \in Seq(Slot0Frames)
    BY <2>1, <2>4
  <2>7. Append(e \o c, k) \o <<>> = Append(e \o c, k)
    BY <2>6, ConcatEmptySeq
  <2> QED BY <2>2, <2>3, <2>5, <2>7
<1>8. FeedInv'
  BY <1>2, <1>4, <1>5, <1>7, FeedKept DEF FeedInv
<1>9. Owed' = Append(Owed, wr.key) /\ Owed \in Seq(Slot0Frames)
  <2> DEFINE A == One(rd.pc = "pop", rd.pic) \o ff.out \o ff.in
  <2>1. A \in Seq(Slot0Frames)
    BY Pieces, ConcatProperties
  <2>2. Owed = A \o <<>> /\ Owed' = A \o <<wr.key>>
    BY <1>1, <1>4, <1>5 DEF Owed, One
  <2> HIDE DEF A
  <2> QED BY <1>3, <2>1, <2>2, AppendLast, ConcatEmptySeq
<1>10. PairInv'
  <2> DEFINE o == Owed
             c == sess.corr
             k == wr.key
  <2>1. o \in Seq(Slot0Frames) /\ c \in Seq(Slot0Frames) /\ k \in Slot0Frames
    BY <1>3, <1>9, Pieces
  <2>2. Len(o) <= Len(c)
        /\ (hist.skips = 0 => Len(o) = Len(c) /\ \A i \in 1..Len(o) : o[i] = c[i])
    BY <1>1, <1>2 DEF PairInv
  <2>3. /\ Len(Append(o, k)) = Len(o) + 1 /\ Len(Append(c, k)) = Len(c) + 1
        /\ \A i \in 1..Len(o) : Append(o, k)[i] = o[i]
        /\ \A i \in 1..Len(c) : Append(c, k)[i] = c[i]
        /\ Append(o, k)[Len(o) + 1] = k /\ Append(c, k)[Len(c) + 1] = k
    BY <2>1, AppendProperties
  <2>4. Owed' = Append(o, k) /\ sess'.corr = Append(c, k)
    BY <1>4, <1>9
  <2>5. hist.skips = 0 =>
          /\ \A i \in DOMAIN sess.events :
               sess.events[i].kind = "Decoded" => sess.events[i].pic = sess.events[i].key
          /\ rd.pc = "emit" => rd.key = rd.pic
    BY <1>1, <1>2 DEF PairInv
  <2> HIDE DEF o, c, k
  <2>6. Len(o) \in Nat /\ Len(c) \in Nat
    BY <2>1
  <2>7. Len(Append(o, k)) <= Len(Append(c, k))
    BY <2>2, <2>3, <2>6
  <2>8. ASSUME hist.skips = 0
        PROVE  Len(Append(o, k)) = Len(Append(c, k))
               /\ \A i \in 1..Len(Append(o, k)) : Append(o, k)[i] = Append(c, k)[i]
    <3>1. Len(o) = Len(c)
      BY <2>2, <2>8
    <3>2. ASSUME NEW i \in 1..(Len(o) + 1) PROVE Append(o, k)[i] = Append(c, k)[i]
      <4>1. CASE i = Len(o) + 1
        BY <2>3, <3>1, <4>1
      <4>2. CASE i # Len(o) + 1
        <5>1. i \in 1..Len(o)
          BY <2>6, <4>2
        <5> QED BY <2>2, <2>3, <2>8, <3>1, <5>1
      <4> QED BY <4>1, <4>2
    <3> QED BY <2>3, <3>1, <3>2
  <2> QED BY <1>4, <1>5, <2>4, <2>5, <2>7, <2>8 DEF PairInv
<1> QED BY <1>0, <1>6, <1>8, <1>10 DEF DecoderInv

\* The session goes on: what each of its parts must keep.
LEMMA SessionGoesOn ==
  ASSUME rt.session, rt' = rt, rt \in RuntimeType,
         sess' \in SessionType, ff' \in ProcessType, wr' \in WriterType, rd' \in ReaderType,
         Len(sess'.chan) <= QueueBound, Len(ff'.in) <= PipeBound, Len(ff'.out) <= PipeBound,
         wr'.pc # "none", rd'.pc # "none",
         wr'.pc \in {"push", "write"} => wr'.key \in Slot0Frames,
         rd'.pc \in {"pop", "emit"} => rd'.pic \in Slot0Frames,
         rd'.pc = "emit" => rd'.key \in Slot0Frames,
         \A i \in DOMAIN sess'.events :
           sess'.events[i].kind = "Decoded" => sess'.events[i].pic \in Slot0Frames
  PROVE  SessionInv'
BY DEF SessionInv

\* One more event: the counts before it stay.
LEMMA EventAppended ==
  ASSUME NEW ev \in Seq(Events), NEW e \in Events
  PROVE  /\ Append(ev, e) \in Seq(Events) /\ Len(ev) \in Nat /\ Len(Append(ev, e)) = Len(ev) + 1
         /\ DOMAIN Append(ev, e) = 1..(Len(ev) + 1) /\ DOMAIN ev = 1..Len(ev)
         /\ \A i \in 1..Len(ev) : Append(ev, e)[i] = ev[i]
         /\ Append(ev, e)[Len(ev) + 1] = e
         /\ \A i \in 1..Len(ev) : DecodedIn(Append(ev, e), i) = DecodedIn(ev, i)
         /\ DecodedIn(ev, Len(ev)) \in Nat
         /\ DecodedIn(Append(ev, e), Len(ev) + 1)
              = DecodedIn(ev, Len(ev)) + (IF e.kind = "Decoded" THEN 1 ELSE 0)
<1> DEFINE more == Append(ev, e)
           n == Len(ev)
<1>1. more \in Seq(Events) /\ n \in Nat /\ Len(more) = n + 1
      /\ (\A i \in 1..n : more[i] = ev[i]) /\ more[n + 1] = e
  BY AppendProperties
<1>2. DOMAIN more = 1..(n + 1) /\ DOMAIN ev = 1..n
  BY <1>1, LenProperties
<1> HIDE DEF more
<1>3. \A i \in 0..n : DecodedIn(more, i) = DecodedIn(ev, i)
  <2> TAKE i \in 0..n
  <2>1. i \in Nat /\ \A j \in 1..i : more[j] = ev[j]
    BY <1>1
  <2> QED BY <2>1, DecodedDepends
<1>4. n \in 0..n /\ \A i \in 1..n : i \in 0..n
  BY <1>1
<1>5. DecodedIn(more, n + 1) = DecodedIn(more, n) + (IF more[n + 1].kind = "Decoded" THEN 1 ELSE 0)
      /\ DecodedIn(ev, n) \in Nat
  BY <1>1, DecodedCounts
<1>6. DecodedIn(more, n + 1) = DecodedIn(ev, n) + (IF e.kind = "Decoded" THEN 1 ELSE 0)
  BY <1>1, <1>3, <1>4, <1>5
<1> HIDE DEF n
<1>7. \A i \in 1..n : DecodedIn(more, i) = DecodedIn(ev, i)
  BY <1>3, <1>4
<1> QED BY <1>1, <1>2, <1>5, <1>6, <1>7 DEF more, n

\* A thread reports an error: nothing in the pipeline moves.
LEMMA ErrorReported ==
  ASSUME DecoderInv, rt.session, rt' = rt, hist' = hist, InPipeline' = InPipeline,
         NEW why \in {"stdin_write_failed", "stdout_read_failed"},
         sess'.events = Append(sess.events, Error(why))
  PROVE  /\ FeedInv' /\ OutputHasInput'
         /\ \A i \in DOMAIN sess'.events : sess'.events[i].kind = "Decoded" =>
              /\ sess'.events[i].pic \in Slot0Frames
              /\ hist.skips = 0 => sess'.events[i].pic = sess'.events[i].key
<1> DEFINE ev == sess.events
           e == Error(why)
           more == Append(ev, e)
           n == Len(ev)
<1>1. ev \in Seq(Events) /\ e \in Events /\ e.kind = "RuntimeError" /\ e.why # "output_without_input"
  BY Pieces DEF Error, Events, OrNone
<1>2. /\ more \in Seq(Events) /\ n \in Nat /\ Len(more) = n + 1
      /\ DOMAIN more = 1..(n + 1) /\ DOMAIN ev = 1..n
      /\ \A i \in 1..n : more[i] = ev[i]
      /\ more[n + 1] = e
      /\ \A i \in 1..n : DecodedIn(more, i) = DecodedIn(ev, i)
      /\ DecodedIn(ev, n) \in Nat
      /\ DecodedIn(more, n + 1) = DecodedIn(ev, n)
  <2> HIDE DEF ev, e
  <2> QED BY <1>1, EventAppended
<1>3. FeedInv /\ SessionInv /\ PairInv /\ OutputHasInput
  BY DEF DecoderInv
<1>4. sess'.events = more
  OBVIOUS
<1> HIDE DEF e, more
<1>5. \A i \in 1..(n + 1) : more[i].kind = "Decoded" => i \in 1..n
  <2> TAKE i \in 1..(n + 1)
  <2>1. i = n + 1 \/ i \in 1..n
    BY <1>2
  <2> QED BY <1>1, <1>2, <2>1
<1>6. Emitted' = Emitted
  BY <1>2, <1>4 DEF Emitted
<1>7. \A i \in 1..n : ev[i].kind = "Decoded" =>
        /\ ev[i].key = hist.fed[hist.decoded + DecodedIn(ev, i)]
        /\ ev[i].pic \in Slot0Frames
        /\ hist.skips = 0 => ev[i].pic = ev[i].key
  BY <1>2, <1>3 DEF FeedInv, SessionInv, PairInv
<1>8. \A i \in DOMAIN more : more[i].kind = "Decoded" =>
        /\ more[i].key = hist.fed[hist.decoded + DecodedIn(more, i)]
        /\ more[i].pic \in Slot0Frames
        /\ hist.skips = 0 => more[i].pic = more[i].key
  BY <1>2, <1>5, <1>7
<1>9. \A i \in DOMAIN more : more[i].why # "output_without_input"
  <2> SUFFICES ASSUME NEW i \in 1..(n + 1) PROVE more[i].why # "output_without_input"
    BY <1>2
  <2>1. i = n + 1 \/ i \in 1..n
    BY <1>2
  <2>2. \A j \in 1..n : ev[j].why # "output_without_input"
    BY <1>2, <1>3 DEF OutputHasInput
  <2> QED BY <1>1, <1>2, <2>1, <2>2
<1>10. FeedInv'
  <2>1. rt'.enqueued = rt.enqueued /\ rt'.session = rt.session
    OBVIOUS
  <2> QED BY <1>3, <1>4, <1>6, <1>8, <2>1 DEF FeedInv
<1> QED BY <1>4, <1>8, <1>9, <1>10 DEF OutputHasInput

LEMMA WriterWriteKeeps ==
  ASSUME DecoderAssumption, DecoderInv, WriterWrite
  PROVE  DecoderInv'
<1>0. ServerInv' /\ MainInv' /\ ShownInv' /\ CacheInv' /\ AnswerInv' /\ LostInv' /\ hist'.skips <= MaxSkips
  BY ThreadMoves DEF WriterWrite
<1>1. rt.session /\ wr.pc = "write"
  BY InSession DEF WriterWrite
<1>2. SessionInv /\ FeedInv /\ PairInv /\ QueueLenCounts /\ OutputHasInput
  BY DEF DecoderInv
<1>3. wr.key \in Slot0Frames /\ sess \in SessionType /\ wr \in WriterType /\ rd \in ReaderType /\ rd.pc # "none"
      /\ ff \in ProcessType /\ rt \in RuntimeType
      /\ Len(sess.chan) <= QueueBound /\ Len(ff.in) <= PipeBound /\ Len(ff.out) <= PipeBound
  BY <1>1, <1>2 DEF SessionInv
<1>4. UNCHANGED <<rt, rd, main, hist>>
  BY DEF WriterWrite
<1>5. rd'.pc \in {"pop", "emit"} => rd'.pic \in Slot0Frames
  BY <1>2, <1>4 DEF SessionInv
<1>6. rd'.pc = "emit" => rd'.key \in Slot0Frames
  BY <1>2, <1>4 DEF SessionInv
<1> DEFINE A == One(rd.pc = "pop", rd.pic) \o ff.out
           k == wr.key
<1>7. A \in Seq(Slot0Frames) /\ A \o ff.in \in Seq(Slot0Frames) /\ Owed = (A \o ff.in) \o <<k>>
  <2>1. A \in Seq(Slot0Frames) /\ ff.in \in Seq(Slot0Frames)
    BY Pieces, ConcatProperties
  <2>2. Owed = (A \o ff.in) \o <<k>>
    BY <1>1 DEF Owed, One
  <2> HIDE DEF A
  <2> QED BY <2>1, <2>2, ConcatProperties
<1>8. CASE /\ ff.state = "running" /\ Len(ff.in) < PipeBound
           /\ ff' = [ff EXCEPT !.in = Append(@, wr.key)]
           /\ wr' = [pc |-> "recv", key |-> NoFrame]
           /\ UNCHANGED sess
  <2>1. ff' \in ProcessType /\ ff'.in = Append(ff.in, wr.key) /\ ff'.out = ff.out
    <3> DEFINE x == Append(ff.in, wr.key)
               B == Seq(Slot0Frames)
    <3>1. x \in B /\ ff' = [ff EXCEPT !.in = x]
      BY <1>3, <1>8, Pieces
    <3>2. ff \in [state : {"none", "running", "exited", "killed"}, in : B, out : B]
      BY <1>3 DEF ProcessType
    <3> HIDE DEF x, B
    <3>3. ff' \in [state : {"none", "running", "exited", "killed"}, in : B, out : B] /\ ff'.in = x /\ ff'.out = ff.out
      BY <3>1, <3>2
    <3> QED BY <3>3 DEF ProcessType, x, B
  <2>2. wr' \in WriterType /\ wr'.pc = "recv"
    BY <1>8 DEF WriterType, OrNone
  <2>3. Len(ff'.in) <= PipeBound
    <3> DEFINE n == Len(ff.in)
    <3>1. n \in Nat /\ n < PipeBound /\ Len(ff'.in) = n + 1 /\ PipeBound \in Nat
      BY <1>3, <1>8, <2>1, Pieces, AppendProperties DEF DecoderAssumption
    <3> HIDE DEF n
    <3> QED BY <3>1
  <2>4. SessionInv'
    <3>1. Len(ff'.out) <= PipeBound /\ rd' \in ReaderType /\ rd'.pc # "none" /\ wr'.pc # "none"
          /\ ~(wr'.pc \in {"push", "write"}) /\ sess' \in SessionType /\ Len(sess'.chan) <= QueueBound /\ rt' = rt
      BY <1>3, <1>4, <1>8, <2>1, <2>2
    <3>2. \A i \in DOMAIN sess'.events : sess'.events[i].kind = "Decoded" => sess'.events[i].pic \in Slot0Frames
      BY <1>2, <1>8 DEF SessionInv
    <3> QED BY <1>1, <1>3, <1>5, <1>6, <2>1, <2>2, <2>3, <3>1, <3>2, SessionGoesOn
  <2>5. QueueLenCounts' /\ OutputHasInput'
    BY <1>2, <1>4, <1>8 DEF QueueLenCounts, OutputHasInput
  <2>6. InPipeline' = InPipeline
    BY <1>1, <1>4, <1>8, <2>2 DEF InPipeline, One
  <2>7. FeedInv'
    BY <1>2, <1>4, <1>8, <2>6, FeedKept DEF FeedInv
  <2>8. Owed' = Owed
    <3>1. Owed' = (A \o Append(ff.in, k)) \o <<>>
      BY <1>4, <2>1, <2>2 DEF Owed, One
    <3>2. A \o Append(ff.in, k) = Append(A \o ff.in, k) /\ (A \o ff.in) \o <<k>> = Append(A \o ff.in, k)
      <4> DEFINE in == ff.in
                 B == A \o in
      <4>1. A \in Seq(Slot0Frames) /\ in \in Seq(Slot0Frames) /\ B \in Seq(Slot0Frames) /\ k \in Slot0Frames
        BY <1>3, <1>7, Pieces
      <4>2. B \o <<k>> = Append(B, k)
        <5> HIDE DEF A, B, k
        <5> QED BY <4>1, AppendLast
      <4>3. A \o Append(in, k) = Append(A \o in, k)
        <5> HIDE DEF A, in, k
        <5> QED BY <4>1, AppendLast
      <4> QED BY <4>2, <4>3
    <3>3. Append(A \o ff.in, k) \in Seq(Slot0Frames)
      <4> HIDE DEF A
      <4> QED BY <1>3, <1>7, AppendProperties
    <3> HIDE DEF A, k
    <3> QED BY <1>7, <3>1, <3>2, <3>3, ConcatEmptySeq
  <2>9. PairInv'
    BY <1>1, <1>2, <1>4, <1>8, <2>2, <2>8, PairKept
  <2> QED BY <1>0, <2>4, <2>5, <2>7, <2>9 DEF DecoderInv
<1>9. CASE /\ ff.state # "running"
           /\ sess' = [sess EXCEPT !.events = Append(@, Error("stdin_write_failed"))]
           /\ wr' = [pc |-> "done", key |-> NoFrame]
           /\ UNCHANGED ff
  <2>1. wr' \in WriterType /\ wr'.pc = "done"
    BY <1>9 DEF WriterType, OrNone
  <2>2. /\ sess' \in SessionType /\ sess'.events = Append(sess.events, Error("stdin_write_failed"))
        /\ sess'.chan = sess.chan /\ sess'.corr = sess.corr /\ sess'.qlen = sess.qlen
    <3>1. Error("stdin_write_failed") \in Events
      BY DEF Error, Events, OrNone
    <3>2. Append(sess.events, Error("stdin_write_failed")) \in Seq(Events)
      BY <3>1, Pieces, AppendProperties
    <3> QED BY <1>3, <1>9, <3>2, SetEvents
  <2>3. InPipeline' = InPipeline
    BY <1>1, <1>4, <2>1, <2>2 DEF InPipeline, One
  <2>4. /\ FeedInv' /\ OutputHasInput'
        /\ \A i \in DOMAIN sess'.events : sess'.events[i].kind = "Decoded" =>
             /\ sess'.events[i].pic \in Slot0Frames
             /\ hist.skips = 0 => sess'.events[i].pic = sess'.events[i].key
    BY <1>1, <1>4, <2>2, <2>3, ErrorReported
  <2>5. SessionInv'
    <3>1. Len(ff'.in) <= PipeBound /\ Len(ff'.out) <= PipeBound /\ rd' \in ReaderType /\ rd'.pc # "none"
          /\ wr'.pc # "none" /\ ff' \in ProcessType
          /\ ~(wr'.pc \in {"push", "write"}) /\ Len(sess'.chan) <= QueueBound /\ rt' = rt
      BY <1>3, <1>4, <1>9, <2>1, <2>2
    <3> QED BY <1>1, <1>3, <1>5, <1>6, <2>1, <2>2, <2>4, <3>1, SessionGoesOn
  <2>6. QueueLenCounts'
    BY <1>2, <1>4, <2>2 DEF QueueLenCounts
  <2>7. PairInv'
    <3> DEFINE O == A \o ff.in
    <3>1. O \in Seq(Slot0Frames) /\ Owed = Append(O, k)
      <4> HIDE DEF A
      <4> QED BY <1>3, <1>7, AppendLast
    <3>2. Owed' = O
      <4>1. Owed' = O \o <<>>
        BY <1>4, <1>9, <2>1 DEF Owed, One
      <4> HIDE DEF O
      <4> QED BY <3>1, <4>1, ConcatEmptySeq
    <3> HIDE DEF O
    <3>3. Len(O) \in Nat /\ Len(Owed) = Len(O) + 1 /\ \A i \in 1..Len(O) : Owed[i] = O[i]
      BY <1>3, <3>1, AppendProperties, LenProperties
    <3>4. Len(sess.corr) \in Nat
      BY Pieces, LenProperties
    <3>5. Len(Owed) <= Len(sess.corr)
      BY <1>1, <1>2 DEF PairInv
    <3>6. Len(O) <= Len(sess.corr)
      BY <3>3, <3>4, <3>5
    <3>7. hist.skips = 0 => \A i \in 1..Len(O) : O[i] = sess.corr[i]
      <4> SUFFICES ASSUME hist.skips = 0, NEW i \in 1..Len(O) PROVE O[i] = sess.corr[i]
        OBVIOUS
      <4>1. i \in 1..Len(Owed)
        BY <3>3
      <4>2. Owed[i] = sess.corr[i]
        BY <1>1, <1>2, <4>1 DEF PairInv
      <4> QED BY <3>3, <4>2
    <3>8. hist.skips = 0 /\ rd.pc = "emit" => rd.key = rd.pic
      BY <1>1, <1>2 DEF PairInv
    <3> QED BY <1>4, <2>1, <2>2, <2>4, <3>2, <3>6, <3>7, <3>8 DEF PairInv
  <2> QED BY <1>0, <2>4, <2>5, <2>6, <2>7 DEF DecoderInv
<1> QED BY <1>8, <1>9 DEF WriterWrite

LEMMA ReaderReadKeeps ==
  ASSUME DecoderAssumption, DecoderInv, ReaderRead
  PROVE  DecoderInv'
<1>0. ServerInv' /\ MainInv' /\ ShownInv' /\ CacheInv' /\ AnswerInv' /\ LostInv' /\ hist'.skips <= MaxSkips
  BY ThreadMoves DEF ReaderRead
<1>1. rt.session /\ rd.pc = "read"
  BY InSession DEF ReaderRead
<1>2. SessionInv /\ FeedInv /\ PairInv /\ QueueLenCounts /\ OutputHasInput
  BY DEF DecoderInv
<1>3. sess \in SessionType /\ wr \in WriterType /\ rd \in ReaderType /\ wr.pc # "none"
      /\ ff \in ProcessType /\ rt \in RuntimeType
      /\ Len(sess.chan) <= QueueBound /\ Len(ff.in) <= PipeBound /\ Len(ff.out) <= PipeBound
  BY <1>1, <1>2 DEF SessionInv
<1>4. UNCHANGED <<rt, wr, main, hist>>
  BY DEF ReaderRead
<1>5. wr'.pc \in {"push", "write"} => wr'.key \in Slot0Frames
  BY <1>2, <1>4 DEF SessionInv
<1>6. One(rd.pc = "pop", rd.pic) = <<>> /\ One(rd.pc = "emit", rd.key) = <<>>
  BY <1>1 DEF One
<1>7. CASE /\ ff.out # <<>>
           /\ rd' = [rd EXCEPT !.pc = "pop", !.pic = Head(ff.out)]
           /\ ff' = [ff EXCEPT !.out = Tail(@)]
           /\ UNCHANGED sess
  <2>1. Head(ff.out) \in Slot0Frames /\ Tail(ff.out) \in Seq(Slot0Frames)
        /\ Len(Tail(ff.out)) = Len(ff.out) - 1 /\ Len(ff.out) \in Nat \ {0}
    BY <1>7, Pieces, HeadTailProperties, EmptySeq
  <2>2. ff' \in ProcessType /\ ff'.out = Tail(ff.out) /\ ff'.in = ff.in
    <3> DEFINE x == Tail(ff.out)
               B == Seq(Slot0Frames)
    <3>1. x \in B /\ ff' = [ff EXCEPT !.out = x]
      BY <1>7, <2>1
    <3>2. ff \in [state : {"none", "running", "exited", "killed"}, in : B, out : B]
      BY <1>3 DEF ProcessType
    <3> HIDE DEF x, B
    <3>3. ff' \in [state : {"none", "running", "exited", "killed"}, in : B, out : B] /\ ff'.out = x /\ ff'.in = ff.in
      BY <3>1, <3>2
    <3> QED BY <3>3 DEF ProcessType, x, B
  <2>3. rd' \in ReaderType /\ rd'.pc = "pop" /\ rd'.pic = Head(ff.out)
    BY <1>3, <1>7, <2>1 DEF ReaderType, OrNone
  <2>4. Len(ff'.out) <= PipeBound
    <3> DEFINE n == Len(ff.out)
    <3>1. n \in Nat /\ n <= PipeBound /\ Len(ff'.out) = n - 1 /\ PipeBound \in Nat
      BY <1>3, <2>1, <2>2 DEF DecoderAssumption
    <3> HIDE DEF n
    <3> QED BY <3>1
  <2>5. SessionInv'
    <3>1. Len(ff'.in) <= PipeBound /\ wr' \in WriterType /\ rd'.pc # "none" /\ wr'.pc # "none"
          /\ rd'.pic \in Slot0Frames /\ rd'.pc # "emit" /\ sess' \in SessionType
          /\ Len(sess'.chan) <= QueueBound /\ rt' = rt
      BY <1>3, <1>4, <1>7, <2>1, <2>2, <2>3
    <3>2. \A i \in DOMAIN sess'.events : sess'.events[i].kind = "Decoded" => sess'.events[i].pic \in Slot0Frames
      BY <1>2, <1>7 DEF SessionInv
    <3> QED BY <1>1, <1>3, <1>5, <2>2, <2>3, <2>4, <3>1, <3>2, SessionGoesOn
  <2>6. QueueLenCounts' /\ OutputHasInput'
    BY <1>2, <1>4, <1>7 DEF QueueLenCounts, OutputHasInput
  <2>7. InPipeline' = InPipeline
    BY <1>1, <1>4, <1>7, <2>3 DEF InPipeline, One
  <2>8. FeedInv'
    BY <1>2, <1>4, <1>7, <2>7, FeedKept DEF FeedInv
  <2>9. Owed' = Owed
    <3> DEFINE h == Head(ff.out)
               w == One(wr.pc = "write", wr.key)
    <3>1. Owed = ((<<>> \o ff.out) \o ff.in) \o w
      BY <1>6 DEF Owed
    <3>2. Owed' = ((<<h>> \o Tail(ff.out)) \o ff.in) \o w
      BY <1>4, <2>2, <2>3 DEF Owed, One
    <3>3. <<>> \in Seq(Slot0Frames) /\ <<h>> \in Seq(Slot0Frames)
      BY <2>1
    <3>4. <<>> \o ff.out = (<<>> \o <<h>>) \o Tail(ff.out)
      BY <1>7, <3>3, Pieces, MoveHead
    <3>5. <<>> \o <<h>> = <<h>>
      BY <3>3, ConcatEmptySeq
    <3> HIDE DEF h, w
    <3> QED BY <3>1, <3>2, <3>4, <3>5
  <2>10. PairInv'
    BY <1>1, <1>2, <1>4, <1>7, <2>3, <2>9, PairKept
  <2> QED BY <1>0, <2>5, <2>6, <2>8, <2>10 DEF DecoderInv
<1>8. CASE /\ ff.out = <<>> /\ ff.state # "running"
           /\ rd' = [rd EXCEPT !.pc = "done"]
           /\ sess' = [sess EXCEPT !.events = Append(@, Error("stdout_read_failed"))]
           /\ UNCHANGED ff
  <2>1. rd' \in ReaderType /\ rd'.pc = "done"
    BY <1>3, <1>8 DEF ReaderType
  <2>2. /\ sess' \in SessionType /\ sess'.events = Append(sess.events, Error("stdout_read_failed"))
        /\ sess'.chan = sess.chan /\ sess'.corr = sess.corr /\ sess'.qlen = sess.qlen
    <3>1. Error("stdout_read_failed") \in Events
      BY DEF Error, Events, OrNone
    <3>2. Append(sess.events, Error("stdout_read_failed")) \in Seq(Events)
      BY <3>1, Pieces, AppendProperties
    <3> QED BY <1>3, <1>8, <3>2, SetEvents
  <2>3. InPipeline' = InPipeline /\ Owed' = Owed
    BY <1>4, <1>6, <1>8, <2>1, <2>2 DEF InPipeline, Owed, One
  <2>4. /\ FeedInv' /\ OutputHasInput'
        /\ \A i \in DOMAIN sess'.events : sess'.events[i].kind = "Decoded" =>
             /\ sess'.events[i].pic \in Slot0Frames
             /\ hist.skips = 0 => sess'.events[i].pic = sess'.events[i].key
    BY <1>1, <1>4, <2>2, <2>3, ErrorReported
  <2>5. SessionInv'
    <3>1. Len(ff'.in) <= PipeBound /\ Len(ff'.out) <= PipeBound /\ wr' \in WriterType /\ wr'.pc # "none"
          /\ rd'.pc # "none" /\ ~(rd'.pc \in {"pop", "emit"}) /\ rd'.pc # "emit" /\ ff' \in ProcessType
          /\ Len(sess'.chan) <= QueueBound /\ rt' = rt
      BY <1>3, <1>4, <1>8, <2>1, <2>2
    <3> QED BY <1>1, <1>3, <1>5, <2>1, <2>2, <2>4, <3>1, SessionGoesOn
  <2>6. QueueLenCounts'
    BY <1>2, <1>4, <2>2 DEF QueueLenCounts
  <2>7. PairInv'
    BY <1>2, <1>4, <2>1, <2>2, <2>3, <2>4 DEF PairInv
  <2> QED BY <1>0, <2>4, <2>5, <2>6, <2>7 DEF DecoderInv
<1> QED BY <1>7, <1>8 DEF ReaderRead

LEMMA ReaderPopKeeps ==
  ASSUME DecoderAssumption, DecoderInv, ReaderPop
  PROVE  DecoderInv'
<1>0. ServerInv' /\ MainInv' /\ ShownInv' /\ CacheInv' /\ AnswerInv' /\ LostInv' /\ hist'.skips <= MaxSkips
  BY ThreadMoves DEF ReaderPop
<1>1. rt.session /\ rd.pc = "pop"
  BY InSession DEF ReaderPop
<1>2. SessionInv /\ FeedInv /\ PairInv /\ QueueLenCounts /\ OutputHasInput
  BY DEF DecoderInv
<1>3. sess \in SessionType /\ wr \in WriterType /\ rd \in ReaderType /\ wr.pc # "none"
      /\ ff \in ProcessType /\ rt \in RuntimeType /\ rd.pic \in Slot0Frames
      /\ Len(sess.chan) <= QueueBound /\ Len(ff.in) <= PipeBound /\ Len(ff.out) <= PipeBound
  BY <1>1, <1>2 DEF SessionInv
<1>4. UNCHANGED <<rt, wr, ff, main, hist>>
  BY DEF ReaderPop
<1>5. wr'.pc \in {"push", "write"} => wr'.key \in Slot0Frames
  BY <1>2, <1>4 DEF SessionInv
<1> DEFINE R == (ff.out \o ff.in) \o One(wr.pc = "write", wr.key)
           p == rd.pic
           c == sess.corr
\* The picture in the reader's hand is the first of those owed.
<1>6. R \in Seq(Slot0Frames) /\ p \in Slot0Frames /\ c \in Seq(Slot0Frames) /\ Owed = <<p>> \o R
      /\ R = ((<<>> \o ff.out) \o ff.in) \o One(wr.pc = "write", wr.key)
  <2> DEFINE o == ff.out
             i == ff.in
             w == One(wr.pc = "write", wr.key)
  <2>1. o \in Seq(Slot0Frames) /\ i \in Seq(Slot0Frames) /\ w \in Seq(Slot0Frames) /\ <<p>> \in Seq(Slot0Frames)
        /\ c \in Seq(Slot0Frames)
    BY <1>3, Pieces
  <2>2. Owed = ((<<p>> \o o) \o i) \o w
    BY <1>1 DEF Owed, One
  <2> HIDE DEF o, i, w, p
  <2>3. o \o i \in Seq(Slot0Frames) /\ <<p>> \o o \in Seq(Slot0Frames)
    BY <2>1, ConcatProperties
  <2>4. (<<p>> \o o) \o i = <<p>> \o (o \o i)
    BY <2>1, ConcatAssociative
  <2>5. (<<p>> \o (o \o i)) \o w = <<p>> \o ((o \o i) \o w)
    BY <2>1, <2>3, ConcatAssociative
  <2>6. (o \o i) \o w \in Seq(Slot0Frames)
    BY <2>1, <2>3, ConcatProperties
  <2>7. <<>> \o o = o
    BY <2>1, ConcatEmptySeq
  <2> QED BY <1>3, <2>1, <2>2, <2>4, <2>5, <2>6, <2>7 DEF o, i, w, p
<1> HIDE DEF R, p
<1>7. Len(Owed) = Len(R) + 1 /\ Owed[1] = p /\ (\A i \in 1..Len(R) : Owed[i + 1] = R[i]) /\ Len(R) \in Nat
  <2> DEFINE u == <<p>> \o R
  <2>1. Len(R) \in Nat
    BY <1>6, LenProperties
  <2>2. Len(u) = Len(R) + 1 /\ u[1] = p /\ \A i \in 1..Len(R) : u[i + 1] = R[i]
    <3>1. R \in Seq(Slot0Frames) /\ p \in Slot0Frames
      BY <1>6
    <3> QED BY <3>1, AfterFirst
  <2>3. Owed = u
    BY <1>6
  <2> HIDE DEF u
  <2> QED BY <2>1, <2>2, <2>3
<1>8. Len(R) + 1 <= Len(c) /\ Len(c) \in Nat
  <2>1. Len(Owed) <= Len(c)
    BY <1>1, <1>2 DEF PairInv
  <2>2. Len(c) \in Nat
    BY <1>6, LenProperties
  <2> HIDE DEF c
  <2> QED BY <1>7, <2>1, <2>2
<1>9. c # <<>>
  <2>1. Len(c) # 0
    BY <1>7, <1>8
  <2> QED BY <2>1
<1>10. Head(c) \in Slot0Frames /\ Tail(c) \in Seq(Slot0Frames) /\ Len(Tail(c)) = Len(c) - 1
       /\ (\A i \in 1..Len(Tail(c)) : Tail(c)[i] = c[i + 1]) /\ Head(c) = c[1]
  <2> HIDE DEF c
  <2> QED BY <1>6, <1>9, HeadTailProperties
<1>11. sess' = [sess EXCEPT !.corr = Tail(c)] /\ rd' = [rd EXCEPT !.pc = "emit", !.key = Head(c)]
  BY <1>9 DEF ReaderPop, PopCorrespondence
<1>12. sess' \in SessionType /\ sess'.corr = Tail(c) /\ sess'.chan = sess.chan
       /\ sess'.events = sess.events /\ sess'.qlen = sess.qlen
  BY <1>3, <1>10, <1>11, SetCorr
<1>13. rd' \in ReaderType /\ rd'.pc = "emit" /\ rd'.key = Head(c) /\ rd'.pic = p
  BY <1>3, <1>10, <1>11 DEF ReaderType, OrNone, p
<1>14. SessionInv'
  <2>1. Len(ff'.in) <= PipeBound /\ Len(ff'.out) <= PipeBound /\ wr' \in WriterType /\ wr'.pc # "none"
        /\ rd'.pc # "none" /\ rd'.pic \in Slot0Frames /\ rd'.key \in Slot0Frames /\ ff' \in ProcessType
        /\ Len(sess'.chan) <= QueueBound /\ rt' = rt
    BY <1>3, <1>4, <1>6, <1>10, <1>12, <1>13
  <2>2. \A i \in DOMAIN sess'.events : sess'.events[i].kind = "Decoded" => sess'.events[i].pic \in Slot0Frames
    BY <1>2, <1>12 DEF SessionInv
  <2> QED BY <1>1, <1>3, <1>5, <1>12, <1>13, <2>1, <2>2, SessionGoesOn
<1>15. QueueLenCounts' /\ OutputHasInput'
  BY <1>2, <1>4, <1>12 DEF QueueLenCounts, OutputHasInput
<1>16. InPipeline' = InPipeline
  <2> DEFINE w == One(wr.pc = "push", wr.key)
             h == Head(c)
  <2>1. InPipeline = ((<<>> \o c) \o w) \o sess.chan
    BY <1>1 DEF InPipeline, One
  <2>2. InPipeline' = ((<<h>> \o Tail(c)) \o w) \o sess.chan
    BY <1>4, <1>12, <1>13 DEF InPipeline, One
  <2>3. <<>> \in Seq(Slot0Frames) /\ <<h>> \in Seq(Slot0Frames)
    BY <1>10
  <2>4. <<>> \o c = (<<>> \o <<h>>) \o Tail(c)
    <3> HIDE DEF c
    <3> QED BY <1>6, <1>9, <2>3, MoveHead
  <2>5. <<>> \o <<h>> = <<h>>
    BY <2>3, ConcatEmptySeq
  <2> HIDE DEF h, w, c
  <2> QED BY <2>1, <2>2, <2>4, <2>5
<1>17. FeedInv'
  BY <1>2, <1>4, <1>12, <1>16, FeedKept DEF FeedInv
<1>18. Owed' = R
  BY <1>4, <1>6, <1>13 DEF Owed, One
<1>19. hist.skips = 0 =>
         /\ \A i \in 1..Len(Owed) : Owed[i] = c[i]
         /\ wr.pc # "done" => Len(Owed) = Len(c)
         /\ \A i \in DOMAIN sess.events :
              sess.events[i].kind = "Decoded" => sess.events[i].pic = sess.events[i].key
  BY <1>1, <1>2 DEF PairInv
<1> HIDE DEF c
<1>20. Len(R) <= Len(Tail(c))
  BY <1>7, <1>8, <1>10
<1>21. ASSUME hist.skips = 0
       PROVE  /\ \A i \in 1..Len(R) : R[i] = Tail(c)[i]
              /\ wr.pc # "done" => Len(R) = Len(Tail(c))
              /\ Head(c) = p
  <2>1. ASSUME NEW i \in 1..Len(R) PROVE R[i] = Tail(c)[i]
    <3>1. i + 1 \in 1..Len(Owed) /\ i \in 1..Len(Tail(c))
      BY <1>7, <1>8, <1>10
    <3>2. Owed[i + 1] = c[i + 1]
      BY <1>19, <1>21, <3>1
    <3> QED BY <1>7, <1>10, <3>1, <3>2
  <2>2. 1 \in 1..Len(Owed)
    BY <1>7
  <2>3. Owed[1] = c[1]
    BY <1>19, <1>21, <2>2
  <2>4. wr.pc # "done" => Len(R) = Len(Tail(c))
    <3> SUFFICES ASSUME wr.pc # "done" PROVE Len(R) = Len(Tail(c))
      OBVIOUS
    <3>1. Len(Owed) = Len(c)
      BY <1>19, <1>21
    <3> DEFINE x == Len(R)
               y == Len(c)
               z == Len(Owed)
               t == Len(Tail(c))
    <3>2. x \in Nat /\ y \in Nat /\ z = x + 1 /\ z = y /\ t = y - 1
      BY <1>7, <1>8, <1>10, <3>1
    <3> HIDE DEF x, y, z, t
    <3>3. x = t
      BY <3>2
    <3> QED BY <3>3 DEF x, t
  <2> QED BY <1>7, <1>10, <2>1, <2>3, <2>4
<1>22. PairInv'
  BY <1>4, <1>12, <1>13, <1>18, <1>19, <1>20, <1>21 DEF PairInv
<1> QED BY <1>0, <1>14, <1>15, <1>17, <1>22 DEF DecoderInv

LEMMA ReaderEmitKeeps ==
  ASSUME DecoderAssumption, DecoderInv, ReaderEmit
  PROVE  DecoderInv'
<1>0. ServerInv' /\ MainInv' /\ ShownInv' /\ CacheInv' /\ AnswerInv' /\ LostInv' /\ hist'.skips <= MaxSkips
  BY ThreadMoves DEF ReaderEmit
<1>1. rt.session /\ rd.pc = "emit"
  BY InSession DEF ReaderEmit
<1>2. SessionInv /\ FeedInv /\ PairInv /\ QueueLenCounts /\ OutputHasInput
  BY DEF DecoderInv
<1>3. sess \in SessionType /\ wr \in WriterType /\ rd \in ReaderType /\ wr.pc # "none"
      /\ ff \in ProcessType /\ rt \in RuntimeType /\ rd.pic \in Slot0Frames /\ rd.key \in Slot0Frames
      /\ Len(sess.chan) <= QueueBound /\ Len(ff.in) <= PipeBound /\ Len(ff.out) <= PipeBound
  BY <1>1, <1>2 DEF SessionInv
<1>4. UNCHANGED <<rt, wr, ff, main, hist>>
  BY DEF ReaderEmit
<1>5. wr'.pc \in {"push", "write"} => wr'.key \in Slot0Frames
  BY <1>2, <1>4 DEF SessionInv
<1> DEFINE ev == sess.events
           e == [kind |-> "Decoded", why |-> "", key |-> rd.key, pic |-> rd.pic]
           more == Append(ev, e)
           n == Len(ev)
           d == hist.decoded
           em == DecodedIn(ev, n)
           k == rd.key
           R == (sess.corr \o One(wr.pc = "push", wr.key)) \o sess.chan
<1>6. ev \in Seq(Events) /\ e \in Events /\ e.kind = "Decoded" /\ e.why = "" /\ e.key = k /\ e.pic = rd.pic
      /\ k \in Slot0Frames
  BY <1>3, Pieces DEF Events, OrNone
<1>7. /\ more \in Seq(Events) /\ n \in Nat /\ Len(more) = n + 1
      /\ DOMAIN more = 1..(n + 1) /\ DOMAIN ev = 1..n
      /\ \A i \in 1..n : more[i] = ev[i]
      /\ more[n + 1] = e
      /\ \A i \in 1..n : DecodedIn(more, i) = DecodedIn(ev, i)
      /\ em \in Nat
      /\ DecodedIn(more, n + 1) = em + 1
  <2> HIDE DEF ev, e
  <2> QED BY <1>6, EventAppended
<1>8. rd' = [pc |-> "read", pic |-> NoFrame, key |-> NoFrame] /\ rd' \in ReaderType
  BY DEF ReaderEmit, ReaderType, OrNone
<1>9. sess' \in SessionType /\ sess'.events = more /\ sess'.chan = sess.chan
      /\ sess'.corr = sess.corr /\ sess'.qlen = sess.qlen
  <2>1. sess' = [sess EXCEPT !.events = more]
    BY DEF ReaderEmit
  <2> HIDE DEF more
  <2> QED BY <1>3, <1>7, <2>1, SetEvents
\* The key in the reader's hand is the first of the pipeline.
<1>10. R \in Seq(Slot0Frames) /\ InPipeline = <<k>> \o R /\ InPipeline' = R
  <2> DEFINE c == sess.corr
             w == One(wr.pc = "push", wr.key)
             s == sess.chan
  <2>1. c \in Seq(Slot0Frames) /\ w \in Seq(Slot0Frames) /\ s \in Seq(Slot0Frames) /\ <<k>> \in Seq(Slot0Frames)
    <3>1. c \in Seq(Slot0Frames) /\ w \in Seq(Slot0Frames) /\ s \in Seq(Slot0Frames)
      BY Pieces
    <3>2. <<k>> \in Seq(Slot0Frames)
      <4>1. k \in Slot0Frames
        BY <1>6
      <4> HIDE DEF k
      <4> QED BY <4>1
    <3> QED BY <3>1, <3>2
  <2>2. InPipeline = ((<<k>> \o c) \o w) \o s
    BY <1>1 DEF InPipeline, One
  <2>3. InPipeline' = ((<<>> \o c) \o w) \o s
    BY <1>4, <1>8, <1>9 DEF InPipeline, One
  <2>4. R = (c \o w) \o s
    OBVIOUS
  <2> HIDE DEF c, w, s, k, R
  <2>5. c \o w \in Seq(Slot0Frames)
    BY <2>1, ConcatProperties
  <2>6. (<<k>> \o c) \o w = <<k>> \o (c \o w)
    BY <2>1, ConcatAssociative
  <2>7. (<<k>> \o (c \o w)) \o s = <<k>> \o ((c \o w) \o s)
    BY <2>1, <2>5, ConcatAssociative
  <2>8. (c \o w) \o s \in Seq(Slot0Frames)
    BY <2>1, <2>5, ConcatProperties
  <2>9. <<>> \o c = c
    BY <2>1, ConcatEmptySeq
  <2> QED BY <2>2, <2>3, <2>4, <2>6, <2>7, <2>8, <2>9
<1> HIDE DEF R, k
<1>11. Len(InPipeline) = Len(R) + 1 /\ InPipeline[1] = k
       /\ (\A i \in 1..Len(R) : InPipeline[i + 1] = R[i]) /\ Len(R) \in Nat
  <2> DEFINE u == <<k>> \o R
  <2>1. Len(R) \in Nat
    BY <1>10, LenProperties
  <2>2. Len(u) = Len(R) + 1 /\ u[1] = k /\ \A i \in 1..Len(R) : u[i + 1] = R[i]
    <3>1. R \in Seq(Slot0Frames) /\ k \in Slot0Frames
      BY <1>6, <1>10
    <3> QED BY <3>1, AfterFirst
  <2>3. InPipeline = u
    BY <1>10
  <2> HIDE DEF u
  <2> QED BY <2>1, <2>2, <2>3
<1>12. /\ d \in Nat /\ Len(hist.fed) \in Nat /\ hist \in HistoryType
       /\ d + em + Len(InPipeline) = Len(hist.fed)
       /\ \A i \in 1..Len(InPipeline) : InPipeline[i] = hist.fed[d + em + i]
  <2>1. hist \in HistoryType /\ d \in Nat /\ hist.fed \in Seq(Slot0Frames)
    BY <1>2 DEF FeedInv, HistoryType
  <2>2. d + em + Len(InPipeline) = Len(hist.fed)
        /\ \A i \in 1..Len(InPipeline) : InPipeline[i] = hist.fed[d + em + i]
    BY <1>1, <1>2 DEF FeedInv, Emitted
  <2>3. Len(hist.fed) \in Nat
    BY <2>1, LenProperties
  <2> QED BY <2>1, <2>2, <2>3
<1>13. k = hist.fed[d + (em + 1)]
  <2>1. 1 \in 1..Len(InPipeline)
    BY <1>11
  <2>2. InPipeline[1] = hist.fed[d + em + 1]
    BY <1>12, <2>1
  <2>3. d + em + 1 = d + (em + 1)
    <3>1. d \in Nat /\ em \in Nat
      BY <1>7, <1>12
    <3> HIDE DEF em, d
    <3> QED BY <3>1
  <2> QED BY <1>11, <2>2, <2>3
<1>14. \A i \in 1..n : ev[i].kind = "Decoded" =>
         /\ ev[i].key = hist.fed[d + DecodedIn(ev, i)]
         /\ ev[i].pic \in Slot0Frames
         /\ hist.skips = 0 => ev[i].pic = ev[i].key
  BY <1>1, <1>2, <1>7 DEF FeedInv, SessionInv, PairInv
<1>15. hist.skips = 0 => rd.key = rd.pic
  BY <1>1, <1>2 DEF PairInv
<1>16. \A i \in 1..(n + 1) : i = n + 1 \/ i \in 1..n
  <2>1. n \in Nat
    BY <1>7
  <2> HIDE DEF n
  <2> QED BY <2>1
<1> HIDE DEF e, more, em
<1>17. \A i \in DOMAIN more : more[i].kind = "Decoded" =>
         /\ more[i].key = hist.fed[d + DecodedIn(more, i)]
         /\ more[i].pic \in Slot0Frames
         /\ hist.skips = 0 => more[i].pic = more[i].key
  <2> SUFFICES ASSUME NEW i \in 1..(n + 1), more[i].kind = "Decoded"
               PROVE  /\ more[i].key = hist.fed[d + DecodedIn(more, i)]
                      /\ more[i].pic \in Slot0Frames
                      /\ hist.skips = 0 => more[i].pic = more[i].key
    BY <1>7
  <2>1. CASE i = n + 1
    <3>1. more[i] = e /\ DecodedIn(more, i) = em + 1
      BY <1>7, <2>1
    <3> QED BY <1>3, <1>6, <1>13, <1>15, <3>1 DEF k
  <2>2. CASE i \in 1..n
    <3>1. more[i] = ev[i] /\ DecodedIn(more, i) = DecodedIn(ev, i)
      BY <1>7, <2>2
    <3> QED BY <1>14, <2>2, <3>1
  <2> QED BY <1>16, <2>1, <2>2
<1>18. OutputHasInput'
  <2> SUFFICES ASSUME NEW i \in 1..(n + 1) PROVE more[i].why # "output_without_input"
    BY <1>7, <1>9 DEF OutputHasInput
  <2>1. CASE i = n + 1
    BY <1>6, <1>7, <2>1
  <2>2. CASE i \in 1..n
    BY <1>2, <1>7, <2>2 DEF OutputHasInput
  <2> QED BY <1>16, <2>1, <2>2
<1>19. Emitted' = em + 1
  <2>1. Emitted' = DecodedIn(sess'.events, Len(sess'.events))
    BY DEF Emitted
  <2> QED BY <1>7, <1>9, <2>1
<1>20. FeedInv'
  <2>1. d + (em + 1) + Len(R) = Len(hist.fed) /\ d + (em + 1) <= Len(hist.fed)
    <3> DEFINE l == Len(R)
               p == Len(InPipeline)
               f == Len(hist.fed)
    <3>1. l \in Nat /\ p = l + 1 /\ d + em + p = f
      BY <1>11, <1>12
    <3>2. d \in Nat /\ em \in Nat
      BY <1>7, <1>12
    <3> HIDE DEF d, em, l, p, f
    <3>3. d + (em + 1) + l = f /\ d + (em + 1) <= f
      BY <3>1, <3>2
    <3> QED BY <3>3 DEF l, f
  <2>2. ASSUME NEW i \in 1..Len(R) PROVE R[i] = hist.fed[d + (em + 1) + i]
    <3>1. i + 1 \in 1..Len(InPipeline) /\ d + em + (i + 1) = d + (em + 1) + i
      <4> HIDE DEF d
      <4> QED BY <1>7, <1>11, <1>12
    <3>2. InPipeline[i + 1] = hist.fed[d + em + (i + 1)]
      BY <1>12, <3>1
    <3> QED BY <1>11, <3>1, <3>2
  <2>3. hist' = hist /\ rt' = rt
    BY <1>4
  <2> QED BY <1>2, <1>9, <1>10, <1>17, <1>19, <2>1, <2>2, <2>3 DEF FeedInv
<1>21. SessionInv'
  <2>1. Len(ff'.in) <= PipeBound /\ Len(ff'.out) <= PipeBound /\ wr' \in WriterType /\ wr'.pc # "none"
        /\ rd'.pc # "none" /\ ~(rd'.pc \in {"pop", "emit"}) /\ rd'.pc # "emit" /\ ff' \in ProcessType
        /\ Len(sess'.chan) <= QueueBound /\ rt' = rt
    BY <1>3, <1>4, <1>8, <1>9
  <2> QED BY <1>1, <1>3, <1>5, <1>8, <1>9, <1>17, <2>1, SessionGoesOn
<1>22. QueueLenCounts'
  BY <1>2, <1>4, <1>9 DEF QueueLenCounts
<1>23. PairInv'
  <2>1. Owed' = Owed
    BY <1>1, <1>4, <1>8 DEF Owed, One
  <2>2. Len(Owed) <= Len(sess.corr)
        /\ (hist.skips = 0 => /\ \A i \in 1..Len(Owed) : Owed[i] = sess.corr[i]
                              /\ wr.pc # "done" => Len(Owed) = Len(sess.corr))
    BY <1>1, <1>2 DEF PairInv
  <2> QED BY <1>4, <1>8, <1>9, <1>17, <2>1, <2>2 DEF PairInv
<1> QED BY <1>0, <1>18, <1>20, <1>21, <1>22, <1>23 DEF DecoderInv

\* A pipe of the process is replaced, and the other stays.
LEMMA SetIn ==
  ASSUME NEW f \in ProcessType, NEW x \in Seq(Slot0Frames)
  PROVE  LET t == [f EXCEPT !.in = x]
         IN t \in ProcessType /\ t.in = x /\ t.out = f.out /\ t.state = f.state
<1> DEFINE B == Seq(Slot0Frames)
           T == [state : {"none", "running", "exited", "killed"}, in : B, out : B]
           t == [f EXCEPT !.in = x]
<1>1. T = ProcessType
  BY DEF ProcessType
<1>2. f \in T /\ x \in B
  BY <1>1
<1> HIDE DEF B
<1>3. t \in T /\ t.in = x /\ t.out = f.out /\ t.state = f.state
  BY <1>2
<1> QED BY <1>1, <1>3

LEMMA SetOut ==
  ASSUME NEW f \in ProcessType, NEW x \in Seq(Slot0Frames)
  PROVE  LET t == [f EXCEPT !.out = x]
         IN t \in ProcessType /\ t.out = x /\ t.in = f.in /\ t.state = f.state
<1> DEFINE B == Seq(Slot0Frames)
           T == [state : {"none", "running", "exited", "killed"}, in : B, out : B]
           t == [f EXCEPT !.out = x]
<1>1. T = ProcessType
  BY DEF ProcessType
<1>2. f \in T /\ x \in B
  BY <1>1
<1> HIDE DEF B
<1>3. t \in T /\ t.out = x /\ t.in = f.in /\ t.state = f.state
  BY <1>2
<1> QED BY <1>1, <1>3

\* Only the process moves: the session's threads stay where they are.
LEMMA ProcessMoves ==
  ASSUME DecoderInv, rt.session, UNCHANGED <<rt, sess, wr, rd, main>>, ff' \in ProcessType,
         Len(ff'.in) <= PipeBound, Len(ff'.out) <= PipeBound, hist' \in HistoryType,
         hist'.fed = hist.fed, hist'.decoded = hist.decoded
  PROVE  SessionInv' /\ FeedInv' /\ QueueLenCounts' /\ OutputHasInput'
<1>1. SessionInv /\ FeedInv /\ QueueLenCounts /\ OutputHasInput
  BY DEF DecoderInv
<1>2. SessionInv'
  BY <1>1 DEF SessionInv
<1>3. InPipeline' = InPipeline
  BY DEF InPipeline
<1>4. FeedInv'
  BY <1>1, <1>3, FeedKept
<1> QED BY <1>1, <1>2, <1>4 DEF QueueLenCounts, OutputHasInput

LEMMA FfmpegDecodesKeeps ==
  ASSUME DecoderAssumption, DecoderInv, FfmpegDecodes
  PROVE  DecoderInv'
<1>0. ServerInv' /\ MainInv' /\ ShownInv' /\ CacheInv' /\ AnswerInv' /\ LostInv' /\ hist'.skips <= MaxSkips
  BY ThreadMoves DEF FfmpegDecodes
<1>1. rt.session
  BY InSession DEF FfmpegDecodes
<1>2. SessionInv /\ FeedInv /\ PairInv
  BY DEF DecoderInv
<1>3. UNCHANGED <<rt, sess, wr, rd, main, hist>> /\ ff.in # <<>> /\ Len(ff.out) < PipeBound
      /\ ff \in ProcessType /\ Len(ff.in) <= PipeBound
  BY <1>2 DEF FfmpegDecodes, SessionInv
<1> DEFINE in == ff.in
           out == ff.out
           h == Head(in)
<1>4. in \in Seq(Slot0Frames) /\ out \in Seq(Slot0Frames) /\ in # <<>>
  BY <1>3, Pieces
<1>5. h \in Slot0Frames /\ Tail(in) \in Seq(Slot0Frames) /\ Len(Tail(in)) = Len(in) - 1 /\ Len(in) \in Nat
  <2> HIDE DEF in
  <2> QED BY <1>4, HeadTailProperties, LenProperties
<1>6. Append(out, h) \in Seq(Slot0Frames) /\ Len(Append(out, h)) = Len(out) + 1 /\ Len(out) \in Nat
  <2> HIDE DEF out, h
  <2> QED BY <1>4, <1>5, AppendProperties, LenProperties
<1>7. ff' \in ProcessType /\ ff'.in = Tail(in) /\ ff'.out = Append(out, h)
  <2> DEFINE i == Tail(in)
             o == Append(out, h)
  <2>1. ff' = [ff EXCEPT !.in = i, !.out = o] /\ i \in Seq(Slot0Frames) /\ o \in Seq(Slot0Frames)
    BY <1>5, <1>6 DEF FfmpegDecodes
  <2> HIDE DEF i, o
  <2> DEFINE t == [ff EXCEPT !.in = i]
  <2>2. t \in ProcessType /\ t.in = i
    BY <1>3, <2>1, SetIn
  <2>3. ff' = [t EXCEPT !.out = o]
    BY <2>1
  <2> HIDE DEF t
  <2>4. ff' \in ProcessType /\ ff'.in = i /\ ff'.out = o
    <3> DEFINE u == [t EXCEPT !.out = o]
    <3>1. u \in ProcessType /\ u.in = t.in /\ u.out = o
      BY <2>1, <2>2, SetOut
    <3>2. ff' = u
      BY <2>3
    <3> HIDE DEF u
    <3> QED BY <2>2, <3>1, <3>2
  <2> QED BY <2>4 DEF i, o
<1>8. Len(ff'.in) <= PipeBound /\ Len(ff'.out) <= PipeBound
  <2> DEFINE x == Len(in)
             y == Len(out)
  <2>1. x \in Nat /\ y \in Nat /\ x <= PipeBound /\ y < PipeBound /\ PipeBound \in Nat
        /\ Len(ff'.in) = x - 1 /\ Len(ff'.out) = y + 1
    BY <1>3, <1>5, <1>6, <1>7 DEF DecoderAssumption
  <2> HIDE DEF x, y
  <2> QED BY <2>1
<1>9. SessionInv' /\ FeedInv' /\ QueueLenCounts' /\ OutputHasInput'
  BY <1>1, <1>2, <1>3, <1>7, <1>8, ProcessMoves DEF FeedInv
<1>10. Owed' = Owed
  <2> DEFINE p == One(rd.pc = "pop", rd.pic)
             w == One(wr.pc = "write", wr.key)
  <2>1. Owed = ((p \o out) \o in) \o w
    BY DEF Owed
  <2>2. Owed' = ((p \o Append(out, h)) \o Tail(in)) \o w
    BY <1>3, <1>7 DEF Owed
  <2>3. p \in Seq(Slot0Frames)
    BY Pieces
  <2> HIDE DEF p, w, in, out, h
  <2>4. p \o out \in Seq(Slot0Frames)
    BY <1>4, <2>3, ConcatProperties
  <2>5. (p \o out) \o in = ((p \o out) \o <<h>>) \o Tail(in)
    BY <1>4, <2>4, MoveHead DEF h
  <2>6. p \o Append(out, h) = Append(p \o out, h)
    BY <1>4, <1>5, <2>3, AppendLast
  <2>7. (p \o out) \o <<h>> = Append(p \o out, h)
    BY <1>5, <2>4, AppendLast
  <2> QED BY <2>1, <2>2, <2>5, <2>6, <2>7
<1>11. PairInv'
  BY <1>2, <1>3, <1>10, PairKept
<1> QED BY <1>0, <1>9, <1>11 DEF DecoderInv

\* A swallowed access unit: what is still owed gets shorter, and from then on
\* pictures and keys need not agree.
LEMMA FfmpegSkipsKeeps ==
  ASSUME DecoderAssumption, DecoderInv, FfmpegSkips
  PROVE  DecoderInv'
<1>1. rt.session
  BY InSession DEF FfmpegSkips
<1>2. SessionInv /\ FeedInv /\ PairInv /\ CacheInv
  BY DEF DecoderInv
<1>3. UNCHANGED <<queue, arrived, target, rt, cache, sess, wr, rd, main, shown>> /\ ff.in # <<>>
      /\ ff \in ProcessType /\ Len(ff.in) <= PipeBound /\ Len(ff.out) <= PipeBound
  BY <1>2 DEF FfmpegSkips, SessionInv
<1>4. hist' \in HistoryType /\ hist'.skips = hist.skips + 1 /\ hist'.skips # 0 /\ hist'.skips <= MaxSkips
      /\ hist'.fed = hist.fed /\ hist'.decoded = hist.decoded /\ hist'.consumed = hist.consumed
      /\ hist'.mismatch = hist.mismatch
  <2>1. hist \in HistoryType /\ hist.skips \in Nat /\ hist.skips < MaxSkips /\ MaxSkips \in Nat
    BY <1>2 DEF FeedInv, HistoryType, FfmpegSkips, DecoderAssumption
  <2> DEFINE m == hist.skips + 1
             F == Seq(Slot0Frames)
  <2>2. m \in Nat /\ m # 0 /\ m <= MaxSkips
    BY <2>1
  <2>3. hist' = [hist EXCEPT !.skips = m]
    BY DEF FfmpegSkips
  <2>4. hist \in [consumed : SUBSET Frames, mismatch : Nat, fed : F, skips : Nat, late : SUBSET Frames, decoded : Nat]
    BY <2>1 DEF HistoryType
  <2> HIDE DEF m, F
  <2>5. hist' \in [consumed : SUBSET Frames, mismatch : Nat, fed : F, skips : Nat, late : SUBSET Frames, decoded : Nat]
        /\ hist'.skips = m /\ hist'.fed = hist.fed /\ hist'.decoded = hist.decoded
        /\ hist'.consumed = hist.consumed /\ hist'.mismatch = hist.mismatch
    BY <2>2, <2>3, <2>4
  <2>6. hist' \in HistoryType
    BY <2>5 DEF HistoryType, F
  <2> QED BY <2>2, <2>5, <2>6 DEF m
<1> DEFINE in == ff.in
<1>5. in \in Seq(Slot0Frames) /\ in # <<>>
  BY <1>3, Pieces
<1>6. Tail(in) \in Seq(Slot0Frames) /\ Len(Tail(in)) = Len(in) - 1 /\ Len(in) \in Nat
  <2> HIDE DEF in
  <2> QED BY <1>5, HeadTailProperties, LenProperties
<1>7. ff' \in ProcessType /\ ff'.in = Tail(in) /\ ff'.out = ff.out
  <2> DEFINE i == Tail(in)
  <2>1. ff' = [ff EXCEPT !.in = i] /\ i \in Seq(Slot0Frames) /\ ff.out \in Seq(Slot0Frames)
    BY <1>6, Pieces DEF FfmpegSkips
  <2> HIDE DEF i
  <2>2. ff' \in ProcessType /\ ff'.in = i /\ ff'.out = ff.out
    BY <1>3, <2>1, SetIn
  <2> QED BY <2>2 DEF i
<1>8. Len(ff'.in) <= PipeBound /\ Len(ff'.out) <= PipeBound
  <2> DEFINE x == Len(in)
  <2>1. x \in Nat /\ x <= PipeBound /\ PipeBound \in Nat /\ Len(ff'.in) = x - 1 /\ Len(ff'.out) <= PipeBound
    BY <1>3, <1>6, <1>7 DEF DecoderAssumption
  <2> HIDE DEF x
  <2> QED BY <2>1
<1>9. SessionInv' /\ FeedInv' /\ QueueLenCounts' /\ OutputHasInput'
  BY <1>1, <1>3, <1>4, <1>7, <1>8, ProcessMoves
<1>10. Len(Owed') <= Len(sess.corr)
  <2> DEFINE p == One(rd.pc = "pop", rd.pic)
             w == One(wr.pc = "write", wr.key)
             o == ff.out
             t == Tail(in)
  <2>1. Owed = ((p \o o) \o in) \o w /\ Owed' = ((p \o o) \o t) \o w
    BY <1>3, <1>7 DEF Owed
  <2>2. p \in Seq(Slot0Frames) /\ w \in Seq(Slot0Frames) /\ o \in Seq(Slot0Frames) /\ t \in Seq(Slot0Frames)
        /\ in \in Seq(Slot0Frames)
    BY <1>5, <1>6, Pieces
  <2>3. Len(t) = Len(in) - 1
    BY <1>6
  <2> HIDE DEF p, w, o, t, in
  <2> DEFINE P == p \o o
  <2>4. P \in Seq(Slot0Frames)
    BY <2>2, ConcatProperties
  <2> HIDE DEF P
  <2>5. P \o in \in Seq(Slot0Frames) /\ Len(P \o in) = Len(P) + Len(in)
        /\ P \o t \in Seq(Slot0Frames) /\ Len(P \o t) = Len(P) + Len(t)
    BY <2>2, <2>4, ConcatProperties
  <2>6. Len((P \o in) \o w) = Len(P \o in) + Len(w) /\ Len((P \o t) \o w) = Len(P \o t) + Len(w)
    BY <2>2, <2>5, ConcatProperties
  <2>7. Len(P) \in Nat /\ Len(in) \in Nat /\ Len(w) \in Nat /\ Len(sess.corr) \in Nat
    BY <2>2, <2>4, Pieces, LenProperties
  <2>8. Len(Owed) <= Len(sess.corr)
    BY <1>1, <1>2 DEF PairInv
  <2>9. Len(Owed) = Len(P) + Len(in) + Len(w) /\ Len(Owed') = Len(P) + (Len(in) - 1) + Len(w)
    BY <2>1, <2>3, <2>5, <2>6 DEF P
  <2> QED BY <2>7, <2>8, <2>9
<1>11. PairInv'
  BY <1>3, <1>4, <1>10 DEF PairInv
<1>12. CacheInv'
  BY <1>2, <1>3, <1>4, CacheKept
<1>13. ServerInv' /\ MainInv' /\ ShownInv'
  BY <1>3 DEF DecoderInv, ServerInv, MainInv, ShownInv
<1>14. AnswerInv' /\ LostInv'
  BY <1>3, <1>4 DEF DecoderInv, AnswerInv, LostInv, LostFramesAreCounted
<1> QED BY <1>4, <1>9, <1>11, <1>12, <1>13, <1>14 DEF DecoderInv

LEMMA FfmpegExitsKeeps ==
  ASSUME DecoderInv, FfmpegExits
  PROVE  DecoderInv'
<1>0. ServerInv' /\ MainInv' /\ ShownInv' /\ CacheInv' /\ AnswerInv' /\ LostInv' /\ hist'.skips <= MaxSkips
  BY ThreadMoves DEF FfmpegExits
<1>1. rt.session
  BY InSession DEF FfmpegExits
<1>2. SessionInv /\ FeedInv /\ PairInv
  BY DEF DecoderInv
<1>3. UNCHANGED <<rt, sess, wr, rd, main, hist>> /\ ff \in ProcessType
      /\ ff' = [ff EXCEPT !.state = "exited"]
      /\ Len(ff.in) <= PipeBound /\ Len(ff.out) <= PipeBound
  BY <1>2 DEF FfmpegExits, SessionInv
<1>4. ff' \in ProcessType /\ ff'.in = ff.in /\ ff'.out = ff.out
  <2> DEFINE B == Seq(Slot0Frames)
  <2>1. ff \in [state : {"none", "running", "exited", "killed"}, in : B, out : B]
    BY <1>3 DEF ProcessType
  <2> HIDE DEF B
  <2>2. ff' \in [state : {"none", "running", "exited", "killed"}, in : B, out : B] /\ ff'.in = ff.in /\ ff'.out = ff.out
    BY <1>3, <2>1
  <2> QED BY <2>2 DEF ProcessType, B
<1>5. SessionInv' /\ FeedInv' /\ QueueLenCounts' /\ OutputHasInput'
  BY <1>1, <1>2, <1>3, <1>4, ProcessMoves DEF FeedInv
<1>6. Owed' = Owed
  BY <1>3, <1>4 DEF Owed
<1>7. PairInv'
  BY <1>2, <1>3, <1>6, PairKept
<1> QED BY <1>0, <1>5, <1>7 DEF DecoderInv

(***************************************************************************)
(* The main thread between the calls that touch the session.               *)
(***************************************************************************)
LEMMA FrameFacts ==
  /\ NoFrame \notin Frames /\ Slot0Frames \subseteq Frames
  /\ \A f \in Frames : f.id \in Nat /\ (f.src = "slot0" => f \in Slot0Frames)
  /\ \A f \in Slot0Frames : f.src = "slot0"
<1>1. \A f \in Slot0Frames : f.src = "slot0" /\ f.id \in Nat
  BY DEF Slot0Frames, Slot0
<1>2. \A f \in {[src |-> "slot1", id |-> i] : i \in 1..MaxOther} : f.src = "slot1" /\ f.id \in Nat
  OBVIOUS
<1>3. Frames = Slot0Frames \cup {[src |-> "slot1", id |-> i] : i \in 1..MaxOther}
  BY DEF Frames, Slot0Frames
<1>4. NoFrame.src = "none"
  BY DEF NoFrame
<1>5. "none" # "slot0" /\ "none" # "slot1" /\ "slot0" # "slot1"
  OBVIOUS
<1> QED BY <1>1, <1>2, <1>3, <1>4, <1>5

LEMMA MainQuiet ==
  ASSUME DecoderInv, UNCHANGED <<rt, sess, ff, wr, rd>>, hist' \in HistoryType,
         hist'.fed = hist.fed, hist'.decoded = hist.decoded, hist'.skips = hist.skips,
         main.pc \notin {"send", "join", "ended"}, main'.pc # "send",
         ServerInv', MainInv', ShownInv', CacheInv', AnswerInv', LostInv'
  PROVE  DecoderInv'
<1>1. main.ret # "ended"
  BY DEF DecoderInv, MainInv
<1>2. (main'.pc = "send") = (main.pc = "send")
  OBVIOUS
<1>3. SessionInv' /\ FeedInv' /\ PairInv' /\ QueueLenCounts' /\ OutputHasInput' /\ hist'.skips <= MaxSkips
  BY <1>1, <1>2, MainMoves
<1> QED BY <1>3 DEF DecoderInv

\* The same, for a step that also leaves the server, the cache and the history.
LEMMA MainOnly ==
  ASSUME DecoderInv, UNCHANGED <<queue, arrived, target, rt, cache, sess, ff, wr, rd, hist>>,
         main.pc \notin {"send", "join", "ended"}, main'.pc # "send",
         MainInv', ShownInv', AnswerInv'
  PROVE  DecoderInv'
<1>1. ServerInv' /\ LostInv'
  BY DEF DecoderInv, ServerInv, LostInv, LostFramesAreCounted
<1>2. CacheInv'
  BY CacheKept DEF DecoderInv
<1>3. hist' \in HistoryType
  BY DEF DecoderInv, FeedInv
<1> QED BY <1>1, <1>2, <1>3, MainQuiet

LEMMA IdleTyped == Idle \in MainType /\ NoShown \in ShownType
BY DEF Idle, MainType, NoShown, ShownType, OrNone

LEMMA IdleBudget ==
  ASSUME NEW b \in Nat
  PROVE  /\ [Idle EXCEPT !.budget = b] \in MainType
         /\ [Idle EXCEPT !.budget = b].pc = "idle" /\ [Idle EXCEPT !.budget = b].ret = "none"
BY DEF Idle, MainType, OrNone

\* Nothing is shown that would have to be recent.
LEMMA NothingShown ==
  ASSUME shown' = NoShown \/ (DecoderInv /\ shown' = shown /\ hist'.skips = hist.skips)
  PROVE  AnswerInv'
BY DEF DecoderInv, AnswerInv, ShownPictureIsRecent, NoShown

LEMMA StartFeedKeeps ==
  ASSUME DecoderInv, StartFeed
  PROVE  DecoderInv'
<1>1. main' \in MainType /\ main'.pc = "preview" /\ main'.ret = "none"
  BY DEF StartFeed, Idle, MainType, OrNone
<1>2. MainInv'
  BY <1>1 DEF MainInv
<1>3. ShownInv' /\ AnswerInv'
  BY IdleTyped, NothingShown DEF StartFeed, ShownInv
<1> QED BY <1>1, <1>2, <1>3, MainOnly DEF StartFeed

LEMMA FeedPreviewKeeps ==
  ASSUME DecoderInv, FeedPreview
  PROVE  DecoderInv'
<1>1. main \in MainType /\ main.pc = "preview" /\ main.ret # "ended" /\ shown = NoShown
  BY DEF DecoderInv, MainInv, ShownInv, FeedPreview
<1>2. AnswerInv'
  BY <1>1, NothingShown DEF FeedPreview
<1>3. CASE main' = Idle
  <2>1. MainInv' /\ ShownInv'
    BY <1>1, <1>3, IdleTyped DEF FeedPreview, MainInv, ShownInv, Idle
  <2> QED BY <1>1, <1>2, <1>3, <2>1, MainOnly DEF FeedPreview, Idle
<1>4. CASE /\ queue # <<>> /\ Head(queue).id <= target
           /\ main' = [main EXCEPT !.pc = "reserve", !.frame = Head(queue), !.result = "none"]
  <2>1. Head(queue) \in Slot0Frames
    BY <1>4, HeadTailProperties DEF DecoderInv, ServerInv
  <2> DEFINE f == Head(queue)
  <2>2. f \in Slot0Frames /\ f \in OrNone(Frames)
    BY <2>1, FrameFacts DEF OrNone
  <2> HIDE DEF f
  <2>3. main' \in MainType /\ main'.pc = "reserve" /\ main'.frame = f /\ main'.ret = main.ret
    BY <1>1, <1>4, <2>2 DEF MainType, f
  <2>4. MainInv' /\ ShownInv'
    BY <1>1, <2>2, <2>3, IdleTyped DEF FeedPreview, MainInv, ShownInv
  <2> QED BY <1>1, <1>2, <2>3, <2>4, MainOnly DEF FeedPreview
<1> QED BY <1>3, <1>4 DEF FeedPreview

LEMMA FeedAfterKeeps ==
  ASSUME DecoderInv, FeedAfter
  PROVE  DecoderInv'
<1>1. main \in MainType /\ main.pc = "after" /\ main.ret # "ended" /\ shown = NoShown
  BY DEF DecoderInv, MainInv, ShownInv, FeedAfter
<1>2. AnswerInv'
  BY <1>1, NothingShown DEF FeedAfter
<1>3. CASE main.result = "Enqueued"
  <2>1. main' = [main EXCEPT !.pc = "consume"] /\ main.frame \in rt.enqueued /\ rt' = rt
    BY <1>1, <1>3 DEF FeedAfter, DecoderInv, MainInv
  <2>2. main' \in MainType /\ main'.pc = "consume" /\ main'.frame = main.frame /\ main'.result = "Enqueued"
        /\ main'.ret = main.ret
    BY <1>1, <1>3, <2>1 DEF MainType
  <2>3. MainInv'
    BY <1>1, <2>1, <2>2 DEF MainInv
  <2>4. ShownInv'
    BY <1>1, IdleTyped DEF FeedAfter, ShownInv
  <2> QED BY <1>1, <1>2, <2>2, <2>3, <2>4, MainOnly DEF FeedAfter
<1>4. CASE main.result # "Enqueued"
  <2>1. main' = Idle
    BY <1>4 DEF FeedAfter
  <2>2. MainInv' /\ ShownInv'
    BY <1>1, <2>1, IdleTyped DEF FeedAfter, MainInv, ShownInv, Idle
  <2> QED BY <1>1, <1>2, <2>1, <2>2, MainOnly DEF FeedAfter, Idle
<1> QED BY <1>3, <1>4

\* What an answer leaves.
LEMMA AnswerKeeps ==
  ASSUME DecoderInv, NEW how \in {"exact", "bounded", "deferred", "failed", "oneshot", "latest"},
         NEW key \in OrNone(Frames), NEW pic \in OrNone(Frames), Answer(how, key, pic)
  PROVE  MainInv' /\ ShownInv' /\ main'.pc = "idle"
<1>1. main \in MainType /\ main.frame \in OrNone(Frames) /\ main.budget \in Nat
  BY DEF DecoderInv, MainInv, MainType
<1>2. main' \in MainType /\ main'.pc = "idle" /\ main'.ret = "none"
  BY <1>1 DEF Answer, Idle, MainType, OrNone
<1>3. shown' \in ShownType
  BY <1>1 DEF Answer, ShownType
<1> QED BY <1>2, <1>3 DEF MainInv, ShownInv

LEMMA CachedTyped ==
  ASSUME DecoderInv
  PROVE  /\ DOMAIN cache \subseteq Frames /\ \A k \in DOMAIN cache : cache[k] \in Frames
         /\ rt.order \in Seq(Slot0Frames) /\ Keys(rt.order) \subseteq DOMAIN cache
         /\ \A i \in DOMAIN rt.order : rt.order[i] \in Slot0Frames
         /\ hist.skips = 0 => \A k \in DOMAIN cache : cache[k] = k
<1>1. CacheInv
  BY DEF DecoderInv
<1>2. rt.order \in Seq(Slot0Frames)
  BY <1>1 DEF CacheInv, Cached
<1>3. \A i \in DOMAIN rt.order : rt.order[i] \in Slot0Frames
  BY <1>2, ElementOfSeq, LenProperties
<1> QED BY <1>1, <1>2, <1>3 DEF CacheInv, Cached

LEMMA ExactLookupKeeps ==
  ASSUME DecoderAssumption, DecoderInv, ExactLookup
  PROVE  DecoderInv'
<1>1. main \in MainType /\ main.pc = "exact" /\ main.ret # "ended" /\ shown = NoShown /\ main.frame \in Frames
  BY DEF DecoderInv, MainInv, ShownInv, ExactLookup
<1> DEFINE f == main.frame
<1>2. CASE f \in DOMAIN cache
  <2>1. Answer("exact", f, cache[f]) /\ cache[f] \in OrNone(Frames) /\ f \in OrNone(Frames)
    BY <1>1, <1>2, CachedTyped DEF ExactLookup, OrNone
  <2>2. MainInv' /\ ShownInv' /\ main'.pc = "idle"
    BY <2>1, AnswerKeeps
  <2>3. AnswerInv'
    <3> SUFFICES ASSUME hist'.skips = 0 PROVE ShownPictureIsRecent'
      BY DEF AnswerInv
    <3>1. hist.skips = 0
      BY DEF ExactLookup
    <3>2. shown'.req = f /\ shown'.pic = f
      BY <1>2, <2>1, <3>1, CachedTyped DEF Answer
    <3>3. f.id \in Nat /\ AllowedLag \in Nat
      BY <1>1, FrameFacts DEF DecoderAssumption
    <3>4. f.id <= f.id /\ f.id - f.id <= AllowedLag
      BY <3>3
    <3> QED BY <3>2, <3>4 DEF ShownPictureIsRecent
  <2> QED BY <1>1, <2>2, <2>3, MainOnly DEF ExactLookup
<1>3. CASE f \notin DOMAIN cache
  <2> DEFINE pc == IF f.src = "slot0" THEN "reserve" ELSE "oneshot"
  <2>1. main' = [main EXCEPT !.pc = pc] /\ shown' = shown
    BY <1>3 DEF ExactLookup
  <2>2. pc = "reserve" => f \in Slot0Frames
    BY <1>1, FrameFacts
  <2>3. pc = "oneshot" => f.src # "slot0"
    OBVIOUS
  <2>4. pc \in {"reserve", "oneshot"}
    OBVIOUS
  <2> HIDE DEF pc
  <2>5. main' \in MainType /\ main'.pc = pc /\ main'.frame = f /\ main'.ret = main.ret
    BY <1>1, <2>1, <2>4 DEF MainType
  <2>6. MainInv'
    BY <1>1, <2>2, <2>3, <2>4, <2>5 DEF MainInv
  <2>7. ShownInv'
    BY <1>1, <2>1, IdleTyped DEF ShownInv
  <2>8. AnswerInv'
    BY <1>1, <2>1, NothingShown
  <2> QED BY <1>1, <2>4, <2>5, <2>6, <2>7, <2>8, MainOnly DEF ExactLookup
<1> QED BY <1>2, <1>3

\* A set of positions has a last one.
LEMMA LastPosition ==
  ASSUME NEW n \in Nat, NEW P, P \subseteq 1..n, P # {}
  PROVE  \E i \in P : \A j \in P : j <= i
<1> DEFINE T == {m \in Nat : \A Q : Q \subseteq 1..m /\ Q # {} => \E i \in Q : \A j \in Q : j <= i}
<1>1. 0 \in T
  OBVIOUS
<1>2. ASSUME NEW m \in Nat, m \in T PROVE m + 1 \in T
  <2> SUFFICES ASSUME NEW Q, Q \subseteq 1..(m + 1), Q # {} PROVE \E i \in Q : \A j \in Q : j <= i
    OBVIOUS
  <2>1. CASE m + 1 \in Q
    <3>1. \A j \in Q : j <= m + 1
      OBVIOUS
    <3> QED BY <2>1, <3>1
  <2>2. CASE m + 1 \notin Q
    <3>1. Q \subseteq 1..m
      BY <2>2
    <3> QED BY <1>2, <3>1
  <2> QED BY <2>1, <2>2
<1>3. Nat \subseteq T
  <2> HIDE DEF T
  <2> QED BY <1>1, <1>2, NatInductive
<1> QED BY <1>3

\* A candidate that has a picture is a key of slot 0, not later than the frame
\* asked for and within the allowed lag.
LEMMA CandidateIsRecent ==
  ASSUME DecoderAssumption, DecoderInv, NEW f \in Slot0Frames,
         bounded_lag_lookup_candidate(f) # NoFrame
  PROVE  LET k == bounded_lag_lookup_candidate(f)
         IN k \in Slot0Frames /\ k.id <= f.id /\ f.id - k.id <= AllowedLag
<1> DEFINE P == NotAfter(f)
           i == CHOOSE x \in P : \A j \in P : j <= x
           k == rt.order[i]
<1>1. P # {} /\ bounded_lag_lookup_candidate(f) = k /\ ~(f.id - k.id > AllowedLag)
  BY DEF bounded_lag_lookup_candidate
<1>2. \E x \in P : \A j \in P : j <= x
  <2>1. P \subseteq 1..Len(rt.order) /\ Len(rt.order) \in Nat
    BY CachedTyped, LenProperties DEF NotAfter
  <2> HIDE DEF P
  <2> QED BY <1>1, <2>1, LastPosition
<1>3. i \in P
  <2> HIDE DEF P
  <2> QED BY <1>2
<1>4. k \in Slot0Frames /\ k.id <= f.id
  <2>1. i \in DOMAIN rt.order /\ rt.order[i].id <= f.id
    BY <1>3 DEF NotAfter
  <2> HIDE DEF i
  <2> QED BY <2>1, CachedTyped
<1> HIDE DEF k
<1>5. f.id \in Nat /\ k.id \in Nat /\ AllowedLag \in Nat
  BY <1>4, FrameFacts DEF DecoderAssumption
<1> QED BY <1>1, <1>4, <1>5

LEMMA RenderAfterEnqueueKeeps ==
  ASSUME DecoderAssumption, DecoderInv, RenderAfterEnqueue
  PROVE  DecoderInv'
<1>1. main \in MainType /\ main.pc = "after" /\ main.ret # "ended" /\ shown = NoShown /\ main.frame \in Slot0Frames
  BY DEF DecoderInv, MainInv, ShownInv, RenderAfterEnqueue
<1> DEFINE f == main.frame
           k == bounded_lag_lookup_candidate(f)
           Later == main' = [main EXCEPT !.pc = "oneshot"] /\ shown' = shown
<1>2. f \in Frames /\ f \in OrNone(Frames) /\ f.id \in Nat /\ f.src = "slot0"
  BY <1>1, FrameFacts DEF OrNone
<1>3. \/ f \in DOMAIN cache /\ Answer("exact", f, cache[f])
      \/ k \in DOMAIN cache /\ Answer("bounded", k, cache[k])
      \/ Answer("deferred", NoFrame, NoFrame)
      \/ Later
  BY DEF RenderAfterEnqueue
<1>4. UNCHANGED <<queue, arrived, target, rt, cache, sess, ff, wr, rd, hist>>
  BY DEF RenderAfterEnqueue
<1>5. CASE f \in DOMAIN cache /\ Answer("exact", f, cache[f])
  <2>1. MainInv' /\ ShownInv' /\ main'.pc = "idle"
    BY <1>2, <1>5, CachedTyped, AnswerKeeps DEF OrNone
  <2>2. AnswerInv'
    <3> SUFFICES ASSUME hist'.skips = 0 PROVE ShownPictureIsRecent'
      BY DEF AnswerInv
    <3>1. hist.skips = 0
      BY <1>4
    <3>2. shown'.req = f /\ shown'.pic = f
      BY <1>5, <3>1, CachedTyped DEF Answer
    <3>3. f.id <= f.id /\ f.id - f.id <= AllowedLag
      BY <1>2 DEF DecoderAssumption
    <3> QED BY <3>2, <3>3 DEF ShownPictureIsRecent
  <2> QED BY <1>1, <1>4, <2>1, <2>2, MainOnly
<1>6. CASE k \in DOMAIN cache /\ Answer("bounded", k, cache[k])
  <2>1. k \in Frames /\ k # NoFrame /\ cache[k] \in Frames
    BY <1>6, CachedTyped, FrameFacts
  <2>2. k \in Slot0Frames /\ k.id <= f.id /\ f.id - k.id <= AllowedLag /\ k.src = "slot0"
    BY <1>1, <2>1, CandidateIsRecent, FrameFacts
  <2> HIDE DEF k
  <2>3. MainInv' /\ ShownInv' /\ main'.pc = "idle"
    BY <1>6, <2>1, AnswerKeeps DEF OrNone
  <2>4. AnswerInv'
    <3> SUFFICES ASSUME hist'.skips = 0 PROVE ShownPictureIsRecent'
      BY DEF AnswerInv
    <3>1. hist.skips = 0
      BY <1>4
    <3>2. shown'.req = f /\ shown'.pic = k
      BY <1>6, <3>1, CachedTyped DEF Answer
    <3> QED BY <1>2, <2>2, <3>2 DEF ShownPictureIsRecent
  <2> QED BY <1>1, <1>4, <2>3, <2>4, MainOnly
<1>7. CASE Answer("deferred", NoFrame, NoFrame)
  <2>1. MainInv' /\ ShownInv' /\ main'.pc = "idle"
    BY <1>7, AnswerKeeps DEF OrNone
  <2>2. AnswerInv'
    BY <1>7 DEF Answer, AnswerInv, ShownPictureIsRecent
  <2> QED BY <1>1, <1>4, <2>1, <2>2, MainOnly
<1>8. CASE Later
  <2>1. main' \in MainType /\ main'.pc = "oneshot" /\ main'.frame = f /\ main'.ret = main.ret
    BY <1>1, <1>8 DEF MainType
  <2>2. MainInv'
    BY <1>1, <1>2, <2>1 DEF MainInv
  <2>3. ShownInv'
    BY <1>1, <1>8, IdleTyped DEF ShownInv
  <2>4. AnswerInv'
    BY <1>1, <1>8, NothingShown
  <2> QED BY <1>1, <1>4, <2>1, <2>2, <2>3, <2>4, MainOnly
<1> QED BY <1>3, <1>5, <1>6, <1>7, <1>8

LEMMA ProgramLatestKeeps ==
  ASSUME DecoderInv, ProgramLatest
  PROVE  DecoderInv'
<1>1. main \in MainType /\ main.pc = "latest" /\ main.ret # "ended" /\ shown = NoShown
  BY DEF DecoderInv, MainInv, ShownInv, ProgramLatest
<1>2. UNCHANGED <<queue, arrived, target, rt, cache, sess, ff, wr, rd, hist>>
  BY DEF ProgramLatest
<1> DEFINE k == Last(rt.order)
<1>3. CASE rt.order # <<>> /\ k \in DOMAIN cache
  <2>1. Answer("latest", k, cache[k])
    BY <1>3 DEF ProgramLatest
  <2> HIDE DEF k
  <2>2. MainInv' /\ ShownInv' /\ main'.pc = "idle"
    BY <1>3, <2>1, CachedTyped, AnswerKeeps DEF OrNone
  <2>3. AnswerInv'
    BY <2>1 DEF Answer, AnswerInv, ShownPictureIsRecent
  <2> QED BY <1>1, <1>2, <2>2, <2>3, MainOnly
<1>4. CASE ~(rt.order # <<>> /\ k \in DOMAIN cache)
  <2>1. main' = [Idle EXCEPT !.budget = main.budget] /\ shown' = shown
    BY <1>4 DEF ProgramLatest
  <2>2. main.budget \in Nat
    BY <1>1 DEF MainType
  <2>3. main' \in MainType /\ main'.pc = "idle" /\ main'.ret = "none"
    BY <2>1, <2>2 DEF Idle, MainType, OrNone
  <2>4. MainInv' /\ ShownInv'
    BY <1>1, <2>1, <2>3, IdleTyped DEF MainInv, ShownInv
  <2>5. AnswerInv'
    BY <1>1, <2>1, NothingShown
  <2> QED BY <1>1, <1>2, <2>3, <2>4, <2>5, MainOnly
<1> QED BY <1>3, <1>4

\* A picture made on the spot is cached under its own frame.
LEMMA OneShotKeeps ==
  ASSUME DecoderAssumption, DecoderInv, OneShot
  PROVE  DecoderInv'
<1>1. main \in MainType /\ main.pc = "oneshot" /\ main.ret # "ended" /\ shown = NoShown /\ main.frame \in Frames
      /\ main.budget \in Nat
  BY DEF DecoderInv, MainInv, ShownInv, OneShot, MainType
<1> DEFINE f == main.frame
           spent == IF ProgramFirst /\ main.purpose = "PreviewFallback" /\ f.src # "slot0" /\ main.budget > 0
                    THEN main.budget - 1 ELSE main.budget
           done(how, pic) == /\ shown' = [how |-> how, req |-> f, key |-> f, pic |-> pic]
                             /\ main' = [Idle EXCEPT !.budget = spent]
<1>2. UNCHANGED <<queue, arrived, target, rt, sess, ff, wr, rd, hist>>
  BY DEF OneShot
<1>3. spent \in Nat
  BY <1>1
<1>4. \/ Answer("deferred", NoFrame, NoFrame) /\ UNCHANGED cache
      \/ done("failed", NoFrame) /\ UNCHANGED cache
      \/ /\ done("oneshot", f)
         /\ cache' = [k \in DOMAIN cache \cup {f} |-> IF k = f THEN f ELSE cache[k]]
  BY DEF OneShot
<1> HIDE DEF spent
<1>5. main' = [Idle EXCEPT !.budget = spent] => main' \in MainType /\ main'.pc = "idle" /\ main'.ret = "none"
  BY <1>3, IdleBudget
<1>6. CASE Answer("deferred", NoFrame, NoFrame) /\ UNCHANGED cache
  <2>1. MainInv' /\ ShownInv' /\ main'.pc = "idle"
    BY <1>6, AnswerKeeps DEF OrNone
  <2>2. AnswerInv'
    BY <1>6 DEF Answer, AnswerInv, ShownPictureIsRecent
  <2> QED BY <1>1, <1>2, <1>6, <2>1, <2>2, MainOnly
<1>7. CASE done("failed", NoFrame) /\ UNCHANGED cache
  <2>1. main'.pc = "idle" /\ MainInv' /\ ShownInv'
    BY <1>1, <1>5, <1>7 DEF MainInv, ShownInv, ShownType, OrNone
  <2>2. AnswerInv'
    BY <1>7 DEF AnswerInv, ShownPictureIsRecent
  <2> QED BY <1>1, <1>2, <1>7, <2>1, <2>2, MainOnly
<1>8. CASE /\ done("oneshot", f)
           /\ cache' = [k \in DOMAIN cache \cup {f} |-> IF k = f THEN f ELSE cache[k]]
  <2>1. main'.pc = "idle" /\ MainInv' /\ ShownInv'
    BY <1>1, <1>5, <1>8 DEF MainInv, ShownInv, ShownType, OrNone
  <2>2. AnswerInv'
    <3>1. shown'.req = f /\ shown'.pic = f
      BY <1>8
    <3>2. f.id <= f.id /\ f.id - f.id <= AllowedLag
      BY <1>1, FrameFacts DEF DecoderAssumption
    <3> QED BY <3>1, <3>2 DEF AnswerInv, ShownPictureIsRecent
  <2>3. CacheInv'
    <3>1. CacheInv /\ rt'.order = rt.order /\ hist' = hist
      BY <1>2 DEF DecoderInv
    <3>2. DOMAIN cache' = DOMAIN cache \cup {f} /\ cache' = [k \in DOMAIN cache' |-> cache'[k]]
          /\ \A k \in DOMAIN cache' : cache'[k] = IF k = f THEN f ELSE cache[k]
      BY <1>8
    <3>3. /\ DOMAIN cache \subseteq Frames /\ (\A k \in DOMAIN cache : cache[k] \in Frames)
          /\ Keys(rt.order) \subseteq DOMAIN cache
          /\ (hist.skips = 0 => \A k \in DOMAIN cache : cache[k] = k)
      BY CachedTyped
    <3>4. /\ DOMAIN cache' \subseteq Frames /\ (\A k \in DOMAIN cache' : cache'[k] \in Frames)
          /\ Keys(rt.order) \subseteq DOMAIN cache'
          /\ (hist.skips = 0 => \A k \in DOMAIN cache' : cache'[k] = k)
      BY <1>1, <3>2, <3>3
    <3> QED BY <3>1, <3>2, <3>4 DEF CacheInv, Cached
  <2>4. ServerInv' /\ LostInv'
    BY <1>2 DEF DecoderInv, ServerInv, LostInv, LostFramesAreCounted
  <2>5. hist' \in HistoryType
    BY <1>2 DEF DecoderInv, FeedInv
  <2> QED BY <1>1, <1>2, <2>1, <2>2, <2>3, <2>4, <2>5, MainQuiet
<1> QED BY <1>4, <1>6, <1>7, <1>8

\* The frame that was fed is the one that is taken, or one more is lost.
LEMMA FeedConsumeKeeps ==
  ASSUME DecoderAssumption, DecoderInv, FeedConsume
  PROVE  DecoderInv'
<1>1. main \in MainType /\ main.pc = "consume" /\ main.ret # "ended" /\ shown = NoShown
      /\ main.frame \in rt.enqueued
  BY DEF DecoderInv, MainInv, ShownInv, FeedConsume
<1>2. UNCHANGED <<arrived, target, rt, cache, sess, ff, wr, rd, shown>>
  BY DEF FeedConsume
<1>3. CASE main' = Idle /\ UNCHANGED <<queue, hist>>
  <2>1. MainInv' /\ ShownInv' /\ main'.pc # "send"
    BY <1>1, <1>2, <1>3, IdleTyped DEF MainInv, ShownInv, Idle
  <2>2. AnswerInv'
    BY <1>1, <1>2, NothingShown
  <2> QED BY <1>1, <1>2, <1>3, <2>1, <2>2, MainOnly
<1>4. CASE ~(main' = Idle /\ UNCHANGED <<queue, hist>>)
  <2> DEFINE x == Head(queue)
             same == x = main.frame
             m == IF same THEN hist.mismatch ELSE hist.mismatch + 1
             l == IF x.id > target THEN hist.late \cup {x} ELSE hist.late
             con == hist.consumed \cup {x}
  <2> SUFFICES ASSUME queue # <<>>, queue' = Tail(queue),
                      hist' = [hist EXCEPT !.consumed = con, !.mismatch = m, !.late = l],
                      main' = IF same /\ main.n + 1 < FeedPerAttempt
                              THEN [main EXCEPT !.pc = "preview", !.n = @ + 1, !.frame = NoFrame]
                              ELSE Idle
               PROVE  DecoderInv'
    BY <1>3, <1>4 DEF FeedConsume
  <2>1. queue \in Seq(Slot0Frames) /\ Len(queue) <= ServerBound
    BY DEF DecoderInv, ServerInv
  <2>2. x \in Slot0Frames /\ Tail(queue) \in Seq(Slot0Frames) /\ Len(Tail(queue)) = Len(queue) - 1
        /\ Len(queue) \in Nat
    BY <2>1, HeadTailProperties, LenProperties
  <2>3. x \in Frames
    BY <2>2, FrameFacts
  <2>4. hist \in HistoryType
    BY DEF DecoderInv, FeedInv
  <2>5. hist' \in HistoryType /\ hist'.consumed = con /\ hist'.mismatch = m /\ hist'.fed = hist.fed
        /\ hist'.decoded = hist.decoded /\ hist'.skips = hist.skips
    <3> DEFINE F == Seq(Slot0Frames)
    <3>1. hist \in [consumed : SUBSET Frames, mismatch : Nat, fed : F, skips : Nat, late : SUBSET Frames, decoded : Nat]
      BY <2>4 DEF HistoryType
    <3>2. con \in SUBSET Frames /\ m \in Nat /\ l \in SUBSET Frames
      BY <2>3, <3>1
    <3> HIDE DEF F, con, m, l
    <3>3. hist' \in [consumed : SUBSET Frames, mismatch : Nat, fed : F, skips : Nat, late : SUBSET Frames, decoded : Nat]
          /\ hist'.consumed = con /\ hist'.mismatch = m /\ hist'.fed = hist.fed
          /\ hist'.decoded = hist.decoded /\ hist'.skips = hist.skips
      BY <3>1, <3>2
    <3> QED BY <3>3 DEF HistoryType, F
  <2>6. main' \in MainType /\ main'.pc \in {"idle", "preview"} /\ main'.ret # "ended"
    <3>1. CASE same /\ main.n + 1 < FeedPerAttempt
      <4> DEFINE k == main.n + 1
      <4>1. k \in Nat /\ NoFrame \in OrNone(Frames)
        BY <1>1 DEF MainType, OrNone
      <4>2. main' = [main EXCEPT !.pc = "preview", !.n = k, !.frame = NoFrame]
        BY <3>1
      <4> HIDE DEF k
      <4> QED BY <1>1, <4>1, <4>2 DEF MainType
    <3>2. CASE ~(same /\ main.n + 1 < FeedPerAttempt)
      BY <3>2, IdleTyped DEF Idle
    <3> QED BY <3>1, <3>2
  <2>7. MainInv' /\ ShownInv'
    BY <1>1, <1>2, <2>6, IdleTyped DEF MainInv, ShownInv
  <2>8. AnswerInv'
    BY <1>1, <1>2, NothingShown
  <2>9. CacheInv'
    BY <1>2, <2>5, CacheKept DEF DecoderInv
  <2>10. ServerInv'
    <3>1. arrived' = arrived /\ target' = target /\ arrived \in 0..MaxFrame /\ target \in 0..MaxFrame
      BY <1>2 DEF DecoderInv, ServerInv
    <3>3. Len(queue') <= ServerBound
      <4> DEFINE n == Len(queue)
      <4>1. n \in Nat /\ n <= ServerBound /\ Len(queue') = n - 1 /\ ServerBound \in Nat
        BY <2>1, <2>2 DEF DecoderAssumption
      <4> HIDE DEF n
      <4> QED BY <4>1
    <3> QED BY <2>2, <3>1, <3>3 DEF ServerInv
  <2>11. LostInv'
    <3> DEFINE lost == {f \in hist.consumed : \A i \in DOMAIN hist.fed : hist.fed[i] # f}
               then == {f \in con : \A i \in DOMAIN hist.fed : hist.fed[i] # f}
    <3>1. IsFiniteSet(hist.consumed) /\ Cardinality(lost) <= hist.mismatch
      BY DEF DecoderInv, LostInv, LostFramesAreCounted
    <3>2. IsFiniteSet(con) /\ IsFiniteSet(lost)
      <4>1. lost \subseteq hist.consumed
        OBVIOUS
      <4> QED BY <3>1, <4>1, FS_AddElement, FS_Subset
    <3>3. Cardinality(then) <= m
      <4>1. CASE same
        <5>1. \E i \in DOMAIN hist.fed : hist.fed[i] = x
          BY <1>1, <4>1 DEF DecoderInv, FeedInv, Keys
        <5>2. then = lost
          BY <5>1
        <5> QED BY <3>1, <4>1, <5>2
      <4>2. CASE ~same
        <5>1. then \subseteq lost \cup {x}
          OBVIOUS
        <5>2. IsFiniteSet(lost \cup {x})
              /\ Cardinality(lost \cup {x}) = (IF x \in lost THEN Cardinality(lost) ELSE Cardinality(lost) + 1)
          BY <3>2, FS_AddElement
        <5>3. Cardinality(then) <= Cardinality(lost \cup {x})
          BY <5>1, <5>2, FS_Subset
        <5>4. Cardinality(lost) \in Nat /\ Cardinality(then) \in Nat /\ hist.mismatch \in Nat
          <6>1. IsFiniteSet(then)
            BY <5>1, <5>2, FS_Subset
          <6> QED BY <2>4, <3>2, <6>1, FS_CardinalityType DEF HistoryType
        <5>5. m = hist.mismatch + 1
          BY <4>2
        <5> HIDE DEF lost, then, m
        <5>6. Cardinality(lost \cup {x}) <= Cardinality(lost) + 1
          BY <5>2, <5>4
        <5>7. Cardinality(lost \cup {x}) \in Nat
          BY <5>2, <5>4
        <5> QED BY <3>1, <5>3, <5>4, <5>5, <5>6, <5>7
      <4> QED BY <4>1, <4>2
    <3> QED BY <2>5, <3>2, <3>3 DEF LostInv, LostFramesAreCounted
  <2> QED BY <1>1, <1>2, <2>5, <2>6, <2>7, <2>8, <2>9, <2>10, <2>11, MainQuiet
<1> QED BY <1>3, <1>4 DEF FeedConsume

LEMMA ServerStoresKeeps ==
  ASSUME DecoderAssumption, DecoderInv, ServerStores
  PROVE  DecoderInv'
<1>1. UNCHANGED <<target, rt, cache, sess, ff, wr, rd, main, shown, hist>>
  BY DEF ServerStores
<1> DEFINE x == Slot0(arrived + 1)
           q == Append(queue, x)
<1>2. arrived < MaxFrame /\ arrived' = arrived + 1 /\ queue' = IF Len(q) > ServerBound THEN Tail(q) ELSE q
  BY DEF ServerStores
<1>3. queue \in Seq(Slot0Frames) /\ Len(queue) <= ServerBound /\ arrived \in 0..MaxFrame /\ target \in 0..MaxFrame
  BY DEF DecoderInv, ServerInv
<1>4. MaxFrame \in Nat /\ ServerBound \in Nat
  BY DEF DecoderAssumption
<1>5. x \in Slot0Frames /\ arrived' \in 0..MaxFrame
  BY <1>2, <1>3, <1>4 DEF Slot0Frames
<1> HIDE DEF x
<1>6. q \in Seq(Slot0Frames) /\ Len(q) = Len(queue) + 1 /\ Len(queue) \in Nat /\ q # <<>>
  BY <1>3, <1>5, AppendProperties, LenProperties
<1> HIDE DEF q
<1>7. Tail(q) \in Seq(Slot0Frames) /\ Len(Tail(q)) = Len(q) - 1
  BY <1>6, HeadTailProperties
<1>8. queue' \in Seq(Slot0Frames) /\ Len(queue') <= ServerBound
  <2>1. CASE Len(q) > ServerBound
    <3>1. queue' = Tail(q)
      BY <1>2, <2>1
    <3> QED BY <1>3, <1>4, <1>6, <1>7, <3>1
  <2>2. CASE ~(Len(q) > ServerBound)
    <3>1. queue' = q
      BY <1>2, <2>2
    <3> QED BY <1>4, <1>6, <2>2, <3>1
  <2> QED BY <2>1, <2>2
<1>9. ServerInv'
  BY <1>1, <1>3, <1>5, <1>8 DEF ServerInv
<1>10. SessionInv' /\ FeedInv' /\ PairInv' /\ QueueLenCounts' /\ OutputHasInput' /\ hist'.skips <= MaxSkips
  BY <1>1, MainMoves DEF DecoderInv, FeedInv
<1>11. CacheInv'
  BY <1>1, CacheKept DEF DecoderInv
<1>12. MainInv' /\ ShownInv' /\ AnswerInv' /\ LostInv'
  BY <1>1 DEF DecoderInv, MainInv, ShownInv, AnswerInv, ShownPictureIsRecent, LostInv, LostFramesAreCounted
<1> QED BY <1>9, <1>10, <1>11, <1>12 DEF DecoderInv

LEMMA TargetAdvancesKeeps ==
  ASSUME DecoderAssumption, DecoderInv, TargetAdvances
  PROVE  DecoderInv'
<1>1. UNCHANGED <<queue, arrived, rt, cache, sess, ff, wr, rd, main, shown, hist>>
  BY DEF TargetAdvances
<1>2. ServerInv'
  <2>1. target \in 0..MaxFrame /\ target < MaxFrame /\ target' = target + 1
    BY DEF DecoderInv, ServerInv, TargetAdvances
  <2>2. target' \in 0..MaxFrame
    BY <2>1 DEF DecoderAssumption
  <2> QED BY <1>1, <2>2 DEF DecoderInv, ServerInv
<1>3. SessionInv' /\ FeedInv' /\ PairInv' /\ QueueLenCounts' /\ OutputHasInput' /\ hist'.skips <= MaxSkips
  BY <1>1, MainMoves DEF DecoderInv, FeedInv
<1>4. CacheInv'
  BY <1>1, CacheKept DEF DecoderInv
<1>5. MainInv' /\ ShownInv' /\ AnswerInv' /\ LostInv'
  BY <1>1 DEF DecoderInv, MainInv, ShownInv, AnswerInv, ShownPictureIsRecent, LostInv, LostFramesAreCounted
<1> QED BY <1>2, <1>3, <1>4, <1>5 DEF DecoderInv

(***************************************************************************)
(* The main thread drains, feeds and stops.                                *)
(***************************************************************************)
\* The runtime's flags change, its decoded order does not.
LEMMA SetFlags ==
  ASSUME NEW r \in RuntimeType, NEW b \in BOOLEAN, NEW e \in SUBSET Slot0Frames
  PROVE  /\ [r EXCEPT !.disabled = b] \in RuntimeType
         /\ [r EXCEPT !.session = b] \in RuntimeType
         /\ [r EXCEPT !.enqueued = e] \in RuntimeType
<1> DEFINE B == Seq(Slot0Frames)
           E == SUBSET Slot0Frames
           T == [disabled : BOOLEAN, session : BOOLEAN, enqueued : E, order : B, latest : Nat]
<1>1. T = RuntimeType
  BY DEF RuntimeType
<1>2. r \in T /\ e \in E
  BY <1>1
<1> HIDE DEF B, E
<1>3. [r EXCEPT !.disabled = b] \in T /\ [r EXCEPT !.session = b] \in T /\ [r EXCEPT !.enqueued = e] \in T
  BY <1>2
<1> QED BY <1>1, <1>3

LEMMA SetState ==
  ASSUME NEW f \in ProcessType, NEW x \in {"none", "running", "exited", "killed"}
  PROVE  LET t == [f EXCEPT !.state = x]
         IN t \in ProcessType /\ t.in = f.in /\ t.out = f.out /\ t.state = x
<1> DEFINE B == Seq(Slot0Frames)
           T == [state : {"none", "running", "exited", "killed"}, in : B, out : B]
           t == [f EXCEPT !.state = x]
<1>1. T = ProcessType
  BY DEF ProcessType
<1>2. f \in T
  BY <1>1
<1> HIDE DEF B
<1>3. t \in T /\ t.in = f.in /\ t.out = f.out /\ t.state = x
  BY <1>2
<1> QED BY <1>1, <1>3

LEMMA DrainKeeps ==
  ASSUME DecoderAssumption, DecoderInv, NEW then \in MainType, Drain(then),
         UNCHANGED <<queue, arrived, target, wr, rd>>,
         main.pc \notin {"send", "join", "ended"}, then.ret \in {"after", "exact", "latest"}
  PROVE  /\ ServerInv' /\ SessionInv' /\ FeedInv' /\ CacheInv' /\ PairInv' /\ QueueLenCounts'
         /\ OutputHasInput' /\ LostInv' /\ hist'.skips <= MaxSkips
         /\ rt'.enqueued = rt.enqueued /\ hist'.skips = hist.skips
         /\ main' \in MainType /\ main'.ret = then.ret /\ main'.frame = then.frame
         /\ main'.result = then.result
         /\ main'.pc = then.ret \/ (main'.pc = "join" /\ rt'.disabled)
<1> DEFINE d == Drained(sess.events)
           failed == \E e \in ToSet(sess.events) : e.kind = "RuntimeError"
<1>1. /\ cache' = d.cache
      /\ rt' = [rt EXCEPT !.order = d.order, !.latest = d.latest, !.disabled = @ \/ failed]
      /\ sess' = [sess EXCEPT !.events = <<>>, !.open = @ /\ ~failed]
      /\ ff' = [ff EXCEPT !.state = IF failed THEN StopChild(@) ELSE @]
      /\ main' = [then EXCEPT !.pc = IF failed THEN "join" ELSE then.ret,
                              !.running = ProcessRunning /\ ~failed]
      /\ hist' = [hist EXCEPT !.decoded = @ + DecodedIn(sess.events, Len(sess.events))]
  BY DEF Drain
<1>2. SessionInv /\ FeedInv /\ CacheInv /\ PairInv /\ QueueLenCounts /\ OutputHasInput /\ main.ret # "ended"
  BY DEF DecoderInv, MainInv
<1>3. Cached(d.order, d.cache, hist.decoded + Emitted) /\ d.latest \in Nat
  BY <1>2, DrainedKeeps
<1>4. d.order \in Seq(Slot0Frames)
  BY <1>3 DEF Cached
<1>5. failed \in BOOLEAN /\ (~rt.session => ~failed)
  BY <1>2 DEF SessionInv, ToSet
<1>6. rt \in RuntimeType /\ sess \in SessionType /\ ff \in ProcessType /\ rt.session \in BOOLEAN /\ rt.disabled \in BOOLEAN
      /\ sess.open \in BOOLEAN
      /\ ff.state \in {"none", "running", "exited", "killed"}
  BY <1>2 DEF SessionInv, RuntimeType, ProcessType, SessionType
<1>7. hist \in HistoryType /\ hist.decoded \in Nat
  BY <1>2 DEF FeedInv, HistoryType
<1>8. Emitted \in Nat
  BY Pieces, LenProperties, DecodedCounts DEF Emitted
<1> HIDE DEF d, failed
<1>9. rt' \in RuntimeType /\ rt'.order = d.order /\ rt'.enqueued = rt.enqueued /\ rt'.session = rt.session
      /\ rt'.disabled = (rt.disabled \/ failed)
  <2> DEFINE b == rt.disabled \/ failed
             o == d.order
             l == d.latest
  <2>1. rt' = [rt EXCEPT !.order = o, !.latest = l, !.disabled = b] /\ b \in BOOLEAN
        /\ o \in Seq(Slot0Frames) /\ l \in Nat
    BY <1>1, <1>3, <1>4, <1>5, <1>6
  <2> HIDE DEF b, o, l
  <2>2. rt' \in RuntimeType /\ rt'.order = o /\ rt'.enqueued = rt.enqueued /\ rt'.session = rt.session /\ rt'.disabled = b
    <3> DEFINE B == Seq(Slot0Frames)
               E == SUBSET Slot0Frames
               T == [disabled : BOOLEAN, session : BOOLEAN, enqueued : E, order : B, latest : Nat]
    <3>1. T = RuntimeType
      BY DEF RuntimeType
    <3>2. rt \in T /\ o \in B
      BY <1>6, <2>1, <3>1
    <3> HIDE DEF B, E
    <3>3. rt' \in T /\ rt'.order = o /\ rt'.enqueued = rt.enqueued /\ rt'.session = rt.session /\ rt'.disabled = b
      BY <2>1, <3>2
    <3> QED BY <3>1, <3>3
  <2> QED BY <2>2 DEF b, o
<1>10. sess' \in SessionType /\ sess'.events = <<>> /\ sess'.chan = sess.chan /\ sess'.corr = sess.corr
       /\ sess'.qlen = sess.qlen
  <2> DEFINE b == sess.open /\ ~failed
             ev == <<>>
             t == [sess EXCEPT !.events = ev]
  <2>1. sess' = [t EXCEPT !.open = b] /\ b \in BOOLEAN /\ ev \in Seq(Events)
    BY <1>1, <1>5, <1>6
  <2> HIDE DEF b, ev
  <2>2. t \in SessionType /\ t.events = ev /\ t.chan = sess.chan /\ t.corr = sess.corr /\ t.qlen = sess.qlen
    BY <1>6, <2>1, SetEvents
  <2> DEFINE u == [t EXCEPT !.open = b]
  <2>3. sess' = u
    BY <2>1
  <2> HIDE DEF t
  <2>4. u \in SessionType /\ u.events = t.events /\ u.chan = t.chan /\ u.corr = t.corr /\ u.qlen = t.qlen
    BY <2>1, <2>2, SetOpen
  <2> HIDE DEF u
  <2> QED BY <2>2, <2>3, <2>4 DEF ev
<1>11. ff' \in ProcessType /\ ff'.in = ff.in /\ ff'.out = ff.out /\ (~failed => ff'.state = ff.state)
  <2> DEFINE x == IF failed THEN StopChild(ff.state) ELSE ff.state
  <2>1. ff' = [ff EXCEPT !.state = x] /\ x \in {"none", "running", "exited", "killed"}
        /\ (~failed => x = ff.state)
    BY <1>1, <1>6 DEF StopChild
  <2> HIDE DEF x
  <2>2. ff' \in ProcessType /\ ff'.in = ff.in /\ ff'.out = ff.out /\ ff'.state = x
    BY <1>6, <2>1, SetState
  <2> QED BY <2>1, <2>2
<1>12. main' \in MainType /\ main'.ret = then.ret /\ main'.frame = then.frame /\ main'.result = then.result
       /\ main'.pc = (IF failed THEN "join" ELSE then.ret)
  <2> DEFINE p == IF failed THEN "join" ELSE then.ret
             b == ProcessRunning /\ ~failed
  <2>1. main' = [then EXCEPT !.pc = p, !.running = b] /\ p \in {"join", "after", "exact", "latest"} /\ b \in BOOLEAN
    BY <1>1, <1>5, <1>6 DEF ProcessRunning
  <2> HIDE DEF p, b
  <2>2. main' \in MainType /\ main'.ret = then.ret /\ main'.frame = then.frame /\ main'.result = then.result
        /\ main'.pc = p
    BY <2>1 DEF MainType
  <2> QED BY <2>2 DEF p
<1>13. hist' \in HistoryType /\ hist'.decoded = hist.decoded + Emitted /\ hist'.fed = hist.fed
       /\ hist'.skips = hist.skips /\ hist'.consumed = hist.consumed /\ hist'.mismatch = hist.mismatch
  <2> DEFINE x == hist.decoded + Emitted
             F == Seq(Slot0Frames)
  <2>1. hist \in [consumed : SUBSET Frames, mismatch : Nat, fed : F, skips : Nat, late : SUBSET Frames, decoded : Nat]
        /\ x \in Nat /\ hist' = [hist EXCEPT !.decoded = x]
    BY <1>1, <1>7, <1>8 DEF HistoryType, Emitted
  <2> HIDE DEF x, F
  <2>2. hist' \in [consumed : SUBSET Frames, mismatch : Nat, fed : F, skips : Nat, late : SUBSET Frames, decoded : Nat]
        /\ hist'.decoded = x /\ hist'.fed = hist.fed
        /\ hist'.skips = hist.skips /\ hist'.consumed = hist.consumed /\ hist'.mismatch = hist.mismatch
    BY <2>1
  <2> QED BY <2>2 DEF HistoryType, F, x
<1>14. CacheInv'
  BY <1>1, <1>3, <1>9, <1>13 DEF CacheInv, Cached
<1>15. InPipeline' = InPipeline /\ Owed' = Owed
  BY <1>10, <1>11 DEF InPipeline, Owed
<1>16. Emitted' = 0 /\ DOMAIN sess'.events = {}
  <2>1. Len(sess'.events) = 0 /\ DOMAIN sess'.events = {}
    BY <1>10
  <2>2. Emitted' = DecodedIn(sess'.events, 0)
    BY <2>1 DEF Emitted
  <2> QED BY <2>1, <2>2, DecodedCounts
<1>17. FeedInv'
  <2> DEFINE x == hist.decoded + Emitted
  <2>1. x <= Len(hist.fed) /\ x \in Nat /\ x + 0 = x
    BY <1>2, <1>7, <1>8 DEF FeedInv
  <2>2. rt.session => /\ x + Len(InPipeline) = Len(hist.fed)
                      /\ \A i \in 1..Len(InPipeline) : InPipeline[i] = hist.fed[x + i]
    BY <1>2 DEF FeedInv
  <2>3. rt.enqueued = Keys(hist.fed) /\ \A i, j \in DOMAIN hist.fed : hist.fed[i] = hist.fed[j] => i = j
    BY <1>2 DEF FeedInv
  <2>4. hist'.decoded = x
    BY <1>13
  <2> HIDE DEF x
  <2> QED BY <1>9, <1>13, <1>15, <1>16, <2>1, <2>2, <2>3, <2>4 DEF FeedInv
<1>18. SessionInv'
  <2>1. /\ wr' \in WriterType /\ rd' \in ReaderType
        /\ Len(sess'.chan) <= QueueBound /\ Len(ff'.in) <= PipeBound /\ Len(ff'.out) <= PipeBound
        /\ rt'.session => wr'.pc # "none" /\ rd'.pc # "none"
        /\ wr'.pc \in {"push", "write"} => wr'.key \in Slot0Frames
        /\ rd'.pc \in {"pop", "emit"} => rd'.pic \in Slot0Frames
        /\ rd'.pc = "emit" => rd'.key \in Slot0Frames
    BY <1>2, <1>9, <1>10, <1>11 DEF SessionInv
  <2>2. ASSUME ~rt'.session
        PROVE  /\ wr'.pc = "none" /\ rd'.pc = "none" /\ ff'.state = "none"
               /\ sess'.events = <<>> /\ sess'.chan = <<>> /\ sess'.corr = <<>>
               /\ (rt'.disabled \/ main'.ret = "ended" \/ (hist'.fed = <<>> /\ hist'.decoded = 0))
    <3>1. ~rt.session /\ ~failed
      BY <1>5, <1>9, <2>2
    <3>2. /\ wr.pc = "none" /\ rd.pc = "none" /\ ff.state = "none"
          /\ sess.events = <<>> /\ sess.chan = <<>> /\ sess.corr = <<>>
          /\ (rt.disabled \/ (hist.fed = <<>> /\ hist.decoded = 0))
      BY <1>2, <3>1 DEF SessionInv
    <3>3. Emitted = 0
      BY <3>2, DecodedCounts DEF Emitted
    <3>4. rt'.disabled = rt.disabled
      BY <1>5, <1>6, <1>9, <3>1
    <3>5. hist.decoded = 0 => hist'.decoded = 0
      BY <1>13, <3>3
    <3> QED BY <1>10, <1>11, <1>13, <3>1, <3>2, <3>4, <3>5
  <2> QED BY <1>9, <1>10, <1>11, <1>16, <2>1, <2>2 DEF SessionInv
<1>19. PairInv'
  BY <1>2, <1>9, <1>10, <1>13, <1>15, <1>16 DEF PairInv
<1>20. QueueLenCounts' /\ OutputHasInput'
  <2>1. main'.pc # "send"
    BY <1>12
  <2> QED BY <1>2, <1>9, <1>10, <1>16, <2>1 DEF QueueLenCounts, OutputHasInput
<1>21. ServerInv' /\ LostInv' /\ hist'.skips <= MaxSkips
  BY <1>13 DEF DecoderInv, ServerInv, LostInv, LostFramesAreCounted
<1>22. main'.pc = then.ret \/ (main'.pc = "join" /\ rt'.disabled)
  BY <1>9, <1>12
<1> QED BY <1>9, <1>12, <1>13, <1>14, <1>17, <1>18, <1>19, <1>20, <1>21, <1>22

LEMMA StartProgramKeeps ==
  ASSUME DecoderAssumption, DecoderInv, StartProgram
  PROVE  DecoderInv'
<1> DEFINE m == [Idle EXCEPT !.pc = "latest", !.ret = "latest", !.budget = main.budget]
<1>1. main.pc = "idle" /\ Drain(m) /\ shown' = NoShown /\ UNCHANGED <<queue, arrived, target, wr, rd>>
  BY DEF StartProgram
<1>2. main.budget \in Nat
  BY DEF DecoderInv, MainInv, MainType
<1>3. m \in MainType /\ m.ret = "latest" /\ m.result = "none"
  BY <1>2 DEF Idle, MainType, OrNone
<1> HIDE DEF m
<1>4. /\ ServerInv' /\ SessionInv' /\ FeedInv' /\ CacheInv' /\ PairInv' /\ QueueLenCounts'
      /\ OutputHasInput' /\ LostInv' /\ hist'.skips <= MaxSkips
      /\ main' \in MainType /\ main'.ret = "latest" /\ main'.result = "none"
      /\ main'.pc = "latest" \/ (main'.pc = "join" /\ rt'.disabled)
  BY <1>1, <1>3, DrainKeeps
<1>5. MainInv'
  BY <1>4 DEF MainInv
<1>6. ShownInv' /\ AnswerInv'
  BY <1>1, IdleTyped, NothingShown DEF ShownInv
<1> QED BY <1>4, <1>5, <1>6 DEF DecoderInv

LEMMA DrainAfterEnqueueKeeps ==
  ASSUME DecoderAssumption, DecoderInv, DrainAfterEnqueue
  PROVE  DecoderInv'
<1> DEFINE m == [main EXCEPT !.ret = "after"]
<1>1. main.pc = "drain" /\ Drain(m) /\ shown' = shown /\ UNCHANGED <<queue, arrived, target, wr, rd>>
  BY DEF DrainAfterEnqueue
<1>2. main \in MainType /\ main.frame \in Slot0Frames /\ shown = NoShown
      /\ (main.result = "Enqueued" => main.frame \in rt.enqueued)
  BY <1>1 DEF DecoderInv, MainInv, ShownInv
<1>3. m \in MainType /\ m.ret = "after" /\ m.result = main.result /\ m.frame = main.frame
  BY <1>2 DEF MainType
<1> HIDE DEF m
<1>4. /\ ServerInv' /\ SessionInv' /\ FeedInv' /\ CacheInv' /\ PairInv' /\ QueueLenCounts'
      /\ OutputHasInput' /\ LostInv' /\ hist'.skips <= MaxSkips
      /\ rt'.enqueued = rt.enqueued
      /\ main' \in MainType /\ main'.ret = "after" /\ main'.result = main.result /\ main'.frame = main.frame
      /\ main'.pc = "after" \/ (main'.pc = "join" /\ rt'.disabled)
  BY <1>1, <1>3, DrainKeeps
<1>5. MainInv'
  BY <1>2, <1>4 DEF MainInv
<1>6. ShownInv' /\ AnswerInv'
  BY <1>1, <1>2, IdleTyped, NothingShown DEF ShownInv
<1> QED BY <1>4, <1>5, <1>6 DEF DecoderInv

LEMMA StartRenderKeeps ==
  ASSUME DecoderAssumption, DecoderInv, StartRender
  PROVE  DecoderInv'
<1>1. main.pc = "idle" /\ shown' = NoShown /\ UNCHANGED <<queue, arrived, target, wr, rd>>
  BY DEF StartRender
<1>2. main.budget \in Nat /\ RefreshBudget \in Nat /\ ProgramFirst \in BOOLEAN
  BY DEF DecoderInv, MainInv, MainType, DecoderAssumption
<1>3. PICK f \in ToSet(queue) \cup (Frames \ {Slot0(i) : i \in 1..MaxFrame}),
           p \in {"PreviewFallback", "ProgramStartupBootstrap"},
           b \in {RefreshBudget, main.budget}, r \in {FALSE, ProgramFirst} :
        LET m == [Idle EXCEPT !.frame = f, !.origin = "RenderDemand", !.purpose = p, !.budget = b,
                              !.reuse = r, !.pc = "exact", !.ret = "exact"]
        IN IF f.src = "slot0" THEN Drain(m) ELSE main' = m /\ UNCHANGED <<rt, cache, sess, ff, hist>>
  BY DEF StartRender
<1> DEFINE m == [Idle EXCEPT !.frame = f, !.origin = "RenderDemand", !.purpose = p, !.budget = b,
                             !.reuse = r, !.pc = "exact", !.ret = "exact"]
<1>4. f \in Frames
  <2>1. queue \in Seq(Slot0Frames)
    BY DEF DecoderInv, ServerInv
  <2>2. \A i \in DOMAIN queue : queue[i] \in Frames
    BY <2>1, ElementOfSeq, LenProperties, FrameFacts
  <2> QED BY <1>3, <2>2 DEF ToSet
<1>5. m \in MainType /\ m.ret = "exact" /\ m.pc = "exact" /\ m.frame = f /\ m.result = "none"
  <2>1. b \in Nat /\ r \in BOOLEAN /\ f \in OrNone(Frames)
    BY <1>2, <1>4 DEF OrNone
  <2> DEFINE a == [Idle EXCEPT !.frame = f, !.origin = "RenderDemand", !.purpose = p]
             c == [a EXCEPT !.budget = b, !.reuse = r]
             e == [c EXCEPT !.pc = "exact", !.ret = "exact"]
  <2>2. m = e
    OBVIOUS
  <2>3. a \in MainType /\ a.frame = f /\ a.result = "none"
    <3>1. Idle \in MainType /\ Idle.result = "none"
      BY IdleTyped DEF Idle
    <3> QED BY <2>1, <3>1 DEF MainType
  <2> HIDE DEF a
  <2>4. c \in MainType /\ c.frame = f /\ c.result = "none"
    BY <2>1, <2>3 DEF MainType
  <2> HIDE DEF c
  <2>5. e \in MainType /\ e.ret = "exact" /\ e.pc = "exact" /\ e.frame = f /\ e.result = "none"
    BY <2>4 DEF MainType
  <2> QED BY <2>2, <2>5
<1>6. IF f.src = "slot0" THEN Drain(m) ELSE main' = m /\ UNCHANGED <<rt, cache, sess, ff, hist>>
  BY <1>3
<1> HIDE DEF m
<1>7. ShownInv' /\ AnswerInv'
  BY <1>1, IdleTyped, NothingShown DEF ShownInv
<1>8. CASE f.src = "slot0"
  <2>1. /\ ServerInv' /\ SessionInv' /\ FeedInv' /\ CacheInv' /\ PairInv' /\ QueueLenCounts'
        /\ OutputHasInput' /\ LostInv' /\ hist'.skips <= MaxSkips
        /\ main' \in MainType /\ main'.ret = "exact" /\ main'.result = "none" /\ main'.frame = f
        /\ main'.pc = "exact" \/ (main'.pc = "join" /\ rt'.disabled)
    BY <1>1, <1>5, <1>6, <1>8, DrainKeeps
  <2>2. MainInv'
    BY <1>4, <2>1 DEF MainInv
  <2> QED BY <1>7, <2>1, <2>2 DEF DecoderInv
<1>9. CASE f.src # "slot0"
  <2>1. main' = m /\ UNCHANGED <<rt, cache, sess, ff, hist>>
    BY <1>6, <1>9
  <2>2. MainInv'
    BY <1>4, <1>5, <2>1 DEF MainInv
  <2> QED BY <1>1, <1>5, <1>7, <2>1, <2>2, MainOnly
<1> QED BY <1>8, <1>9

LEMMA StopRuntimeKeeps ==
  ASSUME DecoderInv, StopRuntime
  PROVE  DecoderInv'
<1>1. main.pc = "idle" /\ UNCHANGED <<queue, arrived, target, rt, cache, wr, rd, shown, hist>>
  BY DEF StopRuntime
<1>2. SessionInv /\ FeedInv /\ CacheInv /\ PairInv /\ QueueLenCounts /\ OutputHasInput
  BY DEF DecoderInv
<1>3. rt.session \in BOOLEAN /\ sess \in SessionType /\ ff \in ProcessType
      /\ ff.state \in {"none", "running", "exited", "killed"}
  BY <1>2 DEF SessionInv, RuntimeType, ProcessType
<1>4. main' \in MainType /\ main'.pc = (IF rt.session THEN "join" ELSE "ended") /\ main'.ret = "ended"
      /\ main'.result = "none"
  <2> DEFINE p == IF rt.session THEN "join" ELSE "ended"
  <2>1. main' = [Idle EXCEPT !.pc = p, !.ret = "ended"] /\ p \in {"join", "ended"}
    BY DEF StopRuntime
  <2> HIDE DEF p
  <2>2. main' \in MainType /\ main'.pc = p /\ main'.ret = "ended" /\ main'.result = "none"
    BY <2>1 DEF Idle, MainType, OrNone
  <2> QED BY <2>2 DEF p
<1>5. sess' \in SessionType /\ sess'.chan = sess.chan /\ sess'.corr = sess.corr /\ sess'.events = sess.events
      /\ sess'.qlen = sess.qlen
  <2> DEFINE b == FALSE
  <2>1. b \in BOOLEAN /\ sess' = [sess EXCEPT !.open = b]
    BY DEF StopRuntime
  <2> HIDE DEF b
  <2> QED BY <1>3, <2>1, SetOpen
<1>6. ff' \in ProcessType /\ ff'.in = ff.in /\ ff'.out = ff.out /\ (~rt.session => ff'.state = ff.state)
  <2> DEFINE x == IF rt.session THEN StopChild(ff.state) ELSE ff.state
  <2>1. ff' = [ff EXCEPT !.state = x] /\ x \in {"none", "running", "exited", "killed"}
        /\ (~rt.session => x = ff.state)
    BY <1>3 DEF StopRuntime, StopChild
  <2> HIDE DEF x
  <2>2. ff' \in ProcessType /\ ff'.in = ff.in /\ ff'.out = ff.out /\ ff'.state = x
    BY <1>3, <2>1, SetState
  <2> QED BY <2>1, <2>2
<1>7. SessionInv'
  BY <1>1, <1>2, <1>4, <1>5, <1>6 DEF SessionInv
<1>8. InPipeline' = InPipeline /\ Owed' = Owed
  BY <1>1, <1>5, <1>6 DEF InPipeline, Owed
<1>9. FeedInv'
  BY <1>1, <1>2, <1>5, <1>8, FeedKept DEF FeedInv
<1>10. PairInv' /\ CacheInv'
  BY <1>1, <1>2, <1>5, <1>8, PairKept, CacheKept
<1>11. QueueLenCounts' /\ OutputHasInput'
  BY <1>1, <1>2, <1>4, <1>5 DEF QueueLenCounts, OutputHasInput
<1>12. ServerInv' /\ AnswerInv' /\ LostInv' /\ hist'.skips <= MaxSkips
  BY <1>1 DEF DecoderInv, ServerInv, AnswerInv, ShownPictureIsRecent, LostInv, LostFramesAreCounted
<1>13. MainInv'
  BY <1>4 DEF MainInv
<1>14. ShownInv'
  BY <1>1, <1>4 DEF DecoderInv, ShownInv
<1> QED BY <1>7, <1>9, <1>10, <1>11, <1>12, <1>13, <1>14 DEF DecoderInv

\* Both threads have ended: nothing of the session is left, and the runtime is
\* disabled or stopped for good.
LEMMA JoinedKeeps ==
  ASSUME DecoderAssumption, DecoderInv, Joined
  PROVE  DecoderInv'
<1>1. main.pc = "join" /\ UNCHANGED <<queue, arrived, target, cache, shown, hist>>
      /\ rt' = [rt EXCEPT !.session = FALSE] /\ sess' = NoSession
      /\ ff' = [state |-> "none", in |-> <<>>, out |-> <<>>]
      /\ wr' = [pc |-> "none", key |-> NoFrame]
      /\ rd' = [pc |-> "none", pic |-> NoFrame, key |-> NoFrame]
      /\ main' = [main EXCEPT !.pc = main.ret]
  BY DEF Joined
<1>2. SessionInv /\ FeedInv /\ CacheInv /\ PairInv /\ MainInv /\ ShownInv
  BY DEF DecoderInv
<1>3. rt \in RuntimeType
  BY <1>2 DEF SessionInv
<1>4. rt' \in RuntimeType /\ rt'.session = FALSE /\ rt'.disabled = rt.disabled /\ rt'.order = rt.order
      /\ rt'.enqueued = rt.enqueued
  <2>1. rt' \in RuntimeType
    BY <1>1, <1>3, SetFlags
  <2> QED BY <1>1, <1>3, <2>1 DEF RuntimeType
<1>5. sess' \in SessionType /\ sess'.events = <<>> /\ sess'.chan = <<>> /\ sess'.corr = <<>>
  BY <1>1 DEF NoSession, SessionType
<1>6. ff' \in ProcessType /\ ff'.in = <<>> /\ ff'.out = <<>> /\ ff'.state = "none"
  BY <1>1 DEF ProcessType
<1>7. wr' \in WriterType /\ wr'.pc = "none" /\ rd' \in ReaderType /\ rd'.pc = "none"
  BY <1>1 DEF WriterType, ReaderType, OrNone
<1>8. main \in MainType /\ main.ret \in {"after", "exact", "latest", "ended"}
      /\ (rt.disabled \/ main.ret = "ended")
  BY <1>1, <1>2 DEF MainInv, MainType
<1>9. main' \in MainType /\ main'.pc = main.ret /\ main'.ret = main.ret /\ main'.frame = main.frame
      /\ main'.result = main.result
  BY <1>1, <1>8 DEF MainType
<1>10. Len(sess'.chan) = 0 /\ Len(ff'.in) = 0 /\ Len(ff'.out) = 0 /\ DOMAIN sess'.events = {}
       /\ Len(sess'.events) = 0
  BY <1>5, <1>6
<1>12. SessionInv'
  <2>1. QueueBound \in Nat /\ PipeBound \in Nat
    BY DEF DecoderAssumption
  <2>2. Len(sess'.chan) <= QueueBound /\ Len(ff'.in) <= PipeBound /\ Len(ff'.out) <= PipeBound
    BY <1>10, <2>1
  <2> QED BY <1>4, <1>5, <1>6, <1>7, <1>8, <1>9, <1>10, <2>1, <2>2 DEF SessionInv
<1>13. FeedInv'
  <2>1. Emitted' = 0
    <3>1. Emitted' = DecodedIn(sess'.events, 0)
      BY <1>10 DEF Emitted
    <3> QED BY <3>1, DecodedCounts
  <2>2. hist.decoded \in Nat /\ Emitted \in Nat /\ hist.decoded + Emitted <= Len(hist.fed) /\ Len(hist.fed) \in Nat
    <3>1. hist.decoded \in Nat /\ hist.fed \in Seq(Slot0Frames) /\ hist.decoded + Emitted <= Len(hist.fed)
      BY <1>2 DEF FeedInv, HistoryType
    <3>2. Emitted \in Nat
      BY Pieces, LenProperties, DecodedCounts DEF Emitted
    <3> QED BY <3>1, <3>2, LenProperties
  <2>3. hist.decoded + 0 <= Len(hist.fed)
    BY <2>2
  <2> QED BY <1>1, <1>2, <1>4, <1>10, <2>1, <2>3 DEF FeedInv
<1>14. CacheInv'
  BY <1>1, <1>2, <1>4, CacheKept
<1>15. PairInv' /\ QueueLenCounts' /\ OutputHasInput'
  BY <1>4, <1>10 DEF PairInv, QueueLenCounts, OutputHasInput
<1>16. MainInv'
  BY <1>1, <1>2, <1>4, <1>8, <1>9 DEF MainInv
<1>17. ShownInv'
  BY <1>1, <1>2, <1>9 DEF ShownInv
<1>18. ServerInv' /\ AnswerInv' /\ LostInv' /\ hist'.skips <= MaxSkips
  BY <1>1 DEF DecoderInv, ServerInv, AnswerInv, ShownPictureIsRecent, LostInv, LostFramesAreCounted
<1> QED BY <1>12, <1>13, <1>14, <1>15, <1>16, <1>17, <1>18 DEF DecoderInv

LEMMA ReserveKeeps ==
  ASSUME DecoderAssumption, DecoderInv, Reserve
  PROVE  DecoderInv'
<1> DEFINE f == main.frame
           skip(r) == /\ main' = [main EXCEPT !.pc = "drain", !.result = r]
                      /\ UNCHANGED <<rt, sess, ff, wr, rd>>
           Skips == {"SkippedRuntimeDisabled", "SkippedDuplicate", "SkippedStartupNotReady"}
<1>1. main.pc = "reserve" /\ UNCHANGED <<queue, arrived, target, cache, shown, hist>>
  BY DEF Reserve
<1>2. SessionInv /\ FeedInv /\ CacheInv /\ PairInv /\ QueueLenCounts /\ OutputHasInput
  BY DEF DecoderInv
<1>3. main \in MainType /\ main.ret # "ended" /\ shown = NoShown /\ f \in Slot0Frames
  BY <1>1 DEF DecoderInv, MainInv, ShownInv
<1>4. rt \in RuntimeType /\ sess \in SessionType /\ rt.session \in BOOLEAN /\ rt.disabled \in BOOLEAN
  BY <1>2 DEF SessionInv, RuntimeType
<1>5. ServerInv' /\ (rt'.order = rt.order => CacheInv')
  BY <1>1, <1>2, CacheKept DEF DecoderInv, ServerInv
<1>6. ShownInv' /\ AnswerInv' /\ LostInv' /\ hist'.skips <= MaxSkips
  BY <1>1, <1>3, IdleTyped, NothingShown DEF DecoderInv, ShownInv, LostInv, LostFramesAreCounted
<1>7. CASE \E r \in Skips : skip(r)
  <2> PICK r \in Skips : skip(r)
    BY <1>7
  <2>1. main' \in MainType /\ main'.pc = "drain" /\ main'.frame = f /\ main'.result = r /\ main'.ret = main.ret
    BY <1>3 DEF MainType
  <2>2. MainInv'
    BY <1>3, <2>1 DEF MainInv
  <2> QED BY <1>1, <1>3, <1>6, <2>1, <2>2, MainOnly
<1>8. CASE /\ rt.session /\ f \notin rt.enqueued
           /\ sess' = [sess EXCEPT !.qlen = @ + 1]
           /\ main' = [main EXCEPT !.pc = "send"]
           /\ UNCHANGED <<rt, ff, wr, rd>>
  <2>1. main' \in MainType /\ main'.pc = "send" /\ main'.frame = f /\ main'.ret = main.ret
    BY <1>3, <1>8 DEF MainType
  <2>2. MainInv'
    BY <1>3, <1>8, <2>1 DEF MainInv
  <2>3. sess' \in SessionType /\ sess'.qlen = sess.qlen + 1 /\ sess'.chan = sess.chan
        /\ sess'.corr = sess.corr /\ sess'.events = sess.events /\ sess.qlen \in Nat
    <3> DEFINE q == sess.qlen + 1
    <3>1. q \in Nat /\ sess' = [sess EXCEPT !.qlen = q] /\ sess.qlen \in Nat
      BY <1>8, Pieces
    <3> HIDE DEF q
    <3>2. sess' \in SessionType /\ sess'.qlen = q /\ sess'.chan = sess.chan
          /\ sess'.corr = sess.corr /\ sess'.events = sess.events
      BY <1>4, <3>1, SetQlen
    <3> QED BY <3>1, <3>2 DEF q
  <2>4. SessionInv'
    BY <1>1, <1>2, <1>8, <2>1, <2>3 DEF SessionInv
  <2>5. InPipeline' = InPipeline /\ Owed' = Owed
    BY <1>8, <2>3 DEF InPipeline, Owed
  <2>6. FeedInv' /\ PairInv'
    BY <1>1, <1>2, <1>8, <2>3, <2>5, FeedKept, PairKept DEF FeedInv
  <2>7. QueueLenCounts' /\ OutputHasInput'
    <3>1. sess.qlen = Len(sess.chan) + 0 /\ Len(sess.chan) \in Nat
      BY <1>1, <1>2, <1>8, Pieces, LenProperties DEF QueueLenCounts
    <3>2. sess'.qlen = Len(sess'.chan) + 1
      BY <2>3, <3>1
    <3> QED BY <1>2, <2>1, <2>3, <3>2 DEF QueueLenCounts, OutputHasInput
  <2> QED BY <1>5, <1>6, <1>8, <2>2, <2>4, <2>6, <2>7 DEF DecoderInv
<1>9. CASE /\ ~rt.session
           /\ rt' = [rt EXCEPT !.disabled = TRUE]
           /\ main' = [main EXCEPT !.pc = "drain", !.result = "SkippedStartupNotReady"]
           /\ UNCHANGED <<sess, ff, wr, rd>>
  <2>1. main' \in MainType /\ main'.pc = "drain" /\ main'.frame = f /\ main'.ret = main.ret
        /\ main'.result = "SkippedStartupNotReady"
    BY <1>3, <1>9 DEF MainType
  <2>2. MainInv'
    BY <1>3, <2>1 DEF MainInv
  <2>3. rt' \in RuntimeType /\ rt'.session = rt.session /\ rt'.order = rt.order /\ rt'.enqueued = rt.enqueued
        /\ rt'.disabled
    <3>1. rt' \in RuntimeType
      BY <1>4, <1>9, SetFlags
    <3> QED BY <1>4, <1>9, <3>1 DEF RuntimeType
  <2>4. SessionInv'
    BY <1>1, <1>2, <1>9, <2>3 DEF SessionInv
  <2>5. InPipeline' = InPipeline /\ Owed' = Owed
    BY <1>9 DEF InPipeline, Owed
  <2>6. FeedInv' /\ PairInv'
    BY <1>1, <1>2, <1>9, <2>3, <2>5, FeedKept, PairKept DEF FeedInv
  <2>7. QueueLenCounts' /\ OutputHasInput'
    BY <1>2, <1>9, <2>3 DEF QueueLenCounts, OutputHasInput
  <2> QED BY <1>5, <1>6, <2>2, <2>3, <2>4, <2>6, <2>7 DEF DecoderInv
<1>10. CASE /\ ~rt.disabled /\ f \notin rt.enqueued /\ ~rt.session
            /\ rt' = [rt EXCEPT !.session = TRUE]
            /\ sess' = [NoSession EXCEPT !.open = TRUE, !.qlen = 1]
            /\ ff' = [state |-> "running", in |-> <<>>, out |-> <<>>]
            /\ wr' = [pc |-> "recv", key |-> NoFrame]
            /\ rd' = [pc |-> "read", pic |-> NoFrame, key |-> NoFrame]
            /\ main' = [main EXCEPT !.pc = "send"]
  <2>1. main' \in MainType /\ main'.pc = "send" /\ main'.frame = f /\ main'.ret = main.ret
    BY <1>3, <1>10 DEF MainType
  <2>2. rt' \in RuntimeType /\ rt'.session /\ rt'.order = rt.order /\ rt'.enqueued = rt.enqueued
    <3>1. rt' \in RuntimeType
      BY <1>4, <1>10, SetFlags
    <3> QED BY <1>4, <1>10, <3>1 DEF RuntimeType
  <2>3. MainInv'
    BY <1>3, <1>10, <2>1, <2>2 DEF MainInv
  <2>4. sess' \in SessionType /\ sess'.events = <<>> /\ sess'.chan = <<>> /\ sess'.corr = <<>> /\ sess'.qlen = 1
    <3> DEFINE t == [NoSession EXCEPT !.open = TRUE]
    <3>1. NoSession \in SessionType /\ NoSession.events = <<>> /\ NoSession.chan = <<>> /\ NoSession.corr = <<>>
      BY DEF NoSession, SessionType
    <3>2. t \in SessionType /\ t.events = <<>> /\ t.chan = <<>> /\ t.corr = <<>>
      BY <3>1, SetOpen
    <3>3. sess' = [t EXCEPT !.qlen = 1]
      BY <1>10
    <3> HIDE DEF t
    <3> DEFINE u == [t EXCEPT !.qlen = 1]
    <3>4. u \in SessionType /\ u.events = t.events /\ u.chan = t.chan /\ u.corr = t.corr /\ u.qlen = 1
      BY <3>2, SetQlen
    <3> HIDE DEF u
    <3> QED BY <3>2, <3>3, <3>4 DEF u
  <2>5. ff' \in ProcessType /\ ff'.in = <<>> /\ ff'.out = <<>>
    BY <1>10 DEF ProcessType
  <2>6. wr' \in WriterType /\ wr'.pc = "recv" /\ rd' \in ReaderType /\ rd'.pc = "read"
    BY <1>10 DEF WriterType, ReaderType, OrNone
  <2>7. Len(sess'.chan) = 0 /\ Len(ff'.in) = 0 /\ Len(ff'.out) = 0 /\ DOMAIN sess'.events = {}
        /\ Len(sess'.events) = 0 /\ Len(sess'.corr) = 0
    BY <2>4, <2>5
  <2>8. SessionInv'
    <3>1. Len(sess'.chan) <= QueueBound /\ Len(ff'.in) <= PipeBound /\ Len(ff'.out) <= PipeBound
      <4>1. QueueBound \in Nat /\ PipeBound \in Nat
        BY DEF DecoderAssumption
      <4> QED BY <2>7, <4>1
    <3> QED BY <2>2, <2>4, <2>5, <2>6, <2>7, <3>1 DEF SessionInv
  <2>9. InPipeline' = <<>> /\ Owed' = <<>>
    <3>1. InPipeline' = ((<<>> \o <<>>) \o <<>>) \o <<>>
      BY <2>4, <2>6 DEF InPipeline, One
    <3>2. Owed' = ((<<>> \o <<>>) \o <<>>) \o <<>>
      BY <2>5, <2>6 DEF Owed, One
    <3>3. <<>> \o <<>> = <<>>
      <4>1. <<>> \in Seq(Slot0Frames)
        OBVIOUS
      <4> QED BY <4>1, ConcatEmptySeq
    <3> QED BY <3>1, <3>2, <3>3
  <2>10. FeedInv'
    <3>1. hist.fed = <<>> /\ hist.decoded = 0
      BY <1>2, <1>3, <1>10 DEF SessionInv
    <3>2. Emitted' = 0
      <4>1. Emitted' = DecodedIn(sess'.events, 0)
        BY <2>7 DEF Emitted
      <4> QED BY <4>1, DecodedCounts
    <3>3. Len(InPipeline') = 0 /\ Len(hist.fed) = 0
      BY <2>9, <3>1
    <3>4. hist'.decoded + Emitted' + Len(InPipeline') = Len(hist'.fed) /\ hist'.decoded + Emitted' <= Len(hist'.fed)
          /\ 1..Len(InPipeline') = {}
      BY <1>1, <3>1, <3>2, <3>3
    <3> QED BY <1>1, <1>2, <2>2, <2>7, <3>4 DEF FeedInv
  <2>11. PairInv'
    <3>1. Len(Owed') = 0 /\ 1..Len(Owed') = {}
      BY <2>9
    <3>2. Len(Owed') <= Len(sess'.corr) /\ Len(Owed') = Len(sess'.corr)
      BY <2>7, <3>1
    <3> QED BY <2>6, <2>7, <3>1, <3>2 DEF PairInv
  <2>12. QueueLenCounts' /\ OutputHasInput'
    BY <2>1, <2>4, <2>7 DEF QueueLenCounts, OutputHasInput
  <2> QED BY <1>5, <1>6, <2>2, <2>3, <2>8, <2>10, <2>11, <2>12 DEF DecoderInv
<1> QED BY <1>4, <1>7, <1>8, <1>9, <1>10 DEF Reserve, StartsAt

\* The channel takes the input: it is remembered, and is the last of the pipeline.
LEMMA AcceptedKeeps ==
  ASSUME DecoderAssumption, DecoderInv, main.pc = "send", HasRoom,
         UNCHANGED <<queue, arrived, target, cache, wr, rd, shown, ff>>,
         rt' = [rt EXCEPT !.enqueued = rt.enqueued \cup {main.frame}],
         sess' = [sess EXCEPT !.chan = Append(sess.chan, main.frame), !.qlen = sess.qlen],
         main' = [main EXCEPT !.pc = "drain", !.result = "Enqueued"],
         hist' = [hist EXCEPT !.fed = Append(hist.fed, main.frame)]
  PROVE  DecoderInv'
<1> DEFINE f == main.frame
           fed == hist.fed
           n == Len(fed)
<1>1. SessionInv /\ FeedInv /\ CacheInv /\ PairInv /\ QueueLenCounts /\ OutputHasInput /\ MainInv /\ ShownInv
      /\ AnswerInv /\ LostInv
  BY DEF DecoderInv
<1>2. main \in MainType /\ main.ret # "ended" /\ shown = NoShown /\ f \in Slot0Frames /\ rt.session
      /\ f \notin rt.enqueued
  BY <1>1 DEF MainInv, ShownInv
<1>3. rt \in RuntimeType /\ sess \in SessionType /\ hist \in HistoryType /\ rt.enqueued \in SUBSET Slot0Frames
  BY <1>1 DEF SessionInv, FeedInv, RuntimeType
<1>4. fed \in Seq(Slot0Frames) /\ n \in Nat /\ hist.decoded \in Nat /\ DOMAIN fed = 1..n
  BY <1>3, LenProperties DEF HistoryType
<1>5. rt' \in RuntimeType /\ rt'.enqueued = rt.enqueued \cup {f} /\ rt'.session = rt.session
      /\ rt'.disabled = rt.disabled /\ rt'.order = rt.order
  <2> DEFINE e == rt.enqueued \cup {f}
  <2>1. rt' = [rt EXCEPT !.enqueued = e] /\ e \in SUBSET Slot0Frames
    BY <1>2, <1>3
  <2> HIDE DEF e
  <2>2. rt' \in RuntimeType
    BY <1>3, <2>1, SetFlags
  <2> QED BY <1>3, <2>1, <2>2 DEF RuntimeType, e
<1>6. main' \in MainType /\ main'.pc = "drain" /\ main'.frame = f /\ main'.ret = main.ret
      /\ main'.result = "Enqueued"
  BY <1>2 DEF MainType
<1>7. sess' \in SessionType /\ sess'.chan = Append(sess.chan, f) /\ sess'.qlen = sess.qlen
      /\ sess'.corr = sess.corr /\ sess'.events = sess.events
  <2> DEFINE c == Append(sess.chan, f)
             q == sess.qlen
             t == [sess EXCEPT !.chan = c]
  <2>1. c \in Seq(Slot0Frames) /\ q \in Nat
    BY <1>2, Pieces, AppendProperties
  <2>2. sess' = [t EXCEPT !.qlen = q]
    OBVIOUS
  <2> HIDE DEF c, q
  <2>3. t \in SessionType /\ t.chan = c /\ t.events = sess.events /\ t.corr = sess.corr
    BY <1>3, <2>1, SetChan
  <2> HIDE DEF t
  <2> DEFINE u == [t EXCEPT !.qlen = q]
  <2>4. u \in SessionType /\ u.chan = t.chan /\ u.qlen = q /\ u.events = t.events /\ u.corr = t.corr
    BY <2>1, <2>3, SetQlen
  <2> HIDE DEF u
  <2> QED BY <2>2, <2>3, <2>4 DEF c, q, u
<1>8. hist' \in HistoryType /\ hist'.fed = Append(fed, f) /\ hist'.decoded = hist.decoded
      /\ hist'.skips = hist.skips /\ hist'.consumed = hist.consumed /\ hist'.mismatch = hist.mismatch
  <2> DEFINE F == Seq(Slot0Frames)
             x == Append(fed, f)
  <2>1. hist \in [consumed : SUBSET Frames, mismatch : Nat, fed : F, skips : Nat, late : SUBSET Frames, decoded : Nat]
        /\ x \in F /\ hist' = [hist EXCEPT !.fed = x]
    BY <1>2, <1>3, <1>4, AppendProperties DEF HistoryType
  <2> HIDE DEF x, F
  <2>2. hist' \in [consumed : SUBSET Frames, mismatch : Nat, fed : F, skips : Nat, late : SUBSET Frames, decoded : Nat]
        /\ hist'.fed = x /\ hist'.decoded = hist.decoded
        /\ hist'.skips = hist.skips /\ hist'.consumed = hist.consumed /\ hist'.mismatch = hist.mismatch
    BY <2>1
  <2> QED BY <2>2 DEF HistoryType, F, x
<1> DEFINE more == Append(fed, f)
<1>9. /\ more \in Seq(Slot0Frames) /\ Len(more) = n + 1 /\ (\A i \in 1..n : more[i] = fed[i])
      /\ more[n + 1] = f /\ DOMAIN more = 1..(n + 1)
  <2>1. more \in Seq(Slot0Frames) /\ Len(more) = n + 1 /\ (\A i \in 1..n : more[i] = fed[i]) /\ more[n + 1] = f
    BY <1>2, <1>4, AppendProperties
  <2> QED BY <2>1, LenProperties
<1>10. \A i \in 1..(n + 1) : i = n + 1 \/ i \in 1..n
  BY <1>4
<1>11. 1..n \subseteq 1..(n + 1) /\ n + 1 \in 1..(n + 1)
  BY <1>4
<1> HIDE DEF more, n
<1>12. Keys(fed) = rt.enqueued /\ \A i, j \in 1..n : fed[i] = fed[j] => i = j
  BY <1>1, <1>4 DEF FeedInv
<1>13. \A i \in 1..n : fed[i] # f
  BY <1>2, <1>4, <1>12 DEF Keys
<1>14. Keys(more) = rt.enqueued \cup {f}
  <2>1. ASSUME NEW k \in Keys(more) PROVE k \in rt.enqueued \cup {f}
    <3>1. PICK i \in 1..(n + 1) : k = more[i]
      BY <1>9 DEF Keys
    <3>2. CASE i = n + 1
      BY <1>9, <3>1, <3>2
    <3>3. CASE i \in 1..n
      <4>1. k = fed[i] /\ i \in DOMAIN fed
        BY <1>4, <1>9, <3>1, <3>3
      <4> QED BY <1>12, <4>1 DEF Keys
    <3> QED BY <1>10, <3>2, <3>3
  <2>2. ASSUME NEW k \in rt.enqueued PROVE k \in Keys(more)
    <3>1. PICK i \in 1..n : k = fed[i]
      BY <1>4, <1>12 DEF Keys
    <3>2. more[i] = k /\ i \in DOMAIN more
      BY <1>9, <1>11, <3>1
    <3> QED BY <3>2 DEF Keys
  <2>3. f \in Keys(more)
    BY <1>9, <1>11 DEF Keys
  <2> HIDE DEF f
  <2> QED BY <2>1, <2>2, <2>3
<1>15. \A i, j \in DOMAIN more : more[i] = more[j] => i = j
  BY <1>9, <1>10, <1>12, <1>13
<1>16. InPipeline' = Append(InPipeline, f) /\ InPipeline \in Seq(Slot0Frames)
  <2> DEFINE A == One(rd.pc = "emit", rd.key) \o sess.corr \o One(wr.pc = "push", wr.key)
  <2>1. A \in Seq(Slot0Frames) /\ sess.chan \in Seq(Slot0Frames)
    BY Pieces, ConcatProperties
  <2>2. InPipeline = A \o sess.chan /\ InPipeline' = A \o Append(sess.chan, f)
    BY <1>7 DEF InPipeline
  <2> HIDE DEF A
  <2> QED BY <1>2, <2>1, <2>2, AppendLast, ConcatProperties
<1> DEFINE b == hist.decoded + Emitted
           p == InPipeline
<1>17. b \in Nat /\ Len(p) \in Nat /\ b + Len(p) = n /\ \A i \in 1..Len(p) : p[i] = fed[b + i]
  <2>1. Emitted \in Nat
    BY Pieces, LenProperties, DecodedCounts DEF Emitted
  <2>2. b \in Nat
    BY <1>4, <2>1
  <2> QED BY <1>1, <1>2, <1>16, <2>2, LenProperties DEF FeedInv, n
<1>18. Len(Append(p, f)) = Len(p) + 1 /\ (\A i \in 1..Len(p) : Append(p, f)[i] = p[i]) /\ Append(p, f)[Len(p) + 1] = f
  BY <1>2, <1>16, AppendProperties
<1>19. Emitted' = Emitted
  BY <1>7 DEF Emitted
<1> HIDE DEF p
<1>20. \A i \in 1..(Len(p) + 1) : Append(p, f)[i] = more[b + i]
  <2> HIDE DEF b, f
  <2> TAKE i \in 1..(Len(p) + 1)
  <2>1. CASE i = Len(p) + 1
    <3>1. b + i = n + 1
      BY <1>17, <2>1
    <3> QED BY <1>9, <1>18, <2>1, <3>1
  <2>2. CASE i # Len(p) + 1
    <3>1. i \in 1..Len(p) /\ b + i \in 1..n
      BY <1>17, <2>2
    <3> QED BY <1>9, <1>17, <1>18, <3>1
  <2> QED BY <2>1, <2>2
<1>21. \A i \in DOMAIN sess.events : sess.events[i].kind = "Decoded" =>
         sess.events[i].key = more[hist.decoded + DecodedIn(sess.events, i)]
  <2> TAKE i \in DOMAIN sess.events
  <2> HAVE sess.events[i].kind = "Decoded"
  <2> DEFINE ev == sess.events
             x == DecodedIn(ev, i)
             d == hist.decoded
  <2>1. ev \in Seq(Events) /\ Len(ev) \in Nat /\ i \in 1..Len(ev)
    BY Pieces, LenProperties
  <2>2. x \in Nat /\ x <= Emitted /\ Emitted \in Nat
    <3>1. i \in Nat /\ i <= Len(ev)
      BY <2>1
    <3> QED BY <2>1, <3>1, DecodedGrows, DecodedCounts DEF Emitted
  <2>3. x >= 1
    <3> DEFINE j == i - 1
    <3>1. j \in Nat /\ j + 1 = i
      BY <2>1
    <3> HIDE DEF j
    <3>2. DecodedIn(ev, j) \in Nat /\ DecodedIn(ev, j + 1) = DecodedIn(ev, j) + 1
      BY <3>1, DecodedCounts
    <3> QED BY <3>1, <3>2
  <2>4. ev[i].key = fed[d + x]
    BY <1>1 DEF FeedInv
  <2> HIDE DEF ev, x, d
  <2>5. b = d + Emitted /\ d \in Nat
    BY <1>4 DEF d
  <2>6. d + x \in 1..n
    BY <1>17, <2>2, <2>3, <2>5
  <2>7. more[d + x] = fed[d + x]
    BY <1>9, <2>6
  <2> QED BY <2>4, <2>7 DEF ev, x, d
<1>22. FeedInv'
  <2>1. b + (Len(p) + 1) = n + 1 /\ b <= n + 1
    <3> HIDE DEF b
    <3> QED BY <1>4, <1>17
  <2>2. hist'.decoded + Emitted' = b /\ InPipeline' = Append(p, f) /\ hist'.fed = more
    BY <1>8, <1>16, <1>19 DEF p, more
  <2> HIDE DEF b, f
  <2>3. hist'.decoded + Emitted' + Len(InPipeline') = Len(hist'.fed) /\ hist'.decoded + Emitted' <= Len(hist'.fed)
    BY <1>9, <1>18, <2>1, <2>2
  <2>4. \A i \in 1..Len(InPipeline') : InPipeline'[i] = hist'.fed[hist'.decoded + Emitted' + i]
    BY <1>18, <1>20, <2>2
  <2> QED BY <1>5, <1>7, <1>8, <1>14, <1>15, <1>21, <2>2, <2>3, <2>4 DEF FeedInv, f
<1>23. SessionInv'
  <2>1. Len(sess'.chan) <= QueueBound
    <3> DEFINE m == Len(sess.chan)
    <3>1. m \in Nat /\ m < QueueBound /\ Len(sess'.chan) = m + 1 /\ QueueBound \in Nat
      BY <1>2, <1>7, Pieces, LenProperties, AppendProperties DEF HasRoom, DecoderAssumption
    <3> HIDE DEF m
    <3> QED BY <3>1
  <2> QED BY <1>1, <1>2, <1>5, <1>7, <2>1 DEF SessionInv
<1>24. CacheInv'
  <2>1. Cached(rt.order, cache, hist.decoded)
    BY <1>1 DEF CacheInv
  <2> DEFINE o == rt.order
             d == hist.decoded
  <2>2. Len(o) <= d /\ Len(o) \in Nat /\ \A i \in 1..Len(o) : o[i] = fed[d - Len(o) + i]
    BY <2>1, CachedTyped, LenProperties DEF Cached
  <2>3. d <= n /\ d \in Nat
    <3>1. Emitted \in Nat
      BY Pieces, LenProperties, DecodedCounts DEF Emitted
    <3>2. d + Emitted <= n
      BY <1>1 DEF FeedInv, n
    <3> HIDE DEF d
    <3>3. d \in Nat
      BY <1>4 DEF d
    <3> QED BY <1>4, <3>1, <3>2, <3>3 DEF n
  <2>4. \A i \in 1..Len(o) : o[i] = more[d - Len(o) + i]
    <3> HIDE DEF o, d
    <3> TAKE i \in 1..Len(o)
    <3>1. d - Len(o) + i \in 1..n
      BY <2>2, <2>3, <1>4 DEF n
    <3> QED BY <1>9, <2>2, <3>1
  <2> QED BY <1>5, <1>8, <2>1, <2>4 DEF CacheInv, Cached, more
<1>25. PairInv'
  <2>1. Owed' = Owed
    BY DEF Owed
  <2> QED BY <1>1, <1>5, <1>7, <1>8, <2>1, PairKept
<1>26. QueueLenCounts' /\ OutputHasInput'
  <2>1. sess.qlen = Len(sess.chan) + 1 /\ Len(sess.chan) \in Nat
    BY <1>1, <1>2, Pieces, LenProperties DEF QueueLenCounts
  <2>2. Len(sess'.chan) = Len(sess.chan) + 1
    BY <1>2, <1>7, Pieces, AppendProperties
  <2>3. sess'.qlen = Len(sess'.chan) + 0
    BY <1>7, <2>1, <2>2
  <2> QED BY <1>1, <1>6, <1>7, <2>3 DEF QueueLenCounts, OutputHasInput
<1>27. MainInv'
  BY <1>2, <1>5, <1>6 DEF MainInv
<1>28. ShownInv' /\ AnswerInv'
  BY <1>1, <1>2, <1>8, IdleTyped, NothingShown DEF ShownInv
<1>29. LostInv'
  <2> DEFINE lost == {x \in hist.consumed : \A i \in DOMAIN fed : fed[i] # x}
             left == {x \in hist.consumed : \A i \in DOMAIN more : more[i] # x}
  <2>1. IsFiniteSet(hist.consumed) /\ Cardinality(lost) <= hist.mismatch
    BY <1>1 DEF LostInv, LostFramesAreCounted
  <2>2. left \subseteq lost /\ lost \subseteq hist.consumed
    BY <1>4, <1>9, <1>11
  <2>3. IsFiniteSet(lost) /\ IsFiniteSet(left)
    BY <2>1, <2>2, FS_Subset
  <2>4. Cardinality(left) <= Cardinality(lost) /\ Cardinality(lost) \in Nat /\ Cardinality(left) \in Nat
    BY <2>2, <2>3, FS_Subset, FS_CardinalityType
  <2>5. hist.mismatch \in Nat
    BY <1>3 DEF HistoryType
  <2> HIDE DEF lost, left
  <2>6. Cardinality(left) <= hist.mismatch
    BY <2>1, <2>4, <2>5
  <2> QED BY <1>8, <2>1, <2>6 DEF LostInv, LostFramesAreCounted, left, more
<1>30. ServerInv' /\ hist'.skips <= MaxSkips
  BY <1>8 DEF DecoderInv, ServerInv
<1> QED BY <1>22, <1>23, <1>24, <1>25, <1>26, <1>27, <1>28, <1>29, <1>30 DEF DecoderInv

\* The reservation is given back: the channel was full, or the writer is gone.
LEMMA GivenBack ==
  ASSUME DecoderInv, main.pc = "send",
         UNCHANGED <<queue, arrived, target, cache, wr, rd, shown, hist>>,
         rt' \in RuntimeType, rt'.enqueued = rt.enqueued, rt'.session = rt.session, rt'.order = rt.order,
         rt.disabled => rt'.disabled,
         sess' \in SessionType, sess'.chan = sess.chan, sess'.corr = sess.corr,
         sess'.events = sess.events, sess'.qlen = sess.qlen - 1,
         ff' \in ProcessType, ff'.in = ff.in, ff'.out = ff.out,
         main' \in MainType, main'.pc \in {"drain", "join"}, main'.frame = main.frame,
         main'.ret # "ended", main'.result # "Enqueued",
         main'.pc = "join" => rt'.disabled /\ main'.ret = "after"
  PROVE  DecoderInv'
<1>1. SessionInv /\ FeedInv /\ CacheInv /\ PairInv /\ QueueLenCounts /\ OutputHasInput /\ MainInv /\ ShownInv
  BY DEF DecoderInv
<1>2. main.ret # "ended" /\ shown = NoShown /\ main.frame \in Slot0Frames /\ rt.session
  BY <1>1 DEF MainInv, ShownInv
<1>3. SessionInv'
  BY <1>1, <1>2 DEF SessionInv
<1>4. InPipeline' = InPipeline /\ Owed' = Owed
  BY DEF InPipeline, Owed
<1>5. FeedInv'
  BY <1>1, <1>4, FeedKept DEF FeedInv
<1>6. PairInv' /\ CacheInv'
  BY <1>1, <1>4, PairKept, CacheKept
<1>7. QueueLenCounts' /\ OutputHasInput'
  <2>1. sess.qlen = Len(sess.chan) + 1 /\ Len(sess.chan) \in Nat
    BY <1>1, <1>2, Pieces, LenProperties DEF QueueLenCounts
  <2>2. sess'.qlen = Len(sess'.chan) + 0
    BY <2>1
  <2> QED BY <1>1, <2>2 DEF QueueLenCounts, OutputHasInput
<1>8. MainInv'
  BY <1>2 DEF MainInv
<1>9. ShownInv' /\ AnswerInv'
  BY <1>2, IdleTyped, NothingShown DEF ShownInv
<1>10. ServerInv' /\ LostInv' /\ hist'.skips <= MaxSkips
  BY DEF DecoderInv, ServerInv, LostInv, LostFramesAreCounted
<1> QED BY <1>3, <1>5, <1>6, <1>7, <1>8, <1>9, <1>10 DEF DecoderInv

LEMMA TrySendKeeps ==
  ASSUME DecoderAssumption, DecoderInv, TrySend
  PROVE  DecoderInv'
<1>1. main.pc = "send" /\ UNCHANGED <<queue, arrived, target, cache, wr, rd, shown>>
  BY DEF TrySend
<1>2. SessionInv /\ MainInv /\ QueueLenCounts
  BY DEF DecoderInv
<1>3. main \in MainType /\ main.ret # "ended" /\ main.frame \in Slot0Frames /\ rt.session
  BY <1>1, <1>2 DEF MainInv
<1>4. rt \in RuntimeType /\ sess \in SessionType /\ ff \in ProcessType
  BY <1>2 DEF SessionInv
<1>5. sess.qlen \in Nat /\ sess.qlen - 1 \in Nat
  <2>1. sess.qlen = Len(sess.chan) + 1 /\ Len(sess.chan) \in Nat
    BY <1>1, <1>2, <1>3, Pieces, LenProperties DEF QueueLenCounts
  <2> QED BY <2>1
<1>6. CASE wr.pc # "done" /\ HasRoom
  BY <1>1, <1>6, AcceptedKeeps DEF TrySend, RememberOnSend, QueueLenAfter
<1>7. CASE wr.pc # "done" /\ ~HasRoom
  <2>1. rt' = [rt EXCEPT !.enqueued = rt.enqueued] /\ ff' = ff
        /\ sess' = [sess EXCEPT !.chan = sess.chan, !.qlen = sess.qlen - 1]
        /\ main' = [main EXCEPT !.pc = "drain", !.result = "DroppedInputQueueFull"]
        /\ hist' = [hist EXCEPT !.fed = hist.fed]
    BY <1>7 DEF TrySend, RememberOnSend, QueueLenAfter
  <2>2. rt' = rt
    BY <1>4, <2>1 DEF RuntimeType
  <2>3. hist' = hist
    BY <2>1 DEF DecoderInv, FeedInv, HistoryType
  <2>4. sess' \in SessionType /\ sess'.chan = sess.chan /\ sess'.corr = sess.corr
        /\ sess'.events = sess.events /\ sess'.qlen = sess.qlen - 1
    <3> DEFINE q == sess.qlen - 1
               t == [sess EXCEPT !.chan = sess.chan]
    <3>1. t = sess
      BY <1>4 DEF SessionType
    <3>2. sess' = [sess EXCEPT !.qlen = q] /\ q \in Nat
      BY <1>5, <2>1, <3>1
    <3> HIDE DEF q
    <3>3. sess' \in SessionType /\ sess'.chan = sess.chan /\ sess'.corr = sess.corr
          /\ sess'.events = sess.events /\ sess'.qlen = q
      BY <1>4, <3>2, SetQlen
    <3> QED BY <3>3 DEF q
  <2>5. main' \in MainType /\ main'.pc = "drain" /\ main'.frame = main.frame /\ main'.ret = main.ret
        /\ main'.result = "DroppedInputQueueFull"
    BY <1>3, <2>1 DEF MainType
  <2> QED BY <1>1, <1>3, <1>4, <2>1, <2>2, <2>3, <2>4, <2>5, GivenBack
<1>8. CASE wr.pc = "done"
  <2>1. rt' = [rt EXCEPT !.disabled = TRUE] /\ hist' = hist
        /\ sess' = [sess EXCEPT !.open = FALSE, !.qlen = sess.qlen - 1]
        /\ ff' = [ff EXCEPT !.state = "killed"]
        /\ main' = [main EXCEPT !.pc = "join", !.ret = "after", !.result = "Disconnected"]
    BY <1>8 DEF TrySend, disable, QueueLenAfter, StopChild
  <2>2. rt' \in RuntimeType /\ rt'.enqueued = rt.enqueued /\ rt'.session = rt.session
        /\ rt'.order = rt.order /\ rt'.disabled
    <3>1. rt' \in RuntimeType
      BY <1>4, <2>1, SetFlags
    <3> QED BY <1>4, <2>1, <3>1 DEF RuntimeType
  <2>3. sess' \in SessionType /\ sess'.chan = sess.chan /\ sess'.corr = sess.corr
        /\ sess'.events = sess.events /\ sess'.qlen = sess.qlen - 1
    <3> DEFINE q == sess.qlen - 1
               t == [sess EXCEPT !.open = FALSE]
               u == [t EXCEPT !.qlen = q]
    <3>1. sess' = u /\ q \in Nat
      BY <1>5, <2>1
    <3> HIDE DEF q
    <3>2. t \in SessionType /\ t.chan = sess.chan /\ t.corr = sess.corr /\ t.events = sess.events
      BY <1>4, SetOpen
    <3> HIDE DEF t
    <3>3. u \in SessionType /\ u.chan = t.chan /\ u.corr = t.corr /\ u.events = t.events /\ u.qlen = q
      BY <3>1, <3>2, SetQlen
    <3> HIDE DEF u
    <3> QED BY <3>1, <3>2, <3>3 DEF q
  <2>4. ff' \in ProcessType /\ ff'.in = ff.in /\ ff'.out = ff.out
    BY <1>4, <2>1, SetState
  <2>5. main' \in MainType /\ main'.pc = "join" /\ main'.frame = main.frame /\ main'.ret = "after"
        /\ main'.result = "Disconnected"
    BY <1>3, <2>1 DEF MainType
  <2> QED BY <1>1, <1>3, <2>1, <2>2, <2>3, <2>4, <2>5, GivenBack
<1> QED BY <1>6, <1>7, <1>8

-----------------------------------------------------------------------------
\* At the start there is no session, and nothing was fed.
LEMMA DecoderStarts ==
  ASSUME DecoderAssumption, Init
  PROVE  DecoderInv
<1>1. /\ queue = <<>> /\ arrived = 0 /\ target = 0 /\ main = Idle /\ shown = NoShown /\ sess = NoSession
      /\ rt = [disabled |-> FALSE, session |-> FALSE, enqueued |-> {}, order |-> <<>>, latest |-> 0]
      /\ cache = [k \in {} |-> NoFrame]
      /\ ff = [state |-> "none", in |-> <<>>, out |-> <<>>]
      /\ wr = [pc |-> "none", key |-> NoFrame]
      /\ rd = [pc |-> "none", pic |-> NoFrame, key |-> NoFrame]
      /\ hist = [consumed |-> {}, mismatch |-> 0, fed |-> <<>>, skips |-> 0, late |-> {}, decoded |-> 0]
  BY DEF Init
<1>2. MaxFrame \in Nat /\ MaxSkips \in Nat /\ QueueBound \in Nat /\ PipeBound \in Nat /\ ServerBound \in Nat
  BY DEF DecoderAssumption
<1>3. ServerInv
  <2>1. <<>> \in Seq(Slot0Frames) /\ Len(<<>>) = 0
    OBVIOUS
  <2>2. queue \in Seq(Slot0Frames) /\ Len(queue) <= ServerBound
    BY <1>1, <1>2, <2>1
  <2>3. arrived \in 0..MaxFrame /\ target \in 0..MaxFrame
    BY <1>1, <1>2
  <2> QED BY <2>2, <2>3 DEF ServerInv
<1>4. MainInv /\ ShownInv
  <2>1. main.pc = "idle" /\ main.ret = "none"
    BY <1>1 DEF Idle
  <2> QED BY <1>1, <2>1, IdleTyped DEF MainInv, ShownInv
<1>5. rt \in RuntimeType /\ sess \in SessionType /\ ff \in ProcessType /\ wr \in WriterType /\ rd \in ReaderType
      /\ hist \in HistoryType
  BY <1>1 DEF RuntimeType, NoSession, SessionType, ProcessType, WriterType, ReaderType, HistoryType, OrNone
<1>6. sess.events = <<>> /\ sess.chan = <<>> /\ sess.corr = <<>> /\ ~rt.session /\ hist.fed = <<>> /\ hist.decoded = 0
      /\ ff.in = <<>> /\ ff.out = <<>> /\ rt.order = <<>> /\ rt.enqueued = {} /\ hist.skips = 0
  BY <1>1 DEF NoSession
<1>7. DOMAIN sess.events = {} /\ Len(sess.events) = 0 /\ Len(sess.chan) = 0 /\ DOMAIN hist.fed = {}
      /\ Len(hist.fed) = 0 /\ Len(ff.in) = 0 /\ Len(ff.out) = 0 /\ Len(rt.order) = 0 /\ DOMAIN rt.order = {}
  BY <1>6
<1>8. SessionInv
  <2>1. Len(sess.chan) <= QueueBound /\ Len(ff.in) <= PipeBound /\ Len(ff.out) <= PipeBound
    BY <1>2, <1>7
  <2>2. wr.pc = "none" /\ rd.pc = "none" /\ ff.state = "none"
    BY <1>1
  <2> QED BY <1>5, <1>6, <1>7, <2>1, <2>2 DEF SessionInv
<1>9. FeedInv
  <2>1. Emitted = 0
    <3>1. Emitted = DecodedIn(sess.events, 0)
      BY <1>7 DEF Emitted
    <3> QED BY <3>1, DecodedCounts
  <2>2. hist.decoded + Emitted <= Len(hist.fed)
    BY <1>6, <1>7, <2>1
  <2>3. Keys(hist.fed) = {}
    BY <1>7 DEF Keys
  <2> QED BY <1>5, <1>6, <1>7, <2>2, <2>3 DEF FeedInv
<1>10. CacheInv
  <2>1. DOMAIN cache = {} /\ cache = [k \in DOMAIN cache |-> cache[k]]
    BY <1>1
  <2>2. Keys(rt.order) = {}
    BY <1>7 DEF Keys
  <2>3. rt.order \in Seq(Slot0Frames) /\ Len(rt.order) <= QueueBound /\ Len(rt.order) <= hist.decoded /\ 1..Len(rt.order) = {}
    BY <1>2, <1>5, <1>6, <1>7 DEF RuntimeType
  <2> QED BY <2>1, <2>2, <2>3 DEF CacheInv, Cached
<1>11. PairInv /\ QueueLenCounts /\ OutputHasInput
  BY <1>6, <1>7 DEF PairInv, QueueLenCounts, OutputHasInput
<1>12. AnswerInv
  BY <1>1 DEF NoShown, AnswerInv, ShownPictureIsRecent
<1>13. LostInv
  <2> DEFINE lost == {f \in hist.consumed : \A i \in DOMAIN hist.fed : hist.fed[i] # f}
  <2>1. hist.consumed = {} /\ hist.mismatch = 0
    BY <1>1
  <2>2. lost = {} /\ IsFiniteSet(hist.consumed)
    BY <2>1, FS_EmptySet
  <2>3. Cardinality(lost) <= hist.mismatch
    BY <2>1, <2>2, FS_EmptySet
  <2> QED BY <2>2, <2>3 DEF LostInv, LostFramesAreCounted
<1> QED BY <1>2, <1>3, <1>4, <1>6, <1>8, <1>9, <1>10, <1>11, <1>12, <1>13 DEF DecoderInv

LEMMA DecoderStutters ==
  ASSUME DecoderInv, UNCHANGED vars
  PROVE  DecoderInv'
<1>1. UNCHANGED <<queue, arrived, target, rt, cache, sess, ff, wr, rd, main, shown, hist>>
  BY DEF vars
<1>2. CacheInv' /\ hist' \in HistoryType
  BY <1>1, CacheKept DEF DecoderInv, FeedInv
<1>3. SessionInv' /\ FeedInv' /\ PairInv' /\ QueueLenCounts' /\ OutputHasInput' /\ hist'.skips <= MaxSkips
  BY <1>1, <1>2, MainMoves
<1>4. ServerInv' /\ MainInv' /\ ShownInv' /\ AnswerInv' /\ LostInv'
  BY <1>1 DEF DecoderInv, ServerInv, MainInv, ShownInv, AnswerInv, ShownPictureIsRecent, LostInv, LostFramesAreCounted
<1> QED BY <1>2, <1>3, <1>4 DEF DecoderInv

LEMMA DecoderSteps ==
  ASSUME DecoderAssumption, DecoderInv, [Next]_vars
  PROVE  DecoderInv'
<1>1. CASE MainStep
  BY <1>1, StartFeedKeeps, FeedPreviewKeeps, FeedAfterKeeps, FeedConsumeKeeps, StartProgramKeeps,
     ProgramLatestKeeps, StartRenderKeeps, ExactLookupKeeps, RenderAfterEnqueueKeeps, OneShotKeeps,
     ReserveKeeps, TrySendKeeps, DrainAfterEnqueueKeeps, JoinedKeeps, StopRuntimeKeeps DEF MainStep
<1>2. CASE WriterStep
  BY <1>2, WriterRecvKeeps, WriterPushKeeps, WriterWriteKeeps DEF WriterStep
<1>3. CASE ReaderStep
  BY <1>3, ReaderReadKeeps, ReaderPopKeeps, ReaderEmitKeeps DEF ReaderStep
<1>4. CASE FfmpegStep
  BY <1>4, FfmpegDecodesKeeps, FfmpegSkipsKeeps, FfmpegExitsKeeps DEF FfmpegStep
<1>5. CASE ServerStores \/ TargetAdvances
  BY <1>5, ServerStoresKeeps, TargetAdvancesKeeps
<1>6. CASE UNCHANGED vars
  BY <1>6, DecoderStutters
<1> QED BY <1>1, <1>2, <1>3, <1>4, <1>5, <1>6 DEF Next

LEMMA DecoderAlways == ASSUME DecoderAssumption PROVE Spec => []DecoderInv
<1>1. Init => DecoderInv
  BY DecoderStarts
<1>2. DecoderInv /\ [Next]_vars => DecoderInv'
  BY DecoderSteps
<1> QED BY <1>1, <1>2, PTL DEF Spec

(***************************************************************************)
(* What the invariant says about the properties of the runs.               *)
(***************************************************************************)
LEMMA DecoderTypes ==
  ASSUME DecoderInv
  PROVE  DecoderTypeOK
<1>1. queue \in Seq(Slot0Frames) /\ Len(queue) <= ServerBound
      /\ arrived \in 0..MaxFrame /\ target \in 0..MaxFrame
  BY DEF DecoderInv, ServerInv
<1>2. rt \in RuntimeType /\ sess.qlen \in Nat /\ Len(sess.chan) <= QueueBound
      /\ Len(ff.in) <= PipeBound /\ Len(ff.out) <= PipeBound
  BY Pieces DEF DecoderInv, SessionInv
<1>3. Slot0Frames \subseteq Frames /\ DOMAIN cache \subseteq Frames
  BY FrameFacts, CachedTyped
<1>4. Seq(Slot0Frames) \subseteq Seq(Frames)
  BY <1>3, SeqMonotonic
<1>5. rt \in [disabled : BOOLEAN, session : BOOLEAN, enqueued : SUBSET Frames,
              order : Seq(Frames), latest : Nat]
  <2> DEFINE s == Seq(Slot0Frames)
             q == Seq(Frames)
  <2>1. rt \in [disabled : BOOLEAN, session : BOOLEAN, enqueued : SUBSET Slot0Frames,
                order : s, latest : Nat]
    BY <1>2 DEF RuntimeType
  <2>2. s \subseteq q
    BY <1>4
  <2> HIDE DEF s, q
  <2>3. rt \in [disabled : BOOLEAN, session : BOOLEAN, enqueued : SUBSET Frames,
                order : q, latest : Nat]
    BY <1>3, <2>1, <2>2
  <2> QED BY <2>3 DEF q
<1> QED BY <1>1, <1>2, <1>3, <1>4, <1>5 DEF DecoderTypeOK

LEMMA OrderAgrees ==
  ASSUME DecoderInv
  PROVE  OrderAgreesWithCache
<1> DEFINE order == rt.order
           fed == hist.fed
           d == hist.decoded
           n == Len(order)
<1>1. /\ order \in Seq(Slot0Frames) /\ n <= QueueBound /\ n <= d
      /\ \A i \in 1..n : order[i] = fed[d - n + i]
  BY DEF DecoderInv, CacheInv, Cached
<1>2. /\ fed \in Seq(Slot0Frames) /\ d \in Nat
      /\ \A i, j \in DOMAIN fed : fed[i] = fed[j] => i = j
      /\ d + Emitted <= Len(fed)
  BY DEF DecoderInv, FeedInv, HistoryType
<1>3. sess.events \in Seq(Events)
  BY Pieces
<1>4. Emitted \in Nat
  BY <1>3, DecodedCounts, LenProperties DEF Emitted
<1>5. DOMAIN order = 1..n /\ n \in Nat /\ DOMAIN fed = 1..Len(fed) /\ Len(fed) \in Nat
  BY <1>1, <1>2, LenProperties
<1>6. ASSUME NEW i \in DOMAIN order, NEW j \in DOMAIN order, order[i] = order[j] PROVE i = j
  <2> DEFINE len == Len(fed)
  <2>1. i \in 1..n /\ j \in 1..n /\ n \in Nat /\ d \in Nat /\ n <= d /\ len \in Nat /\ d <= len
    <3> HIDE DEF n, d, fed, order
    <3> QED BY <1>1, <1>2, <1>4, <1>5, <1>6
  <2>2. order[i] = fed[d - n + i] /\ order[j] = fed[d - n + j]
    BY <1>1, <2>1
  <2>3. d - n + i \in 1..len /\ d - n + j \in 1..len
    <3> HIDE DEF n, d, len, order, fed
    <3> QED BY <2>1
  <2>4. d - n + i = d - n + j
    BY <1>2, <1>5, <1>6, <2>2, <2>3
  <2> HIDE DEF n, d, order
  <2> QED BY <2>1, <2>4
<1>7. Keys(order) \subseteq DOMAIN cache
  BY CachedTyped
<1> QED BY <1>1, <1>6, <1>7 DEF OrderAgreesWithCache

\* The pipeline is the part of the inputs that follows those emitted.
LEMMA PipelineInOrder ==
  ASSUME DecoderInv
  PROVE  PipelineIsFifo
<1> DEFINE pipe == InPipeline
           fed == hist.fed
           past == hist.decoded + Emitted
           n == Len(fed)
           rest == SubSeq(fed, past + 1, n)
<1> SUFFICES ASSUME rt.session PROVE rt.enqueued = Keys(fed) /\ pipe = rest
      /\ (\A i \in DOMAIN sess.events : sess.events[i].kind = "Decoded" =>
            sess.events[i].key = fed[hist.decoded + DecodedIn(sess.events, i)])
  BY DEF PipelineIsFifo, Emitted
<1>1. FeedInv /\ hist \in HistoryType /\ fed \in Seq(Slot0Frames) /\ hist.decoded \in Nat
  BY DEF DecoderInv, FeedInv, HistoryType
<1>2. Emitted \in Nat
  BY Pieces, DecodedCounts, LenProperties DEF Emitted
<1>3. pipe \in Seq(Slot0Frames)
  <2> DEFINE a == One(rd.pc = "emit", rd.key)
             b == One(wr.pc = "push", wr.key)
  <2>1. a \in Seq(Slot0Frames) /\ b \in Seq(Slot0Frames)
        /\ sess.corr \in Seq(Slot0Frames) /\ sess.chan \in Seq(Slot0Frames)
    BY Pieces
  <2>2. pipe = a \o sess.corr \o b \o sess.chan
    BY DEF InPipeline
  <2> HIDE DEF a, b, pipe
  <2>3. a \o sess.corr \in Seq(Slot0Frames)
    BY <2>1, ConcatProperties
  <2>4. a \o sess.corr \o b \in Seq(Slot0Frames)
    BY <2>1, <2>3, ConcatProperties
  <2> QED BY <2>1, <2>2, <2>4, ConcatProperties
<1>4. past + Len(pipe) = n /\ \A i \in 1..Len(pipe) : pipe[i] = fed[past + i]
  BY <1>1 DEF FeedInv
<1>5. Len(pipe) \in Nat /\ n \in Nat /\ past \in Nat
  BY <1>1, <1>2, <1>3, LenProperties
<1>6. \A i \in (past + 1)..n : fed[i] \in Slot0Frames
  BY <1>1, <1>5, ElementOfSeq
<1>7. rest \in Seq(Slot0Frames) /\ Len(rest) = (IF past + 1 <= n THEN n - (past + 1) + 1 ELSE 0)
      /\ \A i \in 1..(n - (past + 1) + 1) : rest[i] = fed[(past + 1) + i - 1]
  <2> HIDE DEF past, n, fed
  <2> QED BY <1>5, <1>6, SubSeqProperties
<1>8. pipe = rest
  <2> DEFINE m == Len(pipe)
  <2>1. Len(rest) = m /\ n - (past + 1) + 1 = m
    <3> HIDE DEF past, n, rest, m, pipe, fed
    <3>1. past + m = n
      BY <1>4 DEF m
    <3>2. m \in Nat /\ n \in Nat /\ past \in Nat
      BY <1>5 DEF m
    <3> QED BY <1>7, <3>1, <3>2
  <2>2. \A i \in 1..m : (past + 1) + i - 1 = past + i
    <3>1. past \in Nat /\ m \in Nat
      BY <1>5
    <3> HIDE DEF past, m
    <3> QED BY <3>1
  <2>3. \A i \in 1..m : rest[i] = pipe[i]
    <3> HIDE DEF past, n, rest, m, pipe, fed
    <3>1. \A i \in 1..m : pipe[i] = fed[past + i]
      BY <1>4 DEF m
    <3> QED BY <1>7, <2>1, <2>2, <3>1
  <2> HIDE DEF rest, pipe
  <2> QED BY <1>3, <1>7, <2>1, <2>3, SeqEqual
<1> QED BY <1>1, <1>8 DEF FeedInv

\* What holds of the decoder whatever ffmpeg does.
DecoderOrder ==
  /\ DecoderTypeOK /\ OrderAgreesWithCache /\ QueueLenCounts /\ PipelineIsFifo
  /\ OutputHasInput /\ LostFramesAreCounted

LEMMA InvGivesOrder ==
  ASSUME DecoderInv
  PROVE  DecoderOrder
BY DecoderTypes, OrderAgrees, PipelineInOrder DEF DecoderOrder, DecoderInv, LostInv

LEMMA InvGivesAll ==
  ASSUME MaxSkips = 0, DecoderInv
  PROVE  DecoderInvariant
<1>1. hist.skips = 0
  BY DEF DecoderInv, FeedInv, HistoryType
<1>2. DecodedUnderOwnKey
  BY <1>1, CachedTyped DEF DecodedUnderOwnKey
<1>3. ShownPictureIsRecent
  BY <1>1 DEF DecoderInv, AnswerInv
<1> QED BY <1>2, <1>3, InvGivesOrder DEF DecoderInvariant, DecoderOrder

\* A request that ffmpeg's one-shot decode did not answer shows something else.
LEMMA OnlyOneShotShows ==
  ASSUME DecoderAssumption, DecoderInv, [Next]_vars, main.pc = "oneshot",
         shown'.how \in {"oneshot", "failed"}
  PROVE  OneShot
<1>1. shown = NoShown /\ shown.how = "none"
  BY DEF DecoderInv, ShownInv, MainInv, NoShown
<1>2. shown' # shown /\ shown' # NoShown
  BY <1>1
<1>3. ~UNCHANGED vars
  BY <1>2 DEF vars
<1>4. MainStep
  BY <1>2, <1>3 DEF Next, WriterStep, ReaderStep, FfmpegStep, WriterRecv, WriterPush, WriterWrite,
     ReaderRead, ReaderPop, ReaderEmit, FfmpegDecodes, FfmpegSkips, FfmpegExits, ServerStores, TargetAdvances
<1> QED BY <1>4 DEF MainStep, StartFeed, FeedPreview, FeedAfter, FeedConsume, StartProgram, ProgramLatest,
     StartRender, ExactLookup, RenderAfterEnqueue, Reserve, TrySend, DrainAfterEnqueue, Joined, StopRuntime

LEMMA BudgetStep ==
  ASSUME DecoderAssumption, DecoderInv, [Next]_vars
  PROVE  PreviewBudgetKept
<1> SUFFICES ASSUME ProgramFirst, main.pc = "oneshot", main.purpose = "PreviewFallback",
                    main.frame.src # "slot0", shown'.how \in {"oneshot", "failed"}
             PROVE  main.budget > 0 /\ main'.budget = main.budget - 1
  BY DEF PreviewBudgetKept
<1> DEFINE f == main.frame
           spent == IF ProgramFirst /\ main.purpose = "PreviewFallback" /\ f.src # "slot0" /\ main.budget > 0
                    THEN main.budget - 1 ELSE main.budget
<1>1. OneShot
  BY OnlyOneShotShows
<1>2. ~SuppressPreview(f) /\ main' = [Idle EXCEPT !.budget = spent]
  BY <1>1 DEF OneShot, Answer
<1>3. main.budget # 0
  BY <1>2 DEF SuppressPreview
<1>4. main.budget \in Nat
  BY DEF DecoderInv, MainInv, MainType
<1>5. main.budget > 0
  BY <1>3, <1>4
<1>6. spent = main.budget - 1
  BY <1>5
<1>7. main'.budget = spent
  BY <1>2 DEF Idle
<1> QED BY <1>5, <1>6, <1>7

\* Whatever ffmpeg does with the access units it is given - swallow them, stall
\* or exit at any time - the decoded-key order has its pictures and no key twice,
\* the shared length counter counts the channel and the reservation, every
\* accepted input is once in the pipeline in the order it was fed, a surplus
\* output is never reported for an input that is on its way, and every frame
\* that was taken without being fed is counted.
THEOREM DecoderKeepsOrder == ASSUME DecoderAssumption PROVE Spec => []DecoderOrder
<1>1. DecoderInv => DecoderOrder
  BY InvGivesOrder
<1> QED BY <1>1, DecoderAlways, PTL

\* While ffmpeg gives one picture for every access unit, also every picture is
\* cached under the frame it shows, and an answer is never of another source, of
\* a later frame, or older than the allowed lag.
THEOREM DecoderIsSound ==
  ASSUME DecoderAssumption, MaxSkips = 0
  PROVE  Spec => []DecoderInvariant
<1>1. DecoderInv => DecoderInvariant
  BY InvGivesAll
<1> QED BY <1>1, DecoderAlways, PTL

\* maybe_suppress_program_first_preview_one_shot: a one-shot decode of the other
\* source for the preview spends the refresh budget of the tick, and none happens
\* without it.
THEOREM PreviewStaysInBudget ==
  ASSUME DecoderAssumption
  PROVE  Spec => [][PreviewBudgetKept]_vars
<1>1. DecoderInv /\ [Next]_vars => [PreviewBudgetKept]_vars
  BY BudgetStep
<1> QED BY <1>1, DecoderAlways, PTL DEF Spec

-----------------------------------------------------------------------------
(***************************************************************************)
(* The live two-view runtime, for every schedule, budget of packets, queue *)
(* capacity, clock offset and target policy, and every packet, decoder and *)
(* window that fails.  Bindings are made before the first tick and never   *)
(* again, so what is shown belongs to who authenticated; every tick is     *)
(* counted under one outcome, so draws and stop reasons follow from the    *)
(* counts.  Which frame is shown is a matter of the clocks: the capture    *)
(* times are compared on the server's clock, where a time before its zero  *)
(* saturates, so that the two theorems about it ask for clocks past zero.  *)
(***************************************************************************)
CONSTANTS
  Left, Right, Other, Sources, Stamps, Offset, Delay, LiveMaxLate, MaxEarly, MinBuffer,
  QueueCapacity, AuthPackets, SourcePackets, TickPackets, MaxTicks, MaxRendered,
  StartTime, TickInterval

VARIABLES
  phase, registry, auth, packets_read, tick, items, tickQueue, selection, tickOutcome,
  draws, summary, stop_reason

Live == INSTANCE LiveTwoView WITH
  MaxLate <- LiveMaxLate, queue <- tickQueue, outcome <- tickOutcome

Kinds == {"none", "no_frame", "waiting_for_buffer", "selected", "too_early", "too_late"}
Summaries == [Live!Outcomes -> Nat]

LiveTypeInv ==
  /\ phase \in {"auth", "tick", "receive", "pipeline", "done"}
  /\ DOMAIN registry \subseteq Live!Clients
  /\ \A c \in DOMAIN registry : registry[c] \in Sources
  /\ auth \in 0 .. AuthPackets /\ packets_read \in 0 .. SourcePackets
  /\ items \in 0 .. TickPackets /\ tick \in 0 .. MaxTicks
  /\ tickQueue \in [Live!Clients -> Seq(Live!Frame)]
  /\ \A c \in Live!Clients : Len(tickQueue[c]) <= QueueCapacity
  /\ selection \in [Live!Sides -> [kind : Kinds, frame : Live!Frame \cup {Live!NoFrame}]]
  /\ \A s \in Live!Sides : selection[s].kind = "selected" => selection[s].frame \in Live!Frame
  /\ summary \in Summaries /\ draws \in Nat
  /\ stop_reason \in {"none", "SourceEnded", "MaxTicksReached", "MaxRenderedFramesReached"}

\* Every tick is counted under one outcome; a tick in which a side failed to
\* decode may have been drawn all the same.
CountInv ==
  /\ Live!counted_ticks = tick
  /\ Live!rendered_frames <= draws /\ draws <= Live!rendered_frames + summary["decode_failed"]
  /\ Live!rendered_frames <= MaxRendered
  /\ phase \in {"receive", "pipeline"} => tick < MaxTicks /\ Live!rendered_frames < MaxRendered

\* What ended the schedule, and what a tick leaves behind.
StopInv ==
  /\ Live!StopReasonIsTrue
  /\ phase = "auth" => tick = 0
  /\ phase = "pipeline" => Live!InputEnded

\* Bindings are made before the first tick and not afterwards.
OriginInv ==
  /\ phase = "auth" => /\ \A c \in Live!Clients : tickQueue[c] = <<>>
                       /\ \A s \in Live!Sides : selection[s].kind # "selected"
  /\ Live!ShownIsAuthenticated

LiveInv == LiveTypeInv /\ CountInv /\ StopInv /\ OriginInv

-----------------------------------------------------------------------------
(* Selection. *)

LEMMA LiveParameters ==
  ASSUME Live!LiveTwoViewAssumption
  PROVE  /\ Delay \in Nat /\ LiveMaxLate \in Nat /\ MaxEarly \in Nat /\ MinBuffer \in Nat
         /\ QueueCapacity \in Nat /\ AuthPackets \in Nat /\ SourcePackets \in Nat
         /\ TickPackets \in Nat /\ MaxTicks \in Nat /\ MaxRendered \in Nat
         /\ StartTime \in Nat /\ TickInterval \in Nat
         /\ Stamps \subseteq Nat /\ Offset \in [Live!Clients -> Int]
  BY DEF Live!LiveTwoViewAssumption

\* A nonempty set of naturals has a least element.
LEMMA LeastNumber ==
  ASSUME NEW T, T \subseteq Nat, T # {}
  PROVE  \E m \in T : \A n \in T : m <= n
<1> DEFINE R == OpToRel(<, Nat)
<1>1. \E x \in T : \A y \in T : ~(<<y, x>> \in R)
  <2>1. IsWellFoundedOn(R, Nat)
    BY NatLessThanWellFounded
  <2> HIDE DEF R
  <2> QED BY <2>1, WFMin
<1>2. ASSUME NEW x \in Nat, NEW y \in Nat, ~(<<y, x>> \in R) PROVE x <= y
  BY <1>2 DEF OpToRel
<1> HIDE DEF R
<1> QED BY <1>1, <1>2

\* Of any frames of a queue there is one that the sort puts first.
LEMMA FirstOfTheSort ==
  ASSUME NEW W, NEW d, NEW a, W \subseteq Nat, W # {},
         \A i \in W : d[i] \in Nat /\ a[i] \in Nat
  PROVE  \E i \in W : \A j \in W :
           \/ d[i] < d[j]
           \/ d[i] = d[j] /\ a[i] < a[j]
           \/ d[i] = d[j] /\ a[i] = a[j] /\ i <= j
<1> DEFINE D == {d[i] : i \in W}
<1>1. PICK m \in D : \A n \in D : m <= n
  <2>1. D \subseteq Nat /\ D # {}
    OBVIOUS
  <2> HIDE DEF D
  <2> QED BY <2>1, LeastNumber
<1>2. m \in Nat /\ (\A i \in W : m <= d[i]) /\ (\E i \in W : d[i] = m)
  BY <1>1
<1> HIDE DEF D
<1> DEFINE V == {i \in W : d[i] = m}
           A == {a[i] : i \in V}
<1>3. PICK k \in A : \A n \in A : k <= n
  <2>1. A \subseteq Nat /\ A # {}
    BY <1>2
  <2> HIDE DEF A
  <2> QED BY <2>1, LeastNumber
<1>4. k \in Nat /\ (\A i \in V : k <= a[i]) /\ (\E i \in V : a[i] = k)
  BY <1>3
<1> HIDE DEF A
<1> DEFINE U == {i \in V : a[i] = k}
<1>5. U \subseteq Nat /\ U # {}
  BY <1>4
<1>6. PICK f \in U : \A j \in U : f <= j
  <2> HIDE DEF U
  <2> QED BY <1>5, LeastNumber
<1>7. f \in W /\ d[f] = m /\ a[f] = k /\ f \in Nat
  BY <1>6
<1>8. ASSUME NEW j \in W
      PROVE  \/ d[f] < d[j]
             \/ d[f] = d[j] /\ a[f] < a[j]
             \/ d[f] = d[j] /\ a[f] = a[j] /\ f <= j
  <2>1. m <= d[j] /\ d[j] \in Nat /\ a[j] \in Nat
    BY <1>2, <1>8
  <2>2. CASE d[j] = m
    <3>1. j \in V /\ k <= a[j]
      BY <1>4, <1>8, <2>2
    <3>2. CASE a[j] = k
      <4>1. f <= j
        BY <1>6, <3>1, <3>2
      <4> QED BY <1>7, <2>2, <3>2, <4>1
    <3> HIDE DEF V
    <3> QED BY <1>4, <1>7, <2>1, <2>2, <3>1, <3>2
  <2> QED BY <1>2, <1>7, <2>1, <2>2
<1> QED BY <1>7, <1>8

LEMMA AdjustedType ==
  ASSUME Live!LiveTwoViewAssumption, LiveTypeInv, NEW c \in Live!Clients, NEW i \in DOMAIN tickQueue[c]
  PROVE  /\ tickQueue[c][i] \in Live!Frame /\ tickQueue[c][i].stamp \in Nat /\ Offset[c] \in Int
         /\ Live!Adjusted(c, i) \in Nat
         /\ tickQueue[c][i].stamp + Offset[c] >= 0 => Live!Adjusted(c, i) = tickQueue[c][i].stamp + Offset[c]
<1>1. tickQueue[c] \in Seq(Live!Frame)
  BY DEF LiveTypeInv
<1>2. tickQueue[c][i] \in Live!Frame
  BY <1>1, ElementOfSeq
<1>3. tickQueue[c][i].stamp \in Nat /\ Offset[c] \in Int
  BY <1>2, LiveParameters DEF Live!Frame
<1> QED BY <1>2, <1>3 DEF Live!Adjusted, Live!apply_offset_micros, Live!Saturating

\* What the selection returns: one of the frames in the window that are closest
\* to the target, if there are frames enough and one of them lies in it.
LEMMA SelectionResult ==
  ASSUME Live!LiveTwoViewAssumption, LiveTypeInv, NEW c \in Live!Sides, NEW due \in Nat
  PROVE  LET r == Live!select_frame_at_target_time(c, due) IN
         /\ r \in [kind : Kinds, frame : Live!Frame \cup {Live!NoFrame}]
         /\ r.kind = "selected" <=> tickQueue[c] # <<>> /\ Len(tickQueue[c]) >= MinBuffer
                                    /\ Live!InWindow(c, due) # {}
         /\ r.kind = "selected" => \E i \in Live!InWindow(c, due) :
              /\ r.frame = tickQueue[c][i]
              /\ \A j \in Live!InWindow(c, due) : Live!Preferred(c, due, i, j)
<1> DEFINE W == Live!InWindow(c, due)
           best == {i \in W : \A j \in W : Live!Preferred(c, due, i, j)}
           r == Live!select_frame_at_target_time(c, due)
<1>1. c \in Live!Clients /\ tickQueue[c] \in Seq(Live!Frame) /\ Len(tickQueue[c]) \in Nat
  BY DEF LiveTypeInv, Live!Clients, Live!Sides
<1>2. W \subseteq DOMAIN tickQueue[c] /\ W \subseteq Nat
  BY <1>1 DEF Live!InWindow
<1>3. W # {} => best # {}
  <2> SUFFICES ASSUME W # {} PROVE best # {}
    OBVIOUS
  <2> DEFINE d == [i \in W |-> Live!Distance(Live!Adjusted(c, i), due)]
             a == [i \in W |-> Live!Adjusted(c, i)]
  <2>1. \A i \in W : d[i] \in Nat /\ a[i] \in Nat
    BY <1>1, <1>2, AdjustedType DEF Live!Distance
  <2>2. PICK i \in W : \A j \in W :
           \/ d[i] < d[j]
           \/ d[i] = d[j] /\ a[i] < a[j]
           \/ d[i] = d[j] /\ a[i] = a[j] /\ i <= j
    <3> HIDE DEF W, d, a
    <3> QED BY <1>2, <2>1, FirstOfTheSort
  <2>3. \A j \in W : Live!Preferred(c, due, i, j)
    <3> HIDE DEF W
    <3> QED BY <2>2 DEF Live!Preferred
  <2> QED BY <2>3
<1>4. \A i \in W : tickQueue[c][i] \in Live!Frame
  BY <1>1, <1>2, AdjustedType
<1>5. r = IF tickQueue[c] = <<>> THEN Live!Unselected("no_frame")
          ELSE IF Len(tickQueue[c]) < MinBuffer THEN Live!Unselected("waiting_for_buffer")
          ELSE IF best # {}
          THEN [kind |-> "selected", frame |-> tickQueue[c][CHOOSE i \in best : TRUE]]
          ELSE IF \A i \in DOMAIN tickQueue[c] : Live!Adjusted(c, i) > due + MaxEarly
          THEN Live!Unselected("too_early")
          ELSE Live!Unselected("too_late")
  BY DEF Live!select_frame_at_target_time
<1>6. best # {} => (CHOOSE i \in best : TRUE) \in best
  OBVIOUS
<1>7. best \subseteq W
  OBVIOUS
<1>8. \A i \in best : \A j \in W : Live!Preferred(c, due, i, j)
  OBVIOUS
<1>9. \A k \in Kinds : /\ Live!Unselected(k) \in [kind : Kinds, frame : Live!Frame \cup {Live!NoFrame}]
                       /\ Live!Unselected(k).kind = k
  BY DEF Live!Unselected
<1>10. {"no_frame", "waiting_for_buffer", "too_early", "too_late", "selected"} \subseteq Kinds
  BY DEF Kinds
<1>11. W \in SUBSET DOMAIN tickQueue[c] /\ (tickQueue[c] = <<>> => W = {})
  BY <1>2
<1>12. MinBuffer \in Nat
  BY LiveParameters
<1> HIDE DEF W, best, r
<1>13. CASE tickQueue[c] # <<>> /\ ~(Len(tickQueue[c]) < MinBuffer) /\ best # {}
  <2>1. r = [kind |-> "selected", frame |-> tickQueue[c][CHOOSE i \in best : TRUE]]
    BY <1>5, <1>13
  <2>2. PICK i \in best : r.frame = tickQueue[c][i]
    BY <1>6, <1>13, <2>1
  <2>3. r.kind = "selected" /\ r.frame \in Live!Frame /\ W # {}
    BY <1>4, <1>7, <2>1, <2>2
  <2>4. r \in [kind : Kinds, frame : Live!Frame \cup {Live!NoFrame}]
    BY <1>10, <2>1, <2>3
  <2>5. Len(tickQueue[c]) >= MinBuffer
    BY <1>1, <1>12, <1>13
  <2> QED BY <1>7, <1>8, <1>13, <2>2, <2>3, <2>4, <2>5 DEF W, r
<1>14. CASE ~(tickQueue[c] # <<>> /\ ~(Len(tickQueue[c]) < MinBuffer) /\ best # {})
  <2>1. PICK k \in Kinds : r = Live!Unselected(k) /\ k # "selected"
    BY <1>5, <1>10, <1>14
  <2>2. ~(tickQueue[c] # <<>> /\ Len(tickQueue[c]) >= MinBuffer /\ W # {})
    BY <1>1, <1>3, <1>12, <1>14
  <2>3. r \in [kind : Kinds, frame : Live!Frame \cup {Live!NoFrame}] /\ r.kind # "selected"
    BY <1>9, <2>1
  <2> QED BY <2>2, <2>3 DEF W, r
<1> QED BY <1>13, <1>14

-----------------------------------------------------------------------------
(* The initial state and each step. *)

LEMMA LiveStarts ==
  ASSUME Live!LiveTwoViewAssumption, Live!Init
  PROVE  LiveInv
<1> USE LiveParameters
<1>1. /\ tickQueue = [c \in Live!Clients |-> <<>>]
      /\ selection = [s \in Live!Sides |-> [kind |-> "none", frame |-> Live!NoFrame]]
      /\ summary = [k \in Live!Outcomes |-> 0] /\ registry = <<>>
      /\ tick = 0 /\ items = 0 /\ packets_read = 0 /\ auth = 0 /\ draws = 0
      /\ stop_reason = "none" /\ phase \in {"auth", "tick"}
  BY DEF Live!Init, Live!NoQueue, Live!Unselected
<1>2. DOMAIN registry = {}
  BY <1>1
<1>3. LiveTypeInv
  <2>1. \A c \in Live!Clients : tickQueue[c] \in Seq(Live!Frame) /\ Len(tickQueue[c]) = 0
    BY <1>1
  <2>2. "none" \in Kinds /\ selection \in [Live!Sides -> [kind : Kinds, frame : Live!Frame \cup {Live!NoFrame}]]
    BY <1>1 DEF Kinds
  <2> QED BY <1>1, <1>2, <2>1, <2>2 DEF LiveTypeInv, Summaries
<1>4. CountInv
  BY <1>1 DEF CountInv, Live!counted_ticks, Live!rendered_frames, Live!Outcomes
<1>5. StopInv
  BY <1>1 DEF StopInv, Live!StopReasonIsTrue
<1>6. OriginInv
  <2>1. \A c \in Live!Clients : tickQueue[c] = <<>> /\ DOMAIN tickQueue[c] = {}
    BY <1>1
  <2>2. \A s \in Live!Sides : selection[s].kind = "none"
    BY <1>1
  <2> QED BY <2>1, <2>2 DEF OriginInv, Live!ShownIsAuthenticated
<1> QED BY <1>3, <1>4, <1>5, <1>6 DEF LiveInv

LEMMA AuthKeeps ==
  ASSUME Live!LiveTwoViewAssumption, LiveInv,
         Live!AuthenticateClient \/ Live!RefuseAuthPacket \/ Live!AuthReceiveFails
  PROVE  LiveInv'
<1> USE LiveParameters
<1>1. /\ phase = "auth" /\ auth < AuthPackets /\ auth' = auth + 1 /\ phase' \in {"auth", "tick"}
      /\ packets_read' = packets_read /\ tick' = tick /\ items' = items /\ tickQueue' = tickQueue
      /\ selection' = selection /\ draws' = draws /\ summary' = summary
      /\ stop_reason' = stop_reason
  BY DEF Live!AuthenticateClient, Live!RefuseAuthPacket, Live!AuthReceiveFails, Live!EndAuth
<1>2. DOMAIN registry' \subseteq Live!Clients /\ \A c \in DOMAIN registry' : registry'[c] \in Sources
  <2>1. CASE registry' = registry
    BY <2>1 DEF LiveInv, LiveTypeInv
  <2>2. CASE Live!AuthenticateClient
    BY <2>2 DEF LiveInv, LiveTypeInv, Live!AuthenticateClient, Live!bind
  <2> QED BY <2>1, <2>2 DEF Live!RefuseAuthPacket, Live!AuthReceiveFails
<1>3. tick = 0
  BY <1>1 DEF LiveInv, StopInv, CountInv
<1>4. LiveTypeInv'
  <2>1. auth' \in 0 .. AuthPackets
    BY <1>1 DEF LiveInv, LiveTypeInv
  <2>2. phase' \in {"auth", "tick", "receive", "pipeline", "done"}
    BY <1>1
  <2> QED BY <1>1, <1>2, <2>1, <2>2 DEF LiveInv, LiveTypeInv
<1>5. CountInv'
  BY <1>1 DEF LiveInv, CountInv, Live!counted_ticks, Live!rendered_frames
<1>6. StopInv'
  BY <1>1, <1>3 DEF LiveInv, StopInv, Live!StopReasonIsTrue, Live!rendered_frames
<1>7. OriginInv'
  <2>1. \A c \in Live!Clients : tickQueue'[c] = <<>> /\ DOMAIN tickQueue'[c] = {}
    BY <1>1 DEF LiveInv, OriginInv
  <2>2. \A s \in Live!Sides : selection'[s].kind # "selected"
    BY <1>1 DEF LiveInv, OriginInv
  <2> QED BY <2>1, <2>2 DEF OriginInv, Live!ShownIsAuthenticated, Live!Sides
<1> QED BY <1>4, <1>5, <1>6, <1>7 DEF LiveInv

LEMMA SummaryNumbers ==
  ASSUME LiveTypeInv
  PROVE  /\ \A o \in Live!Outcomes : summary[o] \in Nat
         /\ Live!rendered_frames \in Nat /\ summary["decode_failed"] \in Nat
<1>1. \A o \in Live!Outcomes : summary[o] \in Nat
  BY DEF LiveTypeInv, Summaries
<1>2. {"rendered_both", "rendered_partial", "decode_failed"} \subseteq Live!Outcomes
  BY DEF Live!Outcomes
<1>3. summary["rendered_both"] \in Nat /\ summary["rendered_partial"] \in Nat
  BY <1>1, <1>2
<1> QED BY <1>1, <1>2, <1>3 DEF Live!rendered_frames

\* A tick begins with an empty queue, and what the last one selected is kept.
LEMMA BeginTickKeeps ==
  ASSUME Live!LiveTwoViewAssumption, LiveInv, Live!BeginTick
  PROVE  LiveInv'
<1> USE LiveParameters
<1>1. /\ phase = "tick" /\ tick < MaxTicks /\ ~(Live!rendered_frames >= MaxRendered)
      /\ phase' = "receive" /\ items' = 0 /\ tickQueue' = [c \in Live!Clients |-> <<>>]
      /\ UNCHANGED <<registry, auth, packets_read, tick, selection, draws, summary, stop_reason>>
  BY DEF Live!BeginTick, Live!BudgetSpent, Live!NoQueue
<1>2. \A c \in Live!Clients : tickQueue'[c] = <<>> /\ DOMAIN tickQueue'[c] = {} /\ Len(tickQueue'[c]) = 0
  BY <1>1
<1>3. LiveTypeInv'
  BY <1>1, <1>2 DEF LiveInv, LiveTypeInv
<1>4. CountInv'
  <2>1. Live!rendered_frames \in Nat
    BY SummaryNumbers DEF LiveInv
  <2> QED BY <1>1, <2>1 DEF LiveInv, CountInv, Live!counted_ticks, Live!rendered_frames
<1>5. StopInv'
  BY <1>1 DEF LiveInv, StopInv, Live!StopReasonIsTrue, Live!rendered_frames
<1>6. OriginInv'
  BY <1>1, <1>2 DEF LiveInv, OriginInv, Live!ShownIsAuthenticated
<1> QED BY <1>3, <1>4, <1>5, <1>6 DEF LiveInv

LEMMA StopKeeps ==
  ASSUME Live!LiveTwoViewAssumption, LiveInv, Live!StopTicking
  PROVE  LiveInv'
<1> USE LiveParameters
<1>1. /\ phase = "tick" /\ (tick >= MaxTicks \/ Live!BudgetSpent) /\ phase' = "done"
      /\ stop_reason' = IF Live!BudgetSpent THEN "MaxRenderedFramesReached" ELSE "MaxTicksReached"
      /\ UNCHANGED <<registry, auth, packets_read, tick, items, tickQueue, selection, draws, summary>>
  BY DEF Live!StopTicking
<1>2. LiveTypeInv'
  BY <1>1 DEF LiveInv, LiveTypeInv
<1>3. CountInv'
  BY <1>1 DEF LiveInv, CountInv, Live!counted_ticks, Live!rendered_frames
<1>4. StopInv'
  <2>1. Live!rendered_frames \in Nat /\ Live!rendered_frames <= MaxRendered /\ tick \in Nat /\ tick <= MaxTicks
    BY SummaryNumbers DEF LiveInv, LiveTypeInv, CountInv
  <2>2. Live!rendered_frames' = Live!rendered_frames
    BY <1>1 DEF Live!rendered_frames
  <2>3. CASE Live!BudgetSpent
    <3>1. Live!rendered_frames = MaxRendered
      BY <2>1, <2>3 DEF Live!BudgetSpent
    <3> QED BY <1>1, <2>2, <2>3, <3>1 DEF StopInv, Live!StopReasonIsTrue
  <2>4. CASE ~Live!BudgetSpent
    <3>1. tick = MaxTicks /\ Live!rendered_frames < MaxRendered
      BY <1>1, <2>1, <2>4 DEF Live!BudgetSpent
    <3> QED BY <1>1, <2>2, <2>4, <3>1 DEF StopInv, Live!StopReasonIsTrue
  <2> QED BY <2>3, <2>4
<1>5. OriginInv'
  BY <1>1 DEF LiveInv, OriginInv, Live!ShownIsAuthenticated
<1> QED BY <1>2, <1>3, <1>4, <1>5 DEF LiveInv

\* A queue of frames that the gate let in.
GatedQueue(q) ==
  /\ q \in [Live!Clients -> Seq(Live!Frame)]
  /\ \A c \in Live!Clients : Len(q[c]) <= QueueCapacity /\ (q[c] # <<>> => c \in Live!Sides)
  /\ \A c \in Live!Clients : \A i \in DOMAIN q[c] :
       c \in DOMAIN registry /\ q[c][i].source = registry[c]

\* Only a frame of a shown client from its own endpoint enters the queue.
LEMMA ReceiveKeeps ==
  ASSUME Live!LiveTwoViewAssumption, LiveInv, Live!ReceiveVideoFrame \/ Live!ReceiveSomethingElse
  PROVE  LiveInv'
<1> USE LiveParameters
<1>1. /\ phase = "receive" /\ items < TickPackets /\ packets_read < SourcePackets
      /\ items' = items + 1 /\ packets_read' \in {packets_read, packets_read + 1}
      /\ UNCHANGED <<phase, registry, auth, tick, selection, draws, summary, stop_reason>>
  <2>1. packets_read \in Nat
    BY DEF LiveInv, LiveTypeInv
  <2>2. ASSUME NEW kind, Live!Observe(kind)
        PROVE  /\ items' = items + 1 /\ packets_read' \in {packets_read, packets_read + 1}
               /\ UNCHANGED <<phase, registry, auth, tick, selection, draws, summary, stop_reason>>
    BY <2>1, <2>2 DEF Live!Observe, Live!Reads
  <2>3. Live!MayReceive /\ \E kind : Live!Observe(kind)
    BY DEF Live!ReceiveVideoFrame, Live!ReceiveSomethingElse
  <2> QED BY <2>2, <2>3 DEF Live!MayReceive
<1>2. \/ tickQueue' = tickQueue
      \/ \E c \in Live!Clients, e \in Sources, t \in Stamps :
           /\ c \in DOMAIN registry /\ registry[c] = e /\ c \in Live!Sides
           /\ tickQueue' = [tickQueue EXCEPT ![c] = Live!store_frame(c, [stamp |-> t, source |-> e])]
  BY DEF Live!ReceiveVideoFrame, Live!ReceiveSomethingElse, Live!GateAccepts, Live!Shown
<1>3. GatedQueue(tickQueue')
  <2> USE DEF GatedQueue
  <2>0. GatedQueue(tickQueue)
    BY DEF LiveInv, LiveTypeInv, OriginInv, Live!ShownIsAuthenticated
  <2>1. CASE tickQueue' = tickQueue
    BY <2>0, <2>1
  <2>2. ASSUME NEW c \in Live!Clients, NEW e \in Sources, NEW t \in Stamps,
               c \in DOMAIN registry, registry[c] = e, c \in Live!Sides,
               tickQueue' = [tickQueue EXCEPT ![c] = Live!store_frame(c, [stamp |-> t, source |-> e])]
        PROVE  GatedQueue(tickQueue')
    <3> DEFINE f == [stamp |-> t, source |-> e]
               q == tickQueue[c]
               kept == IF Len(q) >= QueueCapacity THEN Tail(q) ELSE q
               new == Live!store_frame(c, f)
    <3>0. f \in Live!Frame
      BY DEF Live!Frame
    <3>1. f \in Live!Frame /\ q \in Seq(Live!Frame) /\ Len(q) \in Nat /\ Len(q) <= QueueCapacity
      BY <2>0, <3>0
    <3>2. \A i \in DOMAIN q : q[i].source = e
      BY <2>0, <2>2
    <3>3. CASE QueueCapacity = 0
      <4>1. new = q
        BY <3>3 DEF Live!store_frame
      <4> QED BY <2>0, <2>2, <4>1
    <3>4. CASE QueueCapacity # 0
      <4>1. /\ kept \in Seq(Live!Frame) /\ Len(kept) \in Nat /\ Len(kept) < QueueCapacity
            /\ \A i \in DOMAIN kept : kept[i].source = e
        <5>1. CASE Len(q) >= QueueCapacity
          <6>1. q # <<>> /\ kept = Tail(q)
            BY <3>1, <3>4, <5>1
          <6> QED BY <3>1, <3>2, <3>4, <5>1, <6>1
        <5>2. CASE ~(Len(q) >= QueueCapacity)
          BY <3>1, <3>2, <5>2
        <5> QED BY <5>1, <5>2
      <4>2. new = Append(kept, f)
        BY <3>4 DEF Live!store_frame
      <4>3. f.source = e
        OBVIOUS
      <4>4. new \in Seq(Live!Frame) /\ Len(new) <= QueueCapacity /\ \A i \in DOMAIN new : new[i].source = e
        <5>1. f \in Live!Frame
          BY <3>1
        <5> HIDE DEF kept, f, new
        <5>2. new \in Seq(Live!Frame) /\ Len(new) = Len(kept) + 1 /\ DOMAIN new = 1 .. Len(kept) + 1
          BY <4>1, <4>2, <5>1
        <5>3. ASSUME NEW i \in DOMAIN new PROVE new[i].source = e
          <6>1. CASE i = Len(kept) + 1
            BY <4>1, <4>2, <4>3, <6>1
          <6>2. CASE i # Len(kept) + 1
            <7>1. i \in 1 .. Len(kept) /\ DOMAIN kept = 1 .. Len(kept)
              BY <4>1, <5>2, <6>2
            <7>2. new[i] = kept[i]
              BY <4>1, <4>2, <5>1, <7>1
            <7> QED BY <4>1, <7>1, <7>2
          <6> QED BY <6>1, <6>2
        <5> QED BY <4>1, <5>2, <5>3
      <4>5. tickQueue' = [tickQueue EXCEPT ![c] = new]
        BY <2>2
      <4> HIDE DEF new, kept, f
      <4> QED BY <2>0, <2>2, <4>4, <4>5
    <3> QED BY <3>3, <3>4
  <2> QED BY <1>2, <2>1, <2>2
<1>4. LiveTypeInv'
  <2>1. items \in 0 .. TickPackets /\ packets_read \in 0 .. SourcePackets
    BY DEF LiveInv, LiveTypeInv
  <2>2. items' \in 0 .. TickPackets /\ packets_read' \in 0 .. SourcePackets
    BY <1>1, <2>1
  <2> QED BY <1>1, <1>3, <2>2 DEF LiveInv, LiveTypeInv, GatedQueue
<1>5. CountInv'
  BY <1>1 DEF LiveInv, CountInv, Live!counted_ticks, Live!rendered_frames
<1>6. StopInv'
  BY <1>1 DEF LiveInv, StopInv, Live!StopReasonIsTrue, Live!rendered_frames
<1>7. OriginInv'
  BY <1>1, <1>3 DEF LiveInv, OriginInv, Live!ShownIsAuthenticated, GatedQueue
<1> QED BY <1>4, <1>5, <1>6, <1>7 DEF LiveInv

LEMMA EndReceiveKeeps ==
  ASSUME Live!LiveTwoViewAssumption, LiveInv, Live!EndReceive
  PROVE  LiveInv'
<1> USE LiveParameters
<1>1. /\ phase = "receive" /\ Live!InputEnded /\ phase' = "pipeline"
      /\ UNCHANGED <<registry, auth, packets_read, tick, items, tickQueue, selection, draws,
                     summary, stop_reason>>
  BY DEF Live!EndReceive
<1>2. LiveTypeInv'
  BY <1>1 DEF LiveInv, LiveTypeInv
<1>3. CountInv'
  BY <1>1 DEF LiveInv, CountInv, Live!counted_ticks, Live!rendered_frames
<1>4. StopInv'
  BY <1>1 DEF LiveInv, StopInv, Live!StopReasonIsTrue, Live!rendered_frames, Live!InputEnded
<1>5. OriginInv'
  BY <1>1 DEF LiveInv, OriginInv, Live!ShownIsAuthenticated
<1> QED BY <1>2, <1>3, <1>4, <1>5 DEF LiveInv

\* A tick has one outcome; it is drawn if it counts as rendered, and what is
\* drawn counts as rendered unless a side failed to decode.
LEMMA OutcomeOfTick ==
  ASSUME NEW status \in [Live!Sides -> Live!Statuses], NEW drawn \in {"drawn", "not_drawn", "invalid"}
  PROVE  /\ Live!tick_outcome(status, drawn) \in Live!Outcomes
         /\ Live!tick_outcome(status, drawn) \in {"rendered_both", "rendered_partial"} =>
              drawn = "drawn" /\ \E s \in Live!Sides : status[s] = "decoded"
         /\ drawn = "drawn" /\ (\E s \in Live!Sides : status[s] = "decoded") =>
              Live!tick_outcome(status, drawn) \in {"rendered_both", "rendered_partial", "decode_failed"}
<1> DEFINE decoded == {s \in Live!Sides : status[s] = "decoded"}
           o == Live!tick_outcome(status, drawn)
<1>1. CASE \E s \in Live!Sides : status[s] = "failed"
  <2>1. o = "decode_failed"
    BY <1>1 DEF Live!tick_outcome
  <2> QED BY <2>1 DEF Live!Outcomes
<1>2. CASE \A s \in Live!Sides : status[s] # "failed"
  <2>1. CASE decoded = {} \/ drawn = "invalid"
    <3>1. o = "no_frames"
      BY <1>2, <2>1 DEF Live!tick_outcome
    <3> QED BY <2>1, <3>1 DEF Live!Outcomes
  <2>2. CASE decoded # {} /\ drawn = "not_drawn"
    <3>1. o = "render_not_completed"
      BY <1>2, <2>2 DEF Live!tick_outcome
    <3> QED BY <2>2, <3>1 DEF Live!Outcomes
  <2>3. CASE decoded # {} /\ drawn = "drawn"
    <3>1. o = IF decoded = Live!Sides THEN "rendered_both" ELSE "rendered_partial"
      BY <1>2, <2>3 DEF Live!tick_outcome
    <3> QED BY <2>3, <3>1 DEF Live!Outcomes
  <2> QED BY <2>1, <2>2, <2>3
<1> QED BY <1>1, <1>2

LEMMA TargetType ==
  ASSUME Live!LiveTwoViewAssumption, LiveTypeInv
  PROVE  /\ Live!now \in Nat /\ Live!shared_target_time \in Nat
         /\ Live!now >= Delay => Live!shared_target_time = Live!now - Delay
<1>1. tick \in Nat
  BY DEF LiveTypeInv
<1>2. tick * TickInterval \in Nat
  BY <1>1, LiveParameters
<1>3. Live!now \in Nat
  BY <1>2, LiveParameters DEF Live!now
<1> QED BY <1>3, LiveParameters DEF Live!shared_target_time, Live!Saturating

LEMMA PipelineKeeps ==
  ASSUME Live!LiveTwoViewAssumption, LiveInv, Live!RunPipeline
  PROVE  LiveInv'
<1> USE LiveParameters
<1>1. PICK status \in [Live!Sides -> Live!Statuses], drawn \in {"drawn", "not_drawn", "invalid"} :
        /\ draws' = draws + IF drawn = "drawn" /\ \E s \in Live!Sides : status[s] = "decoded"
                            THEN 1 ELSE 0
        /\ tickOutcome' = Live!tick_outcome(status, drawn)
  BY DEF Live!RunPipeline
<1>2. /\ phase = "pipeline" /\ selection' = Live!select_pair /\ tick' = tick + 1
      /\ summary' = [summary EXCEPT ![tickOutcome'] = @ + 1]
      /\ phase' = IF Live!source_ended THEN "done" ELSE "tick"
      /\ stop_reason' = IF Live!source_ended THEN "SourceEnded" ELSE stop_reason
      /\ UNCHANGED <<registry, auth, packets_read, items, tickQueue>>
  BY DEF Live!RunPipeline, Live!NextTick
<1>t. /\ LiveTypeInv /\ tick \in Nat /\ draws \in Nat /\ Live!rendered_frames \in Nat
      /\ summary["decode_failed"] \in Nat /\ tick < MaxTicks
  <2>1. LiveTypeInv /\ CountInv
    BY DEF LiveInv
  <2>2. tick \in Nat /\ draws \in Nat
    BY <2>1 DEF LiveTypeInv
  <2> QED BY <1>2, <2>1, <2>2, SummaryNumbers DEF CountInv
<1>3. ASSUME NEW s \in Live!Sides
      PROVE  /\ selection'[s] \in [kind : Kinds, frame : Live!Frame \cup {Live!NoFrame}]
             /\ selection'[s].kind = "selected" =>
                  \E i \in DOMAIN tickQueue[s] : selection'[s].frame = tickQueue[s][i] /\ tickQueue[s][i] \in Live!Frame
  <2>1. selection'[s] = Live!select_frame_at_target_time(s, Live!shared_target_time)
    BY <1>2 DEF Live!select_pair
  <2>2. Live!InWindow(s, Live!shared_target_time) \subseteq DOMAIN tickQueue[s]
    BY DEF Live!InWindow
  <2>3. s \in Live!Clients
    BY DEF Live!Clients, Live!Sides
  <2>4. Live!shared_target_time \in Nat
    BY <1>t, TargetType
  <2>5. \A i \in DOMAIN tickQueue[s] : tickQueue[s][i] \in Live!Frame
    BY <1>t, <2>3, AdjustedType
  <2> QED BY <1>t, <2>1, <2>2, <2>4, <2>5, SelectionResult
<1>4. \A s \in Live!Sides : selection'[s].kind = "selected" => selection'[s].frame \in Live!Frame
  BY <1>3
<1>5. tickOutcome' \in Live!Outcomes
  BY <1>1, OutcomeOfTick
<1>6. summary' \in Summaries /\ \A o \in Live!Outcomes : summary[o] \in Nat
      /\ summary'[o] = IF o = tickOutcome' THEN summary[o] + 1 ELSE summary[o]
  <2>1. summary \in [Live!Outcomes -> Nat]
    BY <1>t DEF LiveTypeInv, Summaries
  <2> QED BY <1>2, <1>5, <2>1 DEF Summaries
<1>7. LiveTypeInv'
  <2>1. selection' \in [Live!Sides -> [kind : Kinds, frame : Live!Frame \cup {Live!NoFrame}]]
    <3>1. selection' = [s \in Live!Sides |-> selection'[s]]
      BY <1>2 DEF Live!select_pair
    <3> QED BY <1>3, <3>1
  <2>2. tick' \in 0 .. MaxTicks /\ draws' \in Nat
    BY <1>1, <1>2, <1>t
  <2>3. phase' \in {"tick", "done"} /\ (stop_reason' = stop_reason \/ stop_reason' = "SourceEnded")
    BY <1>2
  <2> QED BY <1>2, <1>4, <1>6, <1>t, <2>1, <2>2, <2>3 DEF LiveTypeInv
<1>8. CountInv'
  <2> DEFINE both == summary["rendered_both"]
             partial == summary["rendered_partial"]
             none == summary["no_frames"]
             failed == summary["decode_failed"]
             undone == summary["render_not_completed"]
             drawing == IF drawn = "drawn" /\ \E s \in Live!Sides : status[s] = "decoded" THEN 1 ELSE 0
  <2>1. {both, partial, none, failed, undone} \subseteq Nat
    BY <1>6 DEF Live!Outcomes
  <2>2. /\ both + partial + none + failed + undone = tick
        /\ both + partial <= draws /\ draws <= both + partial + failed
        /\ both + partial < MaxRendered
    BY <1>2 DEF LiveInv, CountInv, Live!counted_ticks, Live!rendered_frames
  <2>3. /\ both' = IF tickOutcome' = "rendered_both" THEN both + 1 ELSE both
        /\ partial' = IF tickOutcome' = "rendered_partial" THEN partial + 1 ELSE partial
        /\ none' = IF tickOutcome' = "no_frames" THEN none + 1 ELSE none
        /\ failed' = IF tickOutcome' = "decode_failed" THEN failed + 1 ELSE failed
        /\ undone' = IF tickOutcome' = "render_not_completed" THEN undone + 1 ELSE undone
    BY <1>6 DEF Live!Outcomes
  <2>4. /\ drawing \in {0, 1} /\ draws' = draws + drawing
        /\ tickOutcome' \in {"rendered_both", "rendered_partial"} => drawing = 1
        /\ drawing = 1 => tickOutcome' \in {"rendered_both", "rendered_partial", "decode_failed"}
    BY <1>1, OutcomeOfTick
  <2>5. tickOutcome' \in {"rendered_both", "rendered_partial", "no_frames", "decode_failed",
                          "render_not_completed"}
    BY <1>5 DEF Live!Outcomes
  <2>6. /\ Live!counted_ticks' = both' + partial' + none' + failed' + undone'
        /\ Live!rendered_frames' = both' + partial' /\ summary'["decode_failed"] = failed'
    BY DEF Live!counted_ticks, Live!rendered_frames
  <2> HIDE DEF both, partial, none, failed, undone, drawing
  <2>7. /\ both' + partial' + none' + failed' + undone' = tick + 1
        /\ both' + partial' <= draws' /\ draws' <= both' + partial' + failed'
        /\ both' + partial' <= MaxRendered
    <3>1. CASE tickOutcome' = "rendered_both"
      BY <1>t, <2>1, <2>2, <2>3, <2>4, <3>1
    <3>2. CASE tickOutcome' = "rendered_partial"
      BY <1>t, <2>1, <2>2, <2>3, <2>4, <3>2
    <3>3. CASE tickOutcome' = "no_frames"
      BY <1>t, <2>1, <2>2, <2>3, <2>4, <3>3
    <3>4. CASE tickOutcome' = "decode_failed"
      BY <1>t, <2>1, <2>2, <2>3, <2>4, <3>4
    <3>5. CASE tickOutcome' = "render_not_completed"
      BY <1>t, <2>1, <2>2, <2>3, <2>4, <3>5
    <3> QED BY <2>5, <3>1, <3>2, <3>3, <3>4, <3>5
  <2> QED BY <1>2, <2>6, <2>7 DEF CountInv
<1>9. StopInv'
  <2>1. /\ stop_reason = "none" /\ Live!InputEnded /\ items \in Nat /\ items <= TickPackets
        /\ packets_read \in Nat /\ packets_read <= SourcePackets
    BY <1>2 DEF LiveInv, StopInv, Live!StopReasonIsTrue, LiveTypeInv
  <2>2. CASE Live!source_ended
    BY <1>2, <2>1, <2>2 DEF StopInv, Live!StopReasonIsTrue, Live!source_ended
  <2>3. CASE ~Live!source_ended
    <3>1. items = TickPackets
      BY <2>1, <2>3 DEF Live!source_ended, Live!InputEnded
    <3> QED BY <1>2, <2>1, <2>3, <3>1 DEF StopInv, Live!StopReasonIsTrue
  <2> QED BY <2>2, <2>3
<1>10. OriginInv'
  <2>1. Live!ShownIsAuthenticated
    BY DEF LiveInv, OriginInv
  <2>2. \A c \in Live!Clients : tickQueue'[c] = tickQueue[c]
    BY <1>2
  <2>3. ASSUME NEW c \in Live!Sides, selection'[c].kind = "selected"
        PROVE  c \in DOMAIN registry /\ selection'[c].frame.source = registry[c]
    <3>1. c \in Live!Clients
      BY DEF Live!Clients, Live!Sides
    <3> QED BY <1>3, <2>1, <2>3, <3>1 DEF Live!ShownIsAuthenticated
  <2> QED BY <1>2, <2>1, <2>3 DEF OriginInv, Live!ShownIsAuthenticated
<1> QED BY <1>7, <1>8, <1>9, <1>10 DEF LiveInv

LEMMA LiveSteps ==
  ASSUME Live!LiveTwoViewAssumption, LiveInv, [Live!Next]_(Live!vars)
  PROVE  LiveInv'
<1>1. CASE UNCHANGED Live!vars
  BY <1>1 DEF Live!vars, LiveInv, LiveTypeInv, CountInv, StopInv, OriginInv, Live!counted_ticks,
              Live!rendered_frames, Live!StopReasonIsTrue, Live!ShownIsAuthenticated, Live!InputEnded
<1>2. CASE Live!Next
  BY <1>1, <1>2, AuthKeeps, BeginTickKeeps, StopKeeps, ReceiveKeeps, EndReceiveKeeps,
      PipelineKeeps
     DEF Live!Next, Live!Works, Live!Done
<1> QED BY <1>1, <1>2

-----------------------------------------------------------------------------
(* Selection against the reference.                                        *)

\* The schedule starts after the delay, and every capture, on the server's
\* clock, after its zero: nothing saturates.
ClocksPastZero ==
  /\ StartTime >= Delay
  /\ \A c \in Live!Clients, t \in Stamps : t + Offset[c] >= 0

ServerTime(c, f) == f.stamp + Offset[c]
ReferenceWindow == (Live!now - Delay - LiveMaxLate) .. (Live!now - Delay + MaxEarly)

LEMMA TargetOfTheSchedule ==
  ASSUME Live!LiveTwoViewAssumption, ClocksPastZero, LiveTypeInv
  PROVE  /\ Live!now \in Nat /\ Live!now - Delay \in Nat /\ Live!shared_target_time = Live!now - Delay
<1>1. tick * TickInterval \in Nat
  <2>1. tick \in Nat
    BY DEF LiveTypeInv
  <2> QED BY <2>1, LiveParameters
<1>2. Live!now >= Delay
  BY <1>1, LiveParameters DEF Live!now, ClocksPastZero
<1> QED BY <1>2, TargetType, LiveParameters

LEMMA WindowIsTheReference ==
  ASSUME Live!LiveTwoViewAssumption, ClocksPastZero, LiveTypeInv, NEW c \in Live!Sides,
         NEW i \in DOMAIN tickQueue[c]
  PROVE  /\ tickQueue[c][i] \in Live!Frame /\ ServerTime(c, tickQueue[c][i]) \in Int
         /\ Live!Adjusted(c, i) = ServerTime(c, tickQueue[c][i])
         /\ i \in Live!InWindow(c, Live!shared_target_time) <=>
              ServerTime(c, tickQueue[c][i]) \in ReferenceWindow
<1>1. c \in Live!Clients
  BY DEF Live!Clients, Live!Sides
<1>2. /\ tickQueue[c][i] \in Live!Frame /\ tickQueue[c][i].stamp \in Nat /\ Offset[c] \in Int
      /\ tickQueue[c][i].stamp + Offset[c] >= 0 => Live!Adjusted(c, i) = tickQueue[c][i].stamp + Offset[c]
  BY <1>1, AdjustedType
<1>3. tickQueue[c][i].stamp + Offset[c] >= 0
  <2>1. tickQueue[c][i].stamp \in Stamps
    BY <1>2 DEF Live!Frame
  <2> QED BY <1>1, <2>1 DEF ClocksPastZero
<1> DEFINE a == Live!Adjusted(c, i)
           t == Live!now - Delay
<1>4. a = ServerTime(c, tickQueue[c][i]) /\ a \in Nat
  BY <1>2, <1>3 DEF ServerTime
<1>5. t \in Nat /\ Live!shared_target_time = t /\ LiveMaxLate \in Nat /\ MaxEarly \in Nat
  BY TargetOfTheSchedule, LiveParameters
<1>6. i \in Live!InWindow(c, Live!shared_target_time) <=> a >= Live!Saturating(t - LiveMaxLate) /\ a <= t + MaxEarly
  BY <1>5 DEF Live!InWindow
<1>7. a \in ReferenceWindow <=> a >= t - LiveMaxLate /\ a <= t + MaxEarly
  <2>1. a \in (t - LiveMaxLate) .. (t + MaxEarly) <=> a >= t - LiveMaxLate /\ a <= t + MaxEarly
    <3> HIDE DEF a, t
    <3> QED BY <1>4, <1>5
  <2> QED BY <2>1 DEF ReferenceWindow
<1>8. a >= Live!Saturating(t - LiveMaxLate) <=> a >= t - LiveMaxLate
  <2> HIDE DEF a, t
  <2> QED BY <1>4, <1>5 DEF Live!Saturating
<1> QED BY <1>2, <1>4, <1>6, <1>7, <1>8

\* What a pass selects for a side.
LEMMA PassSelects ==
  ASSUME Live!LiveTwoViewAssumption, ClocksPastZero, LiveInv, Live!RunPipeline, NEW s \in Live!Sides
  PROVE  /\ selection'[s].kind = "selected" <=>
              /\ Len(tickQueue[s]) >= MinBuffer
              /\ \E i \in DOMAIN tickQueue[s] : ServerTime(s, tickQueue[s][i]) \in ReferenceWindow
         /\ selection'[s].kind = "selected" =>
              \E i \in DOMAIN tickQueue[s] :
                /\ selection'[s].frame = tickQueue[s][i]
                /\ ServerTime(s, tickQueue[s][i]) \in ReferenceWindow
                /\ \A j \in DOMAIN tickQueue[s] : ServerTime(s, tickQueue[s][j]) \in ReferenceWindow =>
                     Live!Distance(ServerTime(s, tickQueue[s][i]), Live!now - Delay)
                       <= Live!Distance(ServerTime(s, tickQueue[s][j]), Live!now - Delay)
<1> DEFINE due == Live!shared_target_time
<1>t. /\ LiveTypeInv /\ due = Live!now - Delay /\ due \in Nat
  BY TargetOfTheSchedule DEF LiveInv
<1>1. selection'[s] = Live!select_frame_at_target_time(s, due)
  BY DEF Live!RunPipeline, Live!select_pair
<1>2. Live!InWindow(s, due) = {i \in DOMAIN tickQueue[s] : ServerTime(s, tickQueue[s][i]) \in ReferenceWindow}
  <2>1. Live!InWindow(s, due) \subseteq DOMAIN tickQueue[s]
    BY DEF Live!InWindow
  <2> QED BY <1>t, <2>1, WindowIsTheReference
<1>3. /\ selection'[s].kind = "selected" <=> tickQueue[s] # <<>> /\ Len(tickQueue[s]) >= MinBuffer
                                             /\ Live!InWindow(s, due) # {}
      /\ selection'[s].kind = "selected" => \E i \in Live!InWindow(s, due) :
           /\ selection'[s].frame = tickQueue[s][i]
           /\ \A j \in Live!InWindow(s, due) : Live!Preferred(s, due, i, j)
  BY <1>t, <1>1, SelectionResult
<1>4. tickQueue[s] = <<>> => Live!InWindow(s, due) = {}
  <2>1. DOMAIN << >> = {}
    OBVIOUS
  <2> QED BY <1>2, <2>1
<1>5. ASSUME NEW i \in Live!InWindow(s, due), NEW j \in Live!InWindow(s, due),
             Live!Preferred(s, due, i, j)
      PROVE  Live!Distance(ServerTime(s, tickQueue[s][i]), Live!now - Delay)
               <= Live!Distance(ServerTime(s, tickQueue[s][j]), Live!now - Delay)
  <2>1. /\ i \in DOMAIN tickQueue[s] /\ j \in DOMAIN tickQueue[s]
    BY <1>2
  <2>2. /\ Live!Adjusted(s, i) = ServerTime(s, tickQueue[s][i]) /\ Live!Adjusted(s, i) \in Int
        /\ Live!Adjusted(s, j) = ServerTime(s, tickQueue[s][j]) /\ Live!Adjusted(s, j) \in Int
    BY <1>t, <2>1, WindowIsTheReference
  <2> DEFINE di == Live!Distance(Live!Adjusted(s, i), due)
             dj == Live!Distance(Live!Adjusted(s, j), due)
  <2>3. di \in Int /\ dj \in Int
    BY <1>t, <2>2 DEF Live!Distance
  <2>4. di < dj \/ di = dj
    BY <1>5 DEF Live!Preferred
  <2>5. di <= dj
    <3> HIDE DEF di, dj
    <3> QED BY <2>3, <2>4
  <2> QED BY <1>t, <2>2, <2>5
<1> HIDE DEF due
<1> QED BY <1>2, <1>3, <1>4, <1>5

LEMMA PassIsTheReference ==
  ASSUME Live!LiveTwoViewAssumption, ClocksPastZero, LiveInv, Live!RunPipeline
  PROVE  Live!SelectsTheClosest
<1> SUFFICES ASSUME NEW s \in Live!Sides
             PROVE  LET server(f) == f.stamp + Offset[s]
                        frames == {tickQueue[s][i] : i \in DOMAIN tickQueue[s]}
                        due == StartTime + tick * TickInterval - Delay
                        window == {f \in frames :
                                     server(f) \in (due - LiveMaxLate)..(due + MaxEarly)}
                    IN IF Len(tickQueue[s]) >= MinBuffer /\ window # {}
                       THEN /\ selection'[s].kind = "selected" /\ selection'[s].frame \in window
                            /\ \A f \in window :
                                 Live!Distance(server(selection'[s].frame), due)
                                   <= Live!Distance(server(f), due)
                       ELSE selection'[s].kind # "selected"
  BY DEF Live!SelectsTheClosest
<1> DEFINE frames == {tickQueue[s][i] : i \in DOMAIN tickQueue[s]}
           due == Live!now - Delay
           window == {f \in frames : ServerTime(s, f) \in ReferenceWindow}
<1>1. selection'[s].kind = "selected" <=> Len(tickQueue[s]) >= MinBuffer /\ window # {}
  BY PassSelects
<1>2. ASSUME selection'[s].kind = "selected"
      PROVE  /\ selection'[s].frame \in window
             /\ \A f \in window : Live!Distance(ServerTime(s, selection'[s].frame), due)
                                    <= Live!Distance(ServerTime(s, f), due)
  BY <1>2, PassSelects
<1>3. due = StartTime + tick * TickInterval - Delay
  <2>1. tick \in Nat
    BY DEF LiveInv, LiveTypeInv
  <2>2. tick * TickInterval \in Nat
    BY <2>1, LiveParameters
  <2> QED BY <2>2, LiveParameters DEF Live!now
<1> QED BY <1>1, <1>2, <1>3 DEF ServerTime, ReferenceWindow

LEMMA PairsKeepInSync ==
  ASSUME Live!LiveTwoViewAssumption, ClocksPastZero, LiveInv, Live!PairInSync, [Live!Next]_(Live!vars)
  PROVE  Live!PairInSync'
<1>1. CASE Live!RunPipeline
  <2> SUFFICES ASSUME \A s \in Live!Sides : selection'[s].kind = "selected"
               PROVE  Live!Distance(ServerTime(Left, selection'[Left].frame),
                                    ServerTime(Right, selection'[Right].frame)) <= LiveMaxLate + MaxEarly
    BY DEF Live!PairInSync, ServerTime
  <2>1. \A s \in Live!Sides : ServerTime(s, selection'[s].frame) \in ReferenceWindow
    BY <1>1, PassSelects
  <2> DEFINE l == ServerTime(Left, selection'[Left].frame)
             r == ServerTime(Right, selection'[Right].frame)
             t == Live!now - Delay
  <2>2. l \in (t - LiveMaxLate) .. (t + MaxEarly) /\ r \in (t - LiveMaxLate) .. (t + MaxEarly)
    BY <2>1 DEF Live!Sides, ReferenceWindow
  <2>3. t \in Nat /\ LiveMaxLate \in Nat /\ MaxEarly \in Nat
    BY TargetOfTheSchedule, LiveParameters DEF LiveInv
  <2> HIDE DEF l, r, t
  <2>4. Live!Distance(l, r) <= LiveMaxLate + MaxEarly
    BY <2>2, <2>3 DEF Live!Distance
  <2> QED BY <2>4 DEF l, r
<1>2. CASE selection' = selection
  BY <1>2 DEF Live!PairInSync
<1> QED BY <1>1, <1>2 DEF Live!Next, Live!Works, Live!Done, Live!vars, Live!AuthenticateClient, Live!RefuseAuthPacket,
       Live!AuthReceiveFails, Live!BeginTick, Live!StopTicking, Live!ReceiveVideoFrame, Live!ReceiveSomethingElse,
       Live!Observe, Live!EndReceive

-----------------------------------------------------------------------------
\* What a live two-view run shows, draws and reports agrees with what it received
\* (run_with_runtimes, receive_next, continuous_two_view_tick_outcome).
THEOREM LiveIsSound ==
  ASSUME Live!LiveTwoViewAssumption
  PROVE  Live!Spec => [](/\ Live!LiveTypeOK /\ Live!ShownIsAuthenticated
                        /\ Live!DrawsAreBudgeted /\ Live!StopReasonIsTrue)
<1>1. Live!Init => LiveInv
  BY LiveStarts
<1>2. LiveInv /\ [Live!Next]_(Live!vars) => LiveInv'
  BY LiveSteps
<1>3. LiveInv => Live!LiveTypeOK /\ Live!ShownIsAuthenticated /\ Live!DrawsAreBudgeted /\ Live!StopReasonIsTrue
  <2> SUFFICES ASSUME LiveInv PROVE Live!LiveTypeOK /\ Live!DrawsAreBudgeted
    BY DEF LiveInv, OriginInv, StopInv
  <2>t. LiveTypeInv /\ CountInv
    BY DEF LiveInv
  <2> DEFINE failed == summary["decode_failed"]
             other == summary["no_frames"] + summary["render_not_completed"]
  <2>1. /\ Live!rendered_frames \in Nat /\ failed \in Nat /\ other \in Nat
        /\ Live!counted_ticks = Live!rendered_frames + failed + other
    <3>1. \A o \in Live!Outcomes : summary[o] \in Nat
      BY <2>t, SummaryNumbers
    <3>2. /\ summary["rendered_both"] \in Nat /\ summary["rendered_partial"] \in Nat
          /\ summary["no_frames"] \in Nat /\ summary["decode_failed"] \in Nat
          /\ summary["render_not_completed"] \in Nat
      BY <3>1 DEF Live!Outcomes
    <3> QED BY <3>2 DEF Live!counted_ticks, Live!rendered_frames
  <2>2. /\ draws \in Nat /\ tick \in Nat /\ tick <= MaxTicks /\ MaxTicks \in Nat
        /\ MaxRendered \in Nat
    BY <2>t, LiveParameters DEF LiveTypeInv
  <2>3. /\ Live!counted_ticks = tick /\ Live!rendered_frames <= draws
        /\ draws <= Live!rendered_frames + failed /\ Live!rendered_frames <= MaxRendered
    BY <2>t DEF CountInv
  <2>4. draws \in 0 .. MaxTicks /\ draws <= MaxRendered + failed
    <3> HIDE DEF failed, other
    <3> QED BY <2>1, <2>2, <2>3
  <2>5. Live!DrawsAreBudgeted
    BY <2>3, <2>4 DEF Live!DrawsAreBudgeted
  <2> QED BY <2>t, <2>3, <2>4, <2>5 DEF Live!LiveTypeOK, LiveTypeInv
<1> QED BY <1>1, <1>2, <1>3, PTL DEF Live!Spec

\* As long as no clock saturates, two pictures shown side by side were captured
\* at most the width of the window apart (select_pair).
THEOREM LivePairsInSync ==
  ASSUME Live!LiveTwoViewAssumption, ClocksPastZero
  PROVE  Live!Spec => []Live!PairInSync
<1>1. Live!Init => LiveInv /\ Live!PairInSync
  <2>1. Live!Init => \A s \in Live!Sides : selection[s].kind = "none"
    BY DEF Live!Init, Live!Unselected
  <2>2. Live!Sides # {}
    BY DEF Live!Sides
  <2> QED BY <2>1, <2>2, LiveStarts DEF Live!PairInSync
<1>2. LiveInv /\ Live!PairInSync /\ [Live!Next]_(Live!vars) => LiveInv' /\ Live!PairInSync'
  BY LiveSteps, PairsKeepInSync
<1> QED BY <1>1, <1>2, PTL DEF Live!Spec

\* And what a pass selects for a side is, by the reference definition, a frame of
\* the window that no other is closer to the target than, or none if none is in
\* the window (select_frame_at_target_time).
THEOREM LiveSelectsTheClosest ==
  ASSUME Live!LiveTwoViewAssumption, ClocksPastZero
  PROVE  Live!Spec => [][Live!SelectsTheClosest]_(Live!vars)
<1>1. Live!Init => LiveInv
  BY LiveStarts
<1>2. LiveInv /\ [Live!Next]_(Live!vars) => LiveInv' /\ [Live!SelectsTheClosest]_(Live!vars)
  <2>1. ~Live!RunPipeline => Live!SelectsTheClosest
    BY DEF Live!SelectsTheClosest
  <2> QED BY <2>1, LiveSteps, PassIsTheReference
<1> QED BY <1>1, <1>2, PTL DEF Live!Spec

-----------------------------------------------------------------------------
(***************************************************************************)
(* The two-view display, for every set of frames, clock offset, late-frame *)
(* policy, hold and canvas, read in process or through a handoff whose     *)
(* requests fail and between which the queues move.  A view's window and   *)
(* the caller's displayed frame agree whenever no pass stands between      *)
(* drawing and the policy; in process the queues stand still during a      *)
(* pass, so what was found out about a head stays so until it is taken.    *)
(***************************************************************************)
CONSTANTS
  Incoming, Offsets, Handoff, Consume, Errors, Skips, DisplayMaxLate, MaxHold, MaxCanvas,
  MaxNow, Passes

VARIABLES
  viewQueue, viewArrived, passes, now, passTarget, pc, view, results, dropped, taken,
  outcome, decision, canvas, screen, displayed, window

Pass == INSTANCE TwoViewDisplay WITH
  MaxLate <- DisplayMaxLate, queue <- viewQueue, arrived <- viewArrived,
  target <- passTarget

ResultKinds == {"none", "no_frame", "selected", "waiting", "handoff_error"}
Results == [kind : ResultKinds, frames : SUBSET Incoming, error : Errors \cup {"none"}]
Ways == {"none", "rendered", "source_error", "unavailable"} \cup Skips
Shown == [frame : Incoming, at : Nat]
Decisions ==
  [kind : {"none", "update", "hold", "stale", "source_error", "no_display"},
   frames : SUBSET Shown]
Places == {"idle", "drop_late", "preview", "consume", "take", "render", "display", "report"}

DisplayTypeInv ==
  /\ viewQueue \in [Pass!Views -> Seq(Incoming)] /\ viewArrived \subseteq Incoming
  /\ passes \in Nat /\ now \in Nat /\ passTarget \in Nat
  /\ pc \in Places /\ view \in Pass!Views
  /\ results \in [Pass!Views -> Results]
  /\ dropped \in [Pass!Views -> SUBSET Incoming] /\ taken \subseteq Incoming
  /\ outcome \in [Pass!Views -> Ways]
  /\ decision \in [Pass!Views -> Decisions]
  /\ displayed \in [Pass!Views -> SUBSET Shown] /\ window \in [Pass!Views -> SUBSET Shown]

\* A frame is queued once, for its own view.
Queued(v) == {viewQueue[v][i] : i \in DOMAIN viewQueue[v]}

QueueInv ==
  \A v \in Pass!Views :
    /\ Queued(v) \subseteq viewArrived /\ \A f \in Queued(v) : f.view = v
    /\ \A i, j \in DOMAIN viewQueue[v] : viewQueue[v][i] = viewQueue[v][j] => i = j

\* A result is about one frame of its view, or about none.
GoodResult(t, v, r) ==
  /\ r \in Results
  /\ r.kind \in {"selected", "waiting"} =>
       \E f \in Incoming : /\ r.frames = {f} /\ f.view = v
                           /\ r.kind = "selected" <=> Pass!Adjusted(f) <= t
  /\ r.kind \notin {"selected", "waiting"} => r.frames = {}
  /\ r.kind = "handoff_error" => r.error \in Errors

ResultInv ==
  /\ \A v \in Pass!Views : GoodResult(passTarget, v, results[v])
  /\ pc \in {"consume", "take", "render", "display", "report"} =>
       \A v \in Pass!Views : results[v].kind # "none"
  /\ pc = "preview" /\ view = "Right" => results["Left"].kind # "none"
  /\ pc = "drop_late" => view = "Left"

\* The caller's frame of a view is what the view's window shows, except between
\* drawing it and the display policy.
Picture(n, v, shows) ==
  shows = {} \/ \E s \in Shown : shows = {s} /\ s.frame.view = v /\ s.at <= n

Drawing(n, r) == [frame |-> Pass!The(r.frames), at |-> n]

WindowInv ==
  /\ \A v \in Pass!Views : Picture(now, v, displayed[v])
  /\ pc # "display" => window = displayed
  /\ pc = "display" => \A v \in Pass!Views :
       window[v] = IF outcome[v] = "rendered" THEN {Drawing(now, results[v])} ELSE displayed[v]
  /\ pc \in {"display", "report"} => \A v \in Pass!Views : outcome[v] \in Pass!Outcomes(v)

GoodDecision(v, d) ==
  /\ outcome[v] = "rendered" => d = [kind |-> "update", frames |-> {Drawing(now, results[v])}]
  /\ d.kind \in {"update", "hold"} =>
       \E s \in Shown : /\ d.frames = {s} /\ window[v] = {s}
                        /\ s.frame.view = v /\ now - s.at <= MaxHold
  /\ outcome[v] = "source_error" => d.kind \in {"hold", "stale", "source_error"}

DecisionInv ==
  pc = "report" => canvas = Pass!Compose(decision) /\ \A v \in Pass!Views : GoodDecision(v, decision[v])

Fits(c) ==
  \A v \in Pass!Views : \A s \in c.sides[v] :
    /\ s.x + s.shown.frame.width <= c.width /\ s.shown.frame.height <= c.height
    /\ v = "Left" => \A r \in c.sides["Right"] : s.x + s.shown.frame.width <= r.x

CanvasInv == Fits(canvas) /\ Fits(screen)

\* In process the queues stand still during a pass, so what was found out about
\* a head stays so, and what was dropped does not come back.
LateInv ==
  ~Handoff /\ pc # "idle" => \A v \in Pass!Views :
    /\ \A f \in dropped[v] : /\ Pass!Adjusted(f) + DisplayMaxLate < passTarget
                             /\ f \notin results[v].frames /\ f \notin Queued(v)
    /\ results[v].kind = "no_frame" => viewQueue[v] = <<>>
    /\ Consume /\ results[v].kind = "waiting" =>
         viewQueue[v] # <<>> /\ Pass!Adjusted(Head(viewQueue[v])) > passTarget

\* A view whose head was selected and not yet taken.
FromHead(v) == viewQueue[v] # <<>> /\ results[v].frames = {Head(viewQueue[v])}

TakenPairInv ==
  ~Handoff /\ pc # "idle" =>
    /\ pc = "drop_late" => taken = {} /\ \A v \in Pass!Views : results[v] = Pass!NoResult
    /\ pc = "preview" => /\ taken = {}
                         /\ Consume => \A v \in Pass!Views :
                              results[v].kind = "selected" => FromHead(v)
    /\ pc \in {"consume", "take"} =>
         /\ Pass!AllSelected(results) /\ FromHead("Right")
         /\ view = "Left" => FromHead("Left") /\ taken = {}
         /\ view = "Right" => taken = results["Left"].frames
    /\ pc \in {"render", "display", "report"} /\ taken # {} =>
         Pass!AllSelected(results) /\ taken = UNION {results[v].frames : v \in Pass!Views}

TakenInv == ~Consume => taken = {} /\ pc \notin {"consume", "take"}

DisplayInv ==
  /\ DisplayTypeInv /\ QueueInv /\ ResultInv /\ WindowInv /\ DecisionInv /\ CanvasInv
  /\ LateInv /\ TakenPairInv /\ TakenInv

-----------------------------------------------------------------------------
(* Operators. *)

LEMMA DisplayParameters ==
  ASSUME Pass!TwoViewAssumption
  PROVE  /\ DisplayMaxLate \in Nat /\ MaxHold \in Nat /\ MaxCanvas \in Nat /\ MaxNow \in Nat
         /\ Handoff \in BOOLEAN /\ Consume \in BOOLEAN
         /\ \A f \in Incoming : /\ f.view \in Pass!Views /\ f.stamp \in Nat
                                /\ f.width \in Nat /\ f.height \in Nat
         /\ \A v \in Pass!Views : Offsets[v] \in Int
  BY DEF Pass!TwoViewAssumption

LEMMA AdjustedTime ==
  ASSUME Pass!TwoViewAssumption, NEW f \in Incoming
  PROVE  Pass!Adjusted(f) \in Nat /\ f.stamp + Offsets[f.view] <= Pass!Adjusted(f)
<1>1. f.stamp \in Nat /\ Offsets[f.view] \in Int
  BY DisplayParameters
<1> QED BY <1>1 DEF Pass!Adjusted

LEMMA TheOnly ==
  ASSUME NEW x
  PROVE  Pass!The({x}) = x
  BY DEF Pass!The

LEMMA LargestOfTwo ==
  ASSUME NEW a \in Nat, NEW b \in Nat
  PROVE  /\ Pass!Largest({a, b}) \in {a, b} /\ a <= Pass!Largest({a, b}) /\ b <= Pass!Largest({a, b})
<1> DEFINE P(x) == x \in {a, b} /\ \A y \in {a, b} : y <= x
<1>1. \E x : P(x)
  <2>1. CASE a <= b
    BY <2>1
  <2>2. CASE b <= a
    BY <2>2
  <2> QED BY <2>1, <2>2
<1>2. P(CHOOSE x : P(x))
  BY <1>1
<1>3. Pass!Largest({a, b}) = CHOOSE x : P(x)
  BY DEF Pass!Largest
<1> QED BY <1>2, <1>3

\* What is looked for and found makes a good result.
LEMMA FoundIsGood ==
  ASSUME Pass!TwoViewAssumption, NEW v \in Pass!Views, NEW found \in SUBSET Incoming,
         found = {} \/ \E f \in Incoming : found = {f} /\ f.view = v, passTarget \in Nat
  PROVE  /\ GoodResult(passTarget, v, Pass!ResultFor(found))
         /\ Pass!ResultFor(found).kind \in {"no_frame", "selected", "waiting"}
         /\ Pass!ResultFor(found).frames = found
         /\ found = {} <=> Pass!ResultFor(found).kind = "no_frame"
<1>1. CASE found = {}
  <2>1. Pass!ResultFor(found) = [kind |-> "no_frame", frames |-> {}, error |-> "none"]
    BY <1>1 DEF Pass!ResultFor, Pass!NoResult
  <2> QED BY <1>1, <2>1 DEF GoodResult, Results, ResultKinds
<1>2. ASSUME NEW f \in Incoming, found = {f}, f.view = v
      PROVE  /\ GoodResult(passTarget, v, Pass!ResultFor(found))
             /\ Pass!ResultFor(found).kind \in {"selected", "waiting"}
             /\ Pass!ResultFor(found).frames = found
  <2>1. Pass!ResultFor(found) = [kind |-> IF Pass!Adjusted(f) <= passTarget THEN "selected" ELSE "waiting",
                                 frames |-> {f}, error |-> "none"]
    <3>1. found # {} /\ Pass!The(found) = f
      BY <1>2, TheOnly
    <3> QED BY <1>2, <3>1 DEF Pass!ResultFor
  <2>2. Pass!ResultFor(found) \in Results
    BY <2>1 DEF Results, ResultKinds
  <2> QED BY <1>2, <2>1, <2>2 DEF GoodResult
<1> QED BY <1>1, <1>2

LEMMA ErrorIsGood ==
  ASSUME NEW t, NEW v, NEW e \in Errors
  PROVE  GoodResult(t, v, Pass!HandoffError(e)) /\ Pass!HandoffError(e).kind = "handoff_error"
<1>1. Pass!HandoffError(e) = [kind |-> "handoff_error", frames |-> {}, error |-> e]
  <2> DEFINE base == [kind |-> "handoff_error", frames |-> {}, error |-> "none"]
             kind == [Pass!NoResult EXCEPT !.kind = "handoff_error"]
  <2>1. kind = base
    BY DEF Pass!NoResult
  <2>2. Pass!HandoffError(e) = [kind EXCEPT !.error = e]
    BY DEF Pass!HandoffError
  <2> HIDE DEF kind
  <2> QED BY <2>1, <2>2
<1> QED BY <1>1 DEF GoodResult, Results, ResultKinds

LEMMA CandidateOfView ==
  ASSUME DisplayTypeInv, QueueInv, NEW v \in Pass!Views
  PROVE  /\ Pass!Candidate(v) \in SUBSET Incoming
         /\ Pass!Candidate(v) = {} \/ \E f \in Incoming : Pass!Candidate(v) = {f} /\ f.view = v
         /\ Pass!Candidate(v) = {} <=> viewQueue[v] = <<>>
         /\ Pass!Candidate(v) \subseteq Queued(v)
         /\ Consume /\ viewQueue[v] # <<>> => Pass!Candidate(v) = {Head(viewQueue[v])}
<1>1. viewQueue[v] \in Seq(Incoming)
  BY DEF DisplayTypeInv
<1>2. CASE viewQueue[v] = <<>>
  BY <1>2 DEF Pass!Candidate
<1>3. CASE viewQueue[v] # <<>>
  <2>1. /\ Len(viewQueue[v]) \in Nat \ {0} /\ 1 \in DOMAIN viewQueue[v]
        /\ Len(viewQueue[v]) \in DOMAIN viewQueue[v] /\ Head(viewQueue[v]) = viewQueue[v][1]
    BY <1>1, <1>3
  <2>2. \A i \in DOMAIN viewQueue[v] : viewQueue[v][i] \in Incoming /\ viewQueue[v][i].view = v
    BY <1>1, ElementOfSeq DEF QueueInv, Queued
  <2>3. \E i \in DOMAIN viewQueue[v] : Pass!Candidate(v) = {viewQueue[v][i]}
    BY <1>3, <2>1 DEF Pass!Candidate
  <2> QED BY <1>3, <2>2, <2>3 DEF Pass!Candidate, Queued
<1> QED BY <1>2, <1>3

\* An answer changes the result of its view and moves on to the next.
LEMMA AnswerMoves ==
  ASSUME DisplayTypeInv, NEW r, GoodResult(passTarget, view, r), r.kind # "none", Pass!Answer(r),
         pc \in {"preview", "consume", "take"}
  PROVE  /\ results' = [results EXCEPT ![view] = r] /\ results' \in [Pass!Views -> Results]
         /\ results'[view] = r /\ \A v \in Pass!Views : v # view => results'[v] = results[v]
         /\ view = "Left" => view' = "Right"
              /\ pc' = IF pc = "preview" THEN "preview" ELSE "consume"
         /\ view = "Right" => view' = "Left"
              /\ pc' = IF pc = "preview" /\ Consume /\ Pass!AllSelected(results')
                       THEN "consume" ELSE "render"
         /\ view' \in Pass!Views /\ pc' \in {"preview", "consume", "render"}
<1>1. view \in {"Left", "Right"} /\ results \in [Pass!Views -> Results] /\ r \in Results
  BY DEF DisplayTypeInv, Pass!Views, GoodResult
<1>2. results' = [results EXCEPT ![view] = r]
  BY DEF Pass!Answer
<1>3. /\ view = "Left" => view' = "Right"
           /\ pc' = IF pc = "preview" THEN "preview" ELSE "consume"
      /\ view = "Right" => view' = "Left"
           /\ pc' = IF pc = "preview" /\ Consume /\ Pass!AllSelected(results')
                    THEN "consume" ELSE "render"
  BY DEF Pass!Answer
<1> QED BY <1>1, <1>2, <1>3 DEF Pass!Views

LEMMA ShownStays ==
  ASSUME WindowInv, DecisionInv, CanvasInv, pc \notin {"display", "report"},
         pc' \notin {"display", "report"}, UNCHANGED <<now, Pass!shown>>
  PROVE  WindowInv' /\ DecisionInv' /\ CanvasInv'
<1>1. now' = now /\ displayed' = displayed /\ window' = window /\ canvas' = canvas /\ screen' = screen
  BY DEF Pass!shown
<1>2. WindowInv'
  BY <1>1 DEF WindowInv
<1>3. DecisionInv'
  BY DEF DecisionInv
<1>4. CanvasInv'
  BY <1>1 DEF CanvasInv
<1> QED BY <1>2, <1>3, <1>4

-----------------------------------------------------------------------------
(* The server's queues. *)

LEMMA StoreKeeps ==
  ASSUME DisplayInv, NEW f \in Incoming, Pass!Store(f)
  PROVE  DisplayTypeInv' /\ QueueInv'
<1>1. /\ f \notin viewArrived /\ viewArrived' = viewArrived \cup {f}
      /\ viewQueue' = [viewQueue EXCEPT ![f.view] = Append(@, f)]
      /\ UNCHANGED <<passes, now, passTarget, pc, Pass!schedule, Pass!shown>>
  BY DEF Pass!Store, Pass!QueuesMove
<1>2. DisplayTypeInv /\ QueueInv
  BY DEF DisplayInv
<1>3. ASSUME NEW v \in Pass!Views
      PROVE  /\ viewQueue'[v] \in Seq(Incoming)
             /\ Queued(v)' \subseteq viewArrived' /\ \A g \in Queued(v)' : g.view = v
             /\ \A i, j \in DOMAIN viewQueue'[v] : viewQueue'[v][i] = viewQueue'[v][j] => i = j
  <2>0. viewQueue \in [Pass!Views -> Seq(Incoming)] /\ viewQueue[v] \in Seq(Incoming)
    BY <1>2 DEF DisplayTypeInv
  <2>1. CASE v # f.view
    <3>1. viewQueue'[v] = viewQueue[v]
      BY <1>1, <2>0, <2>1
    <3> QED BY <1>1, <1>2, <2>0, <3>1 DEF QueueInv, Queued
  <2>2. CASE v = f.view
    <3> DEFINE q == viewQueue[v]
               n == Len(viewQueue[v])
    <3>1. viewQueue'[v] = Append(q, f)
      BY <1>1, <2>0, <2>2
    <3>2. /\ n \in Nat /\ DOMAIN q = 1 .. n /\ DOMAIN viewQueue'[v] = 1 .. (n + 1)
          /\ viewQueue'[v][n + 1] = f /\ \A i \in 1 .. n : viewQueue'[v][i] = q[i]
          /\ viewQueue'[v] \in Seq(Incoming)
      BY <2>0, <3>1
    <3>3. /\ \A i \in 1 .. n : q[i] \in viewArrived /\ q[i].view = v
          /\ \A i, j \in 1 .. n : q[i] = q[j] => i = j
      BY <1>2, <3>2 DEF QueueInv, Queued
    <3>4. Queued(v)' = {viewQueue'[v][i] : i \in DOMAIN viewQueue'[v]}
      BY DEF Queued
    <3> HIDE DEF q, n
    <3>5. \A i \in 1 .. (n + 1) : i \in 1 .. n \/ i = n + 1
      BY <3>2
    <3>6. \A i \in 1 .. (n + 1) : viewQueue'[v][i] \in viewArrived' /\ viewQueue'[v][i].view = v
      BY <1>1, <2>2, <3>2, <3>3, <3>5
    <3>7. \A i, j \in 1 .. (n + 1) : viewQueue'[v][i] = viewQueue'[v][j] => i = j
      BY <1>1, <3>2, <3>3, <3>5
    <3> QED BY <3>2, <3>4, <3>6, <3>7
  <2> QED BY <2>1, <2>2
<1>4. viewQueue' = [v \in Pass!Views |-> viewQueue'[v]]
  BY <1>1, <1>2 DEF DisplayTypeInv
<1>5. QueueInv'
  BY <1>3 DEF QueueInv
<1>6. DisplayTypeInv'
  <2>1. viewQueue' \in [Pass!Views -> Seq(Incoming)] /\ viewArrived' \subseteq Incoming
    BY <1>1, <1>2, <1>3, <1>4 DEF DisplayTypeInv
  <2> QED BY <1>1, <1>2, <2>1 DEF DisplayTypeInv, Pass!schedule, Pass!shown
<1> QED BY <1>5, <1>6

\* Taking frames from the head leaves a queue of the same frames without them.
LEMMA SuffixOfQueue ==
  ASSUME DisplayTypeInv, QueueInv, NEW v \in Pass!Views, NEW q, NEW k \in 0 .. Len(viewQueue[v]),
         q \in Seq(Incoming), Len(q) = Len(viewQueue[v]) - k,
         \A i \in DOMAIN q : q[i] = viewQueue[v][i + k]
  PROVE  /\ {q[i] : i \in DOMAIN q} \subseteq Queued(v)
         /\ \A i, j \in DOMAIN q : q[i] = q[j] => i = j
         /\ \A i \in DOMAIN q, j \in 1 .. k : q[i] # viewQueue[v][j]
<1>1. /\ viewQueue[v] \in Seq(Incoming) /\ Len(viewQueue[v]) \in Nat /\ k \in Nat
      /\ DOMAIN viewQueue[v] = 1 .. Len(viewQueue[v]) /\ DOMAIN q = 1 .. (Len(viewQueue[v]) - k)
  BY DEF DisplayTypeInv
<1>2. \A i, j \in DOMAIN viewQueue[v] : viewQueue[v][i] = viewQueue[v][j] => i = j
  BY DEF QueueInv
<1>3. \A i \in DOMAIN q : i + k \in DOMAIN viewQueue[v] /\ i \in Int /\ i > 0
  BY <1>1
<1>4. \A j \in 1 .. k : j \in DOMAIN viewQueue[v]
  BY <1>1
<1>5. {q[i] : i \in DOMAIN q} \subseteq Queued(v)
  BY <1>3 DEF Queued
<1>6. ASSUME NEW i \in DOMAIN q, NEW j \in DOMAIN q, q[i] = q[j] PROVE i = j
  <2>1. i + k = j + k
    BY <1>2, <1>3, <1>6
  <2> QED BY <1>1, <1>3, <2>1
<1>7. ASSUME NEW i \in DOMAIN q, NEW j \in 1 .. k, q[i] = viewQueue[v][j] PROVE FALSE
  <2>1. i + k = j
    BY <1>2, <1>3, <1>4, <1>7
  <2> QED BY <1>1, <1>3, <2>1
<1> QED BY <1>5, <1>6, <1>7

LEMMA TailOfQueue ==
  ASSUME DisplayTypeInv, QueueInv, NEW v \in Pass!Views, viewQueue[v] # <<>>
  PROVE  /\ Tail(viewQueue[v]) \in Seq(Incoming)
         /\ {Tail(viewQueue[v])[i] : i \in DOMAIN Tail(viewQueue[v])} \subseteq Queued(v)
         /\ \A i, j \in DOMAIN Tail(viewQueue[v]) : Tail(viewQueue[v])[i] = Tail(viewQueue[v])[j] => i = j
<1> DEFINE q == Tail(viewQueue[v])
<1>1. viewQueue[v] \in Seq(Incoming) /\ 1 \in 0 .. Len(viewQueue[v])
  BY DEF DisplayTypeInv
<1>2. /\ q \in Seq(Incoming) /\ Len(q) = Len(viewQueue[v]) - 1
      /\ \A i \in DOMAIN q : q[i] = viewQueue[v][i + 1]
  BY <1>1
<1> HIDE DEF q
<1> QED BY <1>1, <1>2, SuffixOfQueue DEF q

\* A queue that loses its head, or stays as it is.
LEMMA HeadLeaves ==
  ASSUME DisplayInv, NEW v \in Pass!Views, viewQueue' = [viewQueue EXCEPT ![v] = IF @ = <<>> THEN @ ELSE Tail(@)],
         viewArrived' = viewArrived
  PROVE  /\ viewQueue' \in [Pass!Views -> Seq(Incoming)] /\ QueueInv'
         /\ \A w \in Pass!Views : Queued(w)' \subseteq Queued(w)
         /\ \A w \in Pass!Views : w # v => viewQueue'[w] = viewQueue[w]
<1>1. DisplayTypeInv /\ QueueInv /\ viewQueue \in [Pass!Views -> Seq(Incoming)]
  BY DEF DisplayInv, DisplayTypeInv
<1>2. ASSUME NEW w \in Pass!Views
      PROVE  /\ viewQueue'[w] \in Seq(Incoming) /\ Queued(w)' \subseteq Queued(w)
             /\ \A i, j \in DOMAIN viewQueue'[w] : viewQueue'[w][i] = viewQueue'[w][j] => i = j
  <2>1. CASE w # v \/ viewQueue[v] = <<>>
    <3>1. viewQueue'[w] = viewQueue[w]
      BY <1>1, <2>1
    <3> QED BY <1>1, <3>1 DEF QueueInv, Queued
  <2>2. CASE w = v /\ viewQueue[v] # <<>>
    <3>1. viewQueue'[w] = Tail(viewQueue[v])
      BY <1>1, <2>2
    <3> QED BY <1>1, <2>2, <3>1, TailOfQueue DEF Queued
  <2> QED BY <2>1, <2>2
<1>3. viewQueue' \in [Pass!Views -> Seq(Incoming)]
  BY <1>1, <1>2
<1>4. QueueInv'
  BY <1>1, <1>2 DEF QueueInv
<1> QED BY <1>1, <1>2, <1>3, <1>4

LEMMA ServerKeeps ==
  ASSUME DisplayInv, (\E f \in Incoming : Pass!Store(f)) \/ (\E v \in Pass!Views : Pass!Evict(v))
  PROVE  DisplayInv'
<1>1. (Handoff \/ pc = "idle") /\ UNCHANGED <<passes, now, passTarget, pc, Pass!schedule, Pass!shown>>
  BY DEF Pass!Store, Pass!Evict, Pass!QueuesMove
<1>2. DisplayTypeInv' /\ QueueInv'
  <2>1. CASE \E f \in Incoming : Pass!Store(f)
    BY <2>1, StoreKeeps
  <2>2. ASSUME NEW v \in Pass!Views, Pass!Evict(v) PROVE DisplayTypeInv' /\ QueueInv'
    <3>1. /\ viewQueue' = [viewQueue EXCEPT ![v] = IF @ = <<>> THEN @ ELSE Tail(@)]
          /\ viewArrived' = viewArrived
      BY <2>2 DEF Pass!Evict
    <3>2. viewQueue' \in [Pass!Views -> Seq(Incoming)] /\ QueueInv'
      BY <3>1, HeadLeaves
    <3> QED BY <1>1, <3>1, <3>2 DEF DisplayInv, DisplayTypeInv, Pass!schedule, Pass!shown
  <2> QED BY <2>1, <2>2
<1>3. ResultInv' /\ TakenInv'
  BY <1>1 DEF DisplayInv, ResultInv, TakenInv, Pass!schedule
<1>4. WindowInv' /\ CanvasInv'
  BY <1>1 DEF DisplayInv, WindowInv, CanvasInv, Pass!Outcomes, Pass!Instruction,
      Pass!schedule, Pass!shown
<1>5. DecisionInv'
  BY <1>1 DEF DisplayInv, DecisionInv, GoodDecision, Pass!schedule, Pass!shown
<1>6. LateInv' /\ TakenPairInv'
  BY <1>1 DEF LateInv, TakenPairInv
<1> QED BY <1>2, <1>3, <1>4, <1>5, <1>6 DEF DisplayInv

-----------------------------------------------------------------------------
(* The pass: it begins, and it ends. *)

LEMMA EmptyCanvasFits ==
  ASSUME NEW c, c.sides = Pass!Each({})
  PROVE  Fits(c)
<1>1. \A v \in Pass!Views : c.sides[v] = {}
  BY DEF Pass!Each
<1> QED BY <1>1 DEF Fits

LEMMA DisplayStarts ==
  ASSUME Pass!TwoViewAssumption, Pass!Init
  PROVE  DisplayInv
<1>0. Handoff \in BOOLEAN /\ Consume \in BOOLEAN
  BY DisplayParameters
<1>1. /\ pc = "idle" /\ view = "Left" /\ taken = {} /\ passes = 0 /\ now = 0 /\ passTarget = 0
      /\ viewArrived = {} /\ view \in Pass!Views
      /\ \A v \in Pass!Views : /\ viewQueue[v] = <<>> /\ results[v] = Pass!NoResult /\ dropped[v] = {}
                               /\ displayed[v] = {} /\ window[v] = {}
  BY DEF Pass!Init, Pass!Each, Pass!Views
<1>2. Pass!NoResult \in Results
  BY DEF Results, ResultKinds, Pass!NoResult
<1>3. DisplayTypeInv
  <2>1. viewQueue \in [Pass!Views -> Seq(Incoming)] /\ viewArrived \subseteq Incoming
    BY DEF Pass!Init, Pass!Each
  <2>2. results \in [Pass!Views -> Results]
    BY <1>2 DEF Pass!Init, Pass!Each
  <2>3. dropped \in [Pass!Views -> SUBSET Incoming] /\ taken \subseteq Incoming
    BY DEF Pass!Init, Pass!Each
  <2>4. outcome \in [Pass!Views -> Ways]
    BY DEF Pass!Init, Pass!Each, Ways
  <2>5. [kind |-> "none", frames |-> {}] \in Decisions
    BY DEF Decisions
  <2>6. decision \in [Pass!Views -> Decisions]
    BY <2>5 DEF Pass!Init, Pass!Each
  <2>7. displayed \in [Pass!Views -> SUBSET Shown] /\ window \in [Pass!Views -> SUBSET Shown]
    BY DEF Pass!Init, Pass!Each
  <2>8. passes \in Nat /\ now \in Nat /\ passTarget \in Nat /\ pc \in Places
    BY <1>1 DEF Places
  <2> QED BY <1>1, <2>1, <2>2, <2>3, <2>4, <2>6, <2>7, <2>8 DEF DisplayTypeInv
<1>4. QueueInv
  <2>1. \A v \in Pass!Views : viewQueue[v] = <<>> /\ DOMAIN viewQueue[v] = {}
    BY <1>1
  <2> QED BY <2>1 DEF QueueInv, Queued
<1>5. ResultInv
  BY <1>1, <1>2 DEF ResultInv, GoodResult, Pass!NoResult
<1>6. WindowInv
  BY <1>1 DEF WindowInv, Picture, Pass!Init
<1>7. CanvasInv
  <2>1. canvas.sides = Pass!Each({}) /\ screen.sides = Pass!Each({})
    BY DEF Pass!Init, Pass!NoCanvas
  <2> QED BY <2>1, EmptyCanvasFits DEF CanvasInv
<1> QED BY <1>0, <1>1, <1>3, <1>4, <1>5, <1>6, <1>7
    DEF DisplayInv, DecisionInv, LateInv, TakenPairInv, TakenInv

LEMMA BeginKeeps ==
  ASSUME Pass!TwoViewAssumption, DisplayInv, NEW t \in 0 .. MaxNow, NEW n \in 0 .. MaxNow, Pass!Begin(t, n)
  PROVE  DisplayInv'
<1>0. Handoff \in BOOLEAN /\ Consume \in BOOLEAN /\ MaxNow \in Nat
  BY DisplayParameters
<1>1. /\ pc = "idle" /\ now <= n /\ passes' = passes + 1 /\ passTarget' = t /\ now' = n
      /\ pc' = "preview" \/ (~Handoff /\ pc' = "drop_late")
      /\ view' = "Left" /\ taken' = {} /\ view' \in Pass!Views
      /\ viewQueue' = viewQueue /\ viewArrived' = viewArrived /\ displayed' = displayed /\ window' = window
      /\ \A v \in Pass!Views : results'[v] = Pass!NoResult /\ dropped'[v] = {}
  BY DEF Pass!Begin, Pass!server, Pass!Each, Pass!Views
<1>2. Pass!NoResult \in Results
  BY DEF Results, ResultKinds, Pass!NoResult
<1>2a. DisplayTypeInv /\ QueueInv /\ WindowInv /\ CanvasInv
  BY DEF DisplayInv
<1>3. DisplayTypeInv'
  <2>2. results' \in [Pass!Views -> Results]
    BY <1>2 DEF Pass!Begin, Pass!Each
  <2>3. dropped' \in [Pass!Views -> SUBSET Incoming] /\ taken' \subseteq Incoming
    BY DEF Pass!Begin, Pass!Each
  <2>4. outcome' \in [Pass!Views -> Ways]
    BY DEF Pass!Begin, Pass!Each, Ways
  <2>5. [kind |-> "none", frames |-> {}] \in Decisions
    BY DEF Decisions
  <2>6. decision' \in [Pass!Views -> Decisions]
    BY <2>5 DEF Pass!Begin, Pass!Each
  <2>7. passes \in Nat
    BY <1>2a DEF DisplayTypeInv
  <2>8. passes' \in Nat /\ now' \in Nat /\ passTarget' \in Nat
    BY <1>0, <1>1, <2>7
  <2>8a. pc' \in Places
    BY <1>1 DEF Places
  <2> QED BY <1>1, <1>2a, <2>2, <2>3, <2>4, <2>6, <2>8, <2>8a DEF DisplayTypeInv
<1>4. QueueInv'
  <2>1. viewQueue' = viewQueue /\ viewArrived' = viewArrived
    BY <1>1
  <2> QED BY <1>2a, <2>1 DEF QueueInv, Queued
<1>5. ResultInv'
  BY <1>1, <1>2 DEF ResultInv, GoodResult, Pass!NoResult
<1>6. WindowInv'
  <2>1. \A s \in Shown : s.at \in Nat
    BY DEF Shown
  <2>1a. now \in Nat /\ n \in Nat
    BY <1>0, <1>2a DEF DisplayTypeInv
  <2>2. \A s \in Shown : s.at <= now => s.at <= n
    BY <1>1, <2>1, <2>1a
  <2>3. \A v \in Pass!Views : Picture(now, v, displayed[v]) => Picture(n, v, displayed[v])
    BY <2>2 DEF Picture
  <2> QED BY <1>1, <1>2a, <2>3 DEF WindowInv
<1>7. CanvasInv'
  <2>1. canvas'.sides = Pass!Each({}) /\ screen' = screen
    BY DEF Pass!Begin, Pass!NoCanvas
  <2> QED BY <1>2a, <2>1, EmptyCanvasFits DEF CanvasInv, Fits
<1>7a. \A v \in Pass!Views : results'[v].kind = "none" /\ dropped'[v] = {}
  <2>1. Pass!NoResult.kind = "none"
    BY DEF Pass!NoResult
  <2> QED BY <1>1, <2>1
<1>8. LateInv'
  BY <1>7a DEF LateInv
<1>9. TakenPairInv'
  <2>1. taken' = {} /\ pc' \in {"preview", "drop_late"} /\ \A v \in Pass!Views : results'[v] = Pass!NoResult
    BY <1>1
  <2> QED BY <1>7a, <2>1 DEF TakenPairInv
<1> QED BY <1>0, <1>1, <1>3, <1>4, <1>5, <1>6, <1>7, <1>8, <1>9
    DEF DisplayInv, DecisionInv, TakenInv

LEMMA ReportKeeps ==
  ASSUME DisplayInv, Pass!Report
  PROVE  DisplayInv'
<1>1. /\ pc = "report" /\ pc' = "idle"
      /\ UNCHANGED <<viewQueue, viewArrived, passes, now, passTarget, view, results, dropped, taken,
                     outcome, decision, canvas, screen, displayed, window>>
  BY DEF Pass!Report, Pass!server, Pass!schedule, Pass!shown
<1>2. DisplayTypeInv' /\ QueueInv'
  BY <1>1 DEF DisplayInv, DisplayTypeInv, QueueInv, Queued, Places
<1>3. ResultInv' /\ WindowInv' /\ DecisionInv'
  BY <1>1 DEF DisplayInv, ResultInv, WindowInv, DecisionInv
<1>4. CanvasInv' /\ TakenInv'
  BY <1>1 DEF DisplayInv, CanvasInv, TakenInv
<1> QED BY <1>1, <1>2, <1>3, <1>4 DEF DisplayInv, LateInv, TakenPairInv

-----------------------------------------------------------------------------
(* Decoding and drawing. *)

LEMMA OutcomeTells ==
  ASSUME Pass!TwoViewAssumption, NEW v \in Pass!Views, GoodResult(passTarget, v, results[v]),
         results[v].kind # "none", NEW o \in Pass!Outcomes(v)
  PROVE  /\ o = "rendered" => results[v].kind = "selected"
         /\ o \in Ways
<1>1. results[v].kind \in {"no_frame", "selected", "waiting", "handoff_error"}
  BY DEF GoodResult, Results, ResultKinds
<1> QED BY <1>1 DEF Pass!Outcomes, Pass!Instruction, Ways

\* A view whose result is selected is drawn from that frame.
LEMMA DrawingOfView ==
  ASSUME DisplayTypeInv, NEW v \in Pass!Views, GoodResult(passTarget, v, results[v]),
         results[v].kind = "selected"
  PROVE  /\ Drawing(now, results[v]) \in Shown /\ Drawing(now, results[v]).frame.view = v
         /\ Drawing(now, results[v]).at = now /\ results[v].frames = {Drawing(now, results[v]).frame}
<1>1. PICK f \in Incoming : results[v].frames = {f} /\ f.view = v
  BY DEF GoodResult
<1>2. Pass!The(results[v].frames) = f
  BY <1>1, TheOnly
<1>3. now \in Nat
  BY DEF DisplayTypeInv
<1> QED BY <1>1, <1>2, <1>3 DEF Drawing, Shown

LEMMA DecodeRenderKeeps ==
  ASSUME Pass!TwoViewAssumption, DisplayInv, Pass!DecodeRender
  PROVE  DisplayInv'
<1>0. DisplayTypeInv /\ QueueInv /\ ResultInv /\ WindowInv /\ CanvasInv /\ LateInv /\ TakenPairInv /\ TakenInv
  BY DEF DisplayInv
<1>1. PICK o \in [Pass!Views -> {"rendered", "source_error", "unavailable"} \cup Skips] :
        /\ \A v \in Pass!Views : o[v] \in Pass!Outcomes(v)
        /\ outcome' = o
        /\ window' = [v \in Pass!Views |-> IF o[v] = "rendered"
                                           THEN {[frame |-> Pass!The(results[v].frames), at |-> now]}
                                           ELSE window[v]]
  BY DEF Pass!DecodeRender
<1>2. /\ pc = "render" /\ pc' = "display"
      /\ UNCHANGED <<viewQueue, viewArrived, passes, now, passTarget, view, results, dropped, taken,
                     decision, canvas, screen, displayed>>
  BY DEF Pass!DecodeRender, Pass!server, Pass!schedule
<1>3. \A v \in Pass!Views : GoodResult(passTarget, v, results[v]) /\ results[v].kind # "none"
  BY <1>0, <1>2 DEF ResultInv
<1>4. \A v \in Pass!Views : o[v] = "rendered" => Drawing(now, results[v]) \in Shown
  BY <1>0, <1>1, <1>3, OutcomeTells, DrawingOfView
<1>5. \A v \in Pass!Views :
        window'[v] = IF o[v] = "rendered" THEN {Drawing(now, results[v])} ELSE displayed[v]
  BY <1>0, <1>1, <1>2 DEF WindowInv, Drawing
<1>6. DisplayTypeInv'
  <2>1. outcome' \in [Pass!Views -> Ways]
    BY <1>1 DEF Ways
  <2>2. window' \in [Pass!Views -> SUBSET Shown]
    <3>1. displayed \in [Pass!Views -> SUBSET Shown]
      BY <1>0 DEF DisplayTypeInv
    <3>2. ASSUME NEW v \in Pass!Views PROVE window'[v] \in SUBSET Shown
      <4>1. CASE o[v] = "rendered"
        BY <1>4, <1>5, <4>1
      <4>2. CASE o[v] # "rendered"
        BY <1>5, <3>1, <4>2
      <4> QED BY <4>1, <4>2
    <3>3. window' = [v \in Pass!Views |-> window'[v]]
      BY <1>1
    <3> QED BY <3>2, <3>3
  <2> QED BY <1>0, <1>2, <2>1, <2>2 DEF DisplayTypeInv, Places
<1>7. QueueInv'
  <2>1. viewQueue' = viewQueue /\ viewArrived' = viewArrived
    BY <1>2
  <2> QED BY <1>0, <2>1 DEF QueueInv, Queued
<1>8. ResultInv'
  BY <1>0, <1>2 DEF ResultInv
<1>9. WindowInv'
  <2>1. \A v \in Pass!Views : outcome'[v] \in Pass!Outcomes(v)'
    BY <1>1, <1>2 DEF Pass!Outcomes, Pass!Instruction
  <2> QED BY <1>0, <1>1, <1>2, <1>5, <2>1 DEF WindowInv
<1>10. CanvasInv'
  BY <1>0, <1>2 DEF CanvasInv
<1>11. LateInv' /\ TakenPairInv' /\ TakenInv'
  <2>1. viewQueue' = viewQueue /\ results' = results /\ dropped' = dropped /\ passTarget' = passTarget /\ taken' = taken
    BY <1>2
  <2>2. LateInv'
    BY <1>0, <1>2, <2>1 DEF LateInv, Queued
  <2>3. TakenPairInv'
    BY <1>0, <1>2, <2>1 DEF TakenPairInv
  <2> QED BY <1>0, <1>2, <2>2, <2>3 DEF TakenInv
<1> QED BY <1>2, <1>6, <1>7, <1>8, <1>9, <1>10, <1>11 DEF DisplayInv, DecisionInv

-----------------------------------------------------------------------------
(* The display policy and the composition. *)

LEMMA DecideIsGood ==
  ASSUME Pass!TwoViewAssumption, DisplayInv, pc = "display", NEW v \in Pass!Views
  PROVE  /\ Pass!Decide(v) \in Decisions /\ GoodDecision(v, Pass!Decide(v))
         /\ Pass!Carried(v, Pass!Decide(v)) = window[v] /\ Picture(now, v, window[v])
<1>0. DisplayTypeInv /\ ResultInv /\ WindowInv
  BY DEF DisplayInv
<1>1. GoodResult(passTarget, v, results[v]) /\ results[v].kind # "none" /\ outcome[v] \in Pass!Outcomes(v)
  BY <1>0 DEF ResultInv, WindowInv
<1>2. /\ now \in Nat /\ MaxHold \in Nat /\ displayed[v] \subseteq Shown
      /\ Picture(now, v, displayed[v])
      /\ window[v] = IF outcome[v] = "rendered" THEN {Drawing(now, results[v])} ELSE displayed[v]
  BY <1>0, DisplayParameters DEF DisplayTypeInv, WindowInv
<1>3. CASE outcome[v] = "rendered"
  <2> DEFINE s == Drawing(now, results[v])
  <2>1. s \in Shown /\ s.frame.view = v /\ s.at = now
    BY <1>0, <1>1, <1>3, OutcomeTells, DrawingOfView
  <2>2. Pass!Decide(v) = [kind |-> "update", frames |-> {s}]
    BY <1>3 DEF Pass!Decide, Pass!Drawn, Drawing
  <2>3. window[v] = {s}
    BY <1>2, <1>3
  <2> HIDE DEF s
  <2>4. now - s.at <= MaxHold
    BY <1>2, <2>1
  <2>5. Picture(now, v, window[v])
    BY <1>2, <2>1, <2>3 DEF Picture
  <2> QED BY <1>3, <2>1, <2>2, <2>3, <2>4, <2>5 DEF GoodDecision, Decisions, Pass!Carried, s
<1>4. CASE outcome[v] # "rendered"
  <2>1. window[v] = displayed[v]
    BY <1>2, <1>4
  <2>2. CASE displayed[v] = {}
    <3>1. Pass!Decide(v) = [kind |-> Pass!Placeholder(v), frames |-> {}]
      BY <1>4, <2>2 DEF Pass!Decide, Pass!Drawn
    <3>2. /\ Pass!Placeholder(v) \in {"source_error", "no_display"}
          /\ outcome[v] = "source_error" => Pass!Placeholder(v) = "source_error"
      BY DEF Pass!Placeholder
    <3> QED BY <1>2, <1>4, <2>1, <3>1, <3>2 DEF GoodDecision, Decisions, Pass!Carried
  <2>3. CASE displayed[v] # {}
    <3>1. PICK s \in Shown : displayed[v] = {s} /\ s.frame.view = v /\ s.at <= now
      BY <1>2, <2>3 DEF Picture
    <3>2. Pass!The(displayed[v]) = s /\ s.at \in Nat
      BY <3>1, TheOnly DEF Shown
    <3>3. Pass!Decide(v) = [kind |-> IF Pass!SaturatingSub(now, s.at) > MaxHold THEN "stale" ELSE "hold",
                            frames |-> {s}]
      BY <1>4, <2>3, <3>1, <3>2 DEF Pass!Decide, Pass!Drawn
    <3>4. Pass!SaturatingSub(now, s.at) = now - s.at
      BY <1>2, <3>1, <3>2 DEF Pass!SaturatingSub
    <3>5. ~(Pass!SaturatingSub(now, s.at) > MaxHold) => now - s.at <= MaxHold
      BY <1>2, <3>2, <3>4
    <3>6. Pass!Decide(v) \in Decisions
      BY <3>1, <3>3 DEF Decisions
    <3>7. Pass!Decide(v).kind \in {"stale", "hold"} /\ Pass!Decide(v).frames = {s}
      BY <3>3
    <3>8. Pass!Decide(v).kind = "hold" => now - s.at <= MaxHold
      BY <3>3, <3>5
    <3>9. GoodDecision(v, Pass!Decide(v))
      BY <1>4, <2>1, <3>1, <3>7, <3>8 DEF GoodDecision
    <3> QED BY <1>2, <2>1, <3>6, <3>7, <3>9 DEF Pass!Carried
  <2> QED BY <2>2, <2>3
<1> QED BY <1>3, <1>4

LEMMA SlotHolds ==
  ASSUME Pass!TwoViewAssumption, NEW a \in Incoming, NEW b \in Incoming
  PROVE  /\ Pass!SlotSize({a, b}).width \in Nat /\ Pass!SlotSize({a, b}).height \in Nat
         /\ \A f \in {a, b} : /\ f.width \in Nat /\ f.height \in Nat
                              /\ f.width <= Pass!SlotSize({a, b}).width
                              /\ f.height <= Pass!SlotSize({a, b}).height
<1>1. a.width \in Nat /\ a.height \in Nat /\ b.width \in Nat /\ b.height \in Nat
  BY DisplayParameters
<1>2. {f.width : f \in {a, b}} = {a.width, b.width} /\ {f.height : f \in {a, b}} = {a.height, b.height}
  OBVIOUS
<1>3. /\ Pass!SlotSize({a, b}).width = Pass!Largest({a.width, b.width})
      /\ Pass!SlotSize({a, b}).height = Pass!Largest({a.height, b.height})
  BY <1>2 DEF Pass!SlotSize
<1> DEFINE w == Pass!Largest({a.width, b.width})
           h == Pass!Largest({a.height, b.height})
<1>4. w \in {a.width, b.width} /\ a.width <= w /\ b.width <= w
  BY <1>1, LargestOfTwo
<1>5. h \in {a.height, b.height} /\ a.height <= h /\ b.height <= h
  BY <1>1, LargestOfTwo
<1> HIDE DEF w, h
<1>6. Pass!SlotSize({a, b}).width = w /\ Pass!SlotSize({a, b}).height = h
  BY <1>3 DEF w, h
<1> QED BY <1>1, <1>4, <1>5, <1>6

LEMMA ComposeFits ==
  ASSUME Pass!TwoViewAssumption, NEW ds,
         \A v \in Pass!Views : Pass!Shows(ds[v]) => \E s \in Shown : ds[v].frames = {s}
  PROVE  Fits(Pass!Compose(ds))
<1> DEFINE On == {w \in Pass!Views : Pass!Shows(ds[w])}
           F(v) == Pass!The(ds[v].frames).frame
           frames == {F(v) : v \in On}
           slot == Pass!SlotSize(frames)
<1>1. Pass!Compose(ds) = IF frames = {} THEN [Pass!NoCanvas EXCEPT !.kind = "empty"]
                         ELSE IF Pass!TooLarge(slot) THEN [Pass!NoCanvas EXCEPT !.kind = "invalid"]
                         ELSE [kind |-> "composed", width |-> 2 * slot.width,
                               height |-> slot.height, sides |-> Pass!Placed(ds, slot)]
  BY DEF Pass!Compose
<1>2. \A v \in On : F(v) \in Incoming
  BY TheOnly DEF Shown
<1>3. CASE frames = {} \/ Pass!TooLarge(slot)
  <2>1. Pass!Compose(ds).sides = Pass!Each({})
    BY <1>1, <1>3 DEF Pass!NoCanvas
  <2> QED BY <2>1, EmptyCanvasFits
<1>4. CASE frames # {} /\ ~Pass!TooLarge(slot)
  <2>1. \E a, b \in Incoming : frames = {a, b}
    <3>1. CASE On = {"Left"}
      BY <1>2, <3>1
    <3>2. CASE On = {"Right"}
      BY <1>2, <3>2
    <3>3. CASE On = {"Left", "Right"}
      BY <1>2, <3>3
    <3>4. On \subseteq {"Left", "Right"} /\ On # {}
      BY <1>4 DEF Pass!Views
    <3>5. On = {"Left"} \/ On = {"Right"} \/ On = {"Left", "Right"}
      <4> HIDE DEF On
      <4> QED BY <3>4
    <3> QED BY <3>1, <3>2, <3>3, <3>5
  <2>2. /\ slot.width \in Nat /\ slot.height \in Nat
        /\ \A f \in frames : /\ f.width \in Nat /\ f.height \in Nat
                             /\ f.width <= slot.width /\ f.height <= slot.height
    BY <2>1, SlotHolds
  <2> DEFINE W == slot.width
             H == slot.height
             c == Pass!Compose(ds)
  <2>3. c.width = 2 * W /\ c.height = H /\ c.sides = Pass!Placed(ds, slot)
    <3>1. c = [kind |-> "composed", width |-> 2 * slot.width,
               height |-> slot.height, sides |-> Pass!Placed(ds, slot)]
      <4> HIDE DEF frames, slot
      <4> QED BY <1>1, <1>4
    <3> HIDE DEF frames, slot, c
    <3> QED BY <3>1
  <2>4. \A v \in Pass!Views : \A s \in c.sides[v] :
          /\ s.shown.frame \in frames /\ s.x = IF v = "Left" THEN 0 ELSE W
    BY <2>3 DEF Pass!Placed
  <2> HIDE DEF frames, slot, W, H, c
  <2>5. \A f \in frames : /\ f.width \in Nat /\ f.height \in Nat /\ f.width <= W /\ f.height <= H
    BY <2>2 DEF W, H
  <2>6. W \in Nat /\ H \in Nat
    BY <2>2 DEF W, H
  <2>7. ASSUME NEW v \in Pass!Views, NEW s \in c.sides[v]
        PROVE  /\ s.x + s.shown.frame.width <= c.width /\ s.shown.frame.height <= c.height
               /\ v = "Left" => s.x + s.shown.frame.width <= W
    <3>1. /\ s.shown.frame.width \in Nat /\ s.shown.frame.height \in Nat
          /\ s.shown.frame.width <= W /\ s.shown.frame.height <= H
      BY <2>4, <2>5
    <3>2. s.x = IF v = "Left" THEN 0 ELSE W
      BY <2>4
    <3> QED BY <2>3, <2>6, <3>1, <3>2
  <2>8. \A r \in c.sides["Right"] : r.x = W
    BY <2>4 DEF Pass!Views
  <2>9. Fits(c)
    BY <2>7, <2>8 DEF Fits
  <2> QED BY <2>9 DEF c
<1> QED BY <1>3, <1>4

LEMMA DisplayKeeps ==
  ASSUME Pass!TwoViewAssumption, DisplayInv, Pass!Display
  PROVE  DisplayInv'
<1>0. DisplayTypeInv /\ QueueInv /\ ResultInv /\ WindowInv /\ CanvasInv /\ LateInv /\ TakenPairInv /\ TakenInv
  BY DEF DisplayInv
<1>1. /\ pc = "display" /\ pc' = "report"
      /\ decision' = [v \in Pass!Views |-> Pass!Decide(v)] /\ canvas' = Pass!Compose(decision')
      /\ screen' = canvas' \/ screen' = screen
      /\ displayed' = [v \in Pass!Views |-> Pass!Carried(v, decision'[v])]
  BY DEF Pass!Display, Pass!RenderCanvas
<1>2. UNCHANGED <<viewQueue, viewArrived, passes, now, passTarget, view, results, dropped, taken,
                  outcome, window>>
  BY DEF Pass!Display, Pass!server, Pass!schedule
<1>3. \A v \in Pass!Views : decision'[v] \in Decisions /\ GoodDecision(v, decision'[v])
  BY <1>1, DecideIsGood
<1>4. \A v \in Pass!Views : displayed'[v] = window[v] /\ Picture(now, v, window[v])
  BY <1>1, DecideIsGood
<1>5. window \in [Pass!Views -> SUBSET Shown]
  BY <1>0 DEF DisplayTypeInv
<1>6. displayed' = window
  <2>1. displayed' = [v \in Pass!Views |-> displayed'[v]]
    BY <1>1
  <2>2. window = [v \in Pass!Views |-> window[v]]
    BY <1>5
  <2> QED BY <1>4, <2>1, <2>2
<1>7. DisplayTypeInv'
  <2>1. decision' \in [Pass!Views -> Decisions]
    <3>1. decision' = [v \in Pass!Views |-> decision'[v]]
      BY <1>1
    <3> QED BY <1>3, <3>1
  <2> QED BY <1>0, <1>1, <1>2, <1>5, <1>6, <2>1 DEF DisplayTypeInv, Places
<1>8. QueueInv'
  <2>1. viewQueue' = viewQueue /\ viewArrived' = viewArrived
    BY <1>2
  <2> QED BY <1>0, <2>1 DEF QueueInv, Queued
<1>9. ResultInv'
  BY <1>0, <1>1, <1>2 DEF ResultInv
<1>10. WindowInv'
  <2>1. \A v \in Pass!Views : outcome'[v] \in Pass!Outcomes(v)'
    BY <1>0, <1>1, <1>2 DEF WindowInv, Pass!Outcomes, Pass!Instruction
  <2> QED BY <1>1, <1>2, <1>4, <1>6, <2>1 DEF WindowInv
<1>11. DecisionInv'
  <2>1. outcome' = outcome /\ results' = results /\ now' = now /\ window' = window
    BY <1>2
  <2>2. ASSUME NEW v \in Pass!Views PROVE GoodDecision(v, decision[v])'
    BY <1>3, <2>1 DEF GoodDecision
  <2>3. canvas' = Pass!Compose(decision')
    BY <1>1
  <2>4. Pass!Compose(decision') = Pass!Compose(decision)'
    BY DEF Pass!Compose, Pass!Placed
  <2> QED BY <2>2, <2>3, <2>4 DEF DecisionInv
<1>12. CanvasInv'
  <2>1. \A v \in Pass!Views : Pass!Shows(decision'[v]) => \E s \in Shown : decision'[v].frames = {s}
    BY <1>3 DEF GoodDecision, Pass!Shows
  <2>2. Fits(canvas')
    BY <1>1, <2>1, ComposeFits
  <2>3. Fits(screen')
    BY <1>0, <1>1, <2>2 DEF CanvasInv
  <2> QED BY <2>2, <2>3 DEF CanvasInv, Fits
<1>13. LateInv' /\ TakenPairInv' /\ TakenInv'
  <2>1. viewQueue' = viewQueue /\ results' = results /\ dropped' = dropped /\ passTarget' = passTarget /\ taken' = taken
    BY <1>2
  <2>2. LateInv'
    BY <1>0, <1>1, <2>1 DEF LateInv, Queued
  <2>3. TakenPairInv'
    BY <1>0, <1>1, <2>1 DEF TakenPairInv
  <2> QED BY <1>0, <1>1, <2>1, <2>2, <2>3 DEF TakenInv
<1> QED BY <1>7, <1>8, <1>9, <1>10, <1>11, <1>12, <1>13 DEF DisplayInv

-----------------------------------------------------------------------------
(* The late frames. *)

\* The instance counts a set as this module does.
LEMMA PassCounts ==
  ASSUME NEW S
  PROVE  Pass!Cardinality(S) = Cardinality(S)
BY DEF Pass!Cardinality, Cardinality

\* The late frames are the first ones.
LEMMA LateHeadIsPrefix ==
  ASSUME DisplayTypeInv, NEW v \in Pass!Views
  PROVE  \E k \in 0 .. Len(viewQueue[v]) : Pass!LateHead(v) = 1 .. k /\ Cardinality(Pass!LateHead(v)) = k
<1> DEFINE n == Len(viewQueue[v])
           Late(i) == \A j \in 1 .. i : Pass!Adjusted(viewQueue[v][j]) < Pass!SaturatingSub(passTarget, DisplayMaxLate)
<1>1. n \in Nat
  BY DEF DisplayTypeInv
<1>2. \A i, j \in 1 .. n : j <= i /\ Late(i) => Late(j)
  OBVIOUS
<1>3. Pass!LateHead(v) = {i \in 1 .. n : Late(i)}
  BY DEF Pass!LateHead
<1> HIDE DEF n, Late
<1>4. \E k \in 0 .. n : {i \in 1 .. n : Late(i)} = 1 .. k
  <2>1. CASE \A i \in 1 .. n : Late(i)
    <3>1. {i \in 1 .. n : Late(i)} = 1 .. n
      BY <2>1
    <3> QED BY <1>1, <3>1
  <2>2. CASE \E i \in 1 .. n : ~Late(i)
    <3>1. PICK m \in 1 .. n : ~Late(m) /\ \A i \in 1 .. n : ~Late(i) => m <= i
      <4> DEFINE T == {i \in 1 .. n : ~Late(i)}
      <4>1. T \subseteq Nat /\ T # {}
        BY <1>1, <2>2
      <4>2. \E m \in T : \A i \in T : m <= i
        <5> HIDE DEF T
        <5> QED BY <4>1, LeastNumber
      <4> QED BY <4>2
    <3>2. {i \in 1 .. n : Late(i)} = 1 .. (m - 1)
      BY <1>1, <1>2, <3>1
    <3> QED BY <1>1, <3>1, <3>2
  <2> QED BY <2>1, <2>2
<1>5. PICK k \in 0 .. n : Pass!LateHead(v) = 1 .. k
  BY <1>3, <1>4
<1>6. Cardinality(1 .. k) = k
  <2>1. k \in Int /\ 1 \in Int /\ 1 <= k + 1
    BY <1>1
  <2>2. Cardinality(1 .. k) = IF 1 > k THEN 0 ELSE k - 1 + 1
    BY <2>1, FS_Interval
  <2> QED BY <1>1, <2>1, <2>2
<1> QED BY <1>5, <1>6 DEF n

LEMMA DropLateKeeps ==
  ASSUME Pass!TwoViewAssumption, DisplayInv, Pass!DropLate
  PROVE  DisplayInv'
<1>0. DisplayTypeInv /\ QueueInv /\ ResultInv /\ WindowInv /\ CanvasInv /\ TakenPairInv /\ TakenInv
  BY DEF DisplayInv
<1>1. /\ pc = "drop_late" /\ pc' = "preview"
      /\ dropped' = [v \in Pass!Views |-> {viewQueue[v][i] : i \in Pass!LateHead(v)}]
      /\ viewQueue' = [v \in Pass!Views |->
                         SubSeq(viewQueue[v], Cardinality(Pass!LateHead(v)) + 1, Len(viewQueue[v]))]
  BY PassCounts DEF Pass!DropLate
<1>2. UNCHANGED <<viewArrived, passes, now, passTarget, view, results, taken, Pass!shown>>
  BY DEF Pass!DropLate
<1>3. ASSUME NEW v \in Pass!Views
      PROVE  /\ viewQueue'[v] \in Seq(Incoming) /\ dropped'[v] \subseteq Incoming
             /\ Queued(v)' \subseteq Queued(v)
             /\ \A i, j \in DOMAIN viewQueue'[v] : viewQueue'[v][i] = viewQueue'[v][j] => i = j
             /\ \A f \in dropped'[v] : f \notin Queued(v)' /\ Pass!Adjusted(f) + DisplayMaxLate < passTarget
  <2>1. PICK k \in 0 .. Len(viewQueue[v]) : Pass!LateHead(v) = 1 .. k /\ Cardinality(Pass!LateHead(v)) = k
    BY <1>0, LateHeadIsPrefix
  <2> DEFINE q == SubSeq(viewQueue[v], k + 1, Len(viewQueue[v]))
  <2>2. viewQueue[v] \in Seq(Incoming) /\ Len(viewQueue[v]) \in Nat /\ k \in Nat /\ k <= Len(viewQueue[v])
    BY <1>0 DEF DisplayTypeInv
  <2>3. /\ q \in Seq(Incoming) /\ Len(q) = Len(viewQueue[v]) - k
        /\ \A i \in DOMAIN q : q[i] = viewQueue[v][i + k]
    <3>1. \A i \in (k + 1) .. Len(viewQueue[v]) : viewQueue[v][i] \in Incoming
      BY <2>2, ElementOfSeq
    <3>2. q = [i \in 1 .. (Len(viewQueue[v]) - k) |-> viewQueue[v][i + k]]
      BY <2>2
    <3>3. \A i \in 1 .. (Len(viewQueue[v]) - k) : i + k \in (k + 1) .. Len(viewQueue[v])
      BY <2>2
    <3> HIDE DEF q
    <3> QED BY <2>2, <3>1, <3>2, <3>3
  <2>4. viewQueue'[v] = q
    BY <1>1, <2>1
  <2> HIDE DEF q
  <2>5. /\ {q[i] : i \in DOMAIN q} \subseteq Queued(v)
        /\ \A i, j \in DOMAIN q : q[i] = q[j] => i = j
        /\ \A i \in DOMAIN q, j \in 1 .. k : q[i] # viewQueue[v][j]
    BY <1>0, <2>3, SuffixOfQueue
  <2>6. Queued(v)' = {q[i] : i \in DOMAIN q}
    BY <2>4 DEF Queued
  <2>7. dropped'[v] = {viewQueue[v][i] : i \in 1 .. k}
    BY <1>1, <2>1
  <2>8. \A i \in 1 .. k : /\ viewQueue[v][i] \in Incoming
                          /\ Pass!Adjusted(viewQueue[v][i]) < Pass!SaturatingSub(passTarget, DisplayMaxLate)
    <3>1. \A i \in 1 .. k : i \in Pass!LateHead(v) /\ i \in 1 .. Len(viewQueue[v]) /\ i \in 1 .. i
      BY <2>1, <2>2
    <3> QED BY <2>2, <3>1, ElementOfSeq DEF Pass!LateHead
  <2>9. \A f \in dropped'[v] : f \in Incoming /\ Pass!Adjusted(f) < Pass!SaturatingSub(passTarget, DisplayMaxLate)
    BY <2>7, <2>8
  <2>10. \A f \in dropped'[v] : Pass!Adjusted(f) + DisplayMaxLate < passTarget
    <3>1. passTarget \in Nat /\ DisplayMaxLate \in Nat
      BY <1>0, DisplayParameters DEF DisplayTypeInv
    <3>2. \A f \in dropped'[v] : Pass!Adjusted(f) \in Nat
      BY <2>9, AdjustedTime
    <3> QED BY <2>9, <3>1, <3>2 DEF Pass!SaturatingSub
  <2> QED BY <2>3, <2>4, <2>5, <2>6, <2>7, <2>8, <2>10
<1>4. viewQueue' = [v \in Pass!Views |-> viewQueue'[v]] /\ dropped' = [v \in Pass!Views |-> dropped'[v]]
  BY <1>1
<1>5. DisplayTypeInv'
  <2>1. viewQueue' \in [Pass!Views -> Seq(Incoming)] /\ dropped' \in [Pass!Views -> SUBSET Incoming]
    BY <1>3, <1>4
  <2> QED BY <1>0, <1>1, <1>2, <2>1 DEF DisplayTypeInv, Places, Pass!shown
<1>6. QueueInv'
  <2>1. viewArrived' = viewArrived
    BY <1>2
  <2> QED BY <1>0, <1>3, <2>1 DEF QueueInv
<1>7. WindowInv' /\ DecisionInv' /\ CanvasInv'
  BY <1>1, <1>2, ShownStays DEF DisplayInv
<1>7a. ResultInv'
  BY <1>0, <1>1, <1>2 DEF ResultInv
<1>8. ASSUME ~Handoff PROVE LateInv' /\ TakenPairInv'
  <2>1. /\ results' = results /\ taken' = taken /\ passTarget' = passTarget /\ view' = view
        /\ taken = {} /\ \A v \in Pass!Views : results[v] = Pass!NoResult
    BY <1>0, <1>1, <1>2, <1>8 DEF TakenPairInv
  <2>2. Pass!NoResult.kind = "none" /\ Pass!NoResult.frames = {}
    BY DEF Pass!NoResult
  <2>3. LateInv'
    BY <1>3, <2>1, <2>2 DEF LateInv
  <2>4. TakenPairInv'
    BY <1>1, <2>1, <2>2 DEF TakenPairInv
  <2> QED BY <2>3, <2>4
<1>9. ASSUME Handoff PROVE LateInv' /\ TakenPairInv'
  BY <1>9 DEF LateInv, TakenPairInv
<1>10. TakenInv'
  BY <1>0, <1>1, <1>2 DEF TakenInv
<1> QED BY <1>5, <1>6, <1>7, <1>7a, <1>8, <1>9, <1>10, DisplayParameters DEF DisplayInv

-----------------------------------------------------------------------------
(* The scheduler. *)

\* What every answer keeps, whether it is about a frame or an error.
LEMMA ResultKeeps ==
  ASSUME Pass!TwoViewAssumption, DisplayInv, NEW r, GoodResult(passTarget, view, r), r.kind # "none",
         Pass!Answer(r), pc \in {"preview", "consume", "take"},
         UNCHANGED <<viewArrived, passes, now, passTarget, dropped, Pass!shown>>,
         viewQueue' \in [Pass!Views -> Seq(Incoming)], QueueInv',
         taken' \subseteq Incoming, pc = "preview" => taken' = taken
  PROVE  /\ DisplayTypeInv' /\ QueueInv' /\ ResultInv' /\ WindowInv' /\ DecisionInv' /\ CanvasInv'
         /\ TakenInv'
<1>0. DisplayTypeInv /\ ResultInv /\ TakenInv /\ WindowInv /\ DecisionInv /\ CanvasInv
  BY DEF DisplayInv
<1>1. /\ results' \in [Pass!Views -> Results]
      /\ results'[view] = r /\ \A v \in Pass!Views : v # view => results'[v] = results[v]
      /\ view = "Left" => view' = "Right"
           /\ pc' = IF pc = "preview" THEN "preview" ELSE "consume"
      /\ view = "Right" => view' = "Left"
           /\ pc' = IF pc = "preview" /\ Consume /\ Pass!AllSelected(results')
                    THEN "consume" ELSE "render"
      /\ view' \in Pass!Views /\ pc' \in {"preview", "consume", "render"}
  BY <1>0, AnswerMoves
<1>2. view \in {"Left", "Right"}
  BY <1>0 DEF DisplayTypeInv, Pass!Views
<1>3. now' = now /\ passTarget' = passTarget
  OBVIOUS
<1>4. DisplayTypeInv'
  BY <1>0, <1>1 DEF DisplayTypeInv, Places, Pass!shown
<1>5. ResultInv'
  <2>1. \A v \in Pass!Views : GoodResult(passTarget, v, results'[v])
    BY <1>0, <1>1 DEF ResultInv
  <2>2. CASE pc = "preview" /\ view = "Left"
    BY <1>1, <1>3, <2>1, <2>2 DEF ResultInv
  <2>3. CASE pc # "preview" \/ view = "Right"
    <3>1. \A v \in Pass!Views : results'[v].kind # "none"
      BY <1>0, <1>1, <1>2, <2>3 DEF ResultInv, Pass!Views
    <3>2. pc' \in {"consume", "render"}
      BY <1>1, <1>2, <2>3
    <3> QED BY <1>3, <2>1, <3>1, <3>2 DEF ResultInv
  <2> QED BY <1>2, <2>2, <2>3
<1>6. WindowInv' /\ DecisionInv' /\ CanvasInv'
  BY <1>0, <1>1, ShownStays
<1>7. TakenInv'
  <2>1. ASSUME ~Consume PROVE taken' = {} /\ pc' \notin {"consume", "take"}
    BY <1>0, <1>1, <1>2, <2>1 DEF TakenInv
  <2> QED BY <2>1 DEF TakenInv
<1> QED BY <1>4, <1>5, <1>6, <1>7

LEMMA HandoffKeeps ==
  ASSUME Handoff
  PROVE  LateInv' /\ TakenPairInv'
  BY DEF LateInv, TakenPairInv

LEMMA PreviewInProcess ==
  ASSUME Pass!TwoViewAssumption, DisplayInv, pc = "preview", ~Handoff,
         Pass!Answer(Pass!ResultFor(Pass!Candidate(view))),
         UNCHANGED <<Pass!server, passes, now, passTarget, dropped, taken, Pass!shown>>
  PROVE  LateInv' /\ TakenPairInv'
<1> DEFINE found == Pass!Candidate(view)
           r == Pass!ResultFor(found)
<1>0. /\ DisplayTypeInv /\ QueueInv /\ LateInv /\ TakenPairInv /\ view \in Pass!Views /\ passTarget \in Nat
      /\ Handoff \in BOOLEAN /\ Consume \in BOOLEAN
  BY DisplayParameters DEF DisplayInv, DisplayTypeInv
<1>1. viewQueue' = viewQueue /\ passTarget' = passTarget /\ dropped' = dropped /\ taken' = taken
  BY DEF Pass!server
<1>2. /\ found \in SUBSET Incoming
      /\ found = {} \/ \E f \in Incoming : found = {f} /\ f.view = view
      /\ found = {} <=> viewQueue[view] = <<>>
      /\ found \subseteq Queued(view)
      /\ Consume /\ viewQueue[view] # <<>> => found = {Head(viewQueue[view])}
  BY <1>0, CandidateOfView
<1>3. /\ GoodResult(passTarget, view, r) /\ r.kind \in {"no_frame", "selected", "waiting"}
      /\ r.frames = found /\ (found = {} <=> r.kind = "no_frame")
  BY <1>0, <1>2, FoundIsGood
<1> HIDE DEF found, r
<1>4. Pass!Answer(r)
  BY DEF found, r
<1>5. /\ results'[view] = r /\ \A v \in Pass!Views : v # view => results'[v] = results[v]
      /\ view = "Left" => view' = "Right" /\ pc' = "preview"
      /\ view = "Right" => view' = "Left"
           /\ pc' = IF Consume /\ Pass!AllSelected(results') THEN "consume" ELSE "render"
      /\ view' \in Pass!Views /\ pc' \in {"preview", "consume", "render"}
  BY <1>0, <1>3, <1>4, AnswerMoves
<1>6. /\ r.kind = "no_frame" => viewQueue[view] = <<>>
      /\ Consume /\ r.kind = "waiting" =>
           viewQueue[view] # <<>> /\ ~(Pass!Adjusted(Head(viewQueue[view])) <= passTarget)
      /\ Consume /\ r.kind = "selected" =>
           viewQueue[view] # <<>> /\ r.frames = {Head(viewQueue[view])}
  BY <1>2, <1>3 DEF GoodResult
<1>7. Consume /\ r.kind = "waiting" => Pass!Adjusted(Head(viewQueue[view])) > passTarget
  <2>1. ASSUME Consume, r.kind = "waiting" PROVE Pass!Adjusted(Head(viewQueue[view])) \in Nat
    <3>1. Head(viewQueue[view]) \in Incoming
      BY <1>2, <1>6, <2>1
    <3> QED BY <3>1, AdjustedTime
  <2> QED BY <1>0, <1>6, <2>1
<1>8. LateInv'
  <2>1. ASSUME NEW v \in Pass!Views
        PROVE  /\ \A f \in dropped'[v] : /\ Pass!Adjusted(f) + DisplayMaxLate < passTarget
                                         /\ f \notin results'[v].frames /\ f \notin Queued(v)
               /\ results'[v].kind = "no_frame" => viewQueue[v] = <<>>
               /\ Consume /\ results'[v].kind = "waiting" =>
                    viewQueue[v] # <<>> /\ Pass!Adjusted(Head(viewQueue[v])) > passTarget
    <3>0. /\ \A f \in dropped[v] : /\ Pass!Adjusted(f) + DisplayMaxLate < passTarget
                                   /\ f \notin results[v].frames /\ f \notin Queued(v)
          /\ results[v].kind = "no_frame" => viewQueue[v] = <<>>
          /\ Consume /\ results[v].kind = "waiting" =>
               viewQueue[v] # <<>> /\ Pass!Adjusted(Head(viewQueue[v])) > passTarget
      BY <1>0 DEF LateInv
    <3>1. CASE v = view
      BY <1>1, <1>2, <1>3, <1>5, <1>6, <1>7, <3>0, <3>1
    <3>2. CASE v # view
      BY <1>1, <1>5, <3>0, <3>2
    <3> QED BY <3>1, <3>2
  <2> QED BY <1>1, <2>1 DEF LateInv, Queued
<1>9. TakenPairInv'
  <2>1. taken' = {}
    BY <1>0, <1>1 DEF TakenPairInv
  <2>2. \A v \in Pass!Views : Consume /\ results'[v].kind = "selected" =>
          viewQueue[v] # <<>> /\ results'[v].frames = {Head(viewQueue[v])}
    BY <1>0, <1>5, <1>6 DEF TakenPairInv, FromHead
  <2>3. \A v \in Pass!Views : Consume /\ results'[v].kind = "selected" => FromHead(v)'
    BY <1>1, <2>2 DEF FromHead
  <2>4. CASE pc' = "preview"
    BY <2>1, <2>3, <2>4 DEF TakenPairInv
  <2>5. CASE pc' = "render"
    BY <2>1, <2>5 DEF TakenPairInv
  <2>6. CASE pc' = "consume"
    <3>1. view' = "Left" /\ Consume /\ Pass!AllSelected(results')
      BY <1>0, <1>5, <2>6 DEF Pass!Views
    <3>2. FromHead("Left")' /\ FromHead("Right")'
      BY <2>3, <3>1 DEF Pass!AllSelected, Pass!Views
    <3> QED BY <2>1, <2>6, <3>1, <3>2 DEF TakenPairInv
  <2> QED BY <1>5, <2>4, <2>5, <2>6
<1> QED BY <1>8, <1>9

LEMMA PreviewKeeps ==
  ASSUME Pass!TwoViewAssumption, DisplayInv, Pass!Preview
  PROVE  DisplayInv'
<1>0. /\ DisplayTypeInv /\ QueueInv /\ view \in Pass!Views /\ passTarget \in Nat
      /\ viewQueue \in [Pass!Views -> Seq(Incoming)] /\ taken \subseteq Incoming
      /\ Handoff \in BOOLEAN
  BY DisplayParameters DEF DisplayInv, DisplayTypeInv
<1>1. /\ pc = "preview" /\ UNCHANGED <<Pass!server, passes, now, passTarget, dropped, taken, Pass!shown>>
      /\ UNCHANGED <<viewArrived, passes, now, passTarget, dropped, Pass!shown>>
      /\ viewQueue' = viewQueue /\ taken' = taken /\ viewArrived' = viewArrived
  BY DEF Pass!Preview, Pass!server
<1>2. QueueInv'
  BY <1>0, <1>1 DEF QueueInv, Queued
<1>3. GoodResult(passTarget, view, Pass!ResultFor(Pass!Candidate(view))) /\ Pass!ResultFor(Pass!Candidate(view)).kind # "none"
  BY <1>0, CandidateOfView, FoundIsGood
<1>4. ASSUME Pass!Answer(Pass!ResultFor(Pass!Candidate(view))) PROVE DisplayInv'
  <2>1. /\ DisplayTypeInv' /\ QueueInv' /\ ResultInv' /\ WindowInv' /\ DecisionInv' /\ CanvasInv'
        /\ TakenInv'
    BY <1>0, <1>1, <1>2, <1>3, <1>4, ResultKeeps
  <2>2. LateInv' /\ TakenPairInv'
    BY <1>0, <1>1, <1>4, PreviewInProcess, HandoffKeeps
  <2> QED BY <2>1, <2>2 DEF DisplayInv
<1>5. ASSUME Handoff, NEW e \in Errors, Pass!Answer(Pass!HandoffError(e)) PROVE DisplayInv'
  <2>1. GoodResult(passTarget, view, Pass!HandoffError(e)) /\ Pass!HandoffError(e).kind # "none"
    BY ErrorIsGood
  <2>2. /\ DisplayTypeInv' /\ QueueInv' /\ ResultInv' /\ WindowInv' /\ DecisionInv' /\ CanvasInv'
        /\ TakenInv'
    BY <1>0, <1>1, <1>2, <1>5, <2>1, ResultKeeps
  <2> QED BY <1>5, <2>2, HandoffKeeps DEF DisplayInv
<1> QED BY <1>4, <1>5 DEF Pass!Preview

\* In process, a head that was selected is selected again.
LEMMA SelectedAgain ==
  ASSUME Pass!TwoViewAssumption, DisplayInv, ~Handoff, pc \in {"consume", "take"}
  PROVE  /\ Consume /\ view \in Pass!Views /\ viewQueue[view] # <<>>
         /\ Pass!Candidate(view) = {Head(viewQueue[view])} /\ Pass!Candidate(view) \subseteq Queued(view)
         /\ results[view].frames = Pass!Candidate(view)
         /\ Pass!Candidate(view) \subseteq Incoming
         /\ Pass!ResultFor(Pass!Candidate(view)).kind = "selected"
         /\ Pass!ResultFor(Pass!Candidate(view)).frames = Pass!Candidate(view)
<1>0. /\ DisplayTypeInv /\ QueueInv /\ ResultInv /\ TakenPairInv /\ TakenInv /\ view \in {"Left", "Right"}
      /\ view \in Pass!Views /\ passTarget \in Nat /\ Consume
  BY DisplayParameters DEF DisplayInv, DisplayTypeInv, Pass!Views, TakenInv
<1>1. FromHead(view) /\ results[view].kind = "selected"
  BY <1>0 DEF TakenPairInv, Pass!AllSelected, Pass!Views
<1>2. /\ viewQueue[view] # <<>> /\ Pass!Candidate(view) = {Head(viewQueue[view])}
      /\ Pass!Candidate(view) \in SUBSET Incoming /\ Pass!Candidate(view) \subseteq Queued(view)
      /\ Pass!Candidate(view) = {} \/ \E f \in Incoming : Pass!Candidate(view) = {f} /\ f.view = view
  BY <1>0, <1>1, CandidateOfView DEF FromHead
<1>3. results[view].frames = Pass!Candidate(view)
  BY <1>1, <1>2 DEF FromHead
<1>4. Pass!Adjusted(Head(viewQueue[view])) <= passTarget
  BY <1>0, <1>1, <1>2, <1>3 DEF ResultInv, GoodResult
<1>5. /\ GoodResult(passTarget, view, Pass!ResultFor(Pass!Candidate(view)))
      /\ Pass!ResultFor(Pass!Candidate(view)).kind \in {"no_frame", "selected", "waiting"}
      /\ Pass!ResultFor(Pass!Candidate(view)).frames = Pass!Candidate(view)
      /\ Pass!Candidate(view) = {} <=> Pass!ResultFor(Pass!Candidate(view)).kind = "no_frame"
  BY <1>0, <1>2, FoundIsGood
<1>6. Pass!ResultFor(Pass!Candidate(view)).kind = "selected"
  BY <1>2, <1>4, <1>5 DEF GoodResult
<1> QED BY <1>0, <1>2, <1>3, <1>5, <1>6

LEMMA LookAgainKeeps ==
  ASSUME Pass!TwoViewAssumption, DisplayInv, Pass!LookAgain
  PROVE  DisplayInv'
<1> DEFINE r == Pass!ResultFor(Pass!Candidate(view))
<1>0. /\ DisplayTypeInv /\ QueueInv /\ ResultInv /\ LateInv /\ TakenPairInv /\ TakenInv
      /\ view \in Pass!Views /\ passTarget \in Nat
      /\ viewQueue \in [Pass!Views -> Seq(Incoming)] /\ taken \subseteq Incoming
      /\ Handoff \in BOOLEAN
  BY DisplayParameters DEF DisplayInv, DisplayTypeInv
<1>1. /\ pc = "consume"
      /\ UNCHANGED <<viewArrived, passes, now, passTarget, dropped, Pass!shown>>
      /\ viewQueue' = viewQueue /\ taken' = taken /\ viewArrived' = viewArrived
  BY DEF Pass!LookAgain, Pass!server
<1>2. QueueInv'
  BY <1>0, <1>1 DEF QueueInv, Queued
<1>3. GoodResult(passTarget, view, r) /\ r.kind # "none"
  BY <1>0, CandidateOfView, FoundIsGood
<1>4. \/ r.kind # "selected" /\ Pass!Answer(r)
      \/ r.kind = "selected" /\ pc' = "take" /\ UNCHANGED <<view, results>>
      \/ Handoff /\ \E e \in Errors : Pass!Answer(Pass!HandoffError(e))
  BY DEF Pass!LookAgain
<1>5. ~Handoff => r.kind = "selected"
  BY <1>1, SelectedAgain
<1> HIDE DEF r
<1>6. ASSUME r.kind # "selected", Pass!Answer(r) PROVE DisplayInv'
  <2>1. /\ DisplayTypeInv' /\ QueueInv' /\ ResultInv' /\ WindowInv' /\ DecisionInv' /\ CanvasInv'
        /\ TakenInv'
    BY <1>0, <1>1, <1>2, <1>3, <1>6, ResultKeeps
  <2> QED BY <1>5, <1>6, <2>1, HandoffKeeps DEF DisplayInv
<1>7. ASSUME Handoff, NEW e \in Errors, Pass!Answer(Pass!HandoffError(e)) PROVE DisplayInv'
  <2>1. GoodResult(passTarget, view, Pass!HandoffError(e)) /\ Pass!HandoffError(e).kind # "none"
    BY ErrorIsGood
  <2>2. /\ DisplayTypeInv' /\ QueueInv' /\ ResultInv' /\ WindowInv' /\ DecisionInv' /\ CanvasInv'
        /\ TakenInv'
    BY <1>0, <1>1, <1>2, <1>7, <2>1, ResultKeeps
  <2> QED BY <1>7, <2>2, HandoffKeeps DEF DisplayInv
<1>8. ASSUME pc' = "take", UNCHANGED <<view, results>> PROVE DisplayInv'
  <2>1. DisplayTypeInv'
    BY <1>0, <1>1, <1>8 DEF DisplayTypeInv, Places, Pass!shown
  <2>2. ResultInv'
    BY <1>0, <1>1, <1>8 DEF ResultInv
  <2>3. WindowInv' /\ DecisionInv' /\ CanvasInv'
    BY <1>1, <1>8, ShownStays DEF DisplayInv
  <2>4. LateInv'
    BY <1>0, <1>1, <1>8 DEF LateInv, Queued
  <2>5. TakenPairInv'
    BY <1>0, <1>1, <1>8 DEF TakenPairInv, FromHead
  <2>6. TakenInv'
    BY <1>0, <1>1 DEF TakenInv
  <2> QED BY <1>2, <2>1, <2>2, <2>3, <2>4, <2>5, <2>6 DEF DisplayInv
<1> QED BY <1>4, <1>6, <1>7, <1>8

LEMMA TakeInProcess ==
  ASSUME Pass!TwoViewAssumption, DisplayInv, pc = "take", ~Handoff,
         Pass!Answer(Pass!ResultFor(Pass!Candidate(view))), taken' = taken \cup Pass!Candidate(view),
         viewQueue' = [viewQueue EXCEPT ![view] = IF @ = <<>> THEN @ ELSE Tail(@)],
         UNCHANGED <<viewArrived, passes, now, passTarget, dropped, Pass!shown>>
  PROVE  LateInv' /\ TakenPairInv'
<1> DEFINE found == Pass!Candidate(view)
           r == Pass!ResultFor(found)
<1>0. /\ DisplayTypeInv /\ QueueInv /\ LateInv /\ TakenPairInv /\ view \in {"Left", "Right"} /\ view \in Pass!Views
      /\ passTarget' = passTarget /\ dropped' = dropped /\ passTarget \in Nat
  BY DEF DisplayInv, DisplayTypeInv, Pass!Views
<1>1. /\ Consume /\ found \in SUBSET Incoming /\ found = {Head(viewQueue[view])}
      /\ found \subseteq Queued(view) /\ results[view].frames = found
      /\ r.kind = "selected" /\ r.frames = found
  BY SelectedAgain
<1>2. GoodResult(passTarget, view, r) /\ r.kind # "none"
  BY <1>0, CandidateOfView, FoundIsGood
<1>3. /\ \A w \in Pass!Views : Queued(w)' \subseteq Queued(w)
      /\ \A w \in Pass!Views : w # view => viewQueue'[w] = viewQueue[w]
  BY <1>0, HeadLeaves
<1> HIDE DEF found, r
<1>4. Pass!Answer(r) /\ taken' = taken \cup found
  BY DEF found, r
<1>5. /\ results'[view] = r /\ \A v \in Pass!Views : v # view => results'[v] = results[v]
      /\ view = "Left" => view' = "Right" /\ pc' = "consume"
      /\ view = "Right" => view' = "Left" /\ pc' = "render"
  BY <1>0, <1>2, <1>4, AnswerMoves
<1>6. Pass!AllSelected(results)
  BY <1>0 DEF TakenPairInv
<1>7. \A v \in Pass!Views : results'[v].kind = "selected" /\ results'[v].frames = results[v].frames
  BY <1>1, <1>5, <1>6 DEF Pass!AllSelected
<1>8. LateInv'
  <2>1. \A v \in Pass!Views : \A f \in dropped[v] :
          /\ Pass!Adjusted(f) + DisplayMaxLate < passTarget
          /\ f \notin results[v].frames /\ f \notin Queued(v)
    BY <1>0 DEF LateInv
  <2> QED BY <1>0, <1>3, <1>7, <2>1 DEF LateInv
<1>9. TakenPairInv'
  <2>1. Pass!AllSelected(results')
    BY <1>7 DEF Pass!AllSelected
  <2>2. CASE view = "Left"
    <3>1. taken = {} /\ FromHead("Right")
      BY <1>0, <2>2 DEF TakenPairInv
    <3>2. taken' = results'["Left"].frames
      BY <1>1, <1>4, <1>7, <2>2, <3>1 DEF Pass!Views
    <3>3. FromHead("Right")'
      BY <1>3, <1>7, <2>2, <3>1 DEF FromHead, Pass!Views
    <3> QED BY <1>5, <2>1, <2>2, <3>2, <3>3 DEF TakenPairInv
  <2>3. CASE view = "Right"
    <3>1. taken = results["Left"].frames
      BY <1>0, <2>3 DEF TakenPairInv
    <3>2. taken' = results'["Left"].frames \cup results'["Right"].frames
      BY <1>1, <1>4, <1>7, <2>3, <3>1 DEF Pass!Views
    <3>3. taken' = UNION {results'[v].frames : v \in Pass!Views}
      BY <3>2 DEF Pass!Views
    <3> QED BY <1>5, <2>1, <2>3, <3>3 DEF TakenPairInv
  <2> QED BY <1>0, <2>2, <2>3
<1> QED BY <1>8, <1>9

LEMMA TakeKeeps ==
  ASSUME Pass!TwoViewAssumption, DisplayInv, Pass!Take
  PROVE  DisplayInv'
<1> DEFINE found == Pass!Candidate(view)
           Dequeue == viewQueue' = [viewQueue EXCEPT ![view] = IF @ = <<>> THEN @ ELSE Tail(@)]
<1>0. /\ DisplayTypeInv /\ QueueInv /\ view \in Pass!Views /\ passTarget \in Nat
      /\ viewQueue \in [Pass!Views -> Seq(Incoming)] /\ taken \subseteq Incoming
      /\ Handoff \in BOOLEAN
  BY DisplayParameters DEF DisplayInv, DisplayTypeInv
<1>1. /\ pc = "take" /\ UNCHANGED <<viewArrived, passes, now, passTarget, dropped, Pass!shown>>
      /\ viewArrived' = viewArrived
  BY DEF Pass!Take
<1>2. \/ /\ taken' = taken \cup found /\ Dequeue
         /\ \/ Pass!Answer(Pass!ResultFor(found))
            \/ Handoff /\ \E e \in Errors : Pass!Answer(Pass!HandoffError(e))
      \/ /\ Handoff /\ \E e \in Errors : Pass!Answer(Pass!HandoffError(e))
         /\ viewQueue' = viewQueue /\ taken' = taken
  BY DEF Pass!Take
<1>3. found \in SUBSET Incoming /\ GoodResult(passTarget, view, Pass!ResultFor(found))
      /\ Pass!ResultFor(found).kind # "none"
  BY <1>0, CandidateOfView, FoundIsGood
<1>4. Dequeue => viewQueue' \in [Pass!Views -> Seq(Incoming)] /\ QueueInv'
  BY <1>0, <1>1, HeadLeaves
<1>5. viewQueue' = viewQueue => viewQueue' \in [Pass!Views -> Seq(Incoming)] /\ QueueInv'
  BY <1>0, <1>1 DEF QueueInv, Queued
<1>6. /\ viewQueue' \in [Pass!Views -> Seq(Incoming)] /\ QueueInv' /\ taken' \subseteq Incoming
  BY <1>0, <1>2, <1>3, <1>4, <1>5
<1>7. ASSUME Handoff, NEW e \in Errors, Pass!Answer(Pass!HandoffError(e)) PROVE DisplayInv'
  <2>1. GoodResult(passTarget, view, Pass!HandoffError(e)) /\ Pass!HandoffError(e).kind # "none"
    BY ErrorIsGood
  <2>2. /\ DisplayTypeInv' /\ QueueInv' /\ ResultInv' /\ WindowInv' /\ DecisionInv' /\ CanvasInv'
        /\ TakenInv'
    BY <1>0, <1>1, <1>6, <1>7, <2>1, ResultKeeps
  <2> QED BY <1>7, <2>2, HandoffKeeps DEF DisplayInv
<1>8. ASSUME Pass!Answer(Pass!ResultFor(found)), taken' = taken \cup found, Dequeue PROVE DisplayInv'
  <2>1. /\ DisplayTypeInv' /\ QueueInv' /\ ResultInv' /\ WindowInv' /\ DecisionInv' /\ CanvasInv'
        /\ TakenInv'
    BY <1>0, <1>1, <1>3, <1>6, <1>8, ResultKeeps
  <2>2. LateInv' /\ TakenPairInv'
    BY <1>0, <1>1, <1>8, TakeInProcess, HandoffKeeps
  <2> QED BY <2>1, <2>2 DEF DisplayInv
<1> HIDE DEF found, Dequeue
<1> QED BY <1>2, <1>7, <1>8

-----------------------------------------------------------------------------
(* The theorem. *)

LEMMA PassKeeps ==
  ASSUME Pass!TwoViewAssumption, DisplayInv, [Pass!Next]_(Pass!vars)
  PROVE  DisplayInv'
<1>1. CASE (\E f \in Incoming : Pass!Store(f)) \/ (\E v \in Pass!Views : Pass!Evict(v))
  BY <1>1, ServerKeeps
<1>2. CASE \E t \in 0 .. MaxNow, n \in 0 .. MaxNow : Pass!Begin(t, n)
  BY <1>2, BeginKeeps
<1>3. CASE Pass!DropLate
  BY <1>3, DropLateKeeps
<1>4. CASE Pass!Preview
  BY <1>4, PreviewKeeps
<1>5. CASE Pass!LookAgain
  BY <1>5, LookAgainKeeps
<1>6. CASE Pass!Take
  BY <1>6, TakeKeeps
<1>7. CASE Pass!DecodeRender
  BY <1>7, DecodeRenderKeeps
<1>8. CASE Pass!Display
  BY <1>8, DisplayKeeps
<1>9. CASE Pass!Report
  BY <1>9, ReportKeeps
<1>10. CASE UNCHANGED Pass!vars
  <2>1. UNCHANGED <<viewQueue, viewArrived, passes, now, passTarget, pc, view, results, dropped, taken,
                    outcome, decision, canvas, screen, displayed, window>>
    BY <1>10 DEF Pass!vars, Pass!server, Pass!schedule, Pass!shown
  <2>2. DisplayTypeInv' /\ QueueInv' /\ ResultInv' /\ TakenInv'
    BY <2>1 DEF DisplayInv, DisplayTypeInv, QueueInv, Queued, ResultInv, TakenInv
  <2>3. WindowInv' /\ CanvasInv'
    BY <2>1 DEF DisplayInv, WindowInv, CanvasInv, Pass!Outcomes, Pass!Instruction
  <2>4. DecisionInv'
    BY <2>1 DEF DisplayInv, DecisionInv, GoodDecision
  <2>5. LateInv'
    BY <2>1 DEF DisplayInv, LateInv, Queued
  <2>6. TakenPairInv'
    BY <2>1 DEF DisplayInv, TakenPairInv, FromHead
  <2> QED BY <2>2, <2>3, <2>4, <2>5, <2>6 DEF DisplayInv
<1> QED BY <1>1, <1>2, <1>3, <1>4, <1>5, <1>6, <1>7, <1>8, <1>9, <1>10 DEF Pass!Next

\* An error of a side is the run state of the whole, or a more serious one.
LEMMA SeriousIsReported ==
  ASSUME \A v \in Pass!Views : GoodResult(passTarget, v, results[v]), Pass!TwoViewAssumption
  PROVE  \A v \in Pass!Views : results[v].kind = "handoff_error" =>
           /\ Pass!Summary.run_state # "Continue"
           /\ Pass!rank(Pass!Summary.run_state) >= Pass!rank(Pass!side_run_state(v))
<1>1. \A e \in Errors : Pass!run_state_for_error(e) \in
                           {"RetryLater", "ReconnectRequired", "InvestigationRequired"}
  BY DEF Pass!run_state_for_error, Pass!TwoViewAssumption
<1>2. \A v \in Pass!Views :
        /\ Pass!side_run_state(v) \in {"Continue", "RetryLater", "ReconnectRequired",
                                       "InvestigationRequired"}
        /\ results[v].kind = "handoff_error" => Pass!side_run_state(v) # "Continue"
  BY <1>1 DEF Pass!side_run_state, GoodResult
<1>3. /\ Pass!rank("Continue") = 0 /\ Pass!rank("RetryLater") = 1
      /\ Pass!rank("ReconnectRequired") = 2 /\ Pass!rank("InvestigationRequired") = 3
  BY DEF Pass!rank
<1>4. Pass!Summary.run_state = Pass!aggregate_run_state
  BY DEF Pass!Summary
<1> DEFINE l == Pass!side_run_state("Left")
           t == Pass!side_run_state("Right")
<1>5. Pass!aggregate_run_state = IF Pass!rank(l) >= Pass!rank(t) THEN l ELSE t
  BY DEF Pass!aggregate_run_state
<1>6. \A v \in Pass!Views : v = "Left" \/ v = "Right"
  BY DEF Pass!Views
<1>7. "Left" \in Pass!Views /\ "Right" \in Pass!Views
  BY DEF Pass!Views
<1> HIDE DEF l, t
<1>8. /\ l \in {"Continue", "RetryLater", "ReconnectRequired", "InvestigationRequired"}
      /\ t \in {"Continue", "RetryLater", "ReconnectRequired", "InvestigationRequired"}
  BY <1>2, <1>7 DEF l, t
<1>9. /\ Pass!rank(Pass!aggregate_run_state) >= Pass!rank(l) /\ Pass!rank(Pass!aggregate_run_state) >= Pass!rank(t)
      /\ l # "Continue" \/ t # "Continue" => Pass!aggregate_run_state # "Continue"
  BY <1>3, <1>5, <1>8
<1> QED BY <1>2, <1>4, <1>6, <1>9 DEF l, t

\* A view is on the canvas when its decision shows one, unless the canvas is too
\* large, and only then.
LEMMA ShownOnCanvas ==
  ASSUME NEW v \in Pass!Views, NEW ds, NEW c, c = Pass!Compose(ds)
  PROVE  /\ \A s \in c.sides[v] : Pass!Shows(ds[v]) /\ s.shown = Pass!The(ds[v].frames)
         /\ Pass!Shows(ds[v]) => c.kind = "invalid" \/ \E s \in c.sides[v] : s.shown = Pass!The(ds[v].frames)
<1> DEFINE frames == {Pass!The(ds[w].frames).frame : w \in {u \in Pass!Views : Pass!Shows(ds[u])}}
           slot == Pass!SlotSize(frames)
<1>1. c = IF frames = {} THEN [Pass!NoCanvas EXCEPT !.kind = "empty"]
          ELSE IF Pass!TooLarge(slot) THEN [Pass!NoCanvas EXCEPT !.kind = "invalid"]
          ELSE [kind |-> "composed", width |-> 2 * slot.width,
                height |-> slot.height, sides |-> Pass!Placed(ds, slot)]
  BY DEF Pass!Compose
<1>2. Pass!Shows(ds[v]) => frames # {}
  OBVIOUS
<1> HIDE DEF frames, slot
<1>3. CASE frames = {}
  <2>1. c.sides = Pass!Each({})
    BY <1>1, <1>3 DEF Pass!NoCanvas
  <2>2. c.sides[v] = {} /\ ~Pass!Shows(ds[v])
    BY <1>2, <1>3, <2>1 DEF Pass!Each
  <2> QED BY <2>2
<1>4. CASE frames # {} /\ Pass!TooLarge(slot)
  <2>1. c.sides = Pass!Each({}) /\ c.kind = "invalid"
    BY <1>1, <1>4 DEF Pass!NoCanvas
  <2>2. c.sides[v] = {}
    BY <2>1 DEF Pass!Each
  <2> QED BY <2>1, <2>2
<1>5. CASE frames # {} /\ ~Pass!TooLarge(slot)
  <2>1. c.sides = Pass!Placed(ds, slot)
    BY <1>1, <1>5
  <2>2. c.sides[v] = IF Pass!Shows(ds[v])
                     THEN {[shown |-> Pass!The(ds[v].frames),
                            x |-> IF v = "Left" THEN 0 ELSE slot.width]}
                     ELSE {}
    BY <2>1 DEF Pass!Placed
  <2> DEFINE s == [shown |-> Pass!The(ds[v].frames), x |-> IF v = "Left" THEN 0 ELSE slot.width]
  <2>3. s.shown = Pass!The(ds[v].frames)
    OBVIOUS
  <2>4. c.sides[v] = IF Pass!Shows(ds[v]) THEN {s} ELSE {}
    BY <2>2
  <2> HIDE DEF s
  <2>5. CASE Pass!Shows(ds[v])
    BY <2>3, <2>4, <2>5
  <2>6. CASE ~Pass!Shows(ds[v])
    BY <2>4, <2>6
  <2> QED BY <2>5, <2>6
<1> QED BY <1>3, <1>4, <1>5

LEMMA ReportIsSound ==
  ASSUME Pass!TwoViewAssumption, DisplayInv
  PROVE  Pass!TwoViewInvariant
<1>0. DisplayTypeInv /\ ResultInv /\ WindowInv /\ DecisionInv /\ CanvasInv /\ LateInv /\ TakenPairInv /\ TakenInv
  BY DEF DisplayInv
<1>1. ASSUME pc = "report"
      PROVE  /\ window = displayed /\ canvas = Pass!Compose(decision)
             /\ \A v \in Pass!Views : /\ GoodDecision(v, decision[v]) /\ outcome[v] \in Pass!Outcomes(v)
                                      /\ GoodResult(passTarget, v, results[v]) /\ results[v].kind # "none"
  BY <1>0, <1>1 DEF WindowInv, DecisionInv, ResultInv
<1>2. Pass!EachSideItsLastPicture
  <2>1. ASSUME pc = "report", NEW v \in Pass!Views, NEW s \in canvas.sides[v]
        PROVE  s.shown \in window[v] /\ s.shown.frame.view = v /\ now - s.shown.at <= MaxHold
    <3>1. Pass!Shows(decision[v]) /\ s.shown = Pass!The(decision[v].frames)
      BY <1>1, <2>1, ShownOnCanvas
    <3>2. PICK x \in Shown : /\ decision[v].frames = {x} /\ window[v] = {x}
                             /\ x.frame.view = v /\ now - x.at <= MaxHold
      BY <1>1, <2>1, <3>1 DEF GoodDecision, Pass!Shows
    <3> QED BY <3>1, <3>2, TheOnly
  <2> QED BY <2>1 DEF Pass!EachSideItsLastPicture, Pass!Reported
<1>3. Pass!OneSideCarriesTheCanvas
  <2>1. ASSUME pc = "report", NEW v \in Pass!Views, outcome[v] = "rendered"
        PROVE  /\ \/ canvas.kind = "invalid"
                  \/ \E s \in canvas.sides[v] :
                       s.shown.at = now /\ s.shown.frame \in results[v].frames
               /\ \A f \in results[v].frames : f.stamp + Offsets[v] <= passTarget
    <3>1. /\ GoodDecision(v, decision[v]) /\ GoodResult(passTarget, v, results[v])
          /\ results[v].kind = "selected"
      BY <1>1, <2>1, OutcomeTells
    <3>2. decision[v] = [kind |-> "update", frames |-> {Drawing(now, results[v])}]
      BY <2>1, <3>1 DEF GoodDecision
    <3>3. /\ Drawing(now, results[v]).at = now
          /\ results[v].frames = {Drawing(now, results[v]).frame}
      BY <1>0, <3>1, DrawingOfView
    <3>4. Pass!Shows(decision[v]) /\ Pass!The(decision[v].frames) = Drawing(now, results[v])
      BY <3>2, TheOnly DEF Pass!Shows
    <3>5. canvas.kind = "invalid" \/ \E s \in canvas.sides[v] : s.shown = Drawing(now, results[v])
      BY <1>1, <2>1, <3>4, ShownOnCanvas
    <3>6. \A f \in results[v].frames : f.stamp + Offsets[v] <= passTarget
      <4>1. PICK f \in Incoming : results[v].frames = {f} /\ f.view = v /\ Pass!Adjusted(f) <= passTarget
        BY <3>1 DEF GoodResult
      <4>2. /\ Pass!Adjusted(f) \in Nat /\ f.stamp + Offsets[v] <= Pass!Adjusted(f) /\ passTarget \in Nat
            /\ f.stamp \in Nat /\ Offsets[v] \in Int
        BY <1>0, <4>1, AdjustedTime, DisplayParameters DEF DisplayTypeInv
      <4> QED BY <4>1, <4>2
    <3> QED BY <3>3, <3>5, <3>6
  <2> QED BY <2>1 DEF Pass!OneSideCarriesTheCanvas, Pass!Reported
<1>4. Pass!SidesDoNotOverlap
  BY <1>0 DEF CanvasInv, Fits, Pass!SidesDoNotOverlap
<1>5. Pass!ErrorsSurface
  <2>1. ASSUME pc = "report", NEW v \in Pass!Views, results[v].kind = "handoff_error"
        PROVE  /\ Pass!Summary.status = "HandoffError" /\ Pass!Summary.run_state # "Continue"
               /\ Pass!rank(Pass!Summary.run_state) >= Pass!rank(Pass!side_run_state(v))
               /\ decision[v].kind \in {"hold", "stale", "source_error"}
    <3>1. Pass!Summary.status = "HandoffError"
      BY <2>1 DEF Pass!Summary, Pass!Status
    <3>2. outcome[v] = "source_error"
      BY <1>1, <2>1 DEF Pass!Outcomes, Pass!Instruction
    <3>3. decision[v].kind \in {"hold", "stale", "source_error"}
      BY <1>1, <2>1, <3>2 DEF GoodDecision
    <3>4. /\ Pass!Summary.run_state # "Continue"
          /\ Pass!rank(Pass!Summary.run_state) >= Pass!rank(Pass!side_run_state(v))
      BY <1>1, <2>1, SeriousIsReported
    <3> QED BY <3>1, <3>3, <3>4
  <2> QED BY <2>1 DEF Pass!ErrorsSurface, Pass!Reported
<1>6. Pass!LateReasonsAreSo
  <2>1. ASSUME pc = "report", ~Handoff, NEW v \in Pass!Views
        PROVE  /\ Pass!Summary.sides[v] \in {"NoFrameRemainingAfterLateDrop",
                                             "NoQueuedFrameForClientRun"} => viewQueue[v] = <<>>
               /\ Consume /\ Pass!Summary.sides[v] \in {"HeadFrameAfterTargetFollowingLateDrop",
                                                        "HeadFrameAfterTarget"}
                  => Pass!Adjusted(Head(viewQueue[v])) > passTarget
               /\ \A f \in dropped[v] : f \notin results[v].frames /\ Pass!Adjusted(f) + DisplayMaxLate < passTarget
    <3>1. results[v].kind \in {"no_frame", "selected", "waiting", "handoff_error"}
      BY <1>1, <2>1 DEF GoodResult, Results, ResultKinds
    <3>2. Pass!Summary.sides[v] = Pass!SideReason(v)
      BY DEF Pass!Summary
    <3>3. results[v].kind = "handoff_error" => results[v].error \in Errors
      BY <1>1, <2>1 DEF GoodResult
    <3>4. results[v].kind = "handoff_error" => Pass!run_state_for_error(results[v].error) \in
            {"RetryLater", "ReconnectRequired", "InvestigationRequired"}
      BY <3>3 DEF Pass!run_state_for_error, Pass!TwoViewAssumption
    <3>5. /\ Pass!no_frame_reason(v) \in {"NoFrameRemainingAfterLateDrop", "NoQueuedFrameForClientRun"}
          /\ Pass!waiting_reason(v) \in {"HeadFrameAfterTargetFollowingLateDrop", "HeadFrameAfterTarget"}
      BY DEF Pass!no_frame_reason, Pass!waiting_reason
    <3>6. /\ Pass!SideReason(v) \in {"NoFrameRemainingAfterLateDrop", "NoQueuedFrameForClientRun"} =>
               results[v].kind = "no_frame"
          /\ Pass!SideReason(v) \in {"HeadFrameAfterTargetFollowingLateDrop", "HeadFrameAfterTarget"} =>
               results[v].kind = "waiting"
      BY <3>1, <3>4, <3>5 DEF Pass!SideReason
    <3>7. /\ \A f \in dropped[v] : /\ Pass!Adjusted(f) + DisplayMaxLate < passTarget
                                   /\ f \notin results[v].frames
          /\ results[v].kind = "no_frame" => viewQueue[v] = <<>>
          /\ Consume /\ results[v].kind = "waiting" => Pass!Adjusted(Head(viewQueue[v])) > passTarget
      BY <1>0, <2>1 DEF LateInv
    <3> QED BY <3>2, <3>6, <3>7
  <2> QED BY <2>1 DEF Pass!LateReasonsAreSo, Pass!Reported
<1>7. Pass!TakenForThePair
  <2>1. ~Consume => taken = {}
    BY <1>0 DEF TakenInv
  <2>2. ASSUME pc = "report", ~Handoff, taken # {}
        PROVE  Pass!AllSelected(results) /\ taken = UNION {results[v].frames : v \in Pass!Views}
    BY <1>0, <2>2 DEF TakenPairInv
  <2> QED BY <2>1, <2>2 DEF Pass!TakenForThePair, Pass!Reported
<1> QED BY <1>2, <1>3, <1>4, <1>5, <1>6, <1>7 DEF Pass!TwoViewInvariant

\* For every set of frames, every clock offset, every way the queues move between
\* requests, and every request, decoder or window that fails: what a pass shows
\* and reports is so (run_two_view_display_pass).
THEOREM TwoViewsAreSound ==
  ASSUME Pass!TwoViewAssumption
  PROVE  Pass!Spec => []Pass!TwoViewInvariant
<1>1. Pass!Init => DisplayInv
  BY DisplayStarts
<1>2. DisplayInv /\ [Pass!Next]_(Pass!vars) => DisplayInv'
  BY PassKeeps
<1>3. DisplayInv => Pass!TwoViewInvariant
  BY ReportIsSound
<1> QED BY <1>1, <1>2, <1>3, PTL DEF Pass!Spec

-----------------------------------------------------------------------------
(***************************************************************************)
(* Selection by target time over the server's queue, for every sequence of *)
(* stored frames, capacity, clock offset, target and late limit.  Over the *)
(* handoff frames are stored and evicted, and requests and replies lost,   *)
(* between any two reads: the first invariant says what is true all the    *)
(* same.  In process the queue stands still during a selection: the second *)
(* says what the head that was looked at is when it is taken.              *)
(***************************************************************************)
CONSTANTS
  Clients, Runs, Endpoints, FrameIds, CaptureStamps, MaxFrames, Views, ClockOffsets,
  Targets, MaxLate, OverHandoff, Sent

VARIABLES
  queues, retained, stored, job, answers, took, shed

Source == INSTANCE TargetTimeSource WITH
  Sources <- Endpoints, Stamps <- CaptureStamps, Offsets <- ClockOffsets,
  Handoff <- OverHandoff, Incoming <- Sent, queue <- queues, arrived <- stored,
  results <- answers, taken <- took, dropped <- shed

\* No two client/run scopes have the same key.
ScopeKeysDiffer ==
  \A c1, c2 \in Clients, r1, r2 \in Runs :
    Source!client_run_scope_key(c1, r1) = Source!client_run_scope_key(c2, r2) => c1 = c2 /\ r1 = r2

\* The views read different clients.
OneViewPerClient ==
  \A v, w \in DOMAIN Views : Views[v].client = Views[w].client => v = w

SourceKinds == {"None", "NoFrame", "Waiting", "Selected", "HandoffError"}
SourceResults == [kind : SourceKinds, frames : SUBSET Sent, consumed : BOOLEAN]
SourceJobs == [op : Source!Ops \cup {"None"}, target : Targets \cup {0}, view : DOMAIN Views,
               step : {"None", "Preview", "Look", "Take"}, managed : BOOLEAN]

SourceTypeInv ==
  /\ Source!QueueTypeOK /\ stored \subseteq Sent
  /\ job \in SourceJobs /\ answers \in [DOMAIN Views -> SourceResults]
  /\ took \in Seq(Sent) /\ shed \in Seq(Sent)

\* A stored frame stands once in the queue of its client, and a kept keyframe is
\* one of its own scope.
QueuedInv ==
  /\ \A c \in Clients : \A i \in DOMAIN queues[c] :
       queues[c][i] \in stored /\ queues[c][i].client = c
  /\ \A c \in Clients : \A i, j \in DOMAIN queues[c] : queues[c][i] = queues[c][j] => i = j
  /\ \A k \in DOMAIN retained :
       /\ retained[k] \in stored /\ retained[k].key
       /\ Source!client_run_scope_key(retained[k].client, retained[k].run) = k

\* The steps an operation goes through.
SourceJobInv ==
  /\ job.step = "Preview" => job.op = "ConsumePair"
  /\ job.step = "Take" => job.op \in {"ConsumeOldest", "ConsumePair"}
  /\ job.op = "None" => job.step = "None"
  /\ job.managed => ~OverHandoff /\ ~Source!IsPair(job.op)
  /\ job.op = "MutateLate" => job.managed /\ job.step \in {"None", "Look"}

\* A frame that a read of view v may report.
Reportable(v, f) ==
  /\ f \in stored /\ f.client = Views[v].client /\ f.run = Views[v].run
  /\ f \in Source!Range(shed) => job.op = "PreviewLatestDecodable" /\ f.key

SourceResultInv ==
  /\ \A v \in DOMAIN Views : \A f \in answers[v].frames :
       Reportable(v, f) /\ (answers[v].kind = "Selected" <=> Source!Adjusted(f) <= job.target)
  /\ job.op = "MutateLate" => \A v \in DOMAIN Views : answers[v] = Source!NoResult

\* A frame that was taken for view v, and what became of it.
TakenFor(v, f) ==
  /\ f \in stored /\ f.client = Views[v].client
  /\ answers[v] = Source!Selected(f, TRUE) \/ answers[v].kind \in {"Waiting", "HandoffError"}
  /\ ~Source!Idle => v < job.view

SourceTakenInv ==
  /\ job.op \notin {"ConsumeOldest", "ConsumePair"} => took = <<>>
  /\ ~Source!Idle /\ (job.op = "ConsumeOldest" \/ job.step = "Preview") => took = <<>>
  /\ \A i \in DOMAIN took : \E v \in DOMAIN Views : TakenFor(v, took[i])
  /\ \A i, k \in DOMAIN took : took[i].client = took[k].client => i = k

Oldest(v) == Source!read(Views[v].client, Views[v].run, "InspectOldest")

DroppedInv ==
  /\ \A i \in DOMAIN shed : shed[i] \in stored /\ Source!Adjusted(shed[i]) + MaxLate < job.target
  /\ \A c \in Clients : \A j \in DOMAIN queues[c] : queues[c][j] \notin Source!Range(shed)
  /\ job.managed /\ job.step = "Look" /\ job.op # "MutateLate" =>
       \A f \in Oldest(job.view) : Source!Adjusted(f) + MaxLate >= job.target

SourceInv == SourceTypeInv /\ QueuedInv /\ SourceJobInv /\ SourceResultInv /\ SourceTakenInv /\ DroppedInv

\* In process the queue stands still from the look to the take.
HeadEligible(v) == Oldest(v) # {} /\ \A f \in Oldest(v) : Source!Adjusted(f) <= job.target

\* What a pair's preview has found, what its consuming pass has still to take, and
\* what it has taken.
SourcePairInv ==
  job.op = "ConsumePair" =>
    /\ job.step = "Preview" => \A v \in DOMAIN Views :
         v < job.view /\ answers[v].kind = "Selected" => HeadEligible(v)
    /\ job.step \in {"Look", "Take"} => \A v \in DOMAIN Views :
         /\ v >= job.view => HeadEligible(v)
         /\ v < job.view => \E i \in DOMAIN took : took[i].client = Views[v].client
    /\ job.step = "None" /\ took # <<>> => \A v \in DOMAIN Views :
         \E i \in DOMAIN took : took[i].client = Views[v].client

StandingInv ==
  /\ job.step = "Take" => HeadEligible(job.view)
  /\ \A i \in DOMAIN took :
       /\ Source!Adjusted(took[i]) <= job.target
       /\ \E v \in DOMAIN Views :
            answers[v] = Source!Selected(took[i], TRUE) /\ (~Source!Idle => v < job.view)
  /\ SourcePairInv
-----------------------------------------------------------------------------
\* What a view names.
LEMMA ViewTypes ==
  ASSUME Source!TargetTimeAssumption
  PROVE  /\ Len(Views) \in Nat \ {0} /\ DOMAIN Views = 1 .. Len(Views)
         /\ \A v \in DOMAIN Views : Views[v].client \in Clients /\ Views[v].run \in Runs
<1> DEFINE Scopes == [client : Clients, run : Runs]
<1>1. Views \in Seq(Scopes) /\ Views # <<>>
  BY DEF Source!TargetTimeAssumption
<1> HIDE DEF Scopes
<1>2. Len(Views) \in Nat \ {0} /\ DOMAIN Views = 1 .. Len(Views)
  BY <1>1
<1>3. ASSUME NEW v \in DOMAIN Views PROVE Views[v] \in Scopes
  BY <1>1
<1> QED
  BY <1>2, <1>3 DEF Scopes

\* Clocks and identities of a stored frame.
LEMMA FrameTypes ==
  ASSUME Source!TargetTimeAssumption, NEW f \in Sent
  PROVE  /\ f \in Source!Frame /\ f.client \in Clients /\ f.run \in Runs
         /\ f.stamp \in Nat /\ ClockOffsets[f.client] \in Int /\ Source!Adjusted(f) \in Nat
<1>1. f \in Source!Frame
  BY DEF Source!TargetTimeAssumption
<1>2. f.client \in Clients /\ f.run \in Runs /\ f.stamp \in CaptureStamps
  BY <1>1 DEF Source!Frame
<1>3. f.stamp \in Nat /\ ClockOffsets[f.client] \in Int
  BY <1>2 DEF Source!TargetTimeAssumption
<1> QED
  BY <1>1, <1>2, <1>3 DEF Source!Adjusted, Source!apply_offset

\* Targets and bounds are times.
LEMMA TargetIsATime ==
  ASSUME Source!TargetTimeAssumption, job \in SourceJobs
  PROVE  job.target \in Nat /\ MaxLate \in Nat
<1>1. Targets \subseteq Nat /\ MaxLate \in Nat
  BY DEF Source!TargetTimeAssumption
<1>2. job.target \in Targets \/ job.target = 0
  BY DEF SourceJobs
<1>3. \A t \in Targets : t \in Nat
  BY <1>1
<1>4. job.target \in Nat
  BY <1>2, <1>3
<1> QED
  BY <1>1, <1>4

\* Removing an element from the middle of a queue.
LEMMA QueueRemoveAt ==
  ASSUME NEW S, NEW s \in Seq(S), NEW i \in 1 .. Len(s)
  PROVE  /\ Source!RemoveAt(s, i) \in Seq(S) /\ Len(Source!RemoveAt(s, i)) = Len(s) - 1
         /\ \A j \in 1 .. Len(s) - 1 :
              Source!RemoveAt(s, i)[j] = IF j < i THEN s[j] ELSE s[j + 1]
<1> DEFINE a == SubSeq(s, 1, i - 1)
           b == SubSeq(s, i + 1, Len(s))
<1>1. a \in Seq(S) /\ Len(a) = i - 1 /\ \A j \in 1 .. i - 1 : a[j] = s[j]
  OBVIOUS
<1>2. b \in Seq(S) /\ Len(b) = Len(s) - i /\ \A j \in 1 .. Len(s) - i : b[j] = s[i + j]
  OBVIOUS
<1>3. Source!RemoveAt(s, i) = a \o b
  BY DEF Source!RemoveAt
<1> HIDE DEF a, b
<1>4. a \in Seq(S) /\ b \in Seq(S)
  BY <1>1, <1>2
<1>5. a \o b \in Seq(S) /\ Len(a \o b) = Len(a) + Len(b)
  BY ONLY <1>4
<1>6. ASSUME NEW j \in 1 .. Len(s) - 1
      PROVE  (a \o b)[j] = IF j < i THEN s[j] ELSE s[j + 1]
  <2>1. CASE j < i
    BY <1>1, <1>4, <2>1
  <2>2. CASE ~(j < i)
    <3>1. (a \o b)[j] = b[j - Len(a)]
      BY <1>1, <1>2, <2>2
    <3>2. j - Len(a) \in 1 .. Len(s) - i /\ i + (j - Len(a)) = j + 1
      BY <1>1, <2>2
    <3> QED
      BY <1>2, <3>1, <3>2, <2>2
  <2> QED
    BY <2>1, <2>2
<1> QED
  BY <1>1, <1>2, <1>3, <1>5, <1>6

\* The instance counts a set as this module does.
LEMMA SourceCounts ==
  ASSUME NEW S
  PROVE  Source!Cardinality(S) = Cardinality(S)
BY DEF Source!Cardinality, Cardinality

\* The sequence of a set of one element, and of none.
LEMMA SetToSeqOfOne ==
  ASSUME NEW f
  PROVE  Source!SetToSeq({f}) = <<f>> /\ Source!SetToSeq({}) = <<>>
<1>1. Source!Cardinality({f}) = 1 /\ Source!Cardinality({}) = 0
  BY SourceCounts, FS_Singleton, FS_EmptySet
<1>2. Source!SetToSeq({f}) = <<f>>
  <2>1. Source!SetToSeq({f}) = CHOOSE g \in [1 .. 1 -> {f}] : Source!IsInjective(g)
    BY <1>1 DEF Source!SetToSeq
  <2>2. <<f>> \in [1 .. 1 -> {f}] /\ Source!IsInjective(<<f>>)
    BY DEF Source!IsInjective
  <2>3. \A g \in [1 .. 1 -> {f}] : g = <<f>>
    OBVIOUS
  <2> QED
    BY <2>1, <2>2, <2>3
<1>3. Source!SetToSeq({}) = <<>>
  <2>1. Source!SetToSeq({}) = CHOOSE g \in [1 .. 0 -> {}] : Source!IsInjective(g)
    BY <1>1 DEF Source!SetToSeq
  <2>2. <<>> \in [1 .. 0 -> {}] /\ Source!IsInjective(<<>>)
    BY DEF Source!IsInjective
  <2>3. \A g \in [1 .. 0 -> {}] : g = <<>>
    OBVIOUS
  <2> QED
    BY <2>1, <2>2, <2>3
<1> QED
  BY <1>2, <1>3

-----------------------------------------------------------------------------
\* What a read of a view finds: at most one frame, of that client and run, and one
\* that is queued unless it is the kept keyframe.
LEMMA ReadFinds ==
  ASSUME Source!TargetTimeAssumption, ScopeKeysDiffer, Source!QueueTypeOK, stored \subseteq Sent,
         QueuedInv, NEW v \in DOMAIN Views, NEW mode \in Source!ReadMode,
         NEW f \in Source!read(Views[v].client, Views[v].run, mode)
  PROVE  /\ f \in stored /\ f.client = Views[v].client /\ f.run = Views[v].run
         /\ \/ mode = "InspectLatestDecodable" /\ f.key
            \/ \E j \in DOMAIN queues[Views[v].client] : f = queues[Views[v].client][j]
         /\ \A g \in Source!read(Views[v].client, Views[v].run, mode) : g = f
<1> DEFINE c == Views[v].client
           r == Views[v].run
<1>1. c \in Clients /\ r \in Runs
  BY ViewTypes
<1> HIDE DEF c, r
<1>2. f \in Source!read(c, r, mode)
  BY DEF c, r
<1>3. queues[c] \in Seq(Source!Frame) /\ DOMAIN queues[c] = 1 .. Len(queues[c]) /\ Len(queues[c]) \in Nat
  BY <1>1 DEF Source!QueueTypeOK
<1> DEFINE all == Source!frames_for_client_run(c, r)
           keys == Source!QueuedKeyframes(c, r)
           kept == mode = "InspectLatestDecodable" /\ keys = {}
<1>4. all \subseteq DOMAIN queues[c] /\ (\A i \in all : queues[c][i].run = r) /\ keys \subseteq all
  BY <1>3 DEF Source!frames_for_client_run, Source!QueuedKeyframes
<1>5. \A S \in SUBSET DOMAIN queues[c] : \A i, j \in Source!FirstOf(S) : i = j /\ i \in S
  BY <1>3 DEF Source!FirstOf
<1>6. \A S \in SUBSET DOMAIN queues[c] : \A i, j \in Source!LastOf(S) : i = j /\ i \in S
  BY <1>3 DEF Source!LastOf
<1>7. ASSUME ~kept
      PROVE  \E i \in all : f = queues[c][i] /\ \A g \in Source!read(c, r, mode) : g = queues[c][i]
  <2>1. ASSUME NEW S \in SUBSET all,
               Source!read(c, r, mode) = {queues[c][i] : i \in Source!FirstOf(S)}
                 \/ Source!read(c, r, mode) = {queues[c][i] : i \in Source!LastOf(S)}
        PROVE  \E i \in all : f = queues[c][i] /\ \A g \in Source!read(c, r, mode) : g = queues[c][i]
    <3>1. S \in SUBSET DOMAIN queues[c]
      BY <1>4
    <3> HIDE DEF all, keys, kept
    <3> QED
      BY <1>2, <1>5, <1>6, <2>1, <3>1
  <2>2. CASE mode \in {"InspectOldest", "DequeueOldest"}
    BY <2>1, <2>2 DEF Source!read
  <2>3. CASE mode = "InspectLatest"
    BY <2>1, <2>3 DEF Source!read
  <2>4. CASE mode = "InspectLatestDecodable"
    <3>1. Source!read(c, r, mode) = {queues[c][i] : i \in Source!LastOf(keys)}
      BY <1>7, <2>4 DEF Source!read
    <3>2. keys \in SUBSET all
      BY <1>4
    <3> QED
      BY <2>1, <3>1, <3>2
  <2> QED
    BY <2>2, <2>3, <2>4 DEF Source!ReadMode
<1>8. ASSUME kept
      PROVE  /\ f \in stored /\ f.key /\ f.client = c /\ f.run = r
             /\ \A g \in Source!read(c, r, mode) : g = f
  <2> DEFINE k == Source!client_run_scope_key(c, r)
  <2>1. Source!read(c, r, mode) = {retained[x] : x \in DOMAIN retained \cap {k}}
    BY <1>8 DEF Source!read, Source!RetainedKeyframe
  <2>2. k \in DOMAIN retained /\ f = retained[k] /\ \A g \in Source!read(c, r, mode) : g = f
    BY <1>2, <2>1
  <2>3. f \in stored /\ f.key /\ Source!client_run_scope_key(f.client, f.run) = k
    BY <2>2 DEF QueuedInv
  <2>4. f.client \in Clients /\ f.run \in Runs
    BY <2>3, FrameTypes
  <2> QED
    BY <1>1, <2>2, <2>3, <2>4 DEF ScopeKeysDiffer
<1>9. CASE ~kept
  <2>1. PICK i \in all : f = queues[c][i] /\ \A g \in Source!read(c, r, mode) : g = queues[c][i]
    BY <1>7, <1>9
  <2>2. i \in DOMAIN queues[c] /\ queues[c][i].run = r
    BY <1>4
  <2>3. f \in stored /\ f.client = c
    BY <1>1, <2>1, <2>2 DEF QueuedInv
  <2> QED
    BY <2>1, <2>2, <2>3 DEF c, r
<1> QED
  BY <1>8, <1>9 DEF c, r

\* A looking and a taking read of the oldest frame find the same.
LEMMA OldestIsTaken ==
  ASSUME NEW v \in DOMAIN Views
  PROVE  Source!read(Views[v].client, Views[v].run, "DequeueOldest") = Oldest(v)
BY DEF Oldest, Source!read

\* The oldest frame depends on nothing but the view's own queue.
LEMMA OldestStands ==
  ASSUME NEW v \in DOMAIN Views, queues'[Views[v].client] = queues[Views[v].client]
  PROVE  Oldest(v)' = Oldest(v)
BY DEF Oldest, Source!read, Source!FirstOf, Source!frames_for_client_run

\* Storing a new frame keeps what is said of queues and kept keyframes, and puts
\* nothing but that frame into a queue (store_frame).
LEMMA StoreKeepsQueued ==
  ASSUME Source!TargetTimeAssumption, Source!QueueTypeOK, stored \subseteq Sent, QueuedInv,
         NEW f \in Sent, f \notin stored, stored' = stored \cup {f}, Source!store_frame(f)
  PROVE  /\ Source!QueueTypeOK' /\ QueuedInv'
         /\ \A c \in Clients : \A j \in DOMAIN queues'[c] :
              queues'[c][j] = f \/ \E i \in DOMAIN queues[c] : queues'[c][j] = queues[c][i]
<1>1. f \in Source!Frame /\ f.client \in Clients /\ f.run \in Runs
  BY FrameTypes
<1>2. CASE MaxFrames = 0
  <2>1. queues' = queues /\ retained' = retained
    BY <1>2 DEF Source!store_frame, Source!queueVars
  <2>2. Source!QueueTypeOK'
    BY <2>1 DEF Source!QueueTypeOK
  <2>3. QueuedInv'
    BY <2>1 DEF QueuedInv
  <2> QED
    BY <2>1, <2>2, <2>3
<1>3. CASE MaxFrames # 0
  <2> DEFINE q == queues[f.client]
             rest == IF Len(q) >= MaxFrames THEN Tail(q) ELSE q
             k == Source!client_run_scope_key(f.client, f.run)
  <2>1. q \in Seq(Source!Frame) /\ MaxFrames \in Nat
    BY <1>1 DEF Source!QueueTypeOK, Source!TargetTimeAssumption
  <2>2. PICK d \in {0, 1} :
          /\ rest \in Seq(Source!Frame) /\ Len(rest) = Len(q) - d
          /\ \A j \in 1 .. Len(rest) : rest[j] = q[j + d] /\ j + d \in 1 .. Len(q)
    <3>1. CASE Len(q) >= MaxFrames
      <4>1. q # <<>>
        BY <1>3, <2>1, <3>1
      <4>2. Tail(q) \in Seq(Source!Frame) /\ Len(Tail(q)) = Len(q) - 1
            /\ \A j \in 1 .. Len(Tail(q)) : Tail(q)[j] = q[j + 1] /\ j + 1 \in 1 .. Len(q)
        BY <2>1, <4>1
      <4> QED
        BY <3>1, <4>2
    <3>2. CASE ~(Len(q) >= MaxFrames)
      <4>1. Len(q) \in Nat /\ \A j \in 1 .. Len(q) : q[j] = q[j + 0] /\ j + 0 \in 1 .. Len(q)
        BY <2>1
      <4> QED
        BY <2>1, <3>2, <4>1
    <3> QED
      BY <3>1, <3>2
  <2>3. queues' = [queues EXCEPT ![f.client] = Append(rest, f)]
    BY <1>3 DEF Source!store_frame
  <2>4. retained' = IF f.key THEN Source!MapInsert(retained, k, f) ELSE retained
    BY <1>3 DEF Source!store_frame
  <2> HIDE DEF q, rest, k
  <2>5. Append(rest, f) \in Seq(Source!Frame) /\ Len(Append(rest, f)) = Len(rest) + 1
        /\ (\A j \in 1 .. Len(rest) : Append(rest, f)[j] = rest[j])
        /\ Append(rest, f)[Len(rest) + 1] = f
        /\ DOMAIN Append(rest, f) = 1 .. Len(rest) + 1
    BY <1>1, <2>2
  <2> DEFINE w == Append(rest, f)
  <2>6. queues' \in [Clients -> Seq(Source!Frame)]
        /\ queues'[f.client] = w /\ \A c \in Clients : c # f.client => queues'[c] = queues[c]
    BY <1>1, <2>3, <2>5 DEF Source!QueueTypeOK
  <2>7. Source!QueueTypeOK'
    <3>1. retained' \in [DOMAIN retained' -> Source!Frame]
      BY <1>1, <2>4 DEF Source!QueueTypeOK, Source!MapInsert
    <3>2. DOMAIN retained' \subseteq Source!ScopeKeys
      BY <1>1, <2>4 DEF Source!QueueTypeOK, Source!MapInsert, Source!ScopeKeys, k
    <3> QED
      BY <2>6, <3>1, <3>2 DEF Source!QueueTypeOK
  <2>8. \A j \in DOMAIN w :
          \/ w[j] = f /\ j = Len(rest) + 1
          \/ \E i \in DOMAIN q : w[j] = q[i] /\ j \in 1 .. Len(rest) /\ i = j + d
    <3> SUFFICES ASSUME NEW j \in DOMAIN w
                 PROVE  \/ w[j] = f /\ j = Len(rest) + 1
                        \/ \E i \in DOMAIN q : w[j] = q[i] /\ j \in 1 .. Len(rest) /\ i = j + d
      OBVIOUS
    <3>1. CASE j = Len(rest) + 1
      BY <2>5, <3>1
    <3>2. CASE j # Len(rest) + 1
      <4>1. j \in 1 .. Len(rest)
        BY <2>2, <2>5, <3>2
      <4>2. j + d \in DOMAIN q /\ w[j] = q[j + d]
        BY <2>1, <2>2, <2>5, <4>1
      <4> QED
        BY <4>1, <4>2
    <3> QED
      BY <3>1, <3>2
  <2> HIDE DEF w
  <2>9. q = queues[f.client] /\ \A i \in DOMAIN q : q[i] \in stored /\ q[i].client = f.client
    BY <1>1 DEF q, QueuedInv
  <2>9a. \A i, j \in DOMAIN q : q[i] = q[j] => i = j
    BY <1>1 DEF q, QueuedInv
  <2>10. \A c \in Clients : \A j \in DOMAIN queues'[c] :
           queues'[c][j] = f \/ \E i \in DOMAIN queues[c] : queues'[c][j] = queues[c][i]
    BY <1>1, <2>6, <2>8, <2>9
  <2>11. \A c \in Clients : \A j \in DOMAIN queues'[c] :
           queues'[c][j] \in stored' /\ queues'[c][j].client = c
    BY <1>1, <2>6, <2>8, <2>9 DEF QueuedInv
  <2>12. ASSUME NEW c \in Clients, NEW i \in DOMAIN queues'[c], NEW j \in DOMAIN queues'[c],
                queues'[c][i] = queues'[c][j]
         PROVE  i = j
    <3>1. CASE c # f.client
      BY <2>6, <2>12, <3>1 DEF QueuedInv
    <3>2. CASE c = f.client
      <4>1. i \in DOMAIN w /\ j \in DOMAIN w /\ w[i] = w[j]
        BY <2>6, <2>12, <3>2
      <4>2. \A x \in DOMAIN q : q[x] # f
        BY <2>9
      <4>3. CASE w[i] = f
        BY <2>8, <4>1, <4>2, <4>3
      <4>4. CASE w[i] # f
        <5>1. PICK x \in DOMAIN q : w[i] = q[x] /\ i \in 1 .. Len(rest) /\ x = i + d
          BY <2>8, <4>1, <4>4
        <5>2. PICK y \in DOMAIN q : w[j] = q[y] /\ j \in 1 .. Len(rest) /\ y = j + d
          BY <2>8, <4>1, <4>4
        <5>3. x = y
          BY <2>9a, <4>1, <5>1, <5>2
        <5>4. i \in Int /\ j \in Int /\ d \in Int /\ i + d = j + d
          BY <2>2, <5>1, <5>2, <5>3
        <5> QED
          BY <5>4
      <4> QED
        BY <4>3, <4>4
    <3> QED
      BY <3>1, <3>2
  <2>13. \A x \in DOMAIN retained' :
           /\ retained'[x] \in stored' /\ retained'[x].key
           /\ Source!client_run_scope_key(retained'[x].client, retained'[x].run) = x
    BY <1>1, <2>4 DEF QueuedInv, Source!MapInsert, k
  <2>14. QueuedInv'
    BY <2>11, <2>12, <2>13 DEF QueuedInv, Source!client_run_scope_key
  <2> QED
    BY <2>7, <2>10, <2>14
<1> QED
  BY <1>2, <1>3

\* Taking the oldest frame of a view removes that frame and nothing else
\* (pop_front_for_client_run).
LEMMA PopTakesTheOldest ==
  ASSUME Source!TargetTimeAssumption, Source!QueueTypeOK, QueuedInv, stored' = stored,
         NEW v \in DOMAIN Views, Source!pop_front_for_client_run(Views[v].client, Views[v].run)
  PROVE  \E f \in stored :
           /\ Oldest(v) = {f} /\ Source!QueueTypeOK' /\ QueuedInv'
           /\ f.client = Views[v].client
           /\ \A c \in Clients : \A j \in DOMAIN queues'[c] :
                queues'[c][j] # f /\ \E i \in DOMAIN queues[c] : queues'[c][j] = queues[c][i]
           /\ \A c \in Clients : c # Views[v].client => queues'[c] = queues[c]
<1> DEFINE c == Views[v].client
           r == Views[v].run
<1>1. c \in Clients /\ r \in Runs
  BY ViewTypes
<1>2. PICK m \in Source!FirstOf(Source!frames_for_client_run(c, r)) :
        queues' = [queues EXCEPT ![c] = Source!RemoveAt(@, m)] /\ UNCHANGED retained
  BY DEF Source!pop_front_for_client_run
<1>3. Oldest(v) = {queues[c][i] : i \in Source!FirstOf(Source!frames_for_client_run(c, r))}
  BY DEF Oldest, Source!read
<1> HIDE DEF c, r
<1> DEFINE s == queues[c]
           w == Source!RemoveAt(s, m)
<1>4. s \in Seq(Source!Frame) /\ DOMAIN s = 1 .. Len(s) /\ Len(s) \in Nat
  BY <1>1 DEF Source!QueueTypeOK
<1>5. m \in 1 .. Len(s) /\ \A i \in Source!FirstOf(Source!frames_for_client_run(c, r)) : i = m
  BY <1>4 DEF Source!FirstOf, Source!frames_for_client_run
<1>6. Oldest(v) = {s[m]}
  BY <1>2, <1>3, <1>5
<1>7. w \in Seq(Source!Frame) /\ Len(w) = Len(s) - 1 /\ DOMAIN w = 1 .. Len(s) - 1
      /\ \A j \in 1 .. Len(s) - 1 : w[j] = IF j < m THEN s[j] ELSE s[j + 1]
  <2>1. w \in Seq(Source!Frame) /\ Len(w) = Len(s) - 1
    BY <1>4, <1>5, QueueRemoveAt
  <2>2. \A j \in 1 .. Len(s) - 1 : w[j] = IF j < m THEN s[j] ELSE s[j + 1]
    BY <1>4, <1>5, QueueRemoveAt
  <2> HIDE DEF w
  <2> QED
    BY <2>1, <2>2
<1>8. queues' = [queues EXCEPT ![c] = w]
  BY <1>2
<1> HIDE DEF s, w
<1>9. /\ queues' \in [Clients -> Seq(Source!Frame)]
      /\ queues'[c] = w /\ \A x \in Clients : x # c => queues'[x] = queues[x]
  BY <1>1, <1>7, <1>8 DEF Source!QueueTypeOK
<1>10. \A j \in DOMAIN w : \E i \in DOMAIN s : w[j] = s[i] /\ i # m /\ i = (IF j < m THEN j ELSE j + 1)
  <2> SUFFICES ASSUME NEW j \in DOMAIN w
               PROVE  \E i \in DOMAIN s : w[j] = s[i] /\ i # m /\ i = (IF j < m THEN j ELSE j + 1)
    OBVIOUS
  <2>1. CASE j < m
    BY <1>4, <1>5, <1>7, <2>1
  <2>2. CASE ~(j < m)
    <3>1. j + 1 \in DOMAIN s /\ j + 1 # m /\ w[j] = s[j + 1]
      BY <1>4, <1>5, <1>7, <2>2
    <3> QED
      BY <2>2, <3>1
  <2> QED
    BY <2>1, <2>2
<1>11. (\A i, j \in DOMAIN s : s[i] = s[j] => i = j)
       /\ \A i \in DOMAIN s : s[i] \in stored /\ s[i].client = c
  BY <1>1 DEF QueuedInv, s
<1>12. \A x \in Clients : \A j \in DOMAIN queues'[x] :
         queues'[x][j] # s[m] /\ \E i \in DOMAIN queues[x] : queues'[x][j] = queues[x][i]
  <2> SUFFICES ASSUME NEW x \in Clients, NEW j \in DOMAIN queues'[x]
               PROVE  queues'[x][j] # s[m] /\ \E i \in DOMAIN queues[x] : queues'[x][j] = queues[x][i]
    OBVIOUS
  <2>1. CASE x = c
    <3>1. PICK i \in DOMAIN s : w[j] = s[i] /\ i # m
      BY <1>9, <1>10, <2>1
    <3>2. s[i] # s[m]
      BY <1>4, <1>5, <1>11, <3>1
    <3> QED
      BY <1>9, <2>1, <3>1, <3>2 DEF s
  <2>2. CASE x # c
    BY <1>4, <1>5, <1>9, <1>11, <2>2 DEF QueuedInv
  <2> QED
    BY <2>1, <2>2
<1>13. Source!QueueTypeOK'
  BY <1>2, <1>9 DEF Source!QueueTypeOK
<1>14. QueuedInv'
  <2>1. \A x \in Clients : \A i \in DOMAIN queues'[x] :
          queues'[x][i] \in stored' /\ queues'[x][i].client = x
    BY <1>12 DEF QueuedInv
  <2>2. ASSUME NEW x \in Clients, NEW i \in DOMAIN queues'[x], NEW j \in DOMAIN queues'[x],
               queues'[x][i] = queues'[x][j]
        PROVE  i = j
    <3>1. CASE x # c
      BY <1>9, <2>2, <3>1 DEF QueuedInv
    <3>2. CASE x = c
      <4>1. i \in DOMAIN w /\ j \in DOMAIN w /\ w[i] = w[j]
        BY <1>9, <2>2, <3>2
      <4>2. PICK y \in DOMAIN s : w[i] = s[y] /\ y = (IF i < m THEN i ELSE i + 1) /\ y # m
        BY <1>10, <4>1
      <4>3. PICK z \in DOMAIN s : w[j] = s[z] /\ z = (IF j < m THEN j ELSE j + 1) /\ z # m
        BY <1>10, <4>1
      <4>4. y = z
        BY <1>11, <4>1, <4>2, <4>3
      <4> QED
        BY <1>4, <1>5, <1>7, <4>1, <4>2, <4>3, <4>4
    <3> QED
      BY <3>1, <3>2
  <2> QED
    BY <1>2, <2>1, <2>2 DEF QueuedInv
<1>15. s[m] \in stored /\ s[m].client = c
  BY <1>4, <1>5, <1>11
<1> QED
  BY <1>6, <1>9, <1>12, <1>13, <1>14, <1>15 DEF c

-----------------------------------------------------------------------------
\* What a candidate becomes: a set of at most one frame.
LEMMA CandidateResult ==
  ASSUME NEW found \in SUBSET Sent, \A f, g \in found : f = g, NEW b \in BOOLEAN,
         NEW r, r = Source!result_for_candidate(found, b)
  PROVE  /\ r \in SourceResults /\ r.frames = found
         /\ \A f \in found : r.kind = "Selected" <=> Source!Adjusted(f) <= job.target
         /\ found = {} => r.kind = "NoFrame"
         /\ \A f \in found : r = Source!Selected(f, b) \/ r.kind = "Waiting"
         /\ r.kind = "Selected" => \E f \in found : r = Source!Selected(f, b)
<1>1. CASE found = {}
  BY <1>1 DEF Source!result_for_candidate, Source!NoResult, SourceResults, SourceKinds
<1>2. CASE found # {}
  <2>1. PICK f \in found : found = {f}
    BY <1>2
  <2>2. (CHOOSE x \in found : TRUE) = f
    BY <2>1
  <2>3. r = IF Source!Adjusted(f) <= job.target THEN Source!Selected(f, b)
            ELSE [kind |-> "Waiting", frames |-> {f}, consumed |-> FALSE]
    BY <1>2, <2>2 DEF Source!result_for_candidate
  <2>4. CASE Source!Adjusted(f) <= job.target
    <3>1. r = Source!Selected(f, b)
      BY <2>3, <2>4
    <3>2. r \in SourceResults /\ r.frames = found /\ r.kind = "Selected"
      BY <2>1, <3>1 DEF Source!Selected, SourceResults, SourceKinds
    <3> HIDE DEF Source!Selected
    <3> QED
      BY <2>1, <2>4, <3>1, <3>2
  <2>5. CASE ~(Source!Adjusted(f) <= job.target)
    <3>1. r = [kind |-> "Waiting", frames |-> {f}, consumed |-> FALSE]
      BY <2>3, <2>5
    <3>2. r.frames = found /\ r.kind = "Waiting"
      BY <2>1, <3>1
    <3>3. r = [kind |-> "Waiting", frames |-> found, consumed |-> FALSE]
      BY <2>1, <3>1
    <3>4. r \in SourceResults
      BY <3>3 DEF SourceResults, SourceKinds
    <3> QED
      BY <2>1, <2>5, <3>2, <3>4
  <2> QED
    BY <2>4, <2>5
<1> QED
  BY <1>1, <1>2

\* Where a selection goes after the result of a view.
LEMMA AdvanceCases ==
  ASSUME Source!TargetTimeAssumption, job \in SourceJobs, NEW rs, job' = Source!Advance(rs)
  PROVE  /\ job' \in SourceJobs
         /\ job'.op = job.op /\ job'.target = job.target /\ job'.managed = job.managed
         /\ \/ /\ job'.step = "None" /\ job'.view = job.view
               /\ Source!IsPair(job.op) => job.view = Len(Views)
               /\ job.step = "Preview" => ~Source!AllSelected(rs)
            \/ /\ Source!IsPair(job.op) /\ job.view < Len(Views) /\ job'.view = job.view + 1
               /\ job'.step = IF job.step = "Preview" THEN "Preview" ELSE "Look"
            \/ /\ Source!IsPair(job.op) => job.view = Len(Views)
               /\ job.step = "Preview" /\ Source!AllSelected(rs)
               /\ job'.view = 1 /\ job'.step = "Look"
<1>1. job.view \in 1 .. Len(Views) /\ Len(Views) \in Nat \ {0} /\ DOMAIN Views = 1 .. Len(Views)
  BY ViewTypes DEF SourceJobs
<1>2. CASE ~Source!LastView
  <2>1. job' = [job EXCEPT !.view = @ + 1, !.step = IF job.step = "Preview" THEN @ ELSE "Look"]
    BY <1>2 DEF Source!Advance
  <2>2. Source!IsPair(job.op) /\ job.view < Len(Views)
    BY <1>1, <1>2 DEF Source!LastView
  <2>3. job.view + 1 \in DOMAIN Views
    BY <1>1, <2>2
  <2>4. /\ job'.op = job.op /\ job'.target = job.target /\ job'.managed = job.managed
        /\ job'.view = job.view + 1
        /\ job'.step = IF job.step = "Preview" THEN "Preview" ELSE "Look"
    BY <2>1 DEF SourceJobs
  <2>5. job' \in SourceJobs
    BY <2>1, <2>3 DEF SourceJobs
  <2> QED
    BY <2>2, <2>4, <2>5
<1>3. CASE Source!LastView /\ job.step = "Preview" /\ Source!AllSelected(rs)
  <2>1. job' = [job EXCEPT !.view = 1, !.step = "Look"]
    BY <1>3 DEF Source!Advance
  <2>2. 1 \in DOMAIN Views /\ (Source!IsPair(job.op) => job.view = Len(Views))
    BY <1>1, <1>3 DEF Source!LastView
  <2>3. /\ job'.op = job.op /\ job'.target = job.target /\ job'.managed = job.managed
        /\ job'.view = 1 /\ job'.step = "Look"
    BY <2>1 DEF SourceJobs
  <2>4. job' \in SourceJobs
    BY <2>1, <2>2 DEF SourceJobs
  <2> QED
    BY <1>3, <2>2, <2>3, <2>4
<1>4. CASE Source!LastView /\ ~(job.step = "Preview" /\ Source!AllSelected(rs))
  <2>1. job' = [job EXCEPT !.step = "None"]
    BY <1>4 DEF Source!Advance, Source!Finished
  <2>2. Source!IsPair(job.op) => job.view = Len(Views)
    BY <1>4 DEF Source!LastView
  <2> QED
    BY <1>4, <2>1, <2>2 DEF SourceJobs
<1> QED
  BY <1>2, <1>3, <1>4

-----------------------------------------------------------------------------
(***************************************************************************)
(* The invariant of every source, one lemma per action.                    *)
(***************************************************************************)
LEMMA SourceInvInit ==
  ASSUME Source!TargetTimeAssumption, Source!Init
  PROVE  SourceInv /\ StandingInv
<1>1. 1 \in DOMAIN Views
  BY ViewTypes
<1>2. Source!QueueTypeOK /\ (\A c \in Clients : DOMAIN queues[c] = {}) /\ DOMAIN retained = {}
  BY DEF Source!Init, Source!QueueInit, Source!QueueTypeOK, Source!EmptyMap
<1>3. Source!NoResult \in SourceResults /\ Source!NoResult.frames = {}
  BY DEF Source!NoResult, SourceResults, SourceKinds
<1>4. /\ job.op = "None" /\ job.step = "None" /\ job.managed = FALSE /\ job \in SourceJobs
  BY <1>1 DEF Source!Init, Source!NoJob, SourceJobs
<1>5. answers = [v \in DOMAIN Views |-> Source!NoResult] /\ took = <<>> /\ shed = <<>> /\ stored = {}
  BY DEF Source!Init
<1> HIDE DEF Source!NoResult
<1>6. SourceTypeInv
  BY <1>2, <1>3, <1>4, <1>5 DEF SourceTypeInv
<1>7. QueuedInv
  BY <1>2 DEF QueuedInv
<1>8. SourceJobInv /\ SourceResultInv
  BY <1>3, <1>4, <1>5 DEF SourceJobInv, SourceResultInv, Source!IsPair
<1>9. SourceTakenInv /\ DroppedInv
  BY <1>2, <1>4, <1>5 DEF SourceTakenInv, DroppedInv
<1>10. StandingInv
  BY <1>4, <1>5 DEF StandingInv, SourcePairInv
<1> QED
  BY <1>6, <1>7, <1>8, <1>9, <1>10 DEF SourceInv

LEMMA StoreStep ==
  ASSUME Source!TargetTimeAssumption, SourceInv, NEW f \in Sent, Source!StoreFrame(f)
  PROVE  SourceInv' /\ (~OverHandoff /\ StandingInv => StandingInv')
<1>1. /\ OverHandoff \/ job.step = "None"
      /\ f \notin stored /\ stored' = stored \cup {f} /\ Source!store_frame(f)
      /\ job' = job /\ answers' = answers /\ took' = took /\ shed' = shed
  BY DEF Source!StoreFrame, Source!jobVars, Source!Idle
<1>2. SourceTypeInv /\ QueuedInv /\ SourceJobInv /\ SourceResultInv /\ SourceTakenInv /\ DroppedInv
  BY DEF SourceInv
<1>3. /\ Source!QueueTypeOK' /\ QueuedInv'
      /\ \A c \in Clients : \A j \in DOMAIN queues'[c] :
           queues'[c][j] = f \/ \E i \in DOMAIN queues[c] : queues'[c][j] = queues[c][i]
  BY <1>1, <1>2, StoreKeepsQueued DEF SourceTypeInv
<1>4. SourceTypeInv'
  BY <1>1, <1>2, <1>3 DEF SourceTypeInv
<1>5. SourceJobInv'
  BY <1>1, <1>2 DEF SourceJobInv
<1>6. SourceResultInv'
  BY <1>1, <1>2 DEF SourceResultInv, Reportable, Source!Adjusted, Source!apply_offset
<1>7. SourceTakenInv'
  BY <1>1, <1>2 DEF SourceTakenInv, TakenFor, Source!Idle
<1>8. DroppedInv'
  <2>1. \A i \in DOMAIN shed :
          shed[i] \in stored /\ Source!Adjusted(shed[i]) + MaxLate < job.target
    BY <1>2 DEF DroppedInv
  <2>2. (\A i \in DOMAIN shed :
          shed[i] \in stored /\ Source!Adjusted(shed[i]) + MaxLate < job.target)'
    BY <1>1, <2>1 DEF Source!Adjusted, Source!apply_offset
  <2>3. f \notin Source!Range(shed)
    BY <1>1, <2>1 DEF Source!Range
  <2>4. \A c \in Clients : \A j \in DOMAIN queues'[c] : queues'[c][j] \notin Source!Range(shed')
    BY <1>1, <1>2, <1>3, <2>3 DEF DroppedInv
  <2>5. ~(job'.managed /\ job'.step = "Look" /\ job'.op # "MutateLate")
    BY <1>1, <1>2 DEF SourceJobInv
  <2> QED
    BY <2>2, <2>4, <2>5 DEF DroppedInv
<1>9. ~OverHandoff /\ StandingInv => StandingInv'
  BY <1>1 DEF StandingInv, SourcePairInv, Source!Adjusted, Source!apply_offset, Source!Idle
<1> QED
  BY <1>3, <1>4, <1>5, <1>6, <1>7, <1>8, <1>9 DEF SourceInv

LEMMA SelectStep ==
  ASSUME Source!TargetTimeAssumption, SourceInv,
         NEW op \in Source!Ops, NEW t \in Targets, NEW v \in DOMAIN Views, Source!Select(op, t, v)
  PROVE  SourceInv' /\ (~OverHandoff /\ StandingInv => StandingInv')
<1>1. /\ op = "MutateLate" => ~OverHandoff
      /\ Source!IsPair(op) => v = 1
      /\ job' = [op |-> op, target |-> t, view |-> v,
                 step |-> IF op = "ConsumePair" THEN "Preview" ELSE "Look",
                 managed |-> op = "MutateLate"]
      /\ answers' = [w \in DOMAIN Views |-> Source!NoResult]
      /\ took' = <<>> /\ shed' = <<>>
      /\ queues' = queues /\ retained' = retained /\ stored' = stored
  BY DEF Source!Select, Source!queueVars
<1>2. /\ job'.op = op /\ job'.target = t /\ job'.view = v
      /\ job'.step = IF op = "ConsumePair" THEN "Preview" ELSE "Look"
      /\ job'.managed = (op = "MutateLate")
  BY <1>1
<1>3. job' \in SourceJobs
  <2>1. (op = "MutateLate") \in BOOLEAN
    OBVIOUS
  <2>2. (IF op = "ConsumePair" THEN "Preview" ELSE "Look") \in {"None", "Preview", "Look", "Take"}
    OBVIOUS
  <2> QED
    BY <1>1, <2>1, <2>2, Zenon DEF SourceJobs
<1>4. SourceTypeInv /\ QueuedInv
  BY DEF SourceInv
<1>5. Source!NoResult \in SourceResults /\ Source!NoResult.frames = {}
  BY DEF Source!NoResult, SourceResults, SourceKinds
<1> HIDE DEF Source!NoResult
<1>6. SourceTypeInv'
  BY <1>1, <1>3, <1>4, <1>5 DEF SourceTypeInv, Source!QueueTypeOK
<1>7. QueuedInv'
  BY <1>1, <1>4 DEF QueuedInv
<1>8. SourceJobInv'
  <2>1. job'.managed <=> op = "MutateLate"
    BY <1>2
  <2> QED
    BY <1>1, <1>2, <2>1 DEF SourceJobInv, Source!IsPair, Source!Ops, Source!SingleOps
<1>9. SourceResultInv'
  BY <1>1, <1>5 DEF SourceResultInv
<1>10. SourceTakenInv'
  BY <1>1 DEF SourceTakenInv
<1>11. DroppedInv'
  <2>1. Source!Range(<<>>) = {}
    BY DEF Source!Range
  <2>2. job'.managed => job'.op = "MutateLate"
    BY <1>2
  <2> QED
    BY <1>1, <2>1, <2>2 DEF DroppedInv
<1>12. StandingInv'
  <2>1. job'.step # "Take" /\ (op = "ConsumePair" => job'.step = "Preview" /\ job'.view = 1)
    BY <1>1, <1>2 DEF Source!IsPair
  <2>2. \A w \in DOMAIN Views : ~(w < 1)
    BY ViewTypes
  <2> QED
    BY <1>1, <1>2, <2>1, <2>2 DEF StandingInv, SourcePairInv
<1> QED
  BY <1>6, <1>7, <1>8, <1>9, <1>10, <1>11, <1>12 DEF SourceInv

\* A result r is the answer for the view of the running selection.
GoodAnswer(r) ==
  /\ r \in SourceResults
  /\ \A f \in r.frames :
       Reportable(job.view, f) /\ (r.kind = "Selected" <=> Source!Adjusted(f) <= job.target)

\* What an answer does to the results and to the job.
LEMMA AnswerKeepsResults ==
  ASSUME Source!TargetTimeAssumption, SourceInv, ~Source!Idle, job.op # "MutateLate",
         NEW r, GoodAnswer(r), Source!Answer(r), stored' = stored, shed' = shed
  PROVE  /\ answers' \in [DOMAIN Views -> SourceResults] /\ job' \in SourceJobs
         /\ answers'[job.view] = r
         /\ \A v \in DOMAIN Views : v # job.view => answers'[v] = answers[v]
         /\ SourceJobInv' /\ SourceResultInv'
<1>1. job \in SourceJobs /\ answers \in [DOMAIN Views -> SourceResults] /\ SourceJobInv /\ SourceResultInv
  BY DEF SourceInv, SourceTypeInv
<1>2. job.view \in DOMAIN Views
  BY <1>1 DEF SourceJobs
<1>3. answers' = [answers EXCEPT ![job.view] = r] /\ job' = Source!Advance(answers')
  BY DEF Source!Answer
<1>4. /\ answers' \in [DOMAIN Views -> SourceResults] /\ answers'[job.view] = r
      /\ \A v \in DOMAIN Views : v # job.view => answers'[v] = answers[v]
  BY <1>1, <1>2, <1>3 DEF GoodAnswer
<1>5. /\ job' \in SourceJobs /\ job'.op = job.op /\ job'.target = job.target
      /\ job'.managed = job.managed
      /\ job'.step \in {"None", "Look"} \/ (job'.step = "Preview" /\ job.step = "Preview")
  BY <1>1, <1>3, AdvanceCases
<1>6. SourceJobInv'
  BY <1>1, <1>5 DEF SourceJobInv, Source!IsPair, Source!Idle
<1>7. (\A v \in DOMAIN Views : \A f \in answers[v].frames :
         Reportable(v, f) /\ (answers[v].kind = "Selected" <=> Source!Adjusted(f) <= job.target))'
  <2> SUFFICES ASSUME NEW v \in DOMAIN Views, NEW f \in answers'[v].frames
               PROVE  /\ Reportable(v, f)'
                      /\ (answers'[v].kind = "Selected" <=> Source!Adjusted(f) <= job'.target)
    OBVIOUS
  <2>1. /\ Reportable(v, f)
        /\ answers'[v].kind = "Selected" <=> Source!Adjusted(f) <= job.target
    <3>1. CASE v = job.view
      BY <1>4, <3>1 DEF GoodAnswer
    <3>2. CASE v # job.view
      BY <1>1, <1>4, <3>2 DEF SourceResultInv
    <3> QED
      BY <3>1, <3>2
  <2>2. Reportable(v, f)'
    BY <1>5, <2>1 DEF Reportable
  <2> QED
    BY <1>5, <2>1, <2>2
<1>8. SourceResultInv'
  BY <1>5, <1>7 DEF SourceResultInv
<1> QED
  BY <1>4, <1>5, <1>6, <1>8

\* What TakenFor says of a frame after the step.
TakenAfter(v, f) ==
  /\ f \in stored' /\ f.client = Views[v].client
  /\ answers'[v] = Source!Selected(f, TRUE) \/ answers'[v].kind \in {"Waiting", "HandoffError"}
  /\ ~Source!Idle' => v < job'.view

\* What is said of taken frames holds after an answer to the view of which nothing
\* was taken.
LEMMA AnswerKeepsTaken ==
  ASSUME Source!TargetTimeAssumption, SourceInv, ~Source!Idle, job.op # "MutateLate", NEW r, Source!Answer(r),
         stored' = stored, answers' \in [DOMAIN Views -> SourceResults],
         \A v \in DOMAIN Views : v # job.view => answers'[v] = answers[v]
  PROVE  /\ \A i \in DOMAIN took : \E v \in DOMAIN Views :
              v < job.view /\ TakenFor(v, took[i]) /\ TakenAfter(v, took[i])
         /\ took' = took => SourceTakenInv'
<1>1. job \in SourceJobs /\ SourceTakenInv
  BY DEF SourceInv, SourceTypeInv
<1>2. /\ job' \in SourceJobs /\ job'.op = job.op
      /\ \/ job'.step = "None"
         \/ /\ Source!IsPair(job.op) /\ job'.view = job.view + 1
            /\ job'.step = IF job.step = "Preview" THEN "Preview" ELSE "Look"
         \/ job.step = "Preview" /\ job'.step = "Look"
  BY <1>1, AdvanceCases DEF Source!Answer
<1>3. job.view \in Nat /\ job'.view \in Nat /\ DOMAIN Views \subseteq Nat
  BY <1>1, <1>2, ViewTypes DEF SourceJobs
<1>4. job.step = "Preview" => took = <<>>
  BY <1>1 DEF SourceTakenInv
<1>5. ASSUME NEW i \in DOMAIN took
      PROVE  \E v \in DOMAIN Views :
               v < job.view /\ TakenFor(v, took[i]) /\ TakenAfter(v, took[i])
  <2>1. PICK v \in DOMAIN Views : TakenFor(v, took[i])
    BY <1>1 DEF SourceTakenInv
  <2>2. v < job.view
    BY <2>1 DEF TakenFor
  <2>3. answers'[v] = answers[v]
    BY <1>3, <2>2
  <2>4. job.step # "Preview"
    BY <1>4
  <2>5. ~Source!Idle' => v < job'.view
    BY <1>2, <1>3, <2>2, <2>4 DEF Source!Idle
  <2>6. TakenAfter(v, took[i])
    BY <2>1, <2>3, <2>5 DEF TakenFor, TakenAfter
  <2> QED
    BY <2>1, <2>2, <2>6
<1>6. ASSUME took' = took PROVE SourceTakenInv'
  <2>1. \A i \in DOMAIN took' : \E v \in DOMAIN Views : TakenAfter(v, took'[i])
    BY <1>5, <1>6
  <2>2. (\A i \in DOMAIN took : \E v \in DOMAIN Views : TakenFor(v, took[i]))'
    BY <2>1 DEF TakenAfter, TakenFor, Source!Selected
  <2>3. ~Source!Idle' /\ (job'.op = "ConsumeOldest" \/ job'.step = "Preview") => took = <<>>
    BY <1>1, <1>2 DEF SourceTakenInv, Source!Idle, Source!IsPair
  <2> QED
    BY <1>1, <1>2, <1>6, <2>2, <2>3 DEF SourceTakenInv
<1> QED
  BY <1>5, <1>6

\* What a step of a selection finds may be reported.
LEMMA FoundIsReportable ==
  ASSUME Source!TargetTimeAssumption, ScopeKeysDiffer, SourceInv, ~Source!Idle, job.op # "MutateLate",
         NEW b \in BOOLEAN
  PROVE  /\ Source!Found \in SUBSET Sent /\ \A f, g \in Source!Found : f = g
         /\ GoodAnswer(Source!result_for_candidate(Source!Found, b))
         /\ job.step = "Take" \/ job.op \in {"ConsumeOldest", "ConsumePair"} => Source!Found = Oldest(job.view)
<1>1. job \in SourceJobs /\ Source!QueueTypeOK /\ stored \subseteq Sent /\ QueuedInv /\ DroppedInv
  BY DEF SourceInv, SourceTypeInv
<1>2. job.view \in DOMAIN Views
  BY <1>1 DEF SourceJobs
<1> DEFINE v == job.view
           mode == Source!queue_read_mode(job)
<1>3. mode \in Source!ReadMode /\ (mode = "InspectLatestDecodable" => job.op = "PreviewLatestDecodable")
  BY DEF Source!queue_read_mode, Source!ReadMode
<1>4. Source!Found = Source!read(Views[v].client, Views[v].run, mode)
  BY DEF Source!Found
<1>5. mode \in {"InspectOldest", "DequeueOldest"} => Source!Found = Oldest(v)
  BY <1>2, <1>4, OldestIsTaken DEF Oldest
<1>6. job.step = "Take" \/ job.op \in {"ConsumeOldest", "ConsumePair"}
        => mode \in {"InspectOldest", "DequeueOldest"}
  BY DEF Source!queue_read_mode
<1> HIDE DEF mode
<1>7. ASSUME NEW f \in Source!Found
      PROVE  Reportable(v, f) /\ \A g \in Source!Found : g = f
  <2>1. /\ f \in stored /\ f.client = Views[v].client /\ f.run = Views[v].run
        /\ \/ mode = "InspectLatestDecodable" /\ f.key
           \/ \E j \in DOMAIN queues[Views[v].client] : f = queues[Views[v].client][j]
        /\ \A g \in Source!Found : g = f
    BY <1>1, <1>2, <1>3, <1>4, ReadFinds
  <2>2. Views[v].client \in Clients
    BY <1>2, ViewTypes
  <2>3. f \in Source!Range(shed) => job.op = "PreviewLatestDecodable" /\ f.key
    BY <1>1, <1>3, <2>1, <2>2 DEF DroppedInv
  <2> QED
    BY <2>1, <2>3 DEF Reportable
<1>8. Source!Found \in SUBSET Sent /\ \A f, g \in Source!Found : f = g
  <2>1. \A f \in Source!Found : f \in Sent
    BY <1>1, <1>7 DEF Reportable
  <2> QED
    BY <1>7, <2>1
<1> HIDE DEF v
<1>9. GoodAnswer(Source!result_for_candidate(Source!Found, b))
  <2> DEFINE r == Source!result_for_candidate(Source!Found, b)
  <2>1. /\ r \in SourceResults /\ r.frames = Source!Found
        /\ \A f \in Source!Found : r.kind = "Selected" <=> Source!Adjusted(f) <= job.target
    BY <1>8, CandidateResult
  <2> HIDE DEF r
  <2>2. GoodAnswer(r)
    BY <1>7, <2>1 DEF GoodAnswer, v
  <2> QED
    BY <2>2 DEF r
<1> QED
  BY <1>5, <1>6, <1>8, <1>9 DEF v

\* An answer with no frame.
LEMMA SourceErrorIsGood == GoodAnswer(Source!HandoffError)
BY DEF GoodAnswer, Source!HandoffError, Source!NoResult, SourceResults, SourceKinds

\* An answer that leaves the queue alone.
LEMMA QuietAnswer ==
  ASSUME Source!TargetTimeAssumption, SourceInv, ~Source!Idle, job.op # "MutateLate",
         NEW r, GoodAnswer(r), Source!Answer(r),
         queues' = queues, retained' = retained, stored' = stored, took' = took,
         shed' = shed
  PROVE  SourceInv'
<1>1. SourceTypeInv /\ QueuedInv /\ SourceJobInv /\ SourceResultInv /\ SourceTakenInv /\ DroppedInv
  BY DEF SourceInv
<1>2. /\ answers' \in [DOMAIN Views -> SourceResults] /\ job' \in SourceJobs /\ SourceJobInv' /\ SourceResultInv'
      /\ \A v \in DOMAIN Views : v # job.view => answers'[v] = answers[v]
  BY AnswerKeepsResults
<1>3. SourceTakenInv'
  BY <1>2, AnswerKeepsTaken
<1>4. SourceTypeInv'
  BY <1>1, <1>2 DEF SourceTypeInv, Source!QueueTypeOK
<1>5. QueuedInv'
  BY <1>1 DEF QueuedInv
<1>6. DroppedInv'
  <2>1. job'.target = job.target /\ job'.managed = job.managed /\ job'.op = job.op
        /\ (job'.step = "Look" => Source!IsPair(job.op) \/ job.step = "Preview")
    BY <1>1, AdvanceCases DEF Source!Answer, SourceTypeInv
  <2>2. ~(job'.managed /\ job'.step = "Look" /\ job'.op # "MutateLate")
    BY <1>1, <2>1 DEF SourceJobInv, Source!IsPair
  <2> QED
    BY <1>1, <2>1, <2>2 DEF DroppedInv, Source!Adjusted, Source!apply_offset
<1> QED
  BY <1>2, <1>3, <1>4, <1>5, <1>6 DEF SourceInv

LEMMA RequestFailsStep ==
  ASSUME Source!TargetTimeAssumption, SourceInv, Source!RequestFails
  PROVE  SourceInv' /\ OverHandoff
<1>1. job.op # "MutateLate"
  BY DEF Source!RequestFails, SourceInv, SourceJobInv
<1> QED
  BY <1>1, SourceErrorIsGood, QuietAnswer DEF Source!RequestFails, Source!queueVars

\* A look that goes on to take.
LEMMA LookTakes ==
  ASSUME Source!TargetTimeAssumption, ScopeKeysDiffer, SourceInv,
         job.step = "Look", Source!Consumes,
         Source!result_for_candidate(Source!Found, FALSE).kind = "Selected",
         job' = [job EXCEPT !.step = "Take"], answers' = answers,
         queues' = queues, retained' = retained, stored' = stored, took' = took,
         shed' = shed
  PROVE  SourceInv' /\ HeadEligible(job.view) /\ (StandingInv => StandingInv')
<1>1. SourceTypeInv /\ QueuedInv /\ SourceJobInv /\ SourceResultInv /\ SourceTakenInv /\ DroppedInv
  BY DEF SourceInv
<1>2. /\ job.op \in {"ConsumeOldest", "ConsumePair"} /\ job \in SourceJobs
      /\ job'.op = job.op /\ job'.target = job.target /\ job'.view = job.view
      /\ job'.managed = job.managed /\ job'.step = "Take" /\ job' \in SourceJobs
  BY <1>1 DEF SourceTypeInv, SourceJobs, Source!Consumes
<1>3. HeadEligible(job.view)
  <2>1. /\ Source!Found \in SUBSET Sent /\ \A f, g \in Source!Found : f = g
        /\ Source!Found = Oldest(job.view)
    BY <1>2, FoundIsReportable DEF Source!Idle
  <2> DEFINE r == Source!result_for_candidate(Source!Found, FALSE)
  <2>2. /\ \A f \in Source!Found : r.kind = "Selected" <=> Source!Adjusted(f) <= job.target
        /\ Source!Found = {} => r.kind = "NoFrame"
    BY <2>1, CandidateResult
  <2> QED
    BY <2>1, <2>2 DEF HeadEligible
<1>4. SourceTypeInv' /\ QueuedInv' /\ SourceJobInv'
  BY <1>1, <1>2 DEF SourceTypeInv, Source!QueueTypeOK, QueuedInv, SourceJobInv,
      Source!IsPair
<1>5. SourceResultInv'
  BY <1>1, <1>2 DEF SourceResultInv, Reportable, Source!Adjusted, Source!apply_offset
<1>6. SourceTakenInv'
  BY <1>1, <1>2 DEF SourceTakenInv, TakenFor, Source!Idle, Source!Selected
<1>7. DroppedInv'
  BY <1>1, <1>2 DEF DroppedInv, Source!Adjusted, Source!apply_offset
<1>8. ASSUME StandingInv PROVE StandingInv'
  <2>1. job.view \in DOMAIN Views
    BY <1>2 DEF SourceJobs
  <2>2. \A v \in DOMAIN Views : HeadEligible(v)' <=> HeadEligible(v)
    BY <1>2, OldestStands DEF HeadEligible, Source!Adjusted, Source!apply_offset
  <2>3. HeadEligible(job.view)'
    BY <1>2, <1>3, <2>1, <2>2
  <2>4. SourcePairInv'
    BY <1>2, <1>8, <2>2 DEF StandingInv, SourcePairInv
  <2> QED
    BY <1>2, <1>8, <2>3, <2>4 DEF StandingInv, Source!Adjusted, Source!apply_offset,
        Source!Selected, Source!Idle
<1> QED
  BY <1>3, <1>4, <1>5, <1>6, <1>7, <1>8 DEF SourceInv

\* In process, a look that answers leaves what is known of the heads.
LEMMA LookStands ==
  ASSUME Source!TargetTimeAssumption, ScopeKeysDiffer, SourceInv, StandingInv,
         job.op # "MutateLate", job.step \in {"Preview", "Look"},
         NEW r, r = Source!result_for_candidate(Source!Found, FALSE), Source!Answer(r),
         ~(job.step = "Look" /\ Source!Consumes /\ r.kind = "Selected"),
         queues' = queues, stored' = stored, took' = took, shed' = shed
  PROVE  StandingInv'
<1>1. /\ job \in SourceJobs /\ answers \in [DOMAIN Views -> SourceResults] /\ SourceTakenInv /\ SourceJobInv
      /\ took \in Seq(Sent)
  BY DEF SourceInv, SourceTypeInv
<1>2. job.view \in DOMAIN Views /\ DOMAIN Views = 1 .. Len(Views) /\ Len(Views) \in Nat
  BY <1>1, ViewTypes DEF SourceJobs
<1>3. /\ Source!Found \in SUBSET Sent /\ \A f, g \in Source!Found : f = g
      /\ job.op = "ConsumePair" => Source!Found = Oldest(job.view)
  BY FoundIsReportable DEF Source!Idle
<1>4. /\ \A f \in Source!Found : r.kind = "Selected" <=> Source!Adjusted(f) <= job.target
      /\ Source!Found = {} => r.kind = "NoFrame"
  BY <1>3, CandidateResult
<1>5. job.op = "ConsumePair" => (r.kind = "Selected" <=> HeadEligible(job.view))
  BY <1>3, <1>4 DEF HeadEligible
<1>6. /\ answers' = [answers EXCEPT ![job.view] = r] /\ answers'[job.view] = r
      /\ \A v \in DOMAIN Views : v # job.view => answers'[v] = answers[v]
  BY <1>1, <1>2 DEF Source!Answer
<1>7. /\ job'.op = job.op /\ job'.target = job.target /\ job' \in SourceJobs
      /\ \/ /\ job'.step = "None"
            /\ Source!IsPair(job.op) => job.view = Len(Views)
            /\ job.step = "Preview" => ~Source!AllSelected(answers')
         \/ /\ Source!IsPair(job.op) /\ job.view < Len(Views) /\ job'.view = job.view + 1
            /\ job'.step = IF job.step = "Preview" THEN "Preview" ELSE "Look"
         \/ /\ Source!IsPair(job.op) => job.view = Len(Views)
            /\ job.step = "Preview" /\ Source!AllSelected(answers')
            /\ job'.view = 1 /\ job'.step = "Look"
  BY <1>1, AdvanceCases DEF Source!Answer
<1>8. \A v \in DOMAIN Views : HeadEligible(v)' <=> HeadEligible(v)
  BY <1>7, OldestStands DEF HeadEligible, Source!Adjusted, Source!apply_offset
<1>9. ASSUME NEW i \in DOMAIN took
      PROVE  /\ Source!Adjusted(took[i]) <= job.target
             /\ \E v \in DOMAIN Views :
                  answers'[v] = Source!Selected(took[i], TRUE) /\ (~Source!Idle' => v < job'.view)
  <2>1. /\ Source!Adjusted(took[i]) <= job.target
        /\ \E v \in DOMAIN Views :
             answers[v] = Source!Selected(took[i], TRUE) /\ (~Source!Idle => v < job.view)
    BY DEF StandingInv
  <2>2. PICK v \in DOMAIN Views : answers[v] = Source!Selected(took[i], TRUE) /\ v < job.view
    BY <2>1 DEF Source!Idle
  <2>3. answers'[v] = answers[v]
    <3>1. v # job.view
      BY <1>2, <2>2
    <3> QED
      BY <1>6, <3>1
  <2>4. job.step # "Preview"
    BY <1>1 DEF SourceTakenInv, Source!Idle
  <2>5. ~Source!Idle' => v < job'.view
    BY <1>2, <1>7, <2>2, <2>4 DEF Source!Idle
  <2> QED
    BY <2>1, <2>2, <2>3, <2>5
<1>10. ASSUME job.op = "ConsumePair", job.step = "Look"
       PROVE  FALSE
  <2>1. HeadEligible(job.view)
    BY <1>2, <1>10 DEF StandingInv, SourcePairInv
  <2> QED
    BY <1>5, <1>10, <2>1 DEF Source!Consumes
<1>11. SourcePairInv'
  <2> SUFFICES ASSUME job.op = "ConsumePair" PROVE SourcePairInv'
    BY <1>7 DEF SourcePairInv
  <2>1. job.step = "Preview" /\ took = <<>>
    BY <1>1, <1>10 DEF SourceTakenInv, Source!Idle
  <2>2. \A v \in DOMAIN Views : v < job.view /\ answers[v].kind = "Selected" => HeadEligible(v)
    BY <2>1 DEF StandingInv, SourcePairInv
  <2>3. \A v \in DOMAIN Views :
          v < job.view + 1 /\ answers'[v].kind = "Selected" => HeadEligible(v)
    <3> SUFFICES ASSUME NEW v \in DOMAIN Views, v < job.view + 1, answers'[v].kind = "Selected"
                 PROVE  HeadEligible(v)
      OBVIOUS
    <3>1. CASE v = job.view
      BY <1>5, <1>6, <3>1
    <3>2. CASE v # job.view
      BY <1>2, <1>6, <2>2, <3>2
    <3> QED
      BY <3>1, <3>2
  <2>4. CASE job'.step = "None"
    BY <1>7, <2>1, <2>4 DEF SourcePairInv
  <2>5. CASE job'.view = job.view + 1 /\ job'.step = "Preview"
    BY <1>8, <2>3, <2>5 DEF SourcePairInv
  <2>6. CASE job.view = Len(Views) /\ Source!AllSelected(answers') /\ job'.view = 1 /\ job'.step = "Look"
    <3>1. \A v \in DOMAIN Views : HeadEligible(v)
      BY <1>2, <2>3, <2>6 DEF Source!AllSelected
    <3>2. \A v \in DOMAIN Views : HeadEligible(v)' /\ ~(v < job'.view)
      BY <1>2, <1>8, <2>6, <3>1
    <3> QED
      BY <2>6, <3>2 DEF SourcePairInv
  <2> QED
    BY <1>7, <2>1, <2>4, <2>5, <2>6 DEF Source!IsPair
<1>12. job'.step # "Take"
  BY <1>7
<1> QED
  BY <1>7, <1>9, <1>11, <1>12 DEF StandingInv, Source!Adjusted, Source!apply_offset,
      Source!Selected

LEMMA LookStep ==
  ASSUME Source!TargetTimeAssumption, ScopeKeysDiffer, SourceInv, Source!Look
  PROVE  SourceInv' /\ (StandingInv => StandingInv')
<1> DEFINE r == Source!result_for_candidate(Source!Found, FALSE)
<1>1. /\ job.op # "MutateLate" /\ job.step \in {"Preview", "Look"}
      /\ queues' = queues /\ retained' = retained /\ stored' = stored /\ took' = took
      /\ shed' = shed
      /\ IF job.step = "Look" /\ Source!Consumes /\ r.kind = "Selected"
         THEN job' = [job EXCEPT !.step = "Take"] /\ UNCHANGED answers
         ELSE Source!Answer(r)
  BY DEF Source!Look, Source!queueVars
<1>2. CASE job.step = "Look" /\ Source!Consumes /\ r.kind = "Selected"
  BY <1>1, <1>2, LookTakes
<1>3. CASE ~(job.step = "Look" /\ Source!Consumes /\ r.kind = "Selected")
  <2>1. GoodAnswer(r)
    BY <1>1, FoundIsReportable DEF Source!Idle
  <2> HIDE DEF r
  <2>2. SourceInv'
    BY <1>1, <1>3, <2>1, QuietAnswer DEF Source!Idle
  <2>3. StandingInv => StandingInv'
    BY <1>1, <1>3, LookStands DEF r
  <2> QED
    BY <2>2, <2>3
<1> QED
  BY <1>2, <1>3

\* A taking read removes the oldest frame of its view, or finds none.
LEMMA DequeueRemoves ==
  ASSUME Source!TargetTimeAssumption, ScopeKeysDiffer, SourceInv, job.step = "Take", Source!Dequeue,
         stored' = stored
  PROVE  /\ Source!QueueTypeOK' /\ QueuedInv'
         /\ \A c \in Clients : c # Views[job.view].client => queues'[c] = queues[c]
         /\ \A c \in Clients : \A j \in DOMAIN queues'[c] :
              \E i \in DOMAIN queues[c] : queues'[c][j] = queues[c][i]
         /\ \/ Source!Found = {} /\ took' = took
            \/ \E f \in stored : /\ Source!Found = {f} /\ f.client = Views[job.view].client
                                  /\ took' = Append(took, f)
<1>1. SourceTypeInv /\ QueuedInv /\ SourceJobInv
  BY DEF SourceInv
<1>2. job.view \in DOMAIN Views /\ job.op # "MutateLate"
  BY <1>1 DEF SourceTypeInv, SourceJobs, SourceJobInv
<1>3. Source!Found = Oldest(job.view)
  BY <1>2, FoundIsReportable DEF Source!Idle
<1>4. took \in Seq(Sent)
  BY <1>1 DEF SourceTypeInv
<1>5. CASE Source!Found = {}
  <2>1. took' = took \o <<>> /\ queues' = queues /\ retained' = retained
    BY <1>5, SetToSeqOfOne DEF Source!Dequeue, Source!queueVars
  <2>2. took' = took
    BY <1>4, <2>1
  <2>3. Source!QueueTypeOK' /\ QueuedInv'
    BY <1>1, <2>1 DEF SourceTypeInv, Source!QueueTypeOK, QueuedInv
  <2> QED
    BY <1>5, <2>1, <2>2, <2>3
<1>6. CASE Source!Found # {}
  <2>1. Source!pop_front_for_client_run(Views[job.view].client, Views[job.view].run)
        /\ took' = took \o Source!SetToSeq(Source!Found)
    BY <1>6 DEF Source!Dequeue
  <2>2. PICK f \in stored :
          /\ Oldest(job.view) = {f} /\ Source!QueueTypeOK' /\ QueuedInv'
          /\ f.client = Views[job.view].client
          /\ \A c \in Clients : \A j \in DOMAIN queues'[c] :
               queues'[c][j] # f /\ \E i \in DOMAIN queues[c] : queues'[c][j] = queues[c][i]
          /\ \A c \in Clients : c # Views[job.view].client => queues'[c] = queues[c]
    BY <1>1, <1>2, <2>1, PopTakesTheOldest DEF SourceTypeInv
  <2>3. Source!Found = {f} /\ took' = took \o <<f>>
    BY <1>3, <2>1, <2>2, SetToSeqOfOne
  <2>4. f \in Sent
    BY <1>1 DEF SourceTypeInv
  <2>5. took' = Append(took, f)
    BY <1>4, <2>3, <2>4
  <2> QED
    BY <2>2, <2>3, <2>5
<1> QED
  BY <1>5, <1>6

\* A take whose answer is r, which reports the frame or not.
LEMMA TakeAnswers ==
  ASSUME Source!TargetTimeAssumption, ScopeKeysDiffer, OneViewPerClient, SourceInv,
         job.step = "Take", Source!Dequeue, stored' = stored, shed' = shed,
         NEW r, GoodAnswer(r), Source!Answer(r),
         \A f \in Source!Found : r = Source!Selected(f, TRUE) \/ r.kind \in {"Waiting", "HandoffError"}
  PROVE  SourceInv'
<1>1. SourceTypeInv /\ QueuedInv /\ SourceJobInv /\ SourceTakenInv /\ DroppedInv
  BY DEF SourceInv
<1>2. /\ job.op # "MutateLate" /\ ~Source!Idle /\ job.op \in {"ConsumeOldest", "ConsumePair"}
      /\ job.view \in DOMAIN Views /\ job \in SourceJobs /\ took \in Seq(Sent)
  BY <1>1 DEF SourceJobInv, Source!Idle, SourceTypeInv, SourceJobs
<1>3. /\ answers' \in [DOMAIN Views -> SourceResults] /\ job' \in SourceJobs
      /\ answers'[job.view] = r /\ SourceJobInv' /\ SourceResultInv'
      /\ \A v \in DOMAIN Views : v # job.view => answers'[v] = answers[v]
  BY <1>2, AnswerKeepsResults
<1>4. /\ \A i \in DOMAIN took : \E v \in DOMAIN Views :
           v < job.view /\ TakenFor(v, took[i]) /\ TakenAfter(v, took[i])
      /\ took' = took => SourceTakenInv'
  BY <1>2, <1>3, AnswerKeepsTaken
<1>5. /\ Source!QueueTypeOK' /\ QueuedInv'
      /\ \A c \in Clients : c # Views[job.view].client => queues'[c] = queues[c]
      /\ \A c \in Clients : \A j \in DOMAIN queues'[c] :
           \E i \in DOMAIN queues[c] : queues'[c][j] = queues[c][i]
      /\ \/ Source!Found = {} /\ took' = took
         \/ \E f \in stored : /\ Source!Found = {f} /\ f.client = Views[job.view].client
                               /\ took' = Append(took, f)
  BY DequeueRemoves
<1>6. /\ job'.op = job.op /\ job'.target = job.target /\ job'.managed = job.managed
      /\ \/ job'.step = "None"
         \/ Source!IsPair(job.op) /\ job'.view = job.view + 1 /\ job'.step = "Look"
  BY <1>2, AdvanceCases DEF Source!Answer
<1>7. job.view \in Nat
  BY <1>2, ViewTypes
<1>8. took' \in Seq(Sent) /\ SourceTakenInv'
  <2>1. CASE took' = took
    BY <1>2, <1>4, <2>1
  <2>2. ASSUME NEW f \in stored, Source!Found = {f}, f.client = Views[job.view].client,
               took' = Append(took, f)
        PROVE  took' \in Seq(Sent) /\ SourceTakenInv'
    <3> DEFINE n == Len(took)
    <3>1. f \in Sent
      BY <1>1 DEF SourceTypeInv
    <3>2. /\ took' \in Seq(Sent) /\ n \in Nat /\ DOMAIN took = 1 .. n
          /\ DOMAIN took' = 1 .. n + 1 /\ took'[n + 1] = f
          /\ \A i \in 1 .. n : took'[i] = took[i]
      BY <1>2, <2>2, <3>1
    <3> HIDE DEF n
    <3>3. TakenAfter(job.view, f)
      <4>1. r = Source!Selected(f, TRUE) \/ r.kind \in {"Waiting", "HandoffError"}
        BY <2>2
      <4>2. job'.step = "None" \/ job.view < job'.view
        BY <1>6, <1>7
      <4> HIDE DEF Source!Selected
      <4> QED
        BY <1>3, <2>2, <4>1, <4>2 DEF TakenAfter, Source!Idle
    <3>4. ASSUME NEW i \in DOMAIN took', i # n + 1
          PROVE  i \in DOMAIN took /\ took'[i] = took[i]
      BY <3>2, <3>4
    <3>5. \A i \in DOMAIN took' : \E v \in DOMAIN Views : TakenAfter(v, took'[i])
      BY <1>2, <1>4, <3>2, <3>3, <3>4
    <3>6. ASSUME NEW i \in DOMAIN took PROVE took[i].client # f.client
      <4>1. PICK v \in DOMAIN Views : v < job.view /\ took[i].client = Views[v].client
        BY <1>4 DEF TakenFor
      <4>2. v # job.view
        BY <1>7, <4>1
      <4> QED
        BY <1>2, <2>2, <4>1, <4>2 DEF OneViewPerClient
    <3>7. \A i, k \in DOMAIN took : took[i].client = took[k].client => i = k
      BY <1>1 DEF SourceTakenInv
    <3>8. ASSUME NEW i \in DOMAIN took', NEW k \in DOMAIN took',
                 took'[i].client = took'[k].client
          PROVE  i = k
      <4>1. CASE i = n + 1
        BY <3>2, <3>4, <3>6, <3>8, <4>1
      <4>2. CASE k = n + 1
        BY <3>2, <3>4, <3>6, <3>8, <4>2
      <4>3. CASE i # n + 1 /\ k # n + 1
        <5>1. took'[i] = took[i] /\ took'[k] = took[k]
              /\ i \in DOMAIN took /\ k \in DOMAIN took
          BY <3>4, <4>3
        <5> QED
          BY <3>7, <3>8, <5>1
      <4> QED
        BY <4>1, <4>2, <4>3
    <3>9. (\A i \in DOMAIN took : \E v \in DOMAIN Views : TakenFor(v, took[i]))'
      BY <3>5 DEF TakenAfter, TakenFor, Source!Selected
    <3>10. ~Source!Idle' => job'.op # "ConsumeOldest" /\ job'.step # "Preview"
      BY <1>6 DEF Source!Idle, Source!IsPair
    <3> QED
      BY <1>2, <1>6, <3>2, <3>8, <3>9, <3>10 DEF SourceTakenInv
  <2> QED
    BY <1>5, <2>1, <2>2
<1>9. DroppedInv'
  <2>1. (\A i \in DOMAIN shed :
           shed[i] \in stored /\ Source!Adjusted(shed[i]) + MaxLate < job.target)'
    BY <1>1, <1>6 DEF DroppedInv, Source!Adjusted, Source!apply_offset
  <2>2. \A c \in Clients : \A j \in DOMAIN queues'[c] : queues'[c][j] \notin Source!Range(shed)
    BY <1>1, <1>5 DEF DroppedInv
  <2>3. ~(job'.managed /\ job'.step = "Look" /\ job'.op # "MutateLate")
    BY <1>1, <1>6 DEF SourceJobInv
  <2> QED
    BY <2>1, <2>2, <2>3 DEF DroppedInv
<1>10. SourceTypeInv'
  BY <1>1, <1>3, <1>5, <1>8 DEF SourceTypeInv
<1> QED
  BY <1>3, <1>5, <1>8, <1>9, <1>10 DEF SourceInv

\* In process, what a take finds is what the look found.
LEMMA TakeStands ==
  ASSUME Source!TargetTimeAssumption, ScopeKeysDiffer, OneViewPerClient, SourceInv, StandingInv,
         job.step = "Take", Source!Dequeue, stored' = stored,
         NEW r, r = Source!result_for_candidate(Source!Found, TRUE), Source!Answer(r)
  PROVE  StandingInv'
<1>1. /\ SourceTypeInv /\ QueuedInv /\ SourceJobInv /\ SourceTakenInv
      /\ job \in SourceJobs /\ answers \in [DOMAIN Views -> SourceResults] /\ took \in Seq(Sent)
  BY DEF SourceInv, SourceTypeInv
<1>2. /\ job.op \in {"ConsumeOldest", "ConsumePair"} /\ job.op # "MutateLate" /\ ~Source!Idle
      /\ job.view \in DOMAIN Views /\ DOMAIN Views = 1 .. Len(Views) /\ Len(Views) \in Nat
  BY <1>1, ViewTypes DEF SourceJobInv, Source!Idle, SourceJobs
<1>3. HeadEligible(job.view) /\ Source!Found = Oldest(job.view)
  BY <1>2, FoundIsReportable DEF StandingInv
<1>4. /\ \A c \in Clients : c # Views[job.view].client => queues'[c] = queues[c]
      /\ \/ Source!Found = {} /\ took' = took
         \/ \E f \in stored : /\ Source!Found = {f} /\ f.client = Views[job.view].client
                               /\ took' = Append(took, f)
  BY DequeueRemoves
<1>5. PICK f \in stored : /\ Source!Found = {f} /\ f.client = Views[job.view].client
                           /\ took' = Append(took, f)
  BY <1>3, <1>4 DEF HeadEligible
<1>6. Source!Adjusted(f) <= job.target
  BY <1>3, <1>5 DEF HeadEligible
<1>7. r = Source!Selected(f, TRUE)
  <2>1. (CHOOSE x \in Source!Found : TRUE) = f /\ Source!Found # {}
    BY <1>5
  <2> QED
    BY <1>6, <2>1 DEF Source!result_for_candidate
<1>8. /\ answers'[job.view] = r
      /\ \A v \in DOMAIN Views : v # job.view => answers'[v] = answers[v]
  BY <1>1, <1>2 DEF Source!Answer
<1>9. /\ job'.op = job.op /\ job'.target = job.target
      /\ \/ job'.step = "None" /\ (Source!IsPair(job.op) => job.view = Len(Views))
         \/ /\ Source!IsPair(job.op) /\ job.view < Len(Views) /\ job'.view = job.view + 1
            /\ job'.step = "Look"
  BY <1>1, AdvanceCases DEF Source!Answer
<1> DEFINE n == Len(took)
<1>10. /\ n \in Nat /\ DOMAIN took = 1 .. n /\ DOMAIN took' = 1 .. n + 1
       /\ took'[n + 1] = f /\ \A i \in 1 .. n : took'[i] = took[i]
  <2>1. f \in Sent
    BY <1>1 DEF SourceTypeInv
  <2> QED
    BY <1>1, <1>5, <2>1
<1> HIDE DEF n
<1>11. ASSUME NEW i \in DOMAIN took'
       PROVE  /\ Source!Adjusted(took'[i]) <= job.target
              /\ \E v \in DOMAIN Views :
                   answers'[v] = Source!Selected(took'[i], TRUE) /\ (~Source!Idle' => v < job'.view)
  <2>1. CASE i = n + 1
    <3>1. ~Source!Idle' => job.view < job'.view
      BY <1>2, <1>9 DEF Source!Idle
    <3>2. took'[i] = f /\ answers'[job.view] = Source!Selected(f, TRUE)
      BY <1>7, <1>8, <1>10, <2>1
    <3> QED
      BY <1>2, <1>6, <3>1, <3>2
  <2>2. CASE i # n + 1
    <3>1. i \in DOMAIN took /\ took'[i] = took[i]
      BY <1>10, <2>2
    <3>2. Source!Adjusted(took[i]) <= job.target
      BY <3>1 DEF StandingInv
    <3>3. PICK v \in DOMAIN Views : answers[v] = Source!Selected(took[i], TRUE) /\ v < job.view
      BY <1>2, <3>1 DEF StandingInv
    <3>4. v # job.view
      BY <1>2, <3>3
    <3>5. answers'[v] = answers[v]
      BY <1>8, <3>4
    <3>6. ~Source!Idle' => v < job'.view
      BY <1>2, <1>9, <3>3 DEF Source!Idle
    <3> QED
      BY <3>1, <3>2, <3>3, <3>5, <3>6
  <2> QED
    BY <2>1, <2>2
<1>12. ASSUME NEW v \in DOMAIN Views, v # job.view, HeadEligible(v) PROVE HeadEligible(v)'
  <2>1. Views[v].client \in Clients /\ Views[v].client # Views[job.view].client
    BY <1>2, <1>12, ViewTypes DEF OneViewPerClient
  <2>2. Oldest(v)' = Oldest(v)
    BY <1>4, <2>1, OldestStands
  <2> QED
    BY <1>9, <1>12, <2>2 DEF HeadEligible, Source!Adjusted, Source!apply_offset
<1>13. SourcePairInv'
  <2> SUFFICES ASSUME job.op = "ConsumePair" PROVE SourcePairInv'
    BY <1>9 DEF SourcePairInv
  <2>1. \A v \in DOMAIN Views :
          /\ v >= job.view => HeadEligible(v)
          /\ v < job.view => \E i \in DOMAIN took : took[i].client = Views[v].client
    BY DEF StandingInv, SourcePairInv
  <2>2. \A v \in DOMAIN Views :
          v <= job.view => \E i \in DOMAIN took' : took'[i].client = Views[v].client
    <3> SUFFICES ASSUME NEW v \in DOMAIN Views, v <= job.view
                 PROVE  \E i \in DOMAIN took' : took'[i].client = Views[v].client
      OBVIOUS
    <3>1. CASE v = job.view
      <4>1. n + 1 \in DOMAIN took' /\ took'[n + 1] = f
        BY <1>10
      <4> QED
        BY <1>5, <3>1, <4>1
    <3>2. CASE v # job.view
      <4>1. PICK i \in DOMAIN took : took[i].client = Views[v].client
        BY <1>2, <2>1, <3>2
      <4>2. i \in DOMAIN took' /\ took'[i] = took[i]
        BY <1>10
      <4> QED
        BY <4>1, <4>2
    <3> QED
      BY <3>1, <3>2
  <2>3. CASE job'.step = "None" /\ job.view = Len(Views)
    <3>1. \A v \in DOMAIN Views : \E i \in DOMAIN took' : took'[i].client = Views[v].client
      BY <1>2, <2>2, <2>3
    <3> QED
      BY <2>3, <3>1 DEF SourcePairInv
  <2>4. CASE job'.view = job.view + 1 /\ job'.step = "Look"
    <3>1. ASSUME NEW v \in DOMAIN Views, v >= job.view + 1 PROVE HeadEligible(v)'
      <4>1. v # job.view /\ v >= job.view
        BY <1>2, <3>1
      <4> QED
        BY <1>12, <2>1, <4>1
    <3>2. ASSUME NEW v \in DOMAIN Views, v < job.view + 1
          PROVE  \E i \in DOMAIN took' : took'[i].client = Views[v].client
      <4>1. v <= job.view
        BY <1>2, <3>2
      <4> QED
        BY <2>2, <4>1
    <3> QED
      BY <2>4, <3>1, <3>2 DEF SourcePairInv
  <2> QED
    BY <1>9, <2>3, <2>4 DEF Source!IsPair
<1>14. job'.step # "Take"
  BY <1>9
<1> QED
  BY <1>9, <1>11, <1>13, <1>14 DEF StandingInv, Source!Adjusted, Source!apply_offset,
      Source!Selected

LEMMA TakeStep ==
  ASSUME Source!TargetTimeAssumption, ScopeKeysDiffer, OneViewPerClient, SourceInv, Source!Take
  PROVE  SourceInv' /\ (StandingInv => StandingInv')
<1> DEFINE r == Source!result_for_candidate(Source!Found, TRUE)
<1>1. job.step = "Take" /\ Source!Dequeue /\ Source!Answer(r) /\ stored' = stored /\ shed' = shed
  BY DEF Source!Take
<1>2. ~Source!Idle /\ job.op # "MutateLate"
  BY <1>1 DEF SourceInv, SourceJobInv, Source!Idle
<1>3. /\ Source!Found \in SUBSET Sent /\ \A f, g \in Source!Found : f = g
      /\ GoodAnswer(r)
  BY <1>2, FoundIsReportable
<1>4. \A f \in Source!Found : r = Source!Selected(f, TRUE) \/ r.kind = "Waiting"
  BY <1>3, CandidateResult
<1> HIDE DEF r
<1>5. SourceInv'
  <2>1. \A f \in Source!Found : r = Source!Selected(f, TRUE) \/ r.kind \in {"Waiting", "HandoffError"}
    BY <1>4
  <2> QED
    BY <1>1, <1>3, <2>1, TakeAnswers
<1>6. StandingInv => StandingInv'
  BY <1>1, TakeStands DEF r
<1> QED
  BY <1>5, <1>6

LEMMA ReplyLostStep ==
  ASSUME Source!TargetTimeAssumption, ScopeKeysDiffer, OneViewPerClient, SourceInv, Source!ReplyLost
  PROVE  SourceInv' /\ OverHandoff
<1>1. Source!HandoffError.kind = "HandoffError"
  BY DEF Source!HandoffError, Source!NoResult
<1> QED
  BY <1>1, SourceErrorIsGood, TakeAnswers DEF Source!ReplyLost

\* The bound below which a frame is late, without the saturation.
LEMMA LateThreshold ==
  ASSUME Source!TargetTimeAssumption, job \in SourceJobs, NEW f \in Sent
  PROVE  Source!Adjusted(f) < Source!late_threshold(job.target) <=> Source!Adjusted(f) + MaxLate < job.target
<1>1. Source!Adjusted(f) \in Nat
  BY FrameTypes
<1>2. job.target \in Nat /\ MaxLate \in Nat
  BY TargetIsATime
<1> HIDE DEF Source!Adjusted
<1> QED
  BY <1>1, <1>2 DEF Source!late_threshold, Source!SaturatingSub

LEMMA DropLateStep ==
  ASSUME Source!TargetTimeAssumption, SourceInv, Source!DropLate
  PROVE  SourceInv' /\ (StandingInv => StandingInv')
<1>1. SourceTypeInv /\ QueuedInv /\ SourceJobInv /\ SourceResultInv /\ SourceTakenInv /\ DroppedInv
  BY DEF SourceInv
<1>2. /\ job.step = "Look" /\ job.op = "MutateLate" /\ job \in SourceJobs
      /\ job.view \in DOMAIN Views
      /\ stored' = stored /\ job' = job /\ answers' = answers /\ took' = took
      /\ Source!pop_front_for_client_run(Views[job.view].client, Views[job.view].run)
  BY <1>1 DEF Source!DropLate, SourceJobInv, Source!Idle, SourceTypeInv, SourceJobs
<1>3. Source!Found = Oldest(job.view)
  BY <1>2 DEF Source!Found, Source!queue_read_mode, Oldest
<1>4. PICK f \in Source!Found : Source!Adjusted(f) < Source!late_threshold(job.target) /\ shed' = Append(shed, f)
  BY DEF Source!DropLate
<1>5. PICK g \in stored :
        /\ Oldest(job.view) = {g} /\ Source!QueueTypeOK' /\ QueuedInv'
        /\ g.client = Views[job.view].client
        /\ \A c \in Clients : \A j \in DOMAIN queues'[c] :
             queues'[c][j] # g /\ \E i \in DOMAIN queues[c] : queues'[c][j] = queues[c][i]
        /\ \A c \in Clients : c # Views[job.view].client => queues'[c] = queues[c]
  BY <1>1, <1>2, PopTakesTheOldest DEF SourceTypeInv
<1>6. f = g /\ f \in Sent
  BY <1>1, <1>3, <1>4, <1>5 DEF SourceTypeInv
<1>7. Source!Adjusted(f) + MaxLate < job.target
  BY <1>2, <1>4, <1>6, LateThreshold
<1> DEFINE n == Len(shed)
<1>8. /\ shed' \in Seq(Sent) /\ n \in Nat /\ DOMAIN shed = 1 .. n
      /\ DOMAIN shed' = 1 .. n + 1
      /\ shed'[n + 1] = f /\ \A i \in 1 .. n : shed'[i] = shed[i]
  <2>1. shed \in Seq(Sent)
    BY <1>1 DEF SourceTypeInv
  <2> QED
    BY <1>4, <1>6, <2>1
<1> HIDE DEF n
<1>9. \A i \in DOMAIN shed' : shed'[i] = f \/ \E k \in DOMAIN shed : shed'[i] = shed[k]
  <2> SUFFICES ASSUME NEW i \in DOMAIN shed', i # n + 1
               PROVE  \E k \in DOMAIN shed : shed'[i] = shed[k]
    BY <1>8
  <2>1. i \in DOMAIN shed /\ shed'[i] = shed[i]
    BY <1>8
  <2> QED
    BY <2>1
<1>10. SourceTypeInv'
  BY <1>1, <1>2, <1>5, <1>8 DEF SourceTypeInv
<1>11. SourceJobInv' /\ SourceTakenInv'
  BY <1>1, <1>2 DEF SourceJobInv, SourceTakenInv, TakenFor, Source!Selected, Source!Idle
<1>12. SourceResultInv'
  <2>1. \A v \in DOMAIN Views : answers'[v] = Source!NoResult
    BY <1>1, <1>2 DEF SourceResultInv
  <2>2. Source!NoResult.frames = {}
    BY DEF Source!NoResult
  <2> QED
    BY <2>1, <2>2 DEF SourceResultInv, Source!NoResult
<1>13. DroppedInv'
  <2>1. \A i \in DOMAIN shed' :
          shed'[i] \in stored /\ Source!Adjusted(shed'[i]) + MaxLate < job.target
    <3> HIDE DEF Source!Adjusted
    <3> QED
      BY <1>1, <1>5, <1>6, <1>7, <1>9 DEF DroppedInv
  <2>2. (\A i \in DOMAIN shed :
           shed[i] \in stored /\ Source!Adjusted(shed[i]) + MaxLate < job.target)'
    BY <1>2, <2>1 DEF Source!Adjusted, Source!apply_offset
  <2>3. \A c \in Clients : \A j \in DOMAIN queues'[c] : queues'[c][j] \notin Source!Range(shed')
    <3> SUFFICES ASSUME NEW c \in Clients, NEW j \in DOMAIN queues'[c],
                        NEW i \in DOMAIN shed', queues'[c][j] = shed'[i]
                 PROVE  FALSE
      BY DEF Source!Range
    <3>1. PICK k \in DOMAIN queues[c] : queues'[c][j] = queues[c][k]
      BY <1>5
    <3>2. PICK m \in DOMAIN shed : shed'[i] = shed[m]
      BY <1>5, <1>6, <1>9
    <3> QED
      BY <1>1, <3>1, <3>2 DEF DroppedInv, Source!Range
  <2> QED
    BY <1>2, <2>2, <2>3 DEF DroppedInv
<1>14. StandingInv => StandingInv'
  BY <1>2 DEF StandingInv, SourcePairInv, Source!Adjusted, Source!apply_offset,
      Source!Selected, Source!Idle
<1> QED
  BY <1>5, <1>10, <1>11, <1>12, <1>13, <1>14 DEF SourceInv

LEMMA KeepHeadStep ==
  ASSUME Source!TargetTimeAssumption, SourceInv, Source!KeepHead
  PROVE  SourceInv' /\ (StandingInv => StandingInv')
<1>1. SourceTypeInv /\ QueuedInv /\ SourceJobInv /\ SourceResultInv /\ SourceTakenInv /\ DroppedInv
  BY DEF SourceInv
<1>2. /\ job.step = "Look" /\ job.op = "MutateLate" /\ job \in SourceJobs /\ job.managed
      /\ job.view \in DOMAIN Views
      /\ queues' = queues /\ retained' = retained /\ stored' = stored
      /\ answers' = answers /\ took' = took /\ shed' = shed
  BY <1>1 DEF Source!KeepHead, SourceJobInv, Source!Idle, SourceTypeInv, SourceJobs,
      Source!queueVars
<1>3. Source!Found = Oldest(job.view)
  BY <1>2 DEF Source!Found, Source!queue_read_mode, Oldest
<1>4. \A f \in Source!Found : Source!Adjusted(f) >= Source!late_threshold(job.target)
  BY DEF Source!KeepHead
<1>5. /\ job' \in SourceJobs /\ job'.target = job.target /\ job'.view = job.view
      /\ job'.managed = job.managed
      /\ \/ job'.step = "None" /\ job'.op = "MutateLate"
         \/ job'.step = "Look" /\ job'.op \in Source!SingleOps
  <2>1. CASE job' = Source!Finished
    BY <1>2, <2>1 DEF Source!Finished, SourceJobs
  <2>2. ASSUME NEW op \in Source!SingleOps, job' = [job EXCEPT !.op = op]
        PROVE  /\ job' \in SourceJobs /\ job'.target = job.target /\ job'.view = job.view
               /\ job'.managed = job.managed
               /\ job'.step = "Look" /\ job'.op \in Source!SingleOps
    BY <1>2, <2>2 DEF SourceJobs, Source!Ops
  <2> QED
    BY <2>1, <2>2 DEF Source!KeepHead
<1>6. took = <<>> /\ \A v \in DOMAIN Views : answers[v] = Source!NoResult
  BY <1>1, <1>2 DEF SourceTakenInv, SourceResultInv
<1>7. SourceTypeInv' /\ QueuedInv'
  BY <1>1, <1>2, <1>5 DEF SourceTypeInv, Source!QueueTypeOK, QueuedInv
<1>8. SourceJobInv'
  BY <1>1, <1>2, <1>5 DEF SourceJobInv, Source!IsPair, Source!SingleOps
<1>9. SourceResultInv'
  <2>1. Source!NoResult.frames = {}
    BY DEF Source!NoResult
  <2> QED
    BY <1>2, <1>6, <2>1 DEF SourceResultInv, Source!NoResult
<1>10. SourceTakenInv'
  BY <1>2, <1>6 DEF SourceTakenInv
<1>11. DroppedInv'
  <2>1. \A f \in Oldest(job.view) : Source!Adjusted(f) + MaxLate >= job.target
    <3> SUFFICES ASSUME NEW f \in Oldest(job.view)
                 PROVE  Source!Adjusted(f) + MaxLate >= job.target
      OBVIOUS
    <3>1. f \in Sent
      <4>1. PICK i \in Source!frames_for_client_run(Views[job.view].client, Views[job.view].run) :
              f = queues[Views[job.view].client][i]
        BY DEF Oldest, Source!read, Source!FirstOf
      <4>2. Views[job.view].client \in Clients
        BY <1>2, ViewTypes
      <4>3. i \in DOMAIN queues[Views[job.view].client]
        BY <1>1, <4>1, <4>2 DEF Source!frames_for_client_run, SourceTypeInv,
            Source!QueueTypeOK
      <4> QED
        BY <1>1, <4>1, <4>2, <4>3 DEF QueuedInv, SourceTypeInv
    <3>2. Source!Adjusted(f) \in Nat /\ job.target \in Nat /\ MaxLate \in Nat
      BY <1>2, <3>1, FrameTypes, TargetIsATime
    <3>3. Source!late_threshold(job.target) \in Nat
      BY <3>2 DEF Source!late_threshold, Source!SaturatingSub
    <3>4. ~(Source!Adjusted(f) + MaxLate < job.target)
      BY <1>2, <1>3, <1>4, <3>1, <3>2, <3>3, LateThreshold
    <3> QED
      BY <3>2, <3>4
  <2>2. Oldest(job.view)' = Oldest(job.view)
    BY <1>2, <1>5, OldestStands DEF Oldest, Source!read, Source!FirstOf,
        Source!frames_for_client_run
  <2>3. (\A f \in Oldest(job.view) : Source!Adjusted(f) + MaxLate >= job.target)'
    BY <1>5, <2>1, <2>2 DEF Source!Adjusted, Source!apply_offset
  <2> QED
    BY <1>1, <1>2, <1>5, <2>3 DEF DroppedInv, Source!Adjusted, Source!apply_offset
<1>12. StandingInv'
  <2>1. job'.step # "Take" /\ job'.op # "ConsumePair"
    BY <1>5 DEF Source!SingleOps
  <2> QED
    BY <1>2, <1>6, <2>1 DEF StandingInv, SourcePairInv
<1> QED
  BY <1>7, <1>8, <1>9, <1>10, <1>11, <1>12 DEF SourceInv

-----------------------------------------------------------------------------
LEMMA SourceInvStep ==
  ASSUME Source!TargetTimeAssumption, ScopeKeysDiffer, OneViewPerClient, SourceInv, [Source!Next]_(Source!vars)
  PROVE  SourceInv' /\ (~OverHandoff /\ StandingInv => StandingInv')
<1>1. CASE UNCHANGED Source!vars
  <2>1. /\ queues' = queues /\ retained' = retained /\ stored' = stored /\ job' = job
        /\ answers' = answers /\ took' = took /\ shed' = shed
    BY <1>1 DEF Source!vars, Source!jobVars, Source!queueVars
  <2>2. SourceTypeInv' /\ QueuedInv' /\ SourceJobInv'
    BY <2>1 DEF SourceInv, SourceTypeInv, Source!QueueTypeOK, QueuedInv, SourceJobInv
  <2>3. SourceResultInv' /\ SourceTakenInv'
    BY <2>1 DEF SourceInv, SourceResultInv, Reportable, SourceTakenInv, TakenFor, Source!Selected, Source!Idle,
                Source!Adjusted, Source!apply_offset
  <2>4. \A v : Oldest(v)' = Oldest(v)
    BY <2>1 DEF Oldest, Source!read, Source!FirstOf, Source!frames_for_client_run
  <2>5. DroppedInv'
    BY <2>1, <2>4 DEF SourceInv, DroppedInv, Source!Adjusted, Source!apply_offset, Oldest, Source!read, Source!FirstOf,
                      Source!frames_for_client_run
  <2>6. \A v \in DOMAIN Views : HeadEligible(v)' <=> HeadEligible(v)
    BY <2>1, OldestStands DEF HeadEligible, Source!Adjusted, Source!apply_offset
  <2>7. StandingInv => StandingInv'
    <3> SUFFICES ASSUME StandingInv PROVE StandingInv'
      OBVIOUS
    <3>1. SourcePairInv'
      BY <2>1, <2>6 DEF StandingInv, SourcePairInv
    <3>2. job.view \in DOMAIN Views
      BY DEF SourceInv, SourceTypeInv, SourceJobs
    <3>3. (job.step = "Take" => HeadEligible(job.view))'
      BY <2>1, <2>6, <3>2 DEF StandingInv
    <3> QED
      BY <2>1, <3>1, <3>3 DEF StandingInv, Source!Selected, Source!Idle, Source!Adjusted,
          Source!apply_offset
  <2> QED
    BY <2>2, <2>3, <2>5, <2>7 DEF SourceInv
<1>2. CASE Source!Next
  <2>1. ASSUME NEW f \in Sent, Source!StoreFrame(f)
        PROVE  SourceInv' /\ (~OverHandoff /\ StandingInv => StandingInv')
    BY <2>1, StoreStep
  <2>2. ASSUME NEW op \in Source!Ops, NEW t \in Targets, NEW v \in DOMAIN Views, Source!Select(op, t, v)
        PROVE  SourceInv' /\ (~OverHandoff /\ StandingInv => StandingInv')
    BY <2>2, SelectStep
  <2>3. CASE Source!Look
    BY <2>3, LookStep
  <2>4. CASE Source!Take
    BY <2>4, TakeStep
  <2>5. CASE Source!RequestFails
    BY <2>5, RequestFailsStep
  <2>6. CASE Source!ReplyLost
    BY <2>6, ReplyLostStep
  <2>7. CASE Source!DropLate
    BY <2>7, DropLateStep
  <2>8. CASE Source!KeepHead
    BY <2>8, KeepHeadStep
  <2> QED
    BY <1>2, <2>1, <2>2, <2>3, <2>4, <2>5, <2>6, <2>7, <2>8 DEF Source!Next
<1> QED
  BY <1>1, <1>2

LEMMA SourceInvariant ==
  ASSUME Source!TargetTimeAssumption, ScopeKeysDiffer, OneViewPerClient
  PROVE  Source!Spec => [](SourceInv /\ (~OverHandoff => StandingInv))
<1>1. Source!Init => SourceInv /\ (~OverHandoff => StandingInv)
  BY SourceInvInit
<1>2. (SourceInv /\ (~OverHandoff => StandingInv)) /\ [Source!Next]_(Source!vars)
        => (SourceInv /\ (~OverHandoff => StandingInv))'
  BY SourceInvStep
<1> QED
  BY <1>1, <1>2, PTL DEF Source!Spec

\* On the server's clock, no eligible frame is newer than the target: the
\* saturation at zero changes nothing.
LEMMA EligibleMeansNotNewer ==
  ASSUME Source!TargetTimeAssumption, job \in SourceJobs, NEW f \in Sent
  PROVE  Source!Adjusted(f) <= job.target <=> f.stamp + ClockOffsets[f.client] <= job.target
<1>1. job.target \in Nat
  BY TargetIsATime
<1>2. f.stamp \in Nat /\ ClockOffsets[f.client] \in Int
  BY FrameTypes
<1> QED
  BY <1>1, <1>2 DEF Source!Adjusted, Source!apply_offset

LEMMA SelectionIsSoundHere ==
  ASSUME Source!TargetTimeAssumption, SourceInv
  PROVE  Source!SelectionInvariant
<1>1. SourceTypeInv /\ QueuedInv /\ SourceJobInv /\ SourceResultInv /\ SourceTakenInv /\ DroppedInv
  BY DEF SourceInv
<1>2. job \in SourceJobs /\ answers \in [DOMAIN Views -> SourceResults] /\ stored \subseteq Sent
      /\ took \in Seq(Sent)
  BY <1>1 DEF SourceTypeInv
<1>3. Source!TargetTimeTypeOK
  <2>1. \A v \in DOMAIN Views : answers[v].frames \subseteq Sent
    BY <1>2 DEF SourceResults
  <2>2. \A i \in DOMAIN took : took[i] \in stored
    BY <1>1 DEF SourceTakenInv, TakenFor
  <2>3. Source!Range(took) \cup Source!Range(shed) \subseteq stored
    BY <1>1, <2>2 DEF DroppedInv, Source!Range
  <2>4. job \in [op : Source!Ops \cup {"None"}, target : Targets \cup {0}, view : DOMAIN Views,
                 step : {"None", "Preview", "Look", "Take"}, managed : BOOLEAN]
    BY <1>2 DEF SourceJobs
  <2> QED
    BY <1>1, <2>1, <2>3, <2>4 DEF Source!TargetTimeTypeOK, SourceTypeInv
<1>4. Source!SelectedIsEligible
  <2> SUFFICES ASSUME NEW v \in DOMAIN Views, NEW f \in answers[v].frames
               PROVE  /\ f.client = Views[v].client /\ f.run = Views[v].run
                      /\ answers[v].kind = "Selected" <=> f.stamp + ClockOffsets[f.client] <= job.target
    BY DEF Source!SelectedIsEligible
  <2>1. Reportable(v, f) /\ (answers[v].kind = "Selected" <=> Source!Adjusted(f) <= job.target)
    BY <1>1 DEF SourceResultInv
  <2>2. f \in Sent
    BY <1>2, <2>1 DEF Reportable
  <2>3. f.client = Views[v].client /\ f.run = Views[v].run
    BY <2>1 DEF Reportable
  <2>4. answers[v].kind = "Selected" <=> f.stamp + ClockOffsets[f.client] <= job.target
    BY <1>2, <2>1, <2>2, EligibleMeansNotNewer
  <2> QED
    BY <2>3, <2>4
<1>5. Source!TakenIsAccountedFor
  <2>1. job.op \notin {"ConsumeOldest", "ConsumePair"} => took = <<>>
    BY <1>1 DEF SourceTakenInv
  <2>2. \A i, k \in DOMAIN took : took[i].client = took[k].client => i = k
    BY <1>1 DEF SourceTakenInv
  <2>3. \A i \in DOMAIN took : \E v \in DOMAIN Views :
          /\ Views[v].client = took[i].client
          /\ answers[v] = Source!Selected(took[i], TRUE) \/ answers[v].kind \in {"Waiting", "HandoffError"}
    BY <1>1 DEF SourceTakenInv, TakenFor
  <2> QED
    BY <2>1, <2>2, <2>3 DEF Source!TakenIsAccountedFor
<1> QED
  BY <1>3, <1>4, <1>5 DEF Source!SelectionInvariant

LEMMA InProcessSelectionHere ==
  ASSUME Source!TargetTimeAssumption, SourceInv, StandingInv
  PROVE  Source!InProcessInvariant
<1>1. SourceTypeInv /\ QueuedInv /\ SourceJobInv /\ SourceResultInv /\ SourceTakenInv /\ DroppedInv
  BY DEF SourceInv
<1>2. job \in SourceJobs /\ took \in Seq(Sent) /\ stored \subseteq Sent
      /\ \A i \in DOMAIN took : took[i] \in Sent
  BY <1>1 DEF SourceTypeInv
<1>3. Source!DequeuesOnlyEligible
  BY <1>2, EligibleMeansNotNewer DEF StandingInv, Source!DequeuesOnlyEligible
<1>4. Source!AllOrNothing
  BY DEF StandingInv, SourcePairInv, Source!AllOrNothing, Source!Idle
<1>5. Source!TakenIsReported
  BY DEF StandingInv, Source!TakenIsReported
<1>6. Source!DropsExactlyTheLateHead
  <2>1. \A i \in DOMAIN shed : Source!Adjusted(shed[i]) + MaxLate < job.target
    BY <1>1 DEF DroppedInv
  <2>2. ASSUME job.managed, job.step = "Look", job.op # "MutateLate"
        PROVE  \A i \in Source!FirstOf(Source!frames_for_client_run(Views[job.view].client, Views[job.view].run)) :
                 Source!Adjusted(queues[Views[job.view].client][i]) + MaxLate >= job.target
    <3>1. \A f \in Oldest(job.view) : Source!Adjusted(f) + MaxLate >= job.target
      BY <1>1, <2>2 DEF DroppedInv
    <3>2. \A i \in Source!FirstOf(Source!frames_for_client_run(Views[job.view].client, Views[job.view].run)) :
            queues[Views[job.view].client][i] \in Oldest(job.view)
      BY DEF Oldest, Source!read
    <3> HIDE DEF Source!Adjusted
    <3> QED
      BY <3>1, <3>2
  <2> QED
    BY <2>1, <2>2 DEF Source!DropsExactlyTheLateHead
<1>7. Source!DroppedStaysDropped
  BY <1>1 DEF SourceResultInv, Reportable, Source!DroppedStaysDropped
<1> QED
  BY <1>3, <1>4, <1>5, <1>6, <1>7, SelectionIsSoundHere DEF Source!InProcessInvariant

\* What is selected belongs to its view and is not newer than the target, and what
\* a selection takes is accounted for, however frames arrive and requests and
\* replies are lost between its reads (result_for_candidate,
\* handoff_consumer_result_for_candidate).
THEOREM SelectionIsSound ==
  ASSUME Source!TargetTimeAssumption, ScopeKeysDiffer, OneViewPerClient
  PROVE  Source!Spec => []Source!SelectionInvariant
BY SourceInvariant, SelectionIsSoundHere, PTL

\* A selection in process takes only what it reports, from both views of a pair or
\* from neither, and drops exactly the late head
\* (SwitcherSingleClientTargetTimeSourceBoundary, consume_oldest_pair_all_selected,
\* mutate_and_select_from_source).
THEOREM InProcessSelectionIsSound ==
  ASSUME Source!TargetTimeAssumption, ScopeKeysDiffer, OneViewPerClient, OverHandoff = FALSE
  PROVE  Source!Spec => []Source!InProcessInvariant
<1>1. ~OverHandoff
  OBVIOUS
<1>2. SourceInv /\ (~OverHandoff => StandingInv) => Source!InProcessInvariant
  BY <1>1, InProcessSelectionHere
<1> QED
  BY <1>2, SourceInvariant, PTL

=============================================================================
