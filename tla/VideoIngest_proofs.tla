------------------------ MODULE VideoIngest_proofs ------------------------
(***************************************************************************)
(* Proofs about the video core for every set of clients, runs, endpoints,  *)
(* tokens and packets, every whitelist and every queue bound: what the     *)
(* video core holds, what a step may do to it, and, in the last part, that *)
(* it implements ScopedFifo.                                               *)
(***************************************************************************)
EXTENDS VideoIngest, WellFoundedInduction, FiniteSetTheorems, TLAPS

---------------------------------------------------------------------------
(***************************************************************************)
(* Packets and sequences.                                                  *)
(***************************************************************************)

\* The type field of a packet tells which kind of packet it is.
LEMMA PacketKinds ==
    ASSUME NEW p \in Packets
    PROVE  /\ p.type = "AuthRequest" => p \in AuthRequest
           /\ p.type = "VideoFrame" => p \in VideoFrame
           /\ p.type = "VideoFrameFragment" => p \in VideoFrameFragment
BY PacketsAssumption
   DEF AuthRequest, VideoFrame, VideoFrameFragment, OtherPacket, StrayPacket

\* Removing an element from the middle of a VecDeque shortens it by one and
\* adds no element.
LEMMA RemoveAtElements ==
    ASSUME NEW S, NEW s \in Seq(S), NEW i \in 1 .. Len(s)
    PROVE  /\ RemoveAt(s, i) \in Seq(S)
           /\ Len(RemoveAt(s, i)) = Len(s) - 1
           /\ \A j \in 1 .. Len(s) - 1 :
                RemoveAt(s, i)[j] = IF j < i THEN s[j] ELSE s[j + 1]
<1> DEFINE a == SubSeq(s, 1, i - 1)
           b == SubSeq(s, i + 1, Len(s))
<1>1. a \in Seq(S) /\ Len(a) = i - 1 /\ \A j \in 1 .. i - 1 : a[j] = s[j]
  OBVIOUS
<1>2. b \in Seq(S) /\ Len(b) = Len(s) - i /\ \A j \in 1 .. Len(s) - i : b[j] = s[i + j]
  OBVIOUS
<1>3. RemoveAt(s, i) = a \o b
  BY DEF RemoveAt
<1> HIDE DEF a, b
<1>4. a \o b \in Seq(S) /\ Len(a \o b) = Len(s) - 1
  <2>0. a \in Seq(S) /\ b \in Seq(S)
    BY <1>1, <1>2
  <2>1. a \o b \in Seq(S) /\ Len(a \o b) = Len(a) + Len(b)
    BY ONLY <2>0
  <2>2. Len(a) + Len(b) = Len(s) - 1
    BY <1>1, <1>2
  <2> QED
    BY <2>1, <2>2
<1>5. ASSUME NEW j \in 1 .. Len(s) - 1
      PROVE  (a \o b)[j] = IF j < i THEN s[j] ELSE s[j + 1]
  <2>1. CASE j < i
    BY <1>1, <1>2, <2>1
  <2>2. CASE ~(j < i)
    <3>1. (a \o b)[j] = b[j - Len(a)]
      BY <1>1, <1>2, <2>2
    <3>2. j - Len(a) \in 1 .. Len(s) - i /\ i + (j - Len(a)) = j + 1
      BY <1>1, <2>2
    <3> QED
      BY <1>2, <3>1, <3>2, <2>2
  <2> QED
    BY <2>1, <2>2
<1> QED
  BY <1>3, <1>4, <1>5

---------------------------------------------------------------------------
(***************************************************************************)
(* Type correctness.                                                       *)
(***************************************************************************)

\* store_frame keeps the types of the queue.
LEMMA StoreFrameType ==
    ASSUME QueueTypeOK, NEW f \in Frame, store_frame(f)
    PROVE  QueueTypeOK'
<1>1. CASE MaxFrames = 0
  BY <1>1 DEF store_frame, QueueTypeOK, queueVars
<1>2. CASE MaxFrames # 0
  <2>0. f.client \in Clients /\ f.run \in Runs
    BY DEF Frame
  <2>1. queue' \in [Clients -> Seq(Frame)]
    <3> DEFINE q == queue[f.client]
    <3>1. q \in Seq(Frame)
      BY <2>0 DEF QueueTypeOK
    <3>2. Len(q) >= MaxFrames => q # << >>
      BY <1>2, <3>1, VideoFrameQueueAssumption
    <3>3. Append(IF Len(q) >= MaxFrames THEN Tail(q) ELSE q, f) \in Seq(Frame)
      BY <3>1, <3>2
    <3> QED
      BY <1>2, <2>0, <3>3 DEF store_frame, QueueTypeOK
  <2>2. DOMAIN retained' \subseteq ScopeKeys
    BY <1>2, <2>0 DEF store_frame, MapInsert, QueueTypeOK, ScopeKeys
  <2>3. retained' \in [DOMAIN retained' -> Frame]
    BY <1>2 DEF store_frame, MapInsert, QueueTypeOK
  <2> QED
    BY <2>1, <2>2, <2>3 DEF QueueTypeOK
<1> QED
  BY <1>1, <1>2

\* pop_front_for_client_run keeps the types of the queue.
LEMMA PopFrontType ==
    ASSUME QueueTypeOK, NEW c \in Clients, NEW r \in Runs, pop_front_for_client_run(c, r)
    PROVE  QueueTypeOK'
<1>1. PICK i \in FirstOf(frames_for_client_run(c, r)) :
        queue' = [queue EXCEPT ![c] = RemoveAt(@, i)] /\ UNCHANGED retained
  BY DEF pop_front_for_client_run
<1>2. queue[c] \in Seq(Frame) /\ i \in 1 .. Len(queue[c])
  BY DEF QueueTypeOK, FirstOf, frames_for_client_run
<1>3. RemoveAt(queue[c], i) \in Seq(Frame)
  BY <1>2, RemoveAtElements
<1> QED
  BY <1>1, <1>3 DEF QueueTypeOK

\* A handoff request keeps the types.
LEMMA HandleRequestType ==
    ASSUME TypeOK, NEW c \in Clients, NEW r \in Runs, NEW mode \in ReadMode,
           handle_request(c, r, mode)
    PROVE  TypeOK'
<1>1. QueueTypeOK'
  BY PopFrontType DEF handle_request, TypeOK, QueueTypeOK, queueVars
<1> QED
  BY <1>1 DEF handle_request, TypeOK, AuthTypeOK, ReassemblyTypeOK, ReassemblyFrameState, authVars

\* An AuthRequest keeps the types of the registry.
LEMMA HandleAuthRequestType ==
    ASSUME AuthTypeOK, NEW p \in AuthRequest, HandleAuthRequest(p)
    PROVE  AuthTypeOK'
<1>1. CASE decide_resolved(p.client, p.token) = "Ok"
  <2>1. registry' = register(p) /\ granted' = granted \cup {p}
    BY <1>1 DEF HandleAuthRequest
  <2>2. registry' \in [DOMAIN registry' -> AuthenticatedSenderEntry]
    BY <2>1 DEF register, MapInsert, AuthTypeOK, AuthRequest, AuthenticatedSenderEntry
  <2>3. DOMAIN registry' \subseteq Clients
    BY <2>1 DEF register, MapInsert, AuthTypeOK, AuthRequest
  <2> QED
    BY <2>1, <2>2, <2>3 DEF AuthTypeOK
<1>2. CASE decide_resolved(p.client, p.token) # "Ok"
  BY <1>2 DEF HandleAuthRequest, AuthTypeOK, authVars
<1> QED
  BY <1>1, <1>2

\* The entry a fragment is applied to is well-formed once the fragment's shape
\* and metadata were checked, and so is the entry with the fragment's chunk.
LEMMA EntryType ==
    ASSUME ReassemblyTypeOK, NEW p \in VideoFrameFragment,
           validate_fragment_shape(p), metadata_matches(EntryFor(p), p)
    PROVE  /\ ReassemblyFrameState(EntryFor(p))
           /\ ReassemblyFrameState(WithChunk(EntryFor(p), p))
           /\ EntryFor(p).count = p.count
<1> DEFINE e == EntryFor(p)
           w == WithChunk(e, p)
<1>1. p.count \in Nat \ {0} /\ p.index \in 0 .. p.count - 1 /\ p.chunk \in Chunk
  BY DEF validate_fragment_shape, VideoFrameFragment
<1>2. ReassemblyFrameState(e)
  <2>1. CASE from_fragment(p) \in DOMAIN reassembly
    BY <2>1 DEF EntryFor, ReassemblyTypeOK
  <2>2. CASE from_fragment(p) \notin DOMAIN reassembly
    BY <1>1, <2>2 DEF EntryFor, ReassemblyFrameState, EmptyMap, VideoFrameFragment
  <2> QED
    BY <2>1, <2>2
<1>3. e.count = p.count
  BY DEF metadata_matches
<1> HIDE DEF e
<1>4. w = [e EXCEPT !.chunks = MapInsert(e.chunks, p.index, p.chunk)]
  BY DEF WithChunk
<1>5. w.chunks = MapInsert(e.chunks, p.index, p.chunk)
  BY <1>2, <1>4 DEF ReassemblyFrameState
<1>6. w \in [stamp : Stamps, key : BOOLEAN, total : Nat, count : Nat \ {0},
             chunks : [DOMAIN w.chunks -> Chunk]] /\ w.count = e.count
  <2>1. w.chunks \in [DOMAIN w.chunks -> Chunk]
    BY <1>1, <1>2, <1>5 DEF MapInsert, ReassemblyFrameState
  <2> QED
    BY <1>2, <1>4, <1>5, <2>1 DEF ReassemblyFrameState
<1>7. DOMAIN w.chunks \subseteq 0 .. w.count - 1
  BY <1>1, <1>2, <1>3, <1>5, <1>6 DEF MapInsert, ReassemblyFrameState
<1>8. ReassemblyFrameState(w)
  BY <1>6, <1>7 DEF ReassemblyFrameState
<1> QED
  BY <1>2, <1>3, <1>8 DEF e

\* What FragmentResult says of a fragment that is not thrown away.
LEMMA KeptFragment ==
    ASSUME NEW p,
           FragmentResult(p) \in
                {"FragmentStored", "ReassembledPayloadLenMismatch", "FrameComplete"}
    PROVE  /\ validate_fragment_shape(p)
           /\ metadata_matches(EntryFor(p), p)
           /\ p.index \notin DOMAIN EntryFor(p).chunks
           /\ FragmentResult(p) = "FragmentStored" =>
                ~is_complete(WithChunk(EntryFor(p), p))
           /\ FragmentResult(p) = "ReassembledPayloadLenMismatch" =>
                payload_len(WithChunk(EntryFor(p), p).chunks) # WithChunk(EntryFor(p), p).total
           /\ FragmentResult(p) = "FrameComplete" => is_complete(WithChunk(EntryFor(p), p))
BY DEF FragmentResult

\* A complete entry makes a frame.
LEMMA ReassembledFrameType ==
    ASSUME ReassemblyTypeOK, NEW p \in VideoFrameFragment, FragmentResult(p) = "FrameComplete"
    PROVE  ReassembledFrame(p) \in Frame
<1> DEFINE w == WithChunk(EntryFor(p), p)
<1>1. ReassemblyFrameState(w) /\ is_complete(w)
  BY KeptFragment, EntryType
<1> HIDE DEF w
<1>2. reassemble_payload(w) \in Seq(Chunk)
  <2>1. \A j \in 1 .. w.count : j - 1 \in DOMAIN w.chunks
    BY <1>1 DEF is_complete, ReassemblyFrameState
  <2>2. reassemble_payload(w) \in [1 .. w.count -> Chunk]
    BY <1>1, <2>1 DEF reassemble_payload, ReassemblyFrameState
  <2>3. w.count \in Nat
    BY <1>1 DEF ReassemblyFrameState
  <2> QED
    BY <2>2, <2>3
<1>3. w.stamp \in Stamps /\ w.key \in BOOLEAN
  BY <1>1 DEF ReassemblyFrameState
<1>4. ReassembledFrame(p) =
        [client |-> p.client, run |-> p.run, id |-> p.id, stamp |-> w.stamp,
         key |-> w.key, source |-> p.source, payload |-> reassemble_payload(w)]
  BY DEF ReassembledFrame, w
<1> QED
  BY <1>2, <1>3, <1>4 DEF VideoFrameFragment, Frame

\* Keeping a chunk or removing an entry keeps the types of the reassembly.
LEMMA ReassemblyStepType ==
    ASSUME ReassemblyTypeOK, NEW p \in VideoFrameFragment,
           apply_fragment_and_queue_if_complete(p)
    PROVE  ReassemblyTypeOK'
<1>0. from_fragment(p) \in Clients \X Runs \X FrameIds
  BY DEF from_fragment, VideoFrameFragment
<1>1. CASE KeepChunk(p)
  <2> DEFINE w == WithChunk(EntryFor(p), p)
  <2>1. ReassemblyFrameState(w)
    BY <1>1, KeptFragment, EntryType DEF KeepChunk
  <2>2. reassembly' = MapInsert(reassembly, from_fragment(p), w)
    BY <1>1 DEF KeepChunk
  <2> HIDE DEF w
  <2>3. \A k \in DOMAIN reassembly' :
           \/ reassembly'[k] = w /\ k = from_fragment(p)
           \/ reassembly'[k] = reassembly[k] /\ k \in DOMAIN reassembly
    BY <2>2 DEF MapInsert
  <2>4. \A k \in DOMAIN reassembly' : ReassemblyFrameState(reassembly'[k])
    BY <2>1, <2>3 DEF ReassemblyTypeOK
  <2>5. DOMAIN reassembly' \subseteq Clients \X Runs \X FrameIds
    BY <1>0, <2>3 DEF ReassemblyTypeOK
  <2> QED
    BY <2>4, <2>5 DEF ReassemblyTypeOK, ReassemblyFrameState
<1>2. CASE CompleteFrame(p)
  <2>1. reassembly' = MapRemove(reassembly, from_fragment(p))
    BY <1>2 DEF CompleteFrame
  <2>2. \A k \in DOMAIN reassembly' :
           k \in DOMAIN reassembly /\ reassembly'[k] = reassembly[k]
    BY <2>1 DEF MapRemove
  <2> QED
    BY <2>2 DEF ReassemblyTypeOK, ReassemblyFrameState
<1>3. CASE IgnoreFragment(p)
  BY <1>3 DEF IgnoreFragment, ReassemblyTypeOK, ReassemblyFrameState
<1> QED
  BY <1>1, <1>2, <1>3 DEF apply_fragment_and_queue_if_complete

\* A fragment keeps the types of the queue.
LEMMA FragmentQueueType ==
    ASSUME QueueTypeOK, ReassemblyTypeOK, NEW p \in VideoFrameFragment,
           apply_fragment_and_queue_if_complete(p)
    PROVE  QueueTypeOK'
<1>1. CASE KeepChunk(p)
  BY <1>1 DEF KeepChunk, QueueTypeOK, queueVars
<1>2. CASE CompleteFrame(p)
  BY <1>2, ReassembledFrameType, StoreFrameType DEF CompleteFrame
<1>3. CASE IgnoreFragment(p)
  BY <1>3 DEF IgnoreFragment, QueueTypeOK, queueVars
<1> QED
  BY <1>1, <1>2, <1>3 DEF apply_fragment_and_queue_if_complete

\* A frame that comes in one packet is a frame.
LEMMA DirectFrameType ==
    ASSUME NEW p \in VideoFrame
    PROVE  DirectFrame(p) \in Frame
BY DEF DirectFrame, VideoFrame, Frame

\* The state behind the mutex that nothing has touched keeps its types.
LEMMA UnchangedType ==
    ASSUME TypeOK, UNCHANGED vars
    PROVE  TypeOK'
BY DEF TypeOK, AuthTypeOK, QueueTypeOK, ReassemblyTypeOK, ReassemblyFrameState, vars

\* Every packet keeps the types.
LEMMA ProcessPacketType ==
    ASSUME TypeOK, NEW p \in Packets, ProcessPacket(p)
    PROVE  TypeOK'
<1>1. CASE ReceiveAuthRequest(p)
  <2>1. AuthTypeOK'
    BY <1>1, PacketKinds, HandleAuthRequestType DEF ReceiveAuthRequest, HandleAuthRequest, TypeOK
  <2> QED
    BY <1>1, <2>1 DEF ReceiveAuthRequest, TypeOK, QueueTypeOK, ReassemblyTypeOK,
                      ReassemblyFrameState, queueVars
<1>2. CASE ReceiveVideoFrame(p)
  <2>1. QueueTypeOK'
    BY <1>2, PacketKinds, DirectFrameType, StoreFrameType DEF ReceiveVideoFrame, TypeOK
  <2> QED
    BY <1>2, <2>1 DEF ReceiveVideoFrame, TypeOK, AuthTypeOK, ReassemblyTypeOK,
                      ReassemblyFrameState, authVars
<1>3. CASE ReceiveVideoFrameFragment(p)
  <2>1. QueueTypeOK' /\ ReassemblyTypeOK'
    BY <1>3, PacketKinds, FragmentQueueType, ReassemblyStepType
       DEF ReceiveVideoFrameFragment, TypeOK
  <2> QED
    BY <1>3, <2>1 DEF ReceiveVideoFrameFragment, TypeOK, AuthTypeOK, authVars
<1>4. CASE ReceiveOther(p) \/ GateOutcome(p) # "Accepted"
  BY <1>4, UnchangedType DEF ReceiveOther, ProcessPacket
<1> QED
  BY <1>1, <1>2, <1>3, <1>4 DEF ProcessPacket

\* The state of the video core has its types in every behaviour: entries of
\* the reassembly in particular hold chunks below their count only, which
\* reassemble_payload indexes by.
THEOREM TypeCorrect == Spec => []TypeOK
<1>1. Init => TypeOK
  BY DEF Init, AuthInit, QueueInit, ReassemblyInit, TypeOK, AuthTypeOK, QueueTypeOK,
         ReassemblyTypeOK, EmptyMap
<1>2. TypeOK /\ [Next]_vars => TypeOK'
  BY ProcessPacketType, HandleRequestType, UnchangedType DEF Next
<1> QED
  BY <1>1, <1>2, PTL DEF Spec

---------------------------------------------------------------------------
(***************************************************************************)
(* What the server holds.  OnlyAuthenticatedVideo and PayloadIsOneCapture  *)
(* speak of frames, but a frame is put together from chunks that waited in *)
(* the reassembly and is let in by the registry, so the inductive          *)
(* invariant speaks of those as well.                                      *)
(***************************************************************************)
Held == QueuedFrames \cup RetainedFrames

\* The registry binds a client_id only to what an accepted AuthRequest asked for.
RegistryGranted ==
    \A c \in DOMAIN registry :
        \E g \in granted :
            /\ g.client = c
            /\ g.run = registry[c].run
            /\ g.source = registry[c].source
            /\ decide_resolved(g.client, g.token) = "Ok"

FrameOK(f) ==
    \A i \in DOMAIN f.payload :
        /\ Authenticated(f.client, f.run, f.payload[i])
        /\ f.payload[i].stamp = f.stamp
        /\ f.payload[i].index = i - 1

EntryOK(k, e) ==
    \A i \in DOMAIN e.chunks :
        /\ Authenticated(k[1], k[2], e.chunks[i])
        /\ e.chunks[i].stamp = e.stamp
        /\ e.chunks[i].index = i

\* The inductive invariant.
HeldInv ==
    /\ TypeOK
    /\ RegistryGranted
    /\ \A f \in Held : FrameOK(f)
    /\ \A k \in DOMAIN reassembly : EntryOK(k, reassembly[k])

\* store_frame adds no other frame than the one it is given.
LEMMA StoreFrameHolds ==
    ASSUME QueueTypeOK, NEW f \in Frame, store_frame(f)
    PROVE  Held' \subseteq Held \cup {f}
<1>0. f.client \in Clients
  BY DEF Frame
<1>1. CASE MaxFrames = 0
  BY <1>1 DEF store_frame, queueVars, Held, QueuedFrames, RetainedFrames
<1>2. CASE MaxFrames # 0
  <2>1. RetainedFrames' \subseteq RetainedFrames \cup {f}
    BY <1>2 DEF store_frame, MapInsert, RetainedFrames
  <2>2. ASSUME NEW c \in Clients, NEW i \in 1 .. Len(queue'[c])
        PROVE  queue'[c][i] \in QueuedFrames \cup {f}
    <3> DEFINE q == queue[c]
    <3>1. q \in Seq(Frame)
      BY DEF QueueTypeOK
    <3>2. CASE c # f.client
      BY <1>0, <1>2, <3>2 DEF store_frame, QueueTypeOK, QueuedFrames
    <3>3. CASE c = f.client
      <4>1. queue'[c] = Append(IF Len(q) >= MaxFrames THEN Tail(q) ELSE q, f)
        BY <1>2, <3>3 DEF store_frame, QueueTypeOK
      <4>2. \A j \in 1 .. Len(q) : q[j] \in QueuedFrames
        BY DEF QueuedFrames
      <4>3. CASE Len(q) >= MaxFrames
        <5>1. q # << >>
          BY <1>2, <3>1, <4>3, VideoFrameQueueAssumption
        <5>2. Len(Tail(q)) = Len(q) - 1 /\ \A j \in 1 .. Len(q) - 1 : Tail(q)[j] = q[j + 1]
          BY <3>1, <5>1
        <5>3. queue'[c] = Append(Tail(q), f) /\ Tail(q) \in Seq(Frame)
          BY <3>1, <4>1, <4>3, <5>1
        <5>4. i <= Len(q) - 1 => queue'[c][i] = q[i + 1]
          BY <3>1, <5>2, <5>3
        <5>5. ~(i <= Len(q) - 1) => queue'[c][i] = f
          BY <3>1, <5>2, <5>3
        <5> QED
          BY <3>1, <4>2, <5>4, <5>5
      <4>4. CASE ~(Len(q) >= MaxFrames)
        <5>1. queue'[c] = Append(q, f)
          BY <4>1, <4>4
        <5>2. i <= Len(q) => queue'[c][i] = q[i]
          BY <3>1, <5>1
        <5>3. ~(i <= Len(q)) => queue'[c][i] = f
          BY <3>1, <5>1
        <5> QED
          BY <3>1, <4>2, <5>2, <5>3
      <4> QED
        BY <4>3, <4>4
    <3> QED
      BY <3>2, <3>3
  <2>3. QueuedFrames' \subseteq QueuedFrames \cup {f}
    BY <2>2 DEF QueuedFrames
  <2> QED
    BY <2>1, <2>3 DEF Held
<1> QED
  BY <1>1, <1>2

\* A dequeue adds nothing.
LEMMA PopFrontHolds ==
    ASSUME QueueTypeOK, NEW c \in Clients, NEW r \in Runs, pop_front_for_client_run(c, r)
    PROVE  Held' \subseteq Held
<1>1. PICK i \in FirstOf(frames_for_client_run(c, r)) :
        queue' = [queue EXCEPT ![c] = RemoveAt(@, i)] /\ UNCHANGED retained
  BY DEF pop_front_for_client_run
<1>2. queue[c] \in Seq(Frame) /\ i \in 1 .. Len(queue[c])
  BY DEF QueueTypeOK, FirstOf, frames_for_client_run
<1>3. ASSUME NEW d \in Clients, NEW j \in 1 .. Len(queue'[d])
      PROVE  queue'[d][j] \in QueuedFrames
  <2>1. CASE d # c
    BY <1>1, <2>1 DEF QueueTypeOK, QueuedFrames
  <2>2. CASE d = c
    <3>1. queue'[d] = RemoveAt(queue[c], i)
      BY <1>1, <2>2 DEF QueueTypeOK
    <3>2. j \in 1 .. Len(queue[c]) - 1
      BY <1>2, <3>1, RemoveAtElements
    <3>3. queue'[d][j] = IF j < i THEN queue[c][j] ELSE queue[c][j + 1]
      BY <1>2, <3>1, <3>2, RemoveAtElements
    <3>4. j \in 1 .. Len(queue[c]) /\ j + 1 \in 1 .. Len(queue[c])
      BY <1>2, <3>2
    <3> QED
      BY <3>3, <3>4 DEF QueuedFrames
  <2> QED
    BY <2>1, <2>2
<1>4. QueuedFrames' \subseteq QueuedFrames
  BY <1>3 DEF QueuedFrames
<1>5. RetainedFrames' = RetainedFrames
  BY <1>1 DEF RetainedFrames
<1> QED
  BY <1>4, <1>5 DEF Held

\* What the gate lets through comes from the endpoint and the run of an
\* accepted AuthRequest.
LEMMA GateAuthenticates ==
    ASSUME RegistryGranted, NEW p \in Packets, p.type \in MediaTypes,
           GateOutcome(p) = "Accepted"
    PROVE  /\ p.client \in DOMAIN registry
           /\ registry[p.client].source = p.source
           /\ registry[p.client].run = p.run
           /\ Authenticated(p.client, p.run, p.chunk)
<1>1. evaluate_client_packet(p) = "Accepted"
  BY DEF GateOutcome, MediaTypes
<1>2. /\ p.client \in DOMAIN registry
      /\ registry[p.client].source = p.source
      /\ registry[p.client].run = p.run
  BY <1>1 DEF evaluate_client_packet
<1>3. p.chunk.source = p.source
  BY PacketsAssumption
<1> QED
  BY <1>2, <1>3 DEF RegistryGranted, Authenticated

\* Accepted requests are never forgotten, so what was authenticated stays so.
LEMMA AuthenticatedStable ==
    ASSUME granted \subseteq granted', NEW c, NEW r, NEW chunk, Authenticated(c, r, chunk)
    PROVE  Authenticated(c, r, chunk)'
BY DEF Authenticated, decide_resolved, AllTokensResolved

\* The invariant survives a step that adds no frame, no entry and no binding.
LEMMA HeldInvShrinks ==
    ASSUME HeldInv, TypeOK', granted \subseteq granted', RegistryGranted',
           Held' \subseteq Held, UNCHANGED reassembly
    PROVE  HeldInv'
<1>1. \A f \in Held' : FrameOK(f)'
  BY AuthenticatedStable DEF HeldInv, FrameOK
<1>2. \A k \in DOMAIN reassembly' : EntryOK(k, reassembly[k])'
  BY AuthenticatedStable DEF HeldInv, EntryOK
<1> QED
  BY <1>1, <1>2 DEF HeldInv

\* The entry that an accepted fragment completes or extends is in order.
LEMMA ExtendedEntryOK ==
    ASSUME HeldInv, NEW p \in Packets, p.type = "VideoFrameFragment",
           GateOutcome(p) = "Accepted", validate_fragment_shape(p),
           metadata_matches(EntryFor(p), p)
    PROVE  EntryOK(from_fragment(p), WithChunk(EntryFor(p), p))
<1> DEFINE k == from_fragment(p)
           e == EntryFor(p)
           w == WithChunk(e, p)
<1>1. p \in VideoFrameFragment /\ ReassemblyFrameState(e)
  BY PacketKinds, EntryType DEF HeldInv, TypeOK
<1>2. EntryOK(k, e)
  BY DEF EntryFor, EmptyMap, HeldInv, EntryOK
<1>3. Authenticated(k[1], k[2], p.chunk)
  BY GateAuthenticates DEF HeldInv, MediaTypes, from_fragment
<1>4. p.chunk.stamp = e.stamp /\ p.chunk.index = p.index
  BY PacketsAssumption DEF metadata_matches, MediaTypes
<1> HIDE DEF e, k
<1>5. w.chunks = MapInsert(e.chunks, p.index, p.chunk) /\ w.stamp = e.stamp
  BY <1>1 DEF WithChunk, ReassemblyFrameState
<1>6. \A i \in DOMAIN w.chunks :
        \/ i = p.index /\ w.chunks[i] = p.chunk
        \/ i \in DOMAIN e.chunks /\ w.chunks[i] = e.chunks[i]
  BY <1>5 DEF MapInsert
<1> HIDE DEF w
<1>7. EntryOK(k, w)
  BY <1>2, <1>3, <1>4, <1>5, <1>6 DEF EntryOK
<1> QED
  BY <1>7 DEF k, e, w

\* A frame made of an entry in order is in order.
LEMMA ReassembledFrameOK ==
    ASSUME HeldInv, NEW p \in Packets, p.type = "VideoFrameFragment",
           GateOutcome(p) = "Accepted", FragmentResult(p) = "FrameComplete"
    PROVE  FrameOK(ReassembledFrame(p))
<1> DEFINE w == WithChunk(EntryFor(p), p)
           f == ReassembledFrame(p)
<1>1. EntryOK(from_fragment(p), w) /\ is_complete(w) /\ ReassemblyFrameState(w)
  BY KeptFragment, ExtendedEntryOK, EntryType, PacketKinds DEF HeldInv, TypeOK
<1>2. /\ f.client = p.client /\ f.run = p.run /\ f.stamp = w.stamp
      /\ f.payload = reassemble_payload(w)
  BY DEF ReassembledFrame
<1>3. from_fragment(p)[1] = p.client /\ from_fragment(p)[2] = p.run
  BY DEF from_fragment
<1> HIDE DEF w, f
<1>4. w.count \in Nat
  BY <1>1 DEF ReassemblyFrameState
<1>5. DOMAIN f.payload = 1 .. w.count /\ \A i \in 1 .. w.count : f.payload[i] = w.chunks[i - 1]
  BY <1>2 DEF reassemble_payload
<1>6. \A i \in 1 .. w.count : i - 1 \in DOMAIN w.chunks
  BY <1>1, <1>4 DEF is_complete
<1>7. FrameOK(f)
  BY <1>1, <1>2, <1>3, <1>5, <1>6 DEF FrameOK, EntryOK
<1> QED
  BY <1>7 DEF f

\* The invariant survives the storing of a frame that is in order.
LEMMA HeldInvStores ==
    ASSUME HeldInv, TypeOK', NEW f \in Frame, FrameOK(f), store_frame(f), UNCHANGED authVars,
           \A k \in DOMAIN reassembly' : k \in DOMAIN reassembly /\ reassembly'[k] = reassembly[k]
    PROVE  HeldInv'
<1>1. granted' = granted /\ registry' = registry
  BY DEF authVars
<1>2. Held' \subseteq Held \cup {f}
  BY StoreFrameHolds DEF HeldInv, TypeOK
<1>3. \A g \in Held' : FrameOK(g)'
  BY <1>1, <1>2, AuthenticatedStable DEF HeldInv, FrameOK
<1>4. \A k \in DOMAIN reassembly' : EntryOK(k, reassembly[k])'
  BY <1>1, AuthenticatedStable DEF HeldInv, EntryOK
<1>5. RegistryGranted'
  BY <1>1 DEF HeldInv, RegistryGranted, decide_resolved, AllTokensResolved
<1> QED
  BY <1>3, <1>4, <1>5 DEF HeldInv

LEMMA HeldInvUnchanged ==
    ASSUME HeldInv, UNCHANGED vars
    PROVE  HeldInv'
BY HeldInvShrinks, UnchangedType
   DEF HeldInv, vars, Held, QueuedFrames, RetainedFrames, RegistryGranted, decide_resolved,
       AllTokensResolved

LEMMA HeldInvAuthRequest ==
    ASSUME HeldInv, TypeOK', NEW p \in Packets, ReceiveAuthRequest(p)
    PROVE  HeldInv'
<1>1. p \in AuthRequest /\ HandleAuthRequest(p)
  BY PacketKinds DEF ReceiveAuthRequest, HandleAuthRequest
<1>2. granted \subseteq granted'
  BY <1>1 DEF HandleAuthRequest, authVars
<1>3. RegistryGranted'
  <2>1. CASE decide_resolved(p.client, p.token) = "Ok"
    <3>1. registry' = register(p) /\ p \in granted'
      BY <1>1, <2>1 DEF HandleAuthRequest
    <3>2. \A c \in DOMAIN registry' :
            \/ c = p.client /\ registry'[c] = [source |-> p.source, run |-> p.run]
            \/ c \in DOMAIN registry /\ registry'[c] = registry[c]
      BY <3>1 DEF register, MapInsert
    <3> QED
      BY <1>2, <2>1, <3>1, <3>2
         DEF HeldInv, RegistryGranted, decide_resolved, AllTokensResolved
  <2>2. CASE decide_resolved(p.client, p.token) # "Ok"
    BY <1>1, <2>2
       DEF HandleAuthRequest, authVars, HeldInv, RegistryGranted, decide_resolved, AllTokensResolved
  <2> QED
    BY <2>1, <2>2
<1>4. Held' = Held /\ reassembly' = reassembly
  BY DEF ReceiveAuthRequest, queueVars, Held, QueuedFrames, RetainedFrames
<1> QED
  BY <1>2, <1>3, <1>4, HeldInvShrinks

LEMMA HeldInvVideoFrame ==
    ASSUME HeldInv, TypeOK', NEW p \in Packets, GateOutcome(p) = "Accepted", ReceiveVideoFrame(p)
    PROVE  HeldInv'
<1>1. p \in VideoFrame /\ p.type = "VideoFrame"
  BY PacketKinds DEF ReceiveVideoFrame
<1>2. Authenticated(p.client, p.run, p.chunk)
  BY <1>1, GateAuthenticates DEF HeldInv, MediaTypes
<1>3. p.chunk.stamp = p.stamp /\ p.chunk.index = 0
  BY <1>1, PacketsAssumption DEF MediaTypes
<1>4. FrameOK(DirectFrame(p))
  BY <1>2, <1>3 DEF FrameOK, DirectFrame
<1> QED
  BY <1>1, <1>4, DirectFrameType, HeldInvStores DEF ReceiveVideoFrame

LEMMA HeldInvFragment ==
    ASSUME HeldInv, TypeOK', NEW p \in Packets, GateOutcome(p) = "Accepted",
           ReceiveVideoFrameFragment(p)
    PROVE  HeldInv'
<1>1. p \in VideoFrameFragment /\ p.type = "VideoFrameFragment" /\ UNCHANGED authVars
  BY PacketKinds DEF ReceiveVideoFrameFragment
<1>2. granted' = granted /\ registry' = registry
  BY <1>1 DEF authVars
<1>3. RegistryGranted'
  BY <1>2 DEF HeldInv, RegistryGranted, decide_resolved, AllTokensResolved
<1>4. CASE KeepChunk(p)
  <2> DEFINE w == WithChunk(EntryFor(p), p)
  <2>1. EntryOK(from_fragment(p), w)
    BY <1>1, <1>4, KeptFragment, ExtendedEntryOK DEF KeepChunk
  <2>2. reassembly' = MapInsert(reassembly, from_fragment(p), w) /\ Held' = Held
    BY <1>4 DEF KeepChunk, queueVars, Held, QueuedFrames, RetainedFrames
  <2> HIDE DEF w
  <2>3. \A k \in DOMAIN reassembly' :
           \/ k = from_fragment(p) /\ reassembly'[k] = w
           \/ k \in DOMAIN reassembly /\ reassembly'[k] = reassembly[k]
    BY <2>2 DEF MapInsert
  <2>4. \A k \in DOMAIN reassembly' : EntryOK(k, reassembly'[k])
    BY <2>1, <2>3 DEF HeldInv
  <2>5. \A k \in DOMAIN reassembly' : EntryOK(k, reassembly[k])'
    BY <1>2, <2>4, AuthenticatedStable DEF EntryOK
  <2>6. \A f \in Held' : FrameOK(f)'
    BY <1>2, <2>2, AuthenticatedStable DEF HeldInv, FrameOK
  <2> QED
    BY <1>3, <2>5, <2>6 DEF HeldInv
<1>5. CASE CompleteFrame(p)
  <2>1. \A k \in DOMAIN reassembly' : k \in DOMAIN reassembly /\ reassembly'[k] = reassembly[k]
    BY <1>5 DEF CompleteFrame, MapRemove
  <2>2. ReassembledFrame(p) \in Frame /\ FrameOK(ReassembledFrame(p))
    BY <1>1, <1>5, ReassembledFrameType, ReassembledFrameOK DEF CompleteFrame, HeldInv, TypeOK
  <2> QED
    BY <1>1, <1>5, <2>1, <2>2, HeldInvStores DEF CompleteFrame
<1>6. CASE IgnoreFragment(p)
  BY <1>1, <1>6, HeldInvUnchanged DEF IgnoreFragment, vars, authVars, queueVars
<1> QED
  BY <1>4, <1>5, <1>6 DEF ReceiveVideoFrameFragment, apply_fragment_and_queue_if_complete

LEMMA HeldInvRequest ==
    ASSUME HeldInv, TypeOK', NEW c \in Clients, NEW r \in Runs, NEW mode \in ReadMode,
           handle_request(c, r, mode)
    PROVE  HeldInv'
<1>1. Held' \subseteq Held
  <2>1. CASE pop_front_for_client_run(c, r)
    BY <2>1, PopFrontHolds DEF HeldInv, TypeOK
  <2>2. CASE UNCHANGED queueVars
    BY <2>2 DEF queueVars, Held, QueuedFrames, RetainedFrames
  <2> QED
    BY <2>1, <2>2 DEF handle_request
<1>2. granted' = granted /\ registry' = registry /\ reassembly' = reassembly
  BY DEF handle_request, authVars
<1>3. RegistryGranted'
  BY <1>2 DEF HeldInv, RegistryGranted, decide_resolved, AllTokensResolved
<1> QED
  BY <1>1, <1>2, <1>3, HeldInvShrinks

\* HeldInv is an invariant of the video core.
THEOREM HeldInvariant == Spec => []HeldInv
<1>1. Init => HeldInv
  <2> SUFFICES ASSUME Init PROVE HeldInv
    OBVIOUS
  <2>1. TypeOK
    BY DEF Init, AuthInit, QueueInit, ReassemblyInit, TypeOK, AuthTypeOK, QueueTypeOK,
           ReassemblyTypeOK, EmptyMap
  <2>2. Held = {}
    BY DEF Init, QueueInit, EmptyMap, Held, QueuedFrames, RetainedFrames
  <2>3. DOMAIN registry = {} /\ DOMAIN reassembly = {}
    BY DEF Init, AuthInit, ReassemblyInit, EmptyMap
  <2> QED
    BY <2>1, <2>2, <2>3 DEF HeldInv, RegistryGranted
<1>2. HeldInv /\ [Next]_vars => HeldInv'
  <2> SUFFICES ASSUME HeldInv, [Next]_vars PROVE HeldInv'
    OBVIOUS
  <2>1. TypeOK'
    BY ProcessPacketType, HandleRequestType, UnchangedType DEF Next, HeldInv
  <2>2. ASSUME NEW p \in Packets, ProcessPacket(p) PROVE HeldInv'
    BY <2>1, <2>2, HeldInvAuthRequest, HeldInvVideoFrame, HeldInvFragment, HeldInvUnchanged
       DEF ProcessPacket, ReceiveOther
  <2> QED
    BY <2>1, <2>2, HeldInvRequest, HeldInvUnchanged DEF Next
<1> QED
  BY <1>1, <1>2, PTL DEF Spec

\* Whatever packets arrive, every chunk the server holds was delivered by an
\* endpoint that had authenticated for that client_id and run_id.
THEOREM AuthenticatedVideoOnly == Spec => []OnlyAuthenticatedVideo
<1>1. HeldInv => OnlyAuthenticatedVideo
  BY DEF HeldInv, OnlyAuthenticatedVideo, Held, FrameOK, EntryOK
<1> QED
  BY <1>1, HeldInvariant, PTL

\* Whatever is lost, repeated, reordered or reused, a frame in the server is
\* one capture, whole and in order.
THEOREM FramesAreCaptures == Spec => []PayloadIsOneCapture
<1>1. HeldInv => PayloadIsOneCapture
  BY DEF HeldInv, PayloadIsOneCapture, Held, FrameOK
<1> QED
  BY <1>1, HeldInvariant, PTL

---------------------------------------------------------------------------
(***************************************************************************)
(* The bound on the queue.                                                 *)
(***************************************************************************)

\* store_frame evicts before it appends.
LEMMA StoreFrameBounded ==
    ASSUME QueueTypeOK, BacklogBounded, NEW f \in Frame, store_frame(f)
    PROVE  BacklogBounded'
<1>0. f.client \in Clients
  BY DEF Frame
<1>1. CASE MaxFrames = 0
  BY <1>1 DEF store_frame, queueVars, BacklogBounded
<1>2. CASE MaxFrames # 0
  <2> DEFINE q == queue[f.client]
             n == Append(IF Len(q) >= MaxFrames THEN Tail(q) ELSE q, f)
  <2>1. q \in Seq(Frame) /\ Len(q) <= MaxFrames
    BY <1>0 DEF QueueTypeOK, BacklogBounded
  <2>2. queue' = [queue EXCEPT ![f.client] = n]
    BY <1>2 DEF store_frame
  <2>3. CASE Len(q) >= MaxFrames
    <3>1. q # << >>
      BY <1>2, <2>1, <2>3, VideoFrameQueueAssumption
    <3>2. Tail(q) \in Seq(Frame) /\ Len(Tail(q)) = Len(q) - 1
      BY <2>1, <3>1
    <3>3. Len(n) = Len(q)
      BY <2>1, <2>3, <3>2
    <3> QED
      BY <1>0, <2>1, <2>2, <3>3 DEF QueueTypeOK, BacklogBounded
  <2>4. CASE ~(Len(q) >= MaxFrames)
    <3>1. Len(n) = Len(q) + 1
      BY <2>1, <2>4
    <3> HIDE DEF n
    <3>2. Len(n) <= MaxFrames
      BY <2>1, <2>4, <3>1, VideoFrameQueueAssumption
    <3> QED
      BY <1>0, <2>2, <3>2 DEF QueueTypeOK, BacklogBounded
  <2> QED
    BY <2>3, <2>4
<1> QED
  BY <1>1, <1>2

LEMMA PopFrontBounded ==
    ASSUME QueueTypeOK, BacklogBounded, NEW c \in Clients, NEW r \in Runs,
           pop_front_for_client_run(c, r)
    PROVE  BacklogBounded'
<1>1. PICK i \in FirstOf(frames_for_client_run(c, r)) :
        queue' = [queue EXCEPT ![c] = RemoveAt(@, i)]
  BY DEF pop_front_for_client_run
<1>2. queue[c] \in Seq(Frame) /\ i \in 1 .. Len(queue[c])
  BY DEF QueueTypeOK, FirstOf, frames_for_client_run
<1>3. Len(RemoveAt(queue[c], i)) = Len(queue[c]) - 1
  BY <1>2, RemoveAtElements
<1> HIDE DEF RemoveAt
<1>4. Len(RemoveAt(queue[c], i)) <= MaxFrames
  BY <1>2, <1>3, VideoFrameQueueAssumption DEF BacklogBounded
<1> QED
  BY <1>1, <1>4 DEF QueueTypeOK, BacklogBounded

\* What a packet does to the queue: nothing, or it stores one frame that is
\* attributed to the run and endpoint its client_id is bound to.
LEMMA PacketStoresBoundFrame ==
    ASSUME TypeOK, NEW p \in Packets, ProcessPacket(p)
    PROVE  \/ UNCHANGED queueVars
           \/ \E f \in Frame :
                /\ store_frame(f)
                /\ f.client \in DOMAIN registry
                /\ registry[f.client].source = f.source
                /\ registry[f.client].run = f.run
<1>1. CASE ReceiveAuthRequest(p) \/ ReceiveOther(p) \/ GateOutcome(p) # "Accepted"
  BY <1>1 DEF ReceiveAuthRequest, ReceiveOther, ProcessPacket, vars, queueVars
<1>2. ASSUME GateOutcome(p) = "Accepted", p.type \in MediaTypes
      PROVE  /\ p.client \in DOMAIN registry
             /\ registry[p.client].source = p.source
             /\ registry[p.client].run = p.run
  <2>1. evaluate_client_packet(p) = "Accepted"
    BY <1>2 DEF GateOutcome, MediaTypes
  <2> QED
    BY <2>1 DEF evaluate_client_packet
<1>3. CASE GateOutcome(p) = "Accepted" /\ ReceiveVideoFrame(p)
  <2>1. DirectFrame(p) \in Frame /\ store_frame(DirectFrame(p)) /\ p.type \in MediaTypes
    BY <1>3, PacketKinds, DirectFrameType DEF ReceiveVideoFrame, MediaTypes
  <2>2. /\ DirectFrame(p).client = p.client
        /\ DirectFrame(p).run = p.run
        /\ DirectFrame(p).source = p.source
    BY DEF DirectFrame
  <2> QED
    BY <1>2, <1>3, <2>1, <2>2
<1>4. CASE GateOutcome(p) = "Accepted" /\ ReceiveVideoFrameFragment(p)
  <2>1. p \in VideoFrameFragment /\ p.type \in MediaTypes
    BY <1>4, PacketKinds DEF ReceiveVideoFrameFragment, MediaTypes
  <2>2. CASE KeepChunk(p) \/ IgnoreFragment(p)
    BY <2>2 DEF KeepChunk, IgnoreFragment, queueVars
  <2>3. CASE CompleteFrame(p)
    <3>1. ReassembledFrame(p) \in Frame /\ store_frame(ReassembledFrame(p))
      BY <2>1, <2>3, ReassembledFrameType DEF CompleteFrame, TypeOK
    <3>2. /\ ReassembledFrame(p).client = p.client
          /\ ReassembledFrame(p).run = p.run
          /\ ReassembledFrame(p).source = p.source
      BY DEF ReassembledFrame
    <3> QED
      BY <1>2, <1>4, <2>1, <3>1, <3>2
  <2> QED
    BY <1>4, <2>2, <2>3 DEF ReceiveVideoFrameFragment, apply_fragment_and_queue_if_complete
<1> QED
  BY <1>1, <1>3, <1>4 DEF ProcessPacket

\* No sequence of packets and requests makes a client's backlog outgrow its
\* policy.
THEOREM BacklogIsBounded == Spec => []BacklogBounded
<1>1. Init => BacklogBounded
  <2>1. 0 <= MaxFrames /\ Len(<< >>) = 0
    BY VideoFrameQueueAssumption
  <2> QED
    BY <2>1 DEF Init, QueueInit, BacklogBounded
<1>2. TypeOK /\ BacklogBounded /\ [Next]_vars => BacklogBounded'
  <2> SUFFICES ASSUME TypeOK, BacklogBounded, [Next]_vars PROVE BacklogBounded'
    OBVIOUS
  <2>1. CASE UNCHANGED queueVars
    BY <2>1 DEF queueVars, BacklogBounded
  <2>2. ASSUME NEW p \in Packets, ProcessPacket(p) PROVE BacklogBounded'
    BY <2>1, <2>2, PacketStoresBoundFrame, StoreFrameBounded DEF TypeOK
  <2>3. ASSUME NEW c \in Clients, NEW r \in Runs, NEW mode \in ReadMode,
               handle_request(c, r, mode)
        PROVE  BacklogBounded'
    BY <2>1, <2>3, PopFrontBounded DEF handle_request, TypeOK
  <2>4. CASE UNCHANGED vars
    BY <2>1, <2>4 DEF vars, queueVars
  <2> QED
    BY <2>2, <2>3, <2>4 DEF Next
<1> QED
  BY <1>1, <1>2, TypeCorrect, PTL DEF Spec

---------------------------------------------------------------------------
(***************************************************************************)
(* Who may add to a queue.                                                 *)
(***************************************************************************)

\* store_frame changes one queue, at whose end the frame then stands.
LEMMA StoreFrameAppends ==
    ASSUME QueueTypeOK, NEW f \in Frame, store_frame(f), NEW c \in Clients, queue'[c] # queue[c]
    PROVE  /\ c = f.client
           /\ queue'[c][Len(queue'[c])] = f
<1>1. MaxFrames # 0
  BY DEF store_frame, queueVars
<1>2. f.client \in Clients
  BY DEF Frame
<1> DEFINE q == queue[f.client]
           t == IF Len(q) >= MaxFrames THEN Tail(q) ELSE q
<1>3. queue' = [queue EXCEPT ![f.client] = Append(t, f)]
  BY <1>1 DEF store_frame
<1>4. c = f.client
  BY <1>2, <1>3 DEF QueueTypeOK
<1>5. q \in Seq(Frame)
  BY <1>2 DEF QueueTypeOK
<1>6. t \in Seq(Frame)
  <2>1. Len(q) >= MaxFrames => q # << >>
    BY <1>1, <1>5, VideoFrameQueueAssumption
  <2> QED
    BY <1>5, <2>1
<1> HIDE DEF t
<1>7. queue'[c] = Append(t, f)
  BY <1>2, <1>3, <1>4 DEF QueueTypeOK
<1> QED
  BY <1>4, <1>6, <1>7

\* A queue is added to only for the run and the endpoint that its client_id is
\* bound to at that moment: a binding that was replaced adds nothing more.
THEOREM BoundRunQueues == Spec => OnlyTheBoundRunQueues
<1> DEFINE Grows(c) == queue'[c] # queue[c] /\ Len(queue'[c]) >= Len(queue[c])
           Bound(c) == /\ c \in DOMAIN registry
                       /\ registry[c] = [source |-> queue'[c][Len(queue'[c])].source,
                                         run |-> queue'[c][Len(queue'[c])].run]
<1>1. ASSUME TypeOK, [Next]_vars, NEW c \in Clients, Grows(c)
      PROVE  Bound(c)
  <2>1. ~UNCHANGED queueVars
    BY <1>1 DEF queueVars
  <2>2. ASSUME NEW p \in Packets, ProcessPacket(p) PROVE Bound(c)
    <3>1. PICK f \in Frame : /\ store_frame(f)
                             /\ f.client \in DOMAIN registry
                             /\ registry[f.client].source = f.source
                             /\ registry[f.client].run = f.run
      BY <1>1, <2>1, <2>2, PacketStoresBoundFrame
    <3>2. c = f.client /\ queue'[c][Len(queue'[c])] = f
      BY <1>1, <3>1, StoreFrameAppends DEF TypeOK
    <3>3. registry[c] \in AuthenticatedSenderEntry
      BY <1>1, <3>1, <3>2 DEF TypeOK, AuthTypeOK
    <3>4. registry[c] = [source |-> f.source, run |-> f.run]
      BY <3>1, <3>2, <3>3 DEF AuthenticatedSenderEntry
    <3> QED
      BY <3>1, <3>2, <3>4
  <2>3. ASSUME NEW d \in Clients, NEW r \in Runs, pop_front_for_client_run(d, r) PROVE FALSE
    <3>1. PICK i \in FirstOf(frames_for_client_run(d, r)) :
            queue' = [queue EXCEPT ![d] = RemoveAt(@, i)]
      BY <2>3 DEF pop_front_for_client_run
    <3>2. queue[d] \in Seq(Frame) /\ i \in 1 .. Len(queue[d])
      BY <1>1 DEF TypeOK, QueueTypeOK, FirstOf, frames_for_client_run
    <3>3. Len(RemoveAt(queue[d], i)) = Len(queue[d]) - 1
      BY <3>2, RemoveAtElements
    <3>4. d = c /\ queue'[c] = RemoveAt(queue[d], i)
      BY <1>1, <3>1 DEF TypeOK, QueueTypeOK
    <3> QED
      BY <1>1, <3>2, <3>3, <3>4
  <2>4. ASSUME NEW d \in Clients, NEW r \in Runs, NEW mode \in ReadMode,
               handle_request(d, r, mode)
        PROVE  Bound(c)
    BY <2>1, <2>3, <2>4 DEF handle_request
  <2>5. CASE UNCHANGED vars
    BY <2>1, <2>5 DEF vars, queueVars
  <2> QED
    BY <1>1, <2>2, <2>4, <2>5 DEF Next
<1>2. TypeOK /\ [Next]_vars =>
        [\A c \in Clients :
            LET q == queue[c]
                n == queue'[c]
            IN  (n # << >> /\ n # q /\ Len(n) >= Len(q)) =>
                    /\ c \in DOMAIN registry
                    /\ registry[c] = [source |-> n[Len(n)].source, run |-> n[Len(n)].run]]_vars
  BY <1>1
<1> QED
  BY <1>2, TypeCorrect, PTL DEF Spec, OnlyTheBoundRunQueues

---------------------------------------------------------------------------
(***************************************************************************)
(* The reassembly.                                                         *)
(***************************************************************************)

\* However the chunks of a frame arrive, the frame leaves the reassembly with
\* the packet that completes it.
THEOREM CompleteFramesLeave == Spec => []NoCompleteFrameWaits
<1>1. Init => NoCompleteFrameWaits
  BY DEF Init, ReassemblyInit, EmptyMap, NoCompleteFrameWaits
<1>2. NoCompleteFrameWaits /\ [Next]_vars => NoCompleteFrameWaits'
  <2> SUFFICES ASSUME NoCompleteFrameWaits, [Next]_vars PROVE NoCompleteFrameWaits'
    OBVIOUS
  <2>1. CASE UNCHANGED reassembly
    BY <2>1 DEF NoCompleteFrameWaits
  <2>2. ASSUME NEW p \in Packets, KeepChunk(p) PROVE NoCompleteFrameWaits'
    <3> DEFINE w == WithChunk(EntryFor(p), p)
    <3>1. is_complete(w) => payload_len(w.chunks) # w.total
      BY <2>2, KeptFragment DEF KeepChunk
    <3>2. reassembly' = MapInsert(reassembly, from_fragment(p), w)
      BY <2>2 DEF KeepChunk
    <3> HIDE DEF w
    <3>3. \A k \in DOMAIN reassembly' :
             \/ reassembly'[k] = w
             \/ k \in DOMAIN reassembly /\ reassembly'[k] = reassembly[k]
      BY <3>2 DEF MapInsert
    <3>4. \A k \in DOMAIN reassembly' :
             is_complete(reassembly'[k]) =>
                payload_len(reassembly'[k].chunks) # reassembly'[k].total
      BY <3>1, <3>3 DEF NoCompleteFrameWaits
    <3> QED
      BY <3>4 DEF NoCompleteFrameWaits
  <2>3. ASSUME NEW p \in Packets, CompleteFrame(p) PROVE NoCompleteFrameWaits'
    <3>1. \A k \in DOMAIN reassembly' :
             k \in DOMAIN reassembly /\ reassembly'[k] = reassembly[k]
      BY <2>3 DEF CompleteFrame, MapRemove
    <3> QED
      BY <3>1 DEF NoCompleteFrameWaits
  <2>4. ASSUME NEW p \in Packets, ProcessPacket(p) PROVE NoCompleteFrameWaits'
    BY <2>1, <2>2, <2>3, <2>4
       DEF ProcessPacket, ReceiveAuthRequest, ReceiveVideoFrame, ReceiveVideoFrameFragment,
           ReceiveOther, apply_fragment_and_queue_if_complete, IgnoreFragment, vars
  <2> QED
    BY <2>1, <2>4 DEF Next, handle_request, vars
<1> QED
  BY <1>1, <1>2, PTL DEF Spec

\* The state of the packet path stays well formed, bounded and free of frames
\* that could be queued, whatever arrives in whatever order.
THEOREM IngestIsInvariant == Spec => []IngestInvariant
  BY TypeCorrect, BacklogIsBounded, CompleteFramesLeave, PTL DEF IngestInvariant

---------------------------------------------------------------------------
(***************************************************************************)
(* What a switcher reads, under the assumption that no two client/run      *)
(* scopes have the same client_run_scope_key.  The identifiers of the      *)
(* shipped configuration, which have no '/' in them, meet it; the code     *)
(* does not enforce it.                                                    *)
(***************************************************************************)
\* Different scopes have different keys.
ScopeKeysInjective ==
    \A c1, c2 \in Clients, r1, r2 \in Runs :
        client_run_scope_key(c1, r1) = client_run_scope_key(c2, r2) => c1 = c2 /\ r1 = r2

\* A retained frame is a keyframe of the scope it is kept for.
RetainedInScope ==
    \A c \in Clients, r \in Runs :
        \A f \in RetainedKeyframe(c, r) : f.client = c /\ f.run = r

\* A frame stands in the queue of its own client.
QueuedInScope == \A c \in Clients : \A i \in 1 .. Len(queue[c]) : queue[c][i].client = c

\* While a keyframe of a scope is queued, its retained slot holds the newest.
NewestRetained(c, r) ==
    \A i \in LastOf(QueuedKeyframes(c, r)) :
        /\ client_run_scope_key(c, r) \in DOMAIN retained
        /\ retained[client_run_scope_key(c, r)] = queue[c][i]

\* The inductive invariant.
ScopeInv ==
    /\ RetainedInScope
    /\ QueuedInScope
    /\ \A c \in Clients, r \in Runs : NewestRetained(c, r)

---------------------------------------------------------------------------
\* The frames of client c from position d + 1 on move d places to the front,
\* and f follows them if it is a frame of c.
MovedAndStored(f, c, d) ==
    /\ d <= Len(queue[c])
    /\ Len(queue'[c]) = Len(queue[c]) - d + (IF c = f.client THEN 1 ELSE 0)
    /\ \A k \in 1 .. Len(queue[c]) - d : queue'[c][k] = queue[c][k + d]
    /\ c = f.client => queue'[c][Len(queue'[c])] = f

\* store_frame evicts at most one frame and appends the new one.
LEMMA StoreFramePositions ==
    ASSUME QueueTypeOK, NEW f \in Frame, store_frame(f), MaxFrames # 0, NEW c \in Clients
    PROVE  \E d \in {0, 1} : MovedAndStored(f, c, d)
<1> USE DEF MovedAndStored
<1>0. f.client \in Clients /\ queue[c] \in Seq(Frame)
  BY DEF Frame, QueueTypeOK
<1>1. CASE c # f.client
  <2>1. queue'[c] = queue[c]
    BY <1>0, <1>1 DEF store_frame, QueueTypeOK
  <2>2. 0 \in {0, 1} /\ 0 <= Len(queue[c]) /\ Len(queue[c]) - 0 + 0 = Len(queue[c])
    BY <1>0
  <2>3. \A i \in 1 .. Len(queue[c]) - 0 : queue'[c][i] = queue[c][i + 0]
    BY <1>0, <2>1
  <2> QED
    BY <1>1, <2>1, <2>2, <2>3
<1>2. CASE c = f.client
  <2> DEFINE q == queue[c]
  <2>1. queue'[c] = Append(IF Len(q) >= MaxFrames THEN Tail(q) ELSE q, f)
    BY <1>0, <1>2 DEF store_frame, QueueTypeOK
  <2>2. CASE Len(q) >= MaxFrames
    <3>1. q # << >> /\ 1 <= Len(q)
      BY <1>0, <2>2, VideoFrameQueueAssumption
    <3>2. /\ Tail(q) \in Seq(Frame)
          /\ Len(Tail(q)) = Len(q) - 1
          /\ \A j \in 1 .. Len(q) - 1 : Tail(q)[j] = q[j + 1]
      BY <1>0, <3>1
    <3>3. queue'[c] = Append(Tail(q), f)
      BY <2>1, <2>2
    <3>4. /\ Len(queue'[c]) = Len(q) - 1 + 1
          /\ \A i \in 1 .. Len(q) - 1 : queue'[c][i] = q[i + 1]
          /\ queue'[c][Len(queue'[c])] = f
      BY <1>0, <3>2, <3>3
    <3> QED
      BY <1>2, <3>1, <3>4
  <2>3. CASE ~(Len(q) >= MaxFrames)
    <3>1. queue'[c] = Append(q, f)
      BY <2>1, <2>3
    <3>2. /\ 0 <= Len(q)
          /\ Len(queue'[c]) = Len(q) - 0 + 1
          /\ \A i \in 1 .. Len(q) - 0 : queue'[c][i] = q[i + 0]
          /\ queue'[c][Len(queue'[c])] = f
      BY <1>0, <3>1
    <3> QED
      BY <1>2, <3>2
  <2> QED
    BY <2>2, <2>3
<1> QED
  BY <1>1, <1>2

\* Storing a frame of another scope, or one that is no keyframe, leaves the
\* newest queued keyframe of a scope alone or evicts it.
LEMMA StoreKeepsNewest ==
    ASSUME QueueTypeOK, NEW f \in Frame, store_frame(f), MaxFrames # 0,
           NEW c \in Clients, NEW r \in Runs, ~(f.key /\ f.client = c /\ f.run = r),
           NEW i \in LastOf(QueuedKeyframes(c, r))'
    PROVE  \E j \in LastOf(QueuedKeyframes(c, r)) : queue[c][j] = queue'[c][i]
<1>1. PICK d \in {0, 1} : MovedAndStored(f, c, d)
  BY StoreFramePositions
<1> USE DEF MovedAndStored
<1>2. Len(queue[c]) \in Nat
  BY DEF QueueTypeOK
<1>3. /\ i \in 1 .. Len(queue'[c])
      /\ queue'[c][i].run = r
      /\ queue'[c][i].key
      /\ \A k \in 1 .. Len(queue'[c]) :
            queue'[c][k].run = r /\ queue'[c][k].key => k <= i
  BY DEF LastOf, QueuedKeyframes, frames_for_client_run
<1>4. i \in 1 .. Len(queue[c]) - d
  <2>1. c = f.client => i # Len(queue'[c])
    BY <1>1, <1>3
  <2>2. c = f.client => Len(queue'[c]) = Len(queue[c]) - d + 1
    BY <1>1
  <2>3. c # f.client => Len(queue'[c]) = Len(queue[c]) - d
    BY <1>1, <1>2
  <2> QED
    BY <1>2, <1>3, <2>1, <2>2, <2>3
<1>5. i + d \in 1 .. Len(queue[c]) /\ queue[c][i + d] = queue'[c][i]
  BY <1>1, <1>2, <1>4
<1>6. ASSUME NEW k \in 1 .. Len(queue[c]), queue[c][k].run = r, queue[c][k].key
      PROVE  k <= i + d
  <2> SUFFICES ASSUME ~(k <= i + d) PROVE FALSE
    OBVIOUS
  <2>0. k - d \in 1 .. Len(queue[c]) - d /\ (k - d) + d = k /\ ~(k - d <= i)
    BY <1>2, <1>4
  <2>1. k - d \in 1 .. Len(queue'[c])
    <3>1. Len(queue'[c]) = Len(queue[c]) - d \/ Len(queue'[c]) = Len(queue[c]) - d + 1
      BY <1>1, <1>2
    <3> QED
      BY <1>2, <2>0, <3>1
  <2>2. queue'[c][k - d] = queue[c][k]
    BY <1>1, <2>0
  <2> QED
    BY <1>3, <1>6, <2>0, <2>1, <2>2
<1>7. i + d \in LastOf(QueuedKeyframes(c, r))
  BY <1>3, <1>5, <1>6 DEF LastOf, QueuedKeyframes, frames_for_client_run
<1> QED
  BY <1>5, <1>7

\* A dequeue, which takes the oldest frame of its run, never takes a keyframe
\* from behind the newest one.
LEMMA PopKeepsNewest ==
    ASSUME QueueTypeOK, NEW c \in Clients, NEW r \in Runs, pop_front_for_client_run(c, r),
           NEW d \in Clients, NEW s \in Runs, NEW i \in LastOf(QueuedKeyframes(d, s))'
    PROVE  \E j \in LastOf(QueuedKeyframes(d, s)) : queue[d][j] = queue'[d][i]
<1>1. PICK m \in FirstOf(frames_for_client_run(c, r)) :
        queue' = [queue EXCEPT ![c] = RemoveAt(@, m)]
  BY DEF pop_front_for_client_run
<1>2. /\ queue[c] \in Seq(Frame)
      /\ m \in 1 .. Len(queue[c])
      /\ queue[c][m].run = r
      /\ \A k \in 1 .. Len(queue[c]) : queue[c][k].run = r => m <= k
  BY DEF QueueTypeOK, FirstOf, frames_for_client_run
<1>3. /\ i \in 1 .. Len(queue'[d])
      /\ queue'[d][i].run = s
      /\ queue'[d][i].key
      /\ \A k \in 1 .. Len(queue'[d]) :
            queue'[d][k].run = s /\ queue'[d][k].key => k <= i
  BY DEF LastOf, QueuedKeyframes, frames_for_client_run
<1>4. CASE d # c
  <2>1. queue'[d] = queue[d]
    BY <1>1, <1>4 DEF QueueTypeOK
  <2> QED
    BY <1>3, <2>1 DEF LastOf, QueuedKeyframes, frames_for_client_run
<1>5. CASE d = c
  <2> DEFINE old(k) == IF k < m THEN k ELSE k + 1
  <2>1. queue'[d] = RemoveAt(queue[c], m)
    BY <1>1, <1>5 DEF QueueTypeOK
  <2>2. Len(queue'[d]) = Len(queue[c]) - 1 /\ Len(queue[c]) \in Nat
    <3>1. Len(RemoveAt(queue[c], m)) = Len(queue[c]) - 1
      BY <1>2, RemoveAtElements
    <3> QED
      BY <1>2, <2>1, <3>1
  <2>3. \A k \in 1 .. Len(queue[c]) - 1 :
          queue'[d][k] = IF k < m THEN queue[c][k] ELSE queue[c][k + 1]
    BY <1>2, <2>1, RemoveAtElements
  <2>4. old(i) \in 1 .. Len(queue[c]) /\ queue[c][old(i)] = queue'[d][i]
    BY <1>2, <1>3, <2>2, <2>3
  <2>5. ASSUME NEW k \in 1 .. Len(queue[c]), queue[c][k].run = s, queue[c][k].key
        PROVE  k <= old(i)
    <3> SUFFICES ASSUME ~(k <= old(i)) PROVE FALSE
      OBVIOUS
    <3>1. CASE k = m
      <4>1. r = s /\ m <= old(i)
        BY <1>2, <1>3, <2>4, <2>5, <3>1
      <4> QED
        BY <1>2, <3>1, <4>1
    <3>2. CASE k < m
      <4>1. k \in 1 .. Len(queue'[d]) /\ queue'[d][k] = queue[c][k]
        BY <1>2, <2>2, <2>3, <3>2
      <4>2. k <= i
        BY <1>3, <2>5, <4>1
      <4> QED
        BY <1>2, <1>3, <2>2, <4>2
    <3>3. CASE k > m
      <4>1. k - 1 \in 1 .. Len(queue'[d]) /\ ~(k - 1 < m) /\ (k - 1) + 1 = k
        BY <1>2, <2>2, <3>3
      <4>2. queue'[d][k - 1] = queue[c][k]
        BY <2>2, <2>3, <4>1
      <4>3. k - 1 <= i
        BY <1>3, <2>5, <4>1, <4>2
      <4> QED
        BY <1>2, <1>3, <2>2, <3>3, <4>3
    <3> QED
      BY <1>2, <3>1, <3>2, <3>3
  <2>6. old(i) \in LastOf(QueuedKeyframes(c, s))
    BY <1>3, <2>4, <2>5 DEF LastOf, QueuedKeyframes, frames_for_client_run
  <2> QED
    BY <1>5, <2>4, <2>6
<1> QED
  BY <1>4, <1>5

---------------------------------------------------------------------------
\* A non-empty set of positions has a last one.
LEMMA LastExists ==
    ASSUME NEW n \in Nat, NEW S \in SUBSET (1 .. n), S # {}
    PROVE  LastOf(S) # {}
<1> DEFINE R == { ss \in Nat \X Nat : ss[1] < ss[2] }
           T == { n - x : x \in S }
<1>1. IsWellFoundedOn(R, Nat)
  <2>1. OpToRel(<, Nat) = R
    BY DEF OpToRel
  <2> QED
    BY <2>1, NatLessThanWellFounded
<1>0. \A x \in S : x \in Nat /\ n - x \in Nat
  OBVIOUS
<1>2. T \subseteq Nat /\ T # {}
  BY <1>0
<1> HIDE DEF R
<1>3. \E x \in T : \A y \in T : <<y, x>> \notin R
  BY <1>1, <1>2, WFMin
<1>4. PICK x \in S : \A y \in S : <<n - y, n - x>> \notin R
  BY <1>3
<1>5. \A y \in S : y <= x
  <2>1. \A y \in S : ~(n - y < n - x)
    BY <1>0, <1>4 DEF R
  <2> QED
    BY <1>0, <2>1
<1> QED
  BY <1>5 DEF LastOf

---------------------------------------------------------------------------
(***************************************************************************)
(* A decodable frame stays available, whatever the scope keys.             *)
(***************************************************************************)

\* A scope with a queued keyframe has a retained one.
KeyframeIsRetained ==
    \A c \in Clients, r \in Runs :
        QueuedKeyframes(c, r) # {} => client_run_scope_key(c, r) \in DOMAIN retained

\* Nothing unbinds a retained keyframe.
LEMMA RetainedGrows ==
    ASSUME TypeOK, [Next]_vars
    PROVE  DOMAIN retained \subseteq DOMAIN retained'
<1>1. ASSUME NEW p \in Packets, ProcessPacket(p) PROVE DOMAIN retained \subseteq DOMAIN retained'
  BY <1>1, PacketStoresBoundFrame DEF store_frame, queueVars, MapInsert
<1>2. ASSUME NEW c \in Clients, NEW r \in Runs, NEW mode \in ReadMode, handle_request(c, r, mode)
      PROVE  DOMAIN retained \subseteq DOMAIN retained'
  BY <1>2 DEF handle_request, pop_front_for_client_run, queueVars
<1> QED
  BY <1>1, <1>2 DEF Next, vars

\* Storing a frame retains it if it is a keyframe.
LEMMA StoreRetainsKeyframe ==
    ASSUME QueueTypeOK, KeyframeIsRetained, NEW f \in Frame, store_frame(f)
    PROVE  KeyframeIsRetained'
<1>1. CASE MaxFrames = 0
  BY <1>1 DEF store_frame, queueVars, KeyframeIsRetained, QueuedKeyframes, frames_for_client_run
<1>2. CASE MaxFrames # 0
  <2> SUFFICES ASSUME NEW c \in Clients, NEW r \in Runs, NEW i \in QueuedKeyframes(c, r)'
               PROVE  client_run_scope_key(c, r) \in DOMAIN retained'
    BY DEF KeyframeIsRetained
  <2>1. DOMAIN retained \subseteq DOMAIN retained'
    BY <1>2 DEF store_frame, MapInsert
  <2>2. i \in 1 .. Len(queue'[c]) /\ queue'[c][i].run = r /\ queue'[c][i].key
    BY DEF QueuedKeyframes, frames_for_client_run
  <2>3. PICK d \in {0, 1} : MovedAndStored(f, c, d)
    BY <1>2, StoreFramePositions
  <2> USE DEF MovedAndStored
  <2>4. Len(queue[c]) \in Nat
    BY DEF QueueTypeOK
  <2>5. CASE i \in 1 .. Len(queue[c]) - d
    <3>1. i + d \in 1 .. Len(queue[c]) /\ queue[c][i + d] = queue'[c][i]
      BY <2>3, <2>4, <2>5
    <3>2. i + d \in QueuedKeyframes(c, r)
      BY <2>2, <3>1 DEF QueuedKeyframes, frames_for_client_run
    <3> QED
      BY <2>1, <3>2 DEF KeyframeIsRetained
  <2>6. CASE i \notin 1 .. Len(queue[c]) - d
    <3>1. c = f.client /\ i = Len(queue'[c])
      <4>1. c # f.client => Len(queue'[c]) = Len(queue[c]) - d
        BY <2>3, <2>4
      <4>2. c = f.client => Len(queue'[c]) = Len(queue[c]) - d + 1
        BY <2>3
      <4>3. c = f.client
        BY <2>2, <2>6, <4>1
      <4>4. i = Len(queue'[c])
        BY <2>2, <2>4, <2>6, <4>2, <4>3
      <4> QED
        BY <4>3, <4>4
    <3>2. f.key /\ f.client = c /\ f.run = r
      BY <2>2, <2>3, <3>1
    <3> QED
      BY <1>2, <3>2 DEF store_frame, MapInsert
  <2> QED
    BY <2>5, <2>6
<1> QED
  BY <1>1, <1>2

\* A dequeue leaves no keyframe behind that is not retained.
LEMMA PopRetainsKeyframe ==
    ASSUME QueueTypeOK, KeyframeIsRetained, NEW c \in Clients, NEW r \in Runs,
           pop_front_for_client_run(c, r)
    PROVE  KeyframeIsRetained'
<1> SUFFICES ASSUME NEW d \in Clients, NEW s \in Runs, QueuedKeyframes(d, s)' # {}
             PROVE  client_run_scope_key(d, s) \in DOMAIN retained'
  BY DEF KeyframeIsRetained
<1>1. QueueTypeOK' /\ UNCHANGED retained
  BY PopFrontType DEF pop_front_for_client_run
<1>2. Len(queue'[d]) \in Nat
  BY <1>1 DEF QueueTypeOK
<1>3. QueuedKeyframes(d, s)' \in SUBSET (1 .. Len(queue'[d]))
  BY DEF QueuedKeyframes, frames_for_client_run
<1>4. PICK i : i \in LastOf(QueuedKeyframes(d, s)')
  BY <1>2, <1>3, LastExists
<1>5. i \in LastOf(QueuedKeyframes(d, s))'
  BY <1>4 DEF LastOf
<1>6. LastOf(QueuedKeyframes(d, s)) # {}
  BY <1>5, PopKeepsNewest
<1> QED
  BY <1>1, <1>6 DEF KeyframeIsRetained, LastOf

LEMMA KeyframeIsRetainedInvariant == Spec => []KeyframeIsRetained
<1>1. Init => KeyframeIsRetained
  BY DEF Init, QueueInit, KeyframeIsRetained, QueuedKeyframes, frames_for_client_run
<1>2. TypeOK /\ KeyframeIsRetained /\ [Next]_vars => KeyframeIsRetained'
  <2> SUFFICES ASSUME TypeOK, KeyframeIsRetained, [Next]_vars PROVE KeyframeIsRetained'
    OBVIOUS
  <2>1. CASE UNCHANGED queueVars
    BY <2>1 DEF queueVars, KeyframeIsRetained, QueuedKeyframes, frames_for_client_run
  <2>2. ASSUME NEW p \in Packets, ProcessPacket(p) PROVE KeyframeIsRetained'
    BY <2>1, <2>2, PacketStoresBoundFrame, StoreRetainsKeyframe DEF TypeOK
  <2>3. ASSUME NEW c \in Clients, NEW r \in Runs, NEW mode \in ReadMode,
               handle_request(c, r, mode)
        PROVE  KeyframeIsRetained'
    BY <2>1, <2>3, PopRetainsKeyframe DEF handle_request, TypeOK
  <2> QED
    BY <2>1, <2>2, <2>3 DEF Next, vars, queueVars
<1> QED
  BY <1>1, <1>2, TypeCorrect, PTL DEF Spec

\* InspectLatestDecodable finds a frame exactly when one is retained.
LEMMA DecodableIffRetained ==
    ASSUME QueueTypeOK, KeyframeIsRetained, NEW c \in Clients, NEW r \in Runs
    PROVE  read(c, r, "InspectLatestDecodable") # {}
              <=> client_run_scope_key(c, r) \in DOMAIN retained
<1>1. CASE QueuedKeyframes(c, r) = {}
  BY <1>1 DEF read, RetainedKeyframe
<1>2. CASE QueuedKeyframes(c, r) # {}
  <2>1. Len(queue[c]) \in Nat /\ QueuedKeyframes(c, r) \in SUBSET (1 .. Len(queue[c]))
    BY DEF QueueTypeOK, QueuedKeyframes, frames_for_client_run
  <2>2. LastOf(QueuedKeyframes(c, r)) # {}
    BY <1>2, <2>1, LastExists
  <2> QED
    BY <1>2, <2>2 DEF read, KeyframeIsRetained
<1> QED
  BY <1>1, <1>2

\* Once a keyframe of a scope was stored, neither eviction nor dequeues leave
\* InspectLatestDecodable without an answer.
THEOREM DecodableNeverLost == Spec => DecodableStaysAvailable
<1>1. ASSUME TypeOK, TypeOK', KeyframeIsRetained, KeyframeIsRetained', [Next]_vars,
             NEW c \in Clients, NEW r \in Runs, read(c, r, "InspectLatestDecodable") # {}
      PROVE  read(c, r, "InspectLatestDecodable")' # {}
  <2>1. client_run_scope_key(c, r) \in DOMAIN retained'
    BY <1>1, RetainedGrows, DecodableIffRetained DEF TypeOK
  <2>2. QueueTypeOK'
    BY <1>1 DEF TypeOK
  <2>3. CASE QueuedKeyframes(c, r)' = {}
    BY <2>1, <2>3 DEF read, RetainedKeyframe
  <2>4. CASE QueuedKeyframes(c, r)' # {}
    <3>1. Len(queue'[c]) \in Nat /\ QueuedKeyframes(c, r)' \in SUBSET (1 .. Len(queue'[c]))
      BY <2>2 DEF QueueTypeOK, QueuedKeyframes, frames_for_client_run
    <3>2. LastOf(QueuedKeyframes(c, r)') # {}
      BY <2>4, <3>1, LastExists
    <3> QED
      BY <2>4, <3>2 DEF read
  <2> QED
    BY <2>3, <2>4
<1>2. TypeOK /\ TypeOK' /\ KeyframeIsRetained /\ KeyframeIsRetained' /\ [Next]_vars =>
        [\A c \in Clients, r \in Runs :
            read(c, r, "InspectLatestDecodable") # {} =>
                read(c, r, "InspectLatestDecodable")' # {}]_vars
  BY <1>1
<1> QED
  BY <1>2, TypeCorrect, KeyframeIsRetainedInvariant, PTL DEF Spec, DecodableStaysAvailable

\* Every step adds to the queue of a bound run only, and takes nothing away
\* that the switcher could decode from.
THEOREM IngestStepsAreAllowed == Spec => IngestSteps
  BY BoundRunQueues, DecodableNeverLost DEF IngestSteps

---------------------------------------------------------------------------
(***************************************************************************)
(* Reads stay in their scope, if the scope keys tell scopes apart.         *)
(***************************************************************************)

\* A step of the queue that keeps the retained keyframes and, for every scope,
\* the newest queued keyframe, keeps NewestRetained.
LEMMA NewestCarriesOver ==
    ASSUME NEW c \in Clients, NEW r \in Runs, NewestRetained(c, r),
           client_run_scope_key(c, r) \in DOMAIN retained =>
                /\ client_run_scope_key(c, r) \in DOMAIN retained'
                /\ retained'[client_run_scope_key(c, r)] = retained[client_run_scope_key(c, r)],
           \A i \in LastOf(QueuedKeyframes(c, r))' :
                \E j \in LastOf(QueuedKeyframes(c, r)) : queue[c][j] = queue'[c][i]
    PROVE  NewestRetained(c, r)'
BY DEF NewestRetained

LEMMA StoreFrameInScope ==
    ASSUME ScopeKeysInjective, QueueTypeOK, ScopeInv, NEW f \in Frame, store_frame(f)
    PROVE  ScopeInv'
<1>0. f.client \in Clients /\ f.run \in Runs
  BY DEF Frame
<1>1. CASE MaxFrames = 0
  BY <1>1
     DEF store_frame, queueVars, ScopeInv, RetainedInScope, QueuedInScope, NewestRetained,
         RetainedKeyframe, LastOf, QueuedKeyframes, frames_for_client_run
<1>2. CASE MaxFrames # 0
  <2>1. retained' = IF f.key
                    THEN MapInsert(retained, client_run_scope_key(f.client, f.run), f)
                    ELSE retained
    BY <1>2 DEF store_frame
  <2>2. ASSUME NEW c \in Clients, NEW r \in Runs, ~(f.key /\ f.client = c /\ f.run = r)
        PROVE  /\ client_run_scope_key(c, r) \in DOMAIN retained'
                    <=> client_run_scope_key(c, r) \in DOMAIN retained
               /\ client_run_scope_key(c, r) \in DOMAIN retained =>
                    retained'[client_run_scope_key(c, r)] = retained[client_run_scope_key(c, r)]
    <3>1. f.key => client_run_scope_key(c, r) # client_run_scope_key(f.client, f.run)
      BY <1>0, <2>2 DEF ScopeKeysInjective
    <3> QED
      BY <2>1, <3>1 DEF MapInsert
  <2>3. ASSUME NEW c \in Clients, NEW r \in Runs, f.key, f.client = c, f.run = r
        PROVE  /\ client_run_scope_key(c, r) \in DOMAIN retained'
               /\ retained'[client_run_scope_key(c, r)] = f
    BY <2>1, <2>3 DEF MapInsert
  <2>4. RetainedInScope'
    BY <2>2, <2>3 DEF ScopeInv, RetainedInScope, RetainedKeyframe
  <2>5. QueuedInScope'
    <3> SUFFICES ASSUME NEW c \in Clients, NEW i \in 1 .. Len(queue'[c])
                 PROVE  queue'[c][i].client = c
      BY DEF QueuedInScope
    <3>1. PICK d \in {0, 1} : MovedAndStored(f, c, d)
      BY <1>2, StoreFramePositions
    <3> USE DEF MovedAndStored
    <3>2. Len(queue[c]) \in Nat
      BY DEF QueueTypeOK
    <3>3. CASE i \in 1 .. Len(queue[c]) - d
      <4>1. i + d \in 1 .. Len(queue[c]) /\ queue'[c][i] = queue[c][i + d]
        BY <3>1, <3>2, <3>3
      <4> QED
        BY <4>1 DEF ScopeInv, QueuedInScope
    <3>4. CASE i \notin 1 .. Len(queue[c]) - d
      <4>1. c # f.client => Len(queue'[c]) = Len(queue[c]) - d
        BY <3>1, <3>2
      <4>2. c = f.client /\ Len(queue'[c]) = Len(queue[c]) - d + 1
        BY <3>1, <3>4, <4>1
      <4>3. i = Len(queue'[c])
        BY <3>1, <3>2, <3>4, <4>2
      <4> QED
        BY <3>1, <4>2, <4>3
    <3> QED
      BY <3>3, <3>4
  <2>6. ASSUME NEW c \in Clients, NEW r \in Runs PROVE NewestRetained(c, r)'
    <3>1. CASE ~(f.key /\ f.client = c /\ f.run = r)
      BY <1>2, <2>2, <3>1, StoreKeepsNewest, NewestCarriesOver DEF ScopeInv
    <3>2. CASE f.key /\ f.client = c /\ f.run = r
      <4>1. QueueTypeOK' /\ queue'[c] \in Seq(Frame)
        BY StoreFrameType DEF QueueTypeOK
      <4>2. PICK d \in {0, 1} : MovedAndStored(f, c, d)
        BY <1>2, StoreFramePositions
      <4> USE DEF MovedAndStored
      <4>3. Len(queue'[c]) \in 1 .. Len(queue'[c])
        <5>1. Len(queue[c]) \in Nat
          BY DEF QueueTypeOK
        <5>2. Len(queue'[c]) = Len(queue[c]) - d + 1 /\ d <= Len(queue[c])
          BY <3>2, <4>2
        <5>3. Len(queue[c]) - d + 1 \in 1 .. Len(queue[c]) - d + 1
          BY <5>1, <5>2
        <5> QED
          BY <5>2, <5>3
      <4>4. Len(queue'[c]) \in QueuedKeyframes(c, r)'
        BY <3>2, <4>2, <4>3 DEF QueuedKeyframes, frames_for_client_run
      <4>5. \A i \in LastOf(QueuedKeyframes(c, r))' : i = Len(queue'[c])
        <5> SUFFICES ASSUME NEW i \in LastOf(QueuedKeyframes(c, r))' PROVE i = Len(queue'[c])
          OBVIOUS
        <5>1. i \in 1 .. Len(queue'[c]) /\ Len(queue'[c]) <= i
          BY <4>4 DEF LastOf, QueuedKeyframes, frames_for_client_run
        <5> QED
          BY <4>1, <5>1
      <4> QED
        BY <2>3, <3>2, <4>2, <4>5 DEF NewestRetained
    <3> QED
      BY <3>1, <3>2
  <2> QED
    BY <2>4, <2>5, <2>6 DEF ScopeInv
<1> QED
  BY <1>1, <1>2

LEMMA PopFrontInScope ==
    ASSUME QueueTypeOK, ScopeInv, NEW c \in Clients, NEW r \in Runs,
           pop_front_for_client_run(c, r)
    PROVE  ScopeInv'
<1>1. PICK i \in FirstOf(frames_for_client_run(c, r)) :
        queue' = [queue EXCEPT ![c] = RemoveAt(@, i)] /\ UNCHANGED retained
  BY DEF pop_front_for_client_run
<1>2. queue[c] \in Seq(Frame) /\ i \in 1 .. Len(queue[c])
  BY DEF QueueTypeOK, FirstOf, frames_for_client_run
<1>3. RetainedInScope'
  BY <1>1 DEF ScopeInv, RetainedInScope, RetainedKeyframe
<1>4. \A d \in Clients, s \in Runs : NewestRetained(d, s)'
  BY <1>1, PopKeepsNewest, NewestCarriesOver DEF ScopeInv
<1>5. ASSUME NEW d \in Clients, NEW j \in 1 .. Len(queue'[d])
      PROVE  queue'[d][j].client = d
  <2>1. CASE d # c
    BY <1>1, <2>1 DEF QueueTypeOK, ScopeInv, QueuedInScope
  <2>2. CASE d = c
    <3>1. queue'[d] = RemoveAt(queue[c], i)
      BY <1>1, <2>2 DEF QueueTypeOK
    <3>2. j \in 1 .. Len(queue[c]) - 1
      BY <1>2, <3>1, RemoveAtElements
    <3>3. queue'[d][j] = IF j < i THEN queue[c][j] ELSE queue[c][j + 1]
      BY <1>2, <3>1, <3>2, RemoveAtElements
    <3>4. j \in 1 .. Len(queue[c]) /\ j + 1 \in 1 .. Len(queue[c])
      BY <1>2, <3>2
    <3> QED
      BY <2>2, <3>3, <3>4 DEF ScopeInv, QueuedInScope
  <2> QED
    BY <2>1, <2>2
<1> QED
  BY <1>3, <1>4, <1>5 DEF ScopeInv, QueuedInScope

LEMMA ScopeInvStep ==
    ASSUME ScopeKeysInjective, TypeOK, ScopeInv, [Next]_vars
    PROVE  ScopeInv'
<1>1. CASE UNCHANGED queueVars
  BY <1>1
     DEF queueVars, ScopeInv, RetainedInScope, QueuedInScope, NewestRetained, RetainedKeyframe,
         LastOf, QueuedKeyframes, frames_for_client_run
<1>2. ASSUME NEW p \in Packets, ProcessPacket(p) PROVE ScopeInv'
  BY <1>1, <1>2, PacketStoresBoundFrame, StoreFrameInScope DEF TypeOK
<1>3. ASSUME NEW c \in Clients, NEW r \in Runs, NEW mode \in ReadMode, handle_request(c, r, mode)
      PROVE  ScopeInv'
  BY <1>1, <1>3, PopFrontInScope DEF handle_request, TypeOK
<1> QED
  BY <1>1, <1>2, <1>3 DEF Next, vars, queueVars

\* ScopeInv is an invariant if the scope keys tell scopes apart.
LEMMA ScopeInvariant == Spec => [](ScopeKeysInjective => ScopeInv)
<1>1. Init => ScopeInv
  <2>1. Init => /\ \A c \in Clients : queue[c] = << >>
                /\ DOMAIN retained = {}
    BY DEF Init, QueueInit, EmptyMap
  <2> QED
    BY <2>1
       DEF ScopeInv, RetainedInScope, QueuedInScope, NewestRetained, RetainedKeyframe, LastOf,
           QueuedKeyframes, frames_for_client_run
<1>2. TypeOK /\ (ScopeKeysInjective => ScopeInv) /\ [Next]_vars => (ScopeKeysInjective => ScopeInv)'
  BY ScopeInvStep
<1> QED
  BY <1>1, <1>2, TypeCorrect, PTL DEF Spec

\* While a keyframe of a scope is queued, the retained slot of the scope holds
\* the newest one, whatever is stored, evicted and dequeued.
THEOREM RetainedIsNewest == Spec => [](ScopeKeysInjective => RetainedAgreesWithQueue)
<1>1. ScopeInv => RetainedAgreesWithQueue
  BY DEF ScopeInv, NewestRetained, RetainedAgreesWithQueue, RetainedKeyframe
<1> QED
  BY <1>1, ScopeInvariant, PTL

\* No read mode answers a frame of another client or run.
THEOREM ReadsInScope == Spec => [](ScopeKeysInjective => ReadsStayInScope)
<1>1. ASSUME ScopeInv, NEW c \in Clients, NEW r \in Runs, NEW mode \in ReadMode,
             NEW f \in read(c, r, mode)
      PROVE  f.client = c /\ f.run = r
  <2>1. \A i \in frames_for_client_run(c, r) : queue[c][i].client = c /\ queue[c][i].run = r
    BY <1>1 DEF ScopeInv, QueuedInScope, frames_for_client_run
  <2>2. CASE f \in RetainedKeyframe(c, r)
    BY <1>1, <2>2 DEF ScopeInv, RetainedInScope
  <2>3. CASE f \notin RetainedKeyframe(c, r)
    <3>1. \E i \in frames_for_client_run(c, r) : f = queue[c][i]
      BY <2>3 DEF read, ReadMode, FirstOf, LastOf, QueuedKeyframes
    <3> QED
      BY <2>1, <3>1
  <2> QED
    BY <2>2, <2>3
<1>2. ScopeInv => ReadsStayInScope
  BY <1>1 DEF ReadsStayInScope
<1> QED
  BY <1>2, ScopeInvariant, PTL

---------------------------------------------------------------------------
(***************************************************************************)
(* VideoIngest implements ScopedFifo, under the assumption that no two     *)
(* client/run scopes have the same client_run_scope_key: what the shared   *)
(* queue of a client holds for one of its runs is a FIFO, whatever the     *)
(* code appends, evicts or removes from the middle for the others.         *)
(***************************************************************************)

(***************************************************************************)
(* The k-th smallest element of a finite set of numbers.  The element i is *)
(* the k-th if k elements are up to it; counting them is an injection into *)
(* 1 .. Cardinality(F), hence onto it.                                     *)
(***************************************************************************)
Upto(F, i) == { j \in F : j <= i }

Rank(F, i) == Cardinality(Upto(F, i))

\* The place of an element is one of as many as there are elements.
LEMMA RankType ==
    ASSUME NEW F, IsFiniteSet(F), NEW i \in F, i \in Int
    PROVE  IsFiniteSet(Upto(F, i)) /\ Rank(F, i) \in 1 .. Cardinality(F)
<1>1. Upto(F, i) \in SUBSET F /\ i \in Upto(F, i)
  BY DEF Upto
<1>2. IsFiniteSet(Upto(F, i)) /\ Rank(F, i) <= Cardinality(F)
  BY <1>1, FS_Subset DEF Rank
<1>3. Rank(F, i) \in Nat /\ Cardinality(F) \in Nat
  BY <1>2, FS_CardinalityType DEF Rank
<1>4. Rank(F, i) # 0
  BY <1>1, <1>2, FS_EmptySet DEF Rank
<1> QED
  BY <1>2, <1>3, <1>4

\* A larger element has a later place.
LEMMA RankIncreases ==
    ASSUME NEW F \in SUBSET Int, IsFiniteSet(F), NEW i \in F, NEW j \in F, i < j
    PROVE  Rank(F, i) < Rank(F, j)
<1>0. i \in Int /\ j \in Int
  OBVIOUS
<1>1. Upto(F, i) \in SUBSET Upto(F, j)
  <2>1. ASSUME NEW x \in F, x <= i
        PROVE  x <= j
    <3>1. x \in Int
      OBVIOUS
    <3> QED
      BY <1>0, <2>1, <3>1
  <2> QED
    BY <2>1 DEF Upto
<1>2. Upto(F, i) # Upto(F, j)
  <2>1. j \in Upto(F, j) /\ j \notin Upto(F, i)
    BY DEF Upto
  <2> QED
    BY <2>1
<1>3. IsFiniteSet(Upto(F, j)) /\ Rank(F, i) \in Int /\ Rank(F, j) \in Int
  BY <1>0, RankType
<1>4. Rank(F, i) <= Rank(F, j) /\ Rank(F, i) # Rank(F, j)
  BY <1>1, <1>2, <1>3, FS_Subset DEF Rank
<1> QED
  BY <1>3, <1>4

\* Different elements have different places.
LEMMA RankInjective ==
    ASSUME NEW F \in SUBSET Int, IsFiniteSet(F), NEW i \in F, NEW j \in F,
           Rank(F, i) = Rank(F, j)
    PROVE  i = j
<1>1. i \in Int /\ j \in Int /\ Rank(F, i) \in Int
  BY RankType
<1>2. ~(i < j) /\ ~(j < i)
  BY <1>1, RankIncreases
<1> QED
  BY <1>1, <1>2

\* Every place is taken.
LEMMA RankOnto ==
    ASSUME NEW F \in SUBSET Int, IsFiniteSet(F), NEW k \in 1 .. Cardinality(F)
    PROVE  \E i \in F : Rank(F, i) = k
<1> DEFINE n == Cardinality(F)
           f == [i \in F |-> Rank(F, i)]
<1>1. n \in Nat /\ 1 \in Int /\ n \in Int
  BY FS_CardinalityType
<1>2. IsFiniteSet(1 .. n) /\ Cardinality(1 .. n) = n
  BY <1>1, FS_Interval
<1>3. f \in [F -> 1 .. n]
  BY RankType
<1>4. f \in Injection(F, 1 .. n)
  BY <1>3, RankInjective DEF Injection, IsInjective
<1>5. f \in Surjection(F, 1 .. n)
  BY <1>2, <1>4, FS_Injection
<1> QED
  BY <1>5 DEF Surjection

\* Kth finds the element in a given place, and no other element is there.
LEMMA KthSpec ==
    ASSUME NEW F \in SUBSET Int, IsFiniteSet(F), NEW k \in 1 .. Cardinality(F)
    PROVE  /\ Kth(F, k) \in F
           /\ Rank(F, Kth(F, k)) = k
           /\ \A j \in F : Rank(F, j) = k => Kth(F, k) = j
<1>1. PICK i \in F : Rank(F, i) = k
  BY RankOnto
<1>2. Kth(F, k) \in F /\ Rank(F, Kth(F, k)) = k
  BY <1>1 DEF Kth, Rank, Upto
<1>3. ASSUME NEW j \in F, Rank(F, j) = k
      PROVE  Kth(F, k) = j
  BY <1>2, <1>3, RankInjective
<1> QED
  BY <1>2, <1>3

\* An element above all others comes last and moves none of them.
LEMMA KthAdd ==
    ASSUME NEW F \in SUBSET Int, IsFiniteSet(F), NEW m \in Int, \A i \in F : i < m
    PROVE  /\ IsFiniteSet(F \cup {m}) /\ Cardinality(F \cup {m}) = Cardinality(F) + 1
           /\ \A k \in 1 .. Cardinality(F) : Kth(F \cup {m}, k) = Kth(F, k)
           /\ Kth(F \cup {m}, Cardinality(F) + 1) = m
<1> DEFINE G == F \cup {m}
<1>1. m \notin F /\ G \in SUBSET Int /\ m \in G
  OBVIOUS
<1>2. IsFiniteSet(G) /\ Cardinality(G) = Cardinality(F) + 1
  BY <1>1, FS_AddElement
<1>3. Cardinality(F) \in Nat
  BY FS_CardinalityType
<1>4. ASSUME NEW k \in 1 .. Cardinality(F)
      PROVE  Kth(G, k) = Kth(F, k)
  <2>1. Kth(F, k) \in F /\ Rank(F, Kth(F, k)) = k
    BY KthSpec
  <2>2. Upto(G, Kth(F, k)) = Upto(F, Kth(F, k))
    <3>1. Kth(F, k) \in Int /\ Kth(F, k) < m
      BY <2>1
    <3>2. ~(m <= Kth(F, k))
      BY <3>1
    <3> QED
      BY <3>2 DEF Upto
  <2>3. Rank(G, Kth(F, k)) = k /\ Kth(F, k) \in G
    BY <2>1, <2>2 DEF Rank
  <2>4. k \in 1 .. Cardinality(G)
    BY <1>2, <1>3
  <2>5. \A i \in G : Rank(G, i) = k => Kth(G, k) = i
    BY <1>1, <1>2, <2>4, KthSpec
  <2> QED
    BY <2>3, <2>5
<1>5. Kth(G, Cardinality(F) + 1) = m
  <2>1. Upto(G, m) = G
    <3>1. ASSUME NEW i \in G
          PROVE  i <= m
      BY <1>1
    <3> QED
      BY <3>1 DEF Upto
  <2>2. Rank(G, m) = Cardinality(F) + 1 /\ Cardinality(F) + 1 \in 1 .. Cardinality(G)
    BY <1>2, <1>3, <2>1 DEF Rank
  <2> QED
    BY <1>1, <1>2, <2>2, KthSpec
<1> QED
  BY <1>2, <1>4, <1>5

\* Without the smallest element every other one moves up by one place.
LEMMA KthDrop ==
    ASSUME NEW F \in SUBSET Int, IsFiniteSet(F), NEW m \in F, \A i \in F : m <= i
    PROVE  /\ IsFiniteSet(F \ {m}) /\ Cardinality(F \ {m}) = Cardinality(F) - 1
           /\ Cardinality(F) \in Nat \ {0}
           /\ \A k \in 1 .. Cardinality(F) - 1 : Kth(F \ {m}, k) = Kth(F, k + 1)
           /\ Kth(F, 1) = m
<1> DEFINE G == F \ {m}
<1>1. IsFiniteSet(G) /\ Cardinality(G) = Cardinality(F) - 1 /\ G \in SUBSET Int
  BY FS_RemoveElement
<1>2. Cardinality(F) \in Nat \ {0}
  BY FS_CardinalityType, FS_EmptySet
<1>3. Kth(F, 1) = m
  <2>1. Upto(F, m) = {m}
    <3>1. ASSUME NEW i \in F, i <= m
          PROVE  i = m
      <4>1. i \in Int /\ m \in Int /\ m <= i
        OBVIOUS
      <4> QED
        BY <3>1, <4>1
    <3>2. m <= m
      OBVIOUS
    <3> QED
      BY <3>1, <3>2 DEF Upto
  <2>2. Rank(F, m) = 1
    BY <2>1, FS_Singleton DEF Rank
  <2> QED
    BY <1>2, <2>2, KthSpec
<1>4. ASSUME NEW k \in 1 .. Cardinality(F) - 1
      PROVE  Kth(G, k) = Kth(F, k + 1)
  <2> DEFINE i == Kth(F, k + 1)
  <2>1. k + 1 \in 1 .. Cardinality(F) /\ 1 \in 1 .. Cardinality(F) /\ k + 1 # 1
    BY <1>2
  <2>2. i \in F /\ Rank(F, i) = k + 1 /\ Rank(F, m) = 1
    BY <1>3, <2>1, KthSpec
  <2> HIDE DEF i
  <2>3. i # m /\ i \in G /\ i \in Int
    BY <2>1, <2>2
  <2>4. Upto(G, i) = Upto(F, i) \ {m} /\ m \in Upto(F, i)
    BY <2>2 DEF Upto
  <2>5. IsFiniteSet(Upto(F, i))
    BY <2>2, <2>3, RankType
  <2>6. Rank(G, i) = Rank(F, i) - 1
    <3>1. Cardinality(Upto(F, i) \ {m}) = Cardinality(Upto(F, i)) - 1
      BY <2>4, <2>5, FS_RemoveElement
    <3> QED
      BY <2>4, <3>1 DEF Rank
  <2>7. Rank(G, i) = k /\ k \in 1 .. Cardinality(G)
    BY <1>1, <2>2, <2>6
  <2>8. Kth(G, k) = i
    BY <1>1, <2>3, <2>7, KthSpec
  <2> QED
    BY <2>8 DEF i
<1> QED
  BY <1>1, <1>2, <1>3, <1>4

\* A renumbering that keeps the order keeps the places.
LEMMA KthMoved ==
    ASSUME NEW F \in SUBSET Int, IsFiniteSet(F), NEW G \in SUBSET Int,
           NEW f \in [F -> G],
           \A i, j \in F : i < j => f[i] < f[j],
           \A g \in G : \E i \in F : f[i] = g
    PROVE  /\ IsFiniteSet(G) /\ Cardinality(G) = Cardinality(F)
           /\ \A k \in 1 .. Cardinality(F) : Kth(G, k) = f[Kth(F, k)]
<1>1. ASSUME NEW i \in F, NEW j \in F, f[i] <= f[j]
      PROVE  i <= j
  <2>1. i \in Int /\ j \in Int /\ f[i] \in Int /\ f[j] \in Int
    OBVIOUS
  <2>2. j < i => f[j] < f[i]
    OBVIOUS
  <2> QED
    BY <1>1, <2>1, <2>2
<1>2. ASSUME NEW A \in SUBSET F, NEW B \in SUBSET G, IsFiniteSet(A),
             \A i \in A : f[i] \in B, \A g \in B : \E i \in A : f[i] = g
      PROVE  IsFiniteSet(B) /\ Cardinality(B) = Cardinality(A)
  <2> DEFINE h == [i \in A |-> f[i]]
  <2>1. h \in [A -> B]
    BY <1>2
  <2>2. h \in Surjection(A, B)
    BY <1>2, <2>1 DEF Surjection
  <2>3. \A i, j \in A : f[i] = f[j] => i = j
    <3>1. SUFFICES ASSUME NEW i \in A, NEW j \in A, f[i] = f[j]
                   PROVE  i = j
      OBVIOUS
    <3>2. i \in F /\ j \in F /\ i \in Int /\ j \in Int /\ f[i] \in Int
      OBVIOUS
    <3>3. ~(i < j) /\ ~(j < i)
      BY <3>1, <3>2
    <3> QED
      BY <3>2, <3>3
  <2>4. h \in Injection(A, B)
    BY <2>1, <2>3 DEF Injection, IsInjective
  <2> QED
    BY <1>2, <2>2, <2>4, FS_Surjection
<1>3. IsFiniteSet(G) /\ Cardinality(G) = Cardinality(F)
  BY <1>2
<1>4. ASSUME NEW k \in 1 .. Cardinality(F)
      PROVE  Kth(G, k) = f[Kth(F, k)]
  <2> DEFINE i == Kth(F, k)
  <2>1. i \in F /\ Rank(F, i) = k
    BY KthSpec
  <2> HIDE DEF i
  <2>2. IsFiniteSet(Upto(F, i))
    BY <2>1, RankType
  <2>3. \A j \in Upto(F, i) : f[j] \in Upto(G, f[i])
    <3>1. SUFFICES ASSUME NEW j \in Upto(F, i) PROVE f[j] <= f[i]
      BY DEF Upto
    <3>2. j \in F /\ j \in Int /\ i \in Int /\ f[i] \in Int /\ f[j] \in Int /\ j <= i
      BY <2>1 DEF Upto
    <3>3. j < i => f[j] < f[i]
      BY <2>1, <3>2
    <3>4. CASE j = i
      BY <3>2, <3>4
    <3>5. CASE j < i
      BY <3>2, <3>3, <3>5
    <3> QED
      BY <3>2, <3>4, <3>5
  <2>4. \A g \in Upto(G, f[i]) : \E j \in Upto(F, i) : f[j] = g
    BY <1>1, <2>1 DEF Upto
  <2>5. Rank(G, f[i]) = k
    <3>1. Upto(F, i) \in SUBSET F /\ Upto(G, f[i]) \in SUBSET G
      BY DEF Upto
    <3> QED
      BY <1>2, <2>1, <2>2, <2>3, <2>4, <3>1 DEF Rank
  <2>6. k \in 1 .. Cardinality(G) /\ f[i] \in G
    BY <1>3, <2>1
  <2>7. \A g \in G : Rank(G, g) = k => Kth(G, k) = g
    BY <1>3, <2>6, KthSpec
  <2>8. Kth(G, k) = f[i]
    BY <2>5, <2>6, <2>7
  <2> QED
    BY <2>8 DEF i
<1> QED
  BY <1>3, <1>4

---------------------------------------------------------------------------
(***************************************************************************)
(* What a queue holds for a run.                                           *)
(***************************************************************************)
PositionsOf(q, r) == { i \in 1 .. Len(q) : q[i].run = r }

\* Sequences are equal if they have the same length and the same elements.
LEMMA SameSequence ==
    ASSUME NEW S, NEW s \in Seq(S), NEW t \in Seq(S), Len(s) = Len(t),
           \A k \in 1 .. Len(s) : s[k] = t[k]
    PROVE  s = t
OBVIOUS

LEMMA PositionsAreFinite ==
    ASSUME NEW q \in Seq(Frame), NEW r
    PROVE  /\ PositionsOf(q, r) \in SUBSET Int
           /\ PositionsOf(q, r) \in SUBSET (1 .. Len(q))
           /\ IsFiniteSet(PositionsOf(q, r))
           /\ Cardinality(PositionsOf(q, r)) \in Nat
<1>1. PositionsOf(q, r) \in SUBSET (1 .. Len(q)) /\ PositionsOf(q, r) \in SUBSET Int
  BY DEF PositionsOf
<1>2. IsFiniteSet(1 .. Len(q))
  BY FS_Interval
<1> QED
  BY <1>1, <1>2, FS_Subset, FS_CardinalityType

\* The frames of a run are queued frames, in the order of their positions.
LEMMA OfRunType ==
    ASSUME NEW q \in Seq(Frame), NEW r
    PROVE  /\ OfRun(q, r) \in Seq(Frame)
           /\ Len(OfRun(q, r)) = Cardinality(PositionsOf(q, r))
           /\ \A k \in 1 .. Len(OfRun(q, r)) :
                /\ Kth(PositionsOf(q, r), k) \in PositionsOf(q, r)
                /\ OfRun(q, r)[k] = q[Kth(PositionsOf(q, r), k)]
<1> DEFINE F == PositionsOf(q, r)
<1>1. F \in SUBSET Int /\ F \in SUBSET (1 .. Len(q)) /\ IsFiniteSet(F) /\ Cardinality(F) \in Nat
  BY PositionsAreFinite
<1>2. OfRun(q, r) = [k \in 1 .. Cardinality(F) |-> q[Kth(F, k)]]
  BY DEF OfRun, PositionsOf
<1> HIDE DEF F
<1>3. ASSUME NEW k \in 1 .. Cardinality(F)
      PROVE  Kth(F, k) \in F /\ q[Kth(F, k)] \in Frame
  <2>1. Kth(F, k) \in F
    BY <1>1, KthSpec
  <2>2. Kth(F, k) \in 1 .. Len(q)
    BY <1>1, <2>1
  <2>3. q[Kth(F, k)] \in Frame
    BY <2>2
  <2> QED
    BY <2>1, <2>3
<1>4. OfRun(q, r) \in Seq(Frame) /\ Len(OfRun(q, r)) = Cardinality(F)
  BY <1>1, <1>2, <1>3
<1> QED
  BY <1>2, <1>3, <1>4 DEF F

\* A frame that is appended to the queue is appended to its run.
LEMMA OfRunAppend ==
    ASSUME NEW q \in Seq(Frame), NEW f \in Frame, NEW r
    PROVE  OfRun(Append(q, f), r) =
             IF f.run = r THEN Append(OfRun(q, r), f) ELSE OfRun(q, r)
<1> DEFINE n == Append(q, f)
           F == PositionsOf(q, r)
           G == PositionsOf(n, r)
           s == OfRun(q, r)
           t == OfRun(n, r)
<1>1. /\ n \in Seq(Frame) /\ Len(n) = Len(q) + 1 /\ Len(q) \in Nat
      /\ \A i \in 1 .. Len(q) : n[i] = q[i]
      /\ n[Len(q) + 1] = f
  OBVIOUS
<1>2. /\ F \in SUBSET Int /\ F \in SUBSET (1 .. Len(q))
      /\ IsFiniteSet(F) /\ Cardinality(F) \in Nat
  BY PositionsAreFinite
<1>3. /\ s \in Seq(Frame) /\ Len(s) = Cardinality(F)
      /\ \A k \in 1 .. Len(s) : Kth(F, k) \in F /\ s[k] = q[Kth(F, k)]
  BY OfRunType
<1>4. /\ t \in Seq(Frame) /\ Len(t) = Cardinality(G)
      /\ \A k \in 1 .. Len(t) : t[k] = n[Kth(G, k)]
  BY <1>1, OfRunType
<1>5. CASE f.run = r
  <2>1. G = F \cup {Len(q) + 1}
    <3>1. \A i \in 1 .. Len(q) + 1 : i \in 1 .. Len(q) \/ i = Len(q) + 1
      BY <1>1
    <3>2. \A i \in 1 .. Len(q) : i \in 1 .. Len(q) + 1
      BY <1>1
    <3>3. Len(q) + 1 \in 1 .. Len(q) + 1
      BY <1>1
    <3> HIDE DEF n
    <3> QED
      BY <1>1, <1>5, <3>1, <3>2, <3>3 DEF PositionsOf
  <2>2. Len(q) + 1 \in Int /\ \A i \in F : i < Len(q) + 1
    BY <1>1, <1>2
  <2> HIDE DEF n, F, G, s, t
  <2>3. /\ Cardinality(G) = Cardinality(F) + 1
        /\ \A k \in 1 .. Cardinality(F) : Kth(G, k) = Kth(F, k)
        /\ Kth(G, Cardinality(F) + 1) = Len(q) + 1
    BY <1>2, <2>1, <2>2, KthAdd
  <2>4. /\ Append(s, f) \in Seq(Frame) /\ Len(Append(s, f)) = Len(s) + 1
        /\ \A k \in 1 .. Len(s) : Append(s, f)[k] = s[k]
        /\ Append(s, f)[Len(s) + 1] = f
    BY <1>3
  <2>5. Len(t) = Len(Append(s, f))
    BY <1>3, <1>4, <2>3, <2>4
  <2>6. ASSUME NEW k \in 1 .. Len(t)
        PROVE  t[k] = Append(s, f)[k]
    <3>1. CASE k = Len(s) + 1
      <4>1. t[k] = n[Len(q) + 1]
        BY <1>3, <1>4, <2>3, <3>1
      <4> QED
        BY <1>1, <2>4, <3>1, <4>1
    <3>2. CASE k # Len(s) + 1
      <4>1. k \in 1 .. Len(s) /\ k \in 1 .. Cardinality(F)
        BY <1>2, <1>3, <2>4, <2>5, <3>2
      <4>2. Kth(G, k) = Kth(F, k) /\ Kth(F, k) \in F
        BY <1>3, <2>3, <4>1
      <4>3. n[Kth(F, k)] = q[Kth(F, k)]
        BY <1>1, <1>2, <4>2
      <4> QED
        BY <1>3, <1>4, <2>4, <4>1, <4>2, <4>3
    <3> QED
      BY <3>1, <3>2
  <2>7. t = Append(s, f)
    BY <1>4, <2>4, <2>5, <2>6, SameSequence
  <2> QED
    BY <1>5, <2>7 DEF s, t, n
<1>6. CASE f.run # r
  <2>1. G = F
    <3>1. \A i \in 1 .. Len(q) + 1 : i \in 1 .. Len(q) \/ i = Len(q) + 1
      BY <1>1
    <3>2. \A i \in 1 .. Len(q) : i \in 1 .. Len(q) + 1
      BY <1>1
    <3> HIDE DEF n
    <3> QED
      BY <1>1, <1>6, <3>1, <3>2 DEF PositionsOf
  <2> HIDE DEF n, F, G, s, t
  <2>2. \A k \in 1 .. Len(s) : n[Kth(F, k)] = q[Kth(F, k)]
    BY <1>1, <1>2, <1>3
  <2>3. Len(t) = Len(s) /\ \A k \in 1 .. Len(s) : t[k] = s[k]
    BY <1>3, <1>4, <2>1, <2>2
  <2>4. t = s
    BY <1>3, <1>4, <2>3, SameSequence
  <2> QED
    BY <1>6, <2>4 DEF s, t, n
<1> QED
  BY <1>5, <1>6

\* Taking the first frame of a run takes the head of what the queue holds for
\* that run, and leaves the other runs alone.
LEMMA OfRunRemove ==
    ASSUME NEW q \in Seq(Frame), NEW r, NEW i \in FirstOf(PositionsOf(q, r)), NEW run
    PROVE  /\ OfRun(q, r) # << >> /\ Head(OfRun(q, r)) = q[i]
           /\ OfRun(RemoveAt(q, i), run) =
                IF run = r THEN Tail(OfRun(q, r)) ELSE OfRun(q, run)
<1> DEFINE n == RemoveAt(q, i)
           P == PositionsOf(q, r)
           F == PositionsOf(q, run) \ {i}
           G == PositionsOf(n, run)
           f == [j \in F |-> IF j < i THEN j ELSE j - 1]
           s == OfRun(q, r)
           u == OfRun(q, run)
           t == OfRun(n, run)
<1>1. /\ i \in P /\ \A j \in P : i <= j
      /\ i \in 1 .. Len(q) /\ q[i].run = r
  BY DEF FirstOf, PositionsOf
<1>2. Len(q) \in Nat /\ i \in Int
  BY <1>1
<1>3. /\ n \in Seq(Frame) /\ Len(n) = Len(q) - 1
      /\ \A j \in 1 .. Len(q) - 1 : n[j] = IF j < i THEN q[j] ELSE q[j + 1]
  BY <1>1, RemoveAtElements
<1>4. /\ P \in SUBSET Int /\ IsFiniteSet(P)
      /\ PositionsOf(q, run) \in SUBSET Int /\ PositionsOf(q, run) \in SUBSET (1 .. Len(q))
      /\ IsFiniteSet(PositionsOf(q, run))
      /\ Cardinality(PositionsOf(q, run)) \in Nat
  BY PositionsAreFinite
<1>5. F \in SUBSET Int /\ IsFiniteSet(F)
  BY <1>4, FS_RemoveElement
<1>6. G \in SUBSET Int
  BY <1>3, PositionsAreFinite
<1>7. /\ Cardinality(P) \in Nat \ {0} /\ Kth(P, 1) = i
      /\ Cardinality(P \ {i}) = Cardinality(P) - 1
      /\ \A k \in 1 .. Cardinality(P) - 1 : Kth(P \ {i}, k) = Kth(P, k + 1)
  BY <1>1, <1>4, KthDrop
<1>8. /\ s \in Seq(Frame) /\ Len(s) = Cardinality(P)
      /\ \A k \in 1 .. Len(s) : s[k] = q[Kth(P, k)]
  BY OfRunType
<1>9. s # << >> /\ Head(s) = q[i]
  <2> HIDE DEF s, P
  <2>1. Len(s) \in Nat \ {0} /\ 1 \in 1 .. Len(s)
    BY <1>7, <1>8
  <2>2. s[1] = q[i]
    BY <1>7, <1>8, <2>1
  <2> QED
    BY <1>8, <2>1, <2>2
<1>10. /\ t \in Seq(Frame) /\ Len(t) = Cardinality(G)
       /\ \A k \in 1 .. Len(t) : Kth(G, k) \in G /\ t[k] = n[Kth(G, k)]
  BY <1>3, OfRunType
<1>11. /\ u \in Seq(Frame) /\ Len(u) = Cardinality(PositionsOf(q, run))
       /\ \A k \in 1 .. Len(u) : u[k] = q[Kth(PositionsOf(q, run), k)]
  BY OfRunType
\* Removing position i renumbers the others in their order.
<1>12. \A j \in F : f[j] \in G /\ n[f[j]] = q[j]
  <2>1. SUFFICES ASSUME NEW j \in F
                 PROVE  f[j] \in G /\ n[f[j]] = q[j]
    OBVIOUS
  <2>2. j \in 1 .. Len(q) /\ j # i /\ q[j].run = run
    BY DEF PositionsOf
  <2> HIDE DEF n
  <2>3. CASE j < i
    <3>1. f[j] = j /\ j \in 1 .. Len(q) - 1
      BY <1>1, <1>2, <2>2, <2>3
    <3>2. n[j] = q[j] /\ j \in 1 .. Len(n)
      BY <1>3, <2>3, <3>1
    <3> HIDE DEF f
    <3> QED
      BY <2>2, <3>1, <3>2 DEF PositionsOf
  <2>4. CASE ~(j < i)
    <3>1. f[j] = j - 1 /\ j - 1 \in 1 .. Len(q) - 1 /\ ~(j - 1 < i) /\ j - 1 + 1 = j
      BY <1>1, <1>2, <2>2, <2>4
    <3>2. n[j - 1] = q[j] /\ j - 1 \in 1 .. Len(n)
      BY <1>3, <3>1
    <3> HIDE DEF f
    <3> QED
      BY <2>2, <3>1, <3>2 DEF PositionsOf
  <2> QED
    BY <2>3, <2>4
<1>13. \A j, k \in F : j < k => f[j] < f[k]
  <2>1. SUFFICES ASSUME NEW j \in F, NEW k \in F, j < k
                 PROVE  f[j] < f[k]
    OBVIOUS
  <2>2. j \in Int /\ k \in Int /\ j # i /\ k # i
    BY <1>5
  <2>3. f[j] = (IF j < i THEN j ELSE j - 1) /\ f[k] = (IF k < i THEN k ELSE k - 1)
    OBVIOUS
  <2> HIDE DEF f, F
  <2> QED
    BY <1>2, <2>1, <2>2, <2>3
<1>14. \A g \in G : \E j \in F : f[j] = g
  <2>1. SUFFICES ASSUME NEW g \in G
                 PROVE  \E j \in F : f[j] = g
    OBVIOUS
  <2>2. g \in 1 .. Len(q) - 1 /\ n[g].run = run
    BY <1>3 DEF PositionsOf
  <2>3. CASE g < i
    <3>1. g \in 1 .. Len(q) /\ q[g].run = run /\ g # i
      BY <1>1, <1>2, <1>3, <2>2, <2>3
    <3>2. g \in F
      BY <3>1 DEF PositionsOf
    <3> QED
      BY <2>3, <3>2
  <2>4. CASE ~(g < i)
    <3>1. /\ g + 1 \in 1 .. Len(q) /\ q[g + 1].run = run /\ g + 1 # i
          /\ ~(g + 1 < i) /\ g + 1 - 1 = g
      BY <1>1, <1>2, <1>3, <2>2, <2>4
    <3>2. g + 1 \in F
      BY <3>1 DEF PositionsOf
    <3>3. PICK h \in F : h = g + 1 /\ h \in Int /\ ~(h < i) /\ h - 1 = g
      BY <1>2, <2>2, <3>1, <3>2
    <3>4. f[h] = IF h < i THEN h ELSE h - 1
      OBVIOUS
    <3> HIDE DEF f, F
    <3> QED
      BY <3>3, <3>4
  <2> QED
    BY <2>3, <2>4
<1>15. f \in [F -> G]
  BY <1>12
<1>16. /\ Cardinality(G) = Cardinality(F)
       /\ \A k \in 1 .. Cardinality(F) : Kth(G, k) = f[Kth(F, k)] /\ Kth(F, k) \in F
  <2> HIDE DEF f, F, G
  <2> QED
    BY <1>5, <1>6, <1>13, <1>14, <1>15, KthMoved, KthSpec
<1>17. Len(t) = Cardinality(F) /\ \A k \in 1 .. Len(t) : t[k] = q[Kth(F, k)]
  <2> HIDE DEF f, F, G, n, t
  <2> QED
    BY <1>10, <1>12, <1>16
<1>18. CASE run = r
  <2>1. F = P \ {i}
    BY <1>18
  <2> HIDE DEF f, F, G, P, n, s, t
  <2>2. /\ Tail(s) \in Seq(Frame) /\ Len(Tail(s)) = Len(s) - 1
        /\ \A k \in 1 .. Len(s) - 1 : Tail(s)[k] = s[k + 1]
    BY <1>8, <1>9
  <2>3. Len(t) = Len(Tail(s))
    BY <1>7, <1>8, <1>17, <2>1, <2>2
  <2>4. ASSUME NEW k \in 1 .. Len(t)
        PROVE  t[k] = Tail(s)[k]
    <3>1. k \in 1 .. Cardinality(P) - 1 /\ k + 1 \in 1 .. Len(s) /\ k \in 1 .. Len(s) - 1
      BY <1>7, <1>8, <2>2, <2>3
    <3>2. t[k] = q[Kth(P, k + 1)]
      BY <1>7, <1>17, <2>1, <3>1
    <3> QED
      BY <1>8, <2>2, <3>1, <3>2
  <2>5. t = Tail(s)
    BY <1>10, <2>2, <2>3, <2>4, SameSequence
  <2> QED
    BY <1>9, <1>18, <2>5 DEF s, t, n
<1>19. CASE run # r
  <2>1. F = PositionsOf(q, run)
    BY <1>1, <1>19 DEF PositionsOf
  <2> HIDE DEF f, F, G, P, n, s, t, u
  <2>2. Len(t) = Len(u) /\ \A k \in 1 .. Len(t) : t[k] = u[k]
    BY <1>11, <1>17, <2>1
  <2>3. t = u
    BY <1>10, <1>11, <2>2, SameSequence
  <2> QED
    BY <1>9, <1>19, <2>3 DEF s, t, u, n
<1> QED
  BY <1>18, <1>19

\* What is left of a full queue when its oldest frame is evicted.
LEMMA TailIsRemoval ==
    ASSUME NEW q \in Seq(Frame), q # << >>
    PROVE  /\ Tail(q) = RemoveAt(q, 1)
           /\ q[1] \in Frame
           /\ 1 \in FirstOf(PositionsOf(q, q[1].run))
<1>1. Len(q) \in Nat \ {0} /\ 1 \in 1 .. Len(q)
  OBVIOUS
<1>2. /\ RemoveAt(q, 1) \in Seq(Frame)
      /\ Len(RemoveAt(q, 1)) = Len(q) - 1
      /\ \A j \in 1 .. Len(q) - 1 :
            RemoveAt(q, 1)[j] = IF j < 1 THEN q[j] ELSE q[j + 1]
  BY <1>1, RemoveAtElements
<1>3. /\ Tail(q) \in Seq(Frame)
      /\ Len(Tail(q)) = Len(q) - 1
      /\ \A j \in 1 .. Len(q) - 1 : Tail(q)[j] = q[j + 1]
  OBVIOUS
<1>4. \A j \in 1 .. Len(Tail(q)) : Tail(q)[j] = RemoveAt(q, 1)[j]
  BY <1>1, <1>2, <1>3
<1>5. Tail(q) = RemoveAt(q, 1)
  BY <1>2, <1>3, <1>4, SameSequence
<1>6. \A j \in PositionsOf(q, q[1].run) : 1 <= j
  BY <1>1 DEF PositionsOf
<1> QED
  BY <1>1, <1>5, <1>6 DEF FirstOf, PositionsOf

\* The first and the last position of a run are in the first and in the last
\* place.
LEMMA KthEnds ==
    ASSUME NEW F \in SUBSET Int, IsFiniteSet(F), F # {}
    PROVE  /\ Cardinality(F) \in Nat \ {0}
           /\ FirstOf(F) = {Kth(F, 1)}
           /\ LastOf(F) = {Kth(F, Cardinality(F))}
<1>1. Cardinality(F) \in Nat \ {0}
  BY FS_CardinalityType, FS_EmptySet
<1>2. 1 \in 1 .. Cardinality(F) /\ Cardinality(F) \in 1 .. Cardinality(F)
  BY <1>1
<1>3. \A i \in F : i \in Int /\ Rank(F, i) \in 1 .. Cardinality(F)
  BY RankType
<1>4. FirstOf(F) = {Kth(F, 1)}
  <2> DEFINE m == Kth(F, 1)
  <2>1. m \in F /\ Rank(F, m) = 1
    BY <1>2, KthSpec
  <2> HIDE DEF m
  <2>2. ASSUME NEW i \in F
        PROVE  m <= i
    <3>1. i < m => Rank(F, i) < 1
      BY <2>1, RankIncreases
    <3> QED
      BY <1>1, <1>3, <2>1, <3>1
  <2>3. ASSUME NEW i \in F, i <= m
        PROVE  i = m
    BY <1>3, <2>1, <2>2, <2>3
  <2>4. FirstOf(F) = {m}
    BY <2>1, <2>2, <2>3 DEF FirstOf
  <2> QED
    BY <2>4 DEF m
<1>5. LastOf(F) = {Kth(F, Cardinality(F))}
  <2> DEFINE m == Kth(F, Cardinality(F))
  <2>1. m \in F /\ Rank(F, m) = Cardinality(F)
    BY <1>2, KthSpec
  <2> HIDE DEF m
  <2>2. ASSUME NEW i \in F
        PROVE  i <= m
    <3>1. m < i => Rank(F, m) < Rank(F, i)
      BY <2>1, RankIncreases
    <3> QED
      BY <1>1, <1>3, <2>1, <3>1
  <2>3. ASSUME NEW i \in F, m <= i
        PROVE  i = m
    BY <1>3, <2>1, <2>2, <2>3
  <2>4. LastOf(F) = {m}
    BY <2>1, <2>2, <2>3 DEF LastOf
  <2> QED
    BY <2>4 DEF m
<1> QED
  BY <1>1, <1>4, <1>5

---------------------------------------------------------------------------
(***************************************************************************)
(* The steps of the code as steps of the FIFOs.                            *)
(***************************************************************************)
\* A scope's place in the FIFOs stands for a position of the client's queue,
\* so the scopes of a client hold as many frames as its queue.
LEMMA BacklogSize ==
    ASSUME QueueTypeOK, NEW c \in Clients
    PROVE  Cardinality(Fifo!Backlog(c)) = Len(queue[c])
<1> DEFINE q == queue[c]
           B == Fifo!Backlog(c)
           f == [p \in B |-> Kth(PositionsOf(q, p[1]), p[2])]
<1>1. q \in Seq(Frame) /\ Len(q) \in Nat
  BY DEF QueueTypeOK
<1>2. \A r \in Runs : ScopeQueues[<<c, r>>] = OfRun(q, r)
  BY DEF ScopeQueues
<1>3. \A r \in Runs : DOMAIN OfRun(q, r) = 1 .. Cardinality(PositionsOf(q, r))
  BY <1>1, OfRunType
<1>4. B = UNION { {r} \X (1 .. Cardinality(PositionsOf(q, r))) : r \in Runs }
  BY <1>2, <1>3 DEF Fifo!Backlog
<1>5. /\ \A p \in B : p = <<p[1], p[2]>> /\ p[1] \in Runs
                      /\ p[2] \in 1 .. Cardinality(PositionsOf(q, p[1]))
      /\ \A r \in Runs : \A k \in 1 .. Cardinality(PositionsOf(q, r)) : <<r, k>> \in B
  <2> HIDE DEF q, B
  <2> QED
    BY <1>4
<1> HIDE DEF B, q
<1>6. \A r : /\ PositionsOf(q, r) \in SUBSET Int
             /\ PositionsOf(q, r) \in SUBSET (1 .. Len(q))
             /\ IsFiniteSet(PositionsOf(q, r))
  BY <1>1, PositionsAreFinite
<1>7. \A p \in B : f[p] \in PositionsOf(q, p[1]) /\ Rank(PositionsOf(q, p[1]), f[p]) = p[2]
  BY <1>5, <1>6, KthSpec
<1>8. f \in [B -> 1 .. Len(q)]
  BY <1>6, <1>7
<1>9. ASSUME NEW a \in B, NEW b \in B, f[a] = f[b]
      PROVE  a = b
  <2> HIDE DEF f
  <2>1. a[1] = b[1]
    <3>1. f[a] \in PositionsOf(q, a[1]) /\ f[b] \in PositionsOf(q, b[1])
      BY <1>7
    <3>2. q[f[a]].run = a[1] /\ q[f[b]].run = b[1]
      BY <3>1 DEF PositionsOf
    <3> QED
      BY <1>9, <3>2
  <2>2. a[2] = b[2]
    BY <1>7, <1>9, <2>1
  <2> QED
    BY <1>5, <2>1, <2>2
<1>10. ASSUME NEW i \in 1 .. Len(q)
       PROVE  \E p \in B : f[p] = i
  <2> DEFINE r == q[i].run
             k == Rank(PositionsOf(q, r), i)
  <2>1. r \in Runs
    <3>1. q[i] \in Frame
      BY <1>1
    <3> QED
      BY <3>1 DEF Frame
  <2>2. i \in PositionsOf(q, r) /\ i \in Int
    BY DEF PositionsOf
  <2> HIDE DEF r
  <2>3. k \in 1 .. Cardinality(PositionsOf(q, r))
    BY <1>6, <2>2, RankType
  <2>4. <<r, k>> \in B /\ Kth(PositionsOf(q, r), k) = i
    BY <1>5, <1>6, <2>1, <2>2, <2>3, KthSpec
  <2>5. f[<<r, k>>] = i
    BY <2>4
  <2> QED
    BY <2>4, <2>5
<1>11. f \in Injection(B, 1 .. Len(q)) /\ f \in Surjection(B, 1 .. Len(q))
  BY <1>8, <1>9, <1>10 DEF Injection, IsInjective, Surjection
<1> HIDE DEF f
<1>12. IsFiniteSet(1 .. Len(q)) /\ Cardinality(1 .. Len(q)) = Len(q)
  BY <1>1, FS_Interval
<1>13. Cardinality(B) = Len(q)
  BY <1>11, <1>12, FS_Injection
<1> QED
  BY <1>13 DEF B, q

\* A function that differs from another one in one place.
LEMMA ChangedAt ==
    ASSUME NEW D, NEW old, DOMAIN old = D, old = [x \in D |-> old[x]],
           NEW new, new = [x \in D |-> new[x]], NEW s \in D,
           \A x \in D : x # s => new[x] = old[x]
    PROVE  new = [old EXCEPT ![s] = new[s]]
OBVIOUS

\* The instance counts as its user does.
LEMMA FifoCounts ==
    ASSUME NEW S
    PROVE  Fifo!Cardinality(S) = Cardinality(S)
BY DEF Fifo!Cardinality, Cardinality

\* A keyframe replaces the one kept for its scope, and no other.
LEMMA KeyframeIsKept ==
    ASSUME ScopeKeysInjective, NEW f \in Frame, store_frame(f), MaxFrames # 0
    PROVE  ScopeKeyframes' = IF f.key THEN [ScopeKeyframes EXCEPT ![<<f.client, f.run>>] = {f}]
                                      ELSE ScopeKeyframes
<1>1. CASE ~f.key
  <2>1. retained' = retained
    BY <1>1 DEF store_frame
  <2> QED
    BY <1>1, <2>1 DEF ScopeKeyframes, RetainedKeyframe
<1>2. CASE f.key
  <2> DEFINE k == client_run_scope_key(f.client, f.run)
             s == <<f.client, f.run>>
             D == Clients \X Runs
  <2>1. f.client \in Clients /\ f.run \in Runs /\ s \in D
    BY DEF Frame
  <2>2. retained' = MapInsert(retained, k, f)
    BY <1>2 DEF store_frame
  <2>3. ASSUME NEW x \in D
        PROVE  ScopeKeyframes'[x] = IF x = s THEN {f} ELSE ScopeKeyframes[x]
    <3> DEFINE m == client_run_scope_key(x[1], x[2])
    <3>1. x[1] \in Clients /\ x[2] \in Runs /\ x = <<x[1], x[2]>>
      OBVIOUS
    <3>2. m = k <=> x = s
      BY <2>1, <3>1 DEF ScopeKeysInjective
    <3> HIDE DEF k
    <3>3. RetainedKeyframe(x[1], x[2])' = IF m = k THEN {f} ELSE RetainedKeyframe(x[1], x[2])
      BY <2>2 DEF RetainedKeyframe, MapInsert
    <3> QED
      BY <3>2, <3>3 DEF ScopeKeyframes
  <2>4. /\ DOMAIN ScopeKeyframes = D /\ ScopeKeyframes = [x \in D |-> ScopeKeyframes[x]]
        /\ ScopeKeyframes' = [x \in D |-> ScopeKeyframes'[x]]
    BY DEF ScopeKeyframes
  <2> HIDE DEF s, D
  <2>5. ScopeKeyframes' = [ScopeKeyframes EXCEPT ![s] = ScopeKeyframes'[s]]
    BY <2>1, <2>3, <2>4, ChangedAt
  <2>6. ScopeKeyframes'[s] = {f}
    BY <2>1, <2>3
  <2> QED
    BY <1>2, <2>5, <2>6 DEF s
<1> QED
  BY <1>1, <1>2

\* A frame that the code queues is put into its scope's FIFO, in the place of
\* the head of one of the client's FIFOs if the backlog is at its limit.
LEMMA StoreIsPut ==
    ASSUME ScopeKeysInjective, QueueTypeOK, BacklogBounded, NEW f \in Frame, store_frame(f),
           MaxFrames # 0
    PROVE  Fifo!Next
<1> DEFINE c == f.client
           s == <<f.client, f.run>>
           q == queue[c]
           e == IF Len(q) >= MaxFrames THEN Tail(q) ELSE q
           D == Clients \X Runs
           now == ScopeQueues
           next == ScopeQueues'
<1>1. /\ c \in Clients /\ f.run \in Runs /\ s \in D /\ s[1] = c /\ s[2] = f.run
      /\ \A x \in D : x[1] = c /\ x[2] = f.run => x = s
  BY DEF Frame
<1>2. q \in Seq(Frame) /\ Len(q) \in Nat /\ Len(q) <= MaxFrames /\ MaxFrames \in Nat \ {0}
  BY <1>1, VideoFrameQueueAssumption DEF QueueTypeOK, BacklogBounded
<1>3. queue' = [queue EXCEPT ![c] = Append(e, f)]
  BY DEF store_frame
<1>4. e \in Seq(Frame)
  BY <1>2
<1>5. queue'[c] = Append(e, f) /\ \A d \in Clients : d # c => queue'[d] = queue[d]
  BY <1>1, <1>3 DEF QueueTypeOK
<1>6. Fifo!Cardinality(Fifo!Backlog(c)) = Len(q)
  BY <1>1, BacklogSize, FifoCounts
<1>7. /\ DOMAIN now = D /\ now = [x \in D |-> now[x]]
      /\ \A x \in D : x[1] \in Clients /\ x[2] \in Runs /\ now[x] = OfRun(queue[x[1]], x[2])
  BY DEF ScopeQueues
<1>8. /\ DOMAIN next = D /\ next = [x \in D |-> next[x]]
      /\ \A x \in D : x[1] \in Clients /\ x[2] \in Runs /\ next[x] = OfRun(queue'[x[1]], x[2])
  BY DEF ScopeQueues
<1> HIDE DEF c, s, e, q, D, now, next
\* The other clients' FIFOs stay, and the new frame comes last in its own.
<1>9. \A x \in D : x[1] # c => next[x] = now[x]
  BY <1>5, <1>7, <1>8
<1>10. \A r : OfRun(Append(e, f), r) =
                IF r = f.run THEN Append(OfRun(e, r), f) ELSE OfRun(e, r)
  BY <1>4, OfRunAppend
<1>11. ASSUME NEW x \in D, x[1] = c
       PROVE  next[x] = IF x = s THEN Append(OfRun(e, f.run), f) ELSE OfRun(e, x[2])
  <2>1. next[x] = OfRun(Append(e, f), x[2])
    BY <1>5, <1>8, <1>11
  <2>2. x = s <=> x[2] = f.run
    BY <1>1, <1>11
  <2> QED
    BY <1>10, <2>1, <2>2
<1>12. OfRun(e, f.run) \in Seq(Frame) /\ next[s] = Append(OfRun(e, f.run), f)
  BY <1>1, <1>4, <1>11, OfRunType
<1>13. next[s] # << >> /\ next[s][Len(next[s])] = f
  <2> DEFINE g == OfRun(e, f.run)
  <2>1. g \in Seq(Frame) /\ next[s] = Append(g, f)
    BY <1>12
  <2> HIDE DEF g
  <2>2. Append(g, f) # << >> /\ Append(g, f)[Len(Append(g, f))] = f
    BY <2>1
  <2> QED
    BY <2>1, <2>2
<1>14. ScopeKeyframes' = IF f.key THEN [ScopeKeyframes EXCEPT ![s] = {f}] ELSE ScopeKeyframes
  BY KeyframeIsKept DEF s
<1>15. CASE Len(q) >= MaxFrames
  <2> DEFINE h == q[1].run
             head == <<c, h>>
             shorter == [now EXCEPT ![head] = Tail(@)]
  <2>1. e = Tail(q) /\ q # << >> /\ Fifo!Cardinality(Fifo!Backlog(c)) = MaxFrames
    BY <1>2, <1>6, <1>15 DEF e
  <2>2. e = RemoveAt(q, 1) /\ h \in Runs /\ 1 \in FirstOf(PositionsOf(q, h))
    BY <1>2, <2>1, TailIsRemoval DEF Frame
  <2>3. head \in D /\ head[1] = c /\ head[2] = h /\ \A x \in D : x[1] = c /\ x[2] = h => x = head
    BY <1>1, <2>2 DEF D
  <2> HIDE DEF h, head
  <2>4. /\ OfRun(q, h) # << >>
        /\ \A r : OfRun(e, r) = IF r = h THEN Tail(OfRun(q, h)) ELSE OfRun(q, r)
    BY <1>2, <2>2, OfRunRemove
  <2>5. now[head] # << >> /\ now[head] = OfRun(q, h)
    BY <1>7, <2>3, <2>4 DEF q
  <2>6. /\ DOMAIN shorter = D /\ shorter = [x \in D |-> shorter[x]]
        /\ shorter[head] = Tail(now[head])
        /\ \A x \in D : x # head => shorter[x] = now[x]
    BY <1>7, <2>3
  <2> HIDE DEF shorter
  <2>7. \A x \in D : x[1] = c => OfRun(e, x[2]) = shorter[x]
    BY <1>7, <2>3, <2>4, <2>5, <2>6 DEF q
  <2>8. \A x \in D : x # s => next[x] = shorter[x]
    BY <1>9, <1>11, <2>3, <2>6, <2>7
  <2>9. next[s] = Append(shorter[s], f)
    BY <1>1, <1>12, <2>7
  <2>10. next = [shorter EXCEPT ![s] = Append(@, f)]
    <3>1. next = [shorter EXCEPT ![s] = next[s]]
      BY <1>1, <1>8, <2>6, <2>8, ChangedAt
    <3> QED
      BY <2>9, <3>1
  <2>11. Fifo!PutEvicting(s, f)
    <3>1. h \in Runs /\ <<s[1], h>> = head /\ s[1] = c
      BY <1>1, <2>2 DEF head
    <3>2. shorter = [now EXCEPT ![head] = Tail(@)]
      BY DEF shorter
    <3> QED
      BY <1>14, <2>1, <2>5, <2>10, <3>1, <3>2 DEF Fifo!PutEvicting, now, next
  <2> QED
    BY <1>1, <1>13, <2>11 DEF Fifo!Next, Fifo!Scopes, next, D
<1>16. CASE ~(Len(q) >= MaxFrames)
  <2>1. e = q /\ Fifo!Cardinality(Fifo!Backlog(c)) < MaxFrames
    BY <1>2, <1>6, <1>16 DEF e
  <2>2. \A x \in D : x[1] = c => OfRun(e, x[2]) = now[x]
    BY <1>7, <2>1 DEF q
  <2>3. \A x \in D : x # s => next[x] = now[x]
    BY <1>9, <1>11, <2>2
  <2>4. next[s] = Append(now[s], f)
    BY <1>1, <1>12, <2>2
  <2>5. next = [now EXCEPT ![s] = Append(@, f)]
    <3>1. next = [now EXCEPT ![s] = next[s]]
      BY <1>1, <1>7, <1>8, <2>3, ChangedAt
    <3> QED
      BY <2>4, <3>1
  <2>6. Fifo!Put(s, f)
    BY <1>1, <1>14, <2>1, <2>5 DEF Fifo!Put, now, next
  <2> QED
    BY <1>1, <1>13, <2>6 DEF Fifo!Next, Fifo!Scopes, next, D
<1> QED
  BY <1>15, <1>16

\* Taking the oldest frame of a run out of the shared queue is taking the head
\* of the scope's FIFO.
LEMMA PopFrontIsGet ==
    ASSUME QueueTypeOK, NEW c \in Clients, NEW r \in Runs, pop_front_for_client_run(c, r)
    PROVE  Fifo!Next
<1> DEFINE s == <<c, r>>
           q == queue[c]
           D == Clients \X Runs
           now == ScopeQueues
           next == ScopeQueues'
<1>1. PICK i \in FirstOf(PositionsOf(q, r)) :
        queue' = [queue EXCEPT ![c] = RemoveAt(@, i)] /\ retained' = retained
  BY DEF pop_front_for_client_run, frames_for_client_run, PositionsOf
<1>2. q \in Seq(Frame)
  BY DEF QueueTypeOK
<1>3. queue'[c] = RemoveAt(q, i) /\ \A d \in Clients : d # c => queue'[d] = queue[d]
  BY <1>1 DEF QueueTypeOK
<1>4. /\ DOMAIN now = D /\ now = [x \in D |-> now[x]]
      /\ \A x \in D : x[1] \in Clients /\ x[2] \in Runs /\ now[x] = OfRun(queue[x[1]], x[2])
  BY DEF ScopeQueues
<1>5. /\ DOMAIN next = D /\ next = [x \in D |-> next[x]]
      /\ \A x \in D : x[1] \in Clients /\ x[2] \in Runs /\ next[x] = OfRun(queue'[x[1]], x[2])
  BY DEF ScopeQueues
<1>6. s \in D /\ s[1] = c /\ s[2] = r /\ \A x \in D : x[1] = c /\ x[2] = r => x = s
  OBVIOUS
<1>7. ScopeKeyframes' = ScopeKeyframes
  BY <1>1 DEF ScopeKeyframes, RetainedKeyframe
<1> HIDE DEF s, q, D, now, next
<1>8. /\ OfRun(q, r) # << >>
      /\ \A x : OfRun(RemoveAt(q, i), x) = IF x = r THEN Tail(OfRun(q, r)) ELSE OfRun(q, x)
  BY <1>2, OfRunRemove
<1>9. now[s] # << >> /\ now[s] = OfRun(q, r)
  BY <1>4, <1>6, <1>8 DEF q
<1>10. next[s] = Tail(now[s])
  BY <1>3, <1>5, <1>6, <1>8, <1>9
<1>11. ASSUME NEW x \in D, x # s
       PROVE  next[x] = now[x]
  <2>1. CASE x[1] = c
    <3>1. x[2] # r
      BY <1>6, <1>11, <2>1
    <3> QED
      BY <1>3, <1>4, <1>5, <1>8, <2>1, <3>1 DEF q
  <2>2. CASE x[1] # c
    BY <1>3, <1>4, <1>5, <2>2
  <2> QED
    BY <2>1, <2>2
<1>12. next = [now EXCEPT ![s] = Tail(@)]
  <2>1. next = [now EXCEPT ![s] = next[s]]
    BY <1>4, <1>5, <1>6, <1>11, ChangedAt
  <2> QED
    BY <1>10, <2>1
<1>13. Fifo!Get(s)
  BY <1>7, <1>9, <1>12 DEF Fifo!Get, now, next
<1> QED
  BY <1>6, <1>13 DEF Fifo!Next, Fifo!Scopes, D

\* Every step of the code is a step of the FIFOs or leaves them alone.
LEMMA StepRefines ==
    ASSUME ScopeKeysInjective, TypeOK, BacklogBounded, [Next]_vars
    PROVE  [Fifo!Next]_<<ScopeQueues, ScopeKeyframes>>
<1>1. CASE UNCHANGED queueVars
  BY <1>1 DEF queueVars, ScopeQueues, ScopeKeyframes, RetainedKeyframe
<1>2. ASSUME NEW f \in Frame, store_frame(f)
      PROVE  [Fifo!Next]_<<ScopeQueues, ScopeKeyframes>>
  <2>1. CASE MaxFrames = 0
    BY <1>1, <1>2, <2>1 DEF store_frame
  <2>2. CASE MaxFrames # 0
    BY <1>2, <2>2, StoreIsPut DEF TypeOK
  <2> QED
    BY <2>1, <2>2
<1>3. ASSUME NEW p \in Packets, ProcessPacket(p)
      PROVE  [Fifo!Next]_<<ScopeQueues, ScopeKeyframes>>
  BY <1>1, <1>2, <1>3, PacketStoresBoundFrame
<1>4. ASSUME NEW c \in Clients, NEW r \in Runs, NEW mode \in ReadMode, handle_request(c, r, mode)
      PROVE  [Fifo!Next]_<<ScopeQueues, ScopeKeyframes>>
  BY <1>1, <1>4, PopFrontIsGet DEF handle_request, TypeOK
<1>5. CASE UNCHANGED vars
  BY <1>1, <1>5 DEF vars, queueVars
<1> QED
  BY <1>3, <1>4, <1>5 DEF Next

\* Every read sees the FIFO of its scope.
LEMMA ReadsSeeFifo ==
    ASSUME QueueTypeOK, RetainedAgreesWithQueue
    PROVE  ReadsAnswerFifo
<1> SUFFICES ASSUME NEW c \in Clients, NEW r \in Runs, NEW mode \in ReadMode
             PROVE  read(c, r, mode) = Fifo!Answer(<<c, r>>, mode)
  BY DEF ReadsAnswerFifo
<1> DEFINE q == queue[c]
           F == frames_for_client_run(c, r)
           K == QueuedKeyframes(c, r)
           fifo == OfRun(q, r)
<1>1. q \in Seq(Frame) /\ Len(q) \in Nat
  BY DEF QueueTypeOK
<1>2. F = PositionsOf(q, r) /\ K \in SUBSET (1 .. Len(q))
  BY DEF frames_for_client_run, PositionsOf, QueuedKeyframes
<1>3. ScopeQueues[<<c, r>>] = fifo /\ ScopeKeyframes[<<c, r>>] = RetainedKeyframe(c, r)
  BY DEF ScopeQueues, ScopeKeyframes
<1>4. F \in SUBSET Int /\ IsFiniteSet(F) /\ Cardinality(F) \in Nat
  BY <1>1, <1>2, PositionsAreFinite
<1>5. /\ fifo \in Seq(Frame) /\ Len(fifo) = Cardinality(F)
      /\ \A k \in 1 .. Len(fifo) : fifo[k] = q[Kth(F, k)]
  BY <1>1, <1>2, OfRunType
<1>6. CASE mode = "InspectLatestDecodable"
  <2>1. Fifo!Answer(<<c, r>>, mode) = RetainedKeyframe(c, r)
    BY <1>3, <1>6 DEF Fifo!Answer
  <2>2. CASE K = {}
    BY <1>6, <2>1, <2>2 DEF read
  <2>3. CASE K # {}
    <3>1. LastOf(K) # {}
      BY <1>1, <1>2, <2>3, LastExists
    <3>2. \A i \in LastOf(K) : RetainedKeyframe(c, r) = {q[i]}
      BY DEF RetainedAgreesWithQueue
    <3>3. { q[i] : i \in LastOf(K) } = RetainedKeyframe(c, r)
      BY <3>1, <3>2
    <3>4. read(c, r, mode) = { q[i] : i \in LastOf(K) }
      BY <1>6, <2>3 DEF read
    <3> QED
      BY <2>1, <3>3, <3>4
  <2> QED
    BY <2>2, <2>3
<1>7. CASE mode # "InspectLatestDecodable" /\ F = {}
  <2>1. fifo = << >>
    BY <1>5, <1>7, FS_EmptySet
  <2>2. Fifo!Answer(<<c, r>>, mode) = {}
    BY <1>3, <1>7, <2>1 DEF Fifo!Answer
  <2>3. FirstOf(F) = {} /\ LastOf(F) = {}
    BY <1>7 DEF FirstOf, LastOf
  <2>4. read(c, r, mode) = {}
    BY <1>7, <2>3 DEF read, ReadMode
  <2> QED
    BY <2>2, <2>4
<1>8. CASE mode # "InspectLatestDecodable" /\ F # {}
  <2>1. /\ Cardinality(F) \in Nat \ {0}
        /\ FirstOf(F) = {Kth(F, 1)}
        /\ LastOf(F) = {Kth(F, Cardinality(F))}
    BY <1>4, <1>8, KthEnds
  <2>2. /\ fifo # << >> /\ Head(fifo) = q[Kth(F, 1)]
        /\ fifo[Len(fifo)] = q[Kth(F, Cardinality(F))]
    <3>1. 1 \in 1 .. Len(fifo) /\ Len(fifo) \in 1 .. Len(fifo)
      BY <1>5, <2>1
    <3> HIDE DEF fifo
    <3> QED
      BY <1>5, <3>1
  <2>3. CASE mode = "InspectLatest"
    <3>1. Fifo!Answer(<<c, r>>, mode) = {fifo[Len(fifo)]}
      BY <1>3, <1>8, <2>2, <2>3 DEF Fifo!Answer
    <3>2. read(c, r, mode) = { q[i] : i \in LastOf(F) }
      BY <2>3 DEF read
    <3> QED
      BY <2>1, <2>2, <3>1, <3>2
  <2>4. CASE mode \in {"InspectOldest", "DequeueOldest"}
    <3>1. Fifo!Answer(<<c, r>>, mode) = {Head(fifo)}
      BY <1>3, <1>8, <2>2, <2>4 DEF Fifo!Answer
    <3>2. read(c, r, mode) = { q[i] : i \in FirstOf(F) }
      BY <2>4 DEF read
    <3> QED
      BY <2>1, <2>2, <3>1, <3>2
  <2> QED
    BY <1>8, <2>3, <2>4 DEF ReadMode
<1> QED
  BY <1>6, <1>7, <1>8

\* The FIFOs start empty.
LEMMA InitRefines ==
    ASSUME Init
    PROVE  Fifo!Init
<1>1. /\ \A c \in Clients : queue[c] = << >>
      /\ DOMAIN retained = {}
  BY DEF Init, QueueInit, EmptyMap
<1>2. ASSUME NEW r
      PROVE  OfRun(<< >>, r) = << >>
  <2> DEFINE e == << >>
  <2>1. PositionsOf(e, r) = {}
    BY DEF PositionsOf
  <2>2. e \in Seq(Frame)
    OBVIOUS
  <2> HIDE DEF e
  <2>3. OfRun(e, r) \in Seq(Frame) /\ Len(OfRun(e, r)) = Cardinality(PositionsOf(e, r))
    BY <2>2, OfRunType
  <2>4. Len(OfRun(e, r)) = 0
    BY <2>1, <2>3, FS_EmptySet
  <2>5. OfRun(e, r) = << >>
    BY <2>3, <2>4
  <2> QED
    BY <2>5 DEF e
<1>3. ScopeQueues = [s \in Clients \X Runs |-> << >>]
  BY <1>1, <1>2 DEF ScopeQueues
<1>4. ScopeKeyframes = [s \in Clients \X Runs |-> {}]
  BY <1>1 DEF ScopeKeyframes, RetainedKeyframe
<1> QED
  BY <1>3, <1>4 DEF Fifo!Init, Fifo!Scopes

\* If no two scopes share a key, the server's queue is one FIFO per client/run
\* scope, whatever the packets and the requests: store_frame and
\* pop_front_for_client_run are a put, an eviction of some head or a get of the
\* scope concerned, and every read mode answers from the scope's FIFO.
THEOREM IngestImplementsScopedFifo ==
    ASSUME ScopeKeysInjective
    PROVE  Spec => ImplementsScopedFifo
<1>1. Init => Fifo!Init
  BY InitRefines
<1>2. TypeOK /\ BacklogBounded /\ [Next]_vars => [Fifo!Next]_<<ScopeQueues, ScopeKeyframes>>
  BY StepRefines
<1>3. TypeOK /\ (ScopeKeysInjective => RetainedAgreesWithQueue) => ReadsAnswerFifo
  BY ReadsSeeFifo DEF TypeOK
<1> QED
  BY <1>1, <1>2, <1>3, TypeCorrect, BacklogIsBounded, RetainedIsNewest, PTL
     DEF Spec, ImplementsScopedFifo, Fifo!Spec, Fifo!fifoVars

===========================================================================
