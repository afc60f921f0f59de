----------------------------- MODULE AnnexBReader -----------------------------
(***************************************************************************)
(* The client's persistent encoder writes one endless H.264 byte stream;   *)
(* the reader cuts it back into pictures (access units), one per read, and *)
(* the parameter-set cache makes each of them decodable on its own.  The   *)
(* bytes of the stream are real: start codes of three and four bytes, NAL  *)
(* headers, the first_mb number of a slice and emulation prevention.       *)
(***************************************************************************)
EXTENDS Integers, Sequences, FiniteSets, SequencesExt, FiniteSetsExt

CONSTANTS
  Streams,    \* what the encoder may write: sequences of pictures, each its bytes
  ReadLen     \* stdout_read_len, bytes

ReaderAssumption == ReadLen \in Nat \ {0}

VARIABLES
  pictures,   \* the stream's pictures, as the encoder meant them
  rest,       \* bytes not read from stdout yet
  buffer,     \* buffered_bytes
  units,      \* access units handed out, in order
  cache,      \* ClientPersistentH264ParameterSetCache
  payloads,   \* what became of each unit: the NAL units to send, or <<>>
  session     \* "Open", "Malformed" or "Ended"

vars == <<pictures, rest, buffer, units, cache, payloads, session>>
-----------------------------------------------------------------------------
(* NAL units.                                                              *)

\* ClientAnnexBNalUnitKind::from_nal_unit_type
Kind(type) ==
  CASE type \in 1 .. 4 -> "NonIdrSlice"
    [] type = 5 -> "IdrSlice"
    [] type = 6 -> "Sei"
    [] type = 7 -> "Sps"
    [] type = 8 -> "Pps"
    [] type = 9 -> "Aud"
    [] OTHER -> "Other"

IsVcl(kind) == kind \in {"NonIdrSlice", "IdrSlice"}

\* remove_h264_emulation_prevention_bytes: the 3 after two zeros goes.
Rbsp(payload) ==
  FoldLeft(LAMBDA s, b : IF s.zeros >= 2 /\ b = 3 THEN [s EXCEPT !.zeros = 0]
                         ELSE [out |-> Append(s.out, b),
                               zeros |-> IF b = 0 THEN s.zeros + 1 ELSE 0],
           [out |-> <<>>, zeros |-> 0], payload).out

Bit(bytes, i) == (bytes[i \div 8 + 1] \div 2 ^ (7 - (i % 8))) % 2

\* parse_unsigned_exp_golomb: <<value>>, or <<>> when the bits run out.
parse_unsigned_exp_golomb(bytes) ==
  LET total == 8 * Len(bytes)
      ones  == {i \in 0 .. total - 1 : Bit(bytes, i) = 1}
      zeros == Min(ones)
      value == FoldLeft(LAMBDA v, b : 2 * v + b, 0,
                        [i \in 1 .. zeros |-> Bit(bytes, zeros + i)])
  IN  IF ones = {} \/ 2 * zeros >= total THEN <<>> ELSE <<2 ^ zeros - 1 + value>>

\* Where start codes begin: the four-byte one where its first zero is, the
\* three-byte one where no zero precedes it.
Code3(b, i) == i + 2 <= Len(b) /\ b[i] = 0 /\ b[i + 1] = 0 /\ b[i + 2] = 1
Code4(b, i) == i + 3 <= Len(b) /\ b[i] = 0 /\ Code3(b, i + 1)

find_annex_b_start_codes(b) ==
  {i \in DOMAIN b : Code4(b, i) \/ (Code3(b, i) /\ ~(i > 1 /\ Code4(b, i - 1)))}

CodeLen(b, i) == IF Code4(b, i) THEN 4 ELSE 3

\* parse_annex_b_nal_descriptor
NalAt(b, start, end) ==
  LET first == start + CodeLen(b, start)
      type  == b[first] % 32
      mb    == parse_unsigned_exp_golomb(Rbsp(SubSeq(b, first + 1, end)))
      kind  == Kind(type)
  IN  IF first > end THEN [bad |-> "ZeroLengthNalUnit"]
      ELSE IF b[first] >= 128 \/ type = 0 THEN [bad |-> "InvalidNalHeader"]
      ELSE IF IsVcl(kind) /\ mb = <<>> THEN [bad |-> "InvalidSliceHeader"]
      ELSE [bad |-> "None", start |-> start, end |-> end, kind |-> kind,
            bytes |-> SubSeq(b, start, end), firstSlice |-> IsVcl(kind) /\ mb = <<0>>]

\* parse_annex_b_nal_descriptors: the NAL units whose end is known; at the end
\* of the stream the last one too, unless nothing follows its start code.
StartCodes(b) == LET codes == find_annex_b_start_codes(b)
                 IN  SelectSeq([i \in DOMAIN b |-> i], LAMBDA i : i \in codes)

NalsUpTo(b, starts, n) ==
  [k \in 1 .. n |-> NalAt(b, starts[k], IF k = Len(starts) THEN Len(b) ELSE starts[k + 1] - 1)]

Nals(b, eof) ==
  LET starts == StartCodes(b)
      n      == Len(starts)
      last   == eof /\ n > 0 /\ starts[n] + CodeLen(b, starts[n]) <= Len(b)
  IN  NalsUpTo(b, starts, IF last THEN n ELSE n - 1)

MissingStartCode(b) == b # <<>> /\ 1 \notin find_annex_b_start_codes(b)
-----------------------------------------------------------------------------
(* Access units.                                                           *)

\* annex_b_nal_begins_new_access_unit
BeginsUnit(nal) == nal.kind \in {"Aud", "Sei", "Sps", "Pps"} \/ nal.firstSlice

Unit(b, nals) == [bytes |-> SubSeq(b, 1, nals[Len(nals)].end), nals |-> nals]

HasKind(unit, kind) == \E i \in DOMAIN unit.nals : unit.nals[i].kind = kind

\* try_extract_annex_b_access_unit
Extract(b, eof) ==
  LET nals == Nals(b, eof)
      bad  == {i \in DOMAIN nals : nals[i].bad # "None"}
      cuts == {i \in DOMAIN nals :
                 /\ BeginsUnit(nals[i])
                 /\ \E j \in 1 .. i - 1 : IsVcl(nals[j].kind)}
  IN  IF MissingStartCode(b) \/ bad # {} THEN [is |-> "Malformed"]
      ELSE IF cuts # {} THEN [is |-> "Unit", unit |-> Unit(b, SubSeq(nals, 1, Min(cuts) - 1))]
      ELSE IF eof /\ \E i \in DOMAIN nals : IsVcl(nals[i].kind)
           THEN [is |-> "Unit", unit |-> Unit(b, nals)]
      ELSE [is |-> "None"]

\* consume_access_unit_from_state
Consumed(b, unit) == SubSeq(b, Len(unit.bytes) + 1, Len(b))
-----------------------------------------------------------------------------
(* The parameter-set cache.                                                *)

OfKind(unit, kind) == SelectSeq(unit.nals, LAMBDA n : n.kind = kind)

\* observe_access_unit: the newest sets replace the old ones.
observe_OnlyFirst(c, unit) ==
  [sps |-> IF c.sps = <<>> THEN OfKind(unit, "Sps") ELSE c.sps,
   pps |-> IF c.pps = <<>> THEN OfKind(unit, "Pps") ELSE c.pps]

observe(c, unit) ==
  [sps |-> IF HasKind(unit, "Sps") THEN OfKind(unit, "Sps") ELSE c.sps,
   pps |-> IF HasKind(unit, "Pps") THEN OfKind(unit, "Pps") ELSE c.pps]

\* prepare_payload, with the cache the unit was observed by; <<>> when the
\* sets are missing.  A unit always holds a slice.
prepare_payload(c, unit) ==
  IF HasKind(unit, "Sps") /\ HasKind(unit, "Pps") THEN unit.nals
  ELSE IF c.sps = <<>> \/ c.pps = <<>> THEN <<>>
  ELSE (IF HasKind(unit, "Sps") THEN OfKind(unit, "Sps") ELSE c.sps)
         \o (IF HasKind(unit, "Pps") THEN OfKind(unit, "Pps") ELSE c.pps)
         \o SelectSeq(unit.nals, LAMBDA n : n.kind \notin {"Sps", "Pps"})
-----------------------------------------------------------------------------
(* The session.                                                            *)

Init ==
  /\ pictures \in Streams
  /\ rest = FlattenSeq(pictures)
  /\ buffer = <<>> /\ units = <<>> /\ payloads = <<>>
  /\ cache = [sps |-> <<>>, pps |-> <<>>]
  /\ session = "Open"

\* The caller gets the unit and prepares what to send of it.
HandOut(unit) ==
  /\ units' = Append(units, unit)
  /\ cache' = observe(cache, unit)
  /\ payloads' = Append(payloads, prepare_payload(cache', unit))

NoUnit == UNCHANGED <<units, cache, payloads>>

\* poll_stdout_once, feed_stdout_read_result: one read of any length, at most
\* one unit.  The caller gives a malformed session up.
Poll ==
  /\ session = "Open"
  /\ rest # <<>>
  /\ \E n \in 1 .. ReadLen :
       /\ n <= Len(rest)
       /\ rest' = SubSeq(rest, n + 1, Len(rest))
       /\ LET b == buffer \o SubSeq(rest, 1, n)
          IN  \E x \in {Extract(b, FALSE)} :
                \/ x.is = "Unit" /\ HandOut(x.unit) /\ buffer' = Consumed(b, x.unit)
                   /\ session' = session
                \/ x.is = "None" /\ NoUnit /\ buffer' = b /\ session' = session
                \/ x.is = "Malformed" /\ NoUnit /\ buffer' = b /\ session' = "Malformed"
  /\ UNCHANGED pictures

\* finish: a unit that is complete anyhow, else the one the end completes.
Finish(b) ==
  \E x \in {Extract(b, FALSE)} :
    \E z \in {IF x.is = "None" /\ b # <<>> THEN Extract(b, TRUE) ELSE x} :
      IF z.is = "Unit" THEN HandOut(z.unit) /\ buffer' = Consumed(b, z.unit)
      ELSE NoUnit /\ buffer' = <<>>

\* finish_runtime_after_close: at the end of the stream, or at the caller's
\* wish, the rest is drained (or cannot be) and one more unit comes out.
Close ==
  /\ session = "Open"
  /\ \E drained \in {rest, <<>>} : Finish(buffer \o drained)
  /\ rest' = <<>>
  /\ session' = "Ended"
  /\ UNCHANGED pictures

Next == Poll \/ Close

Spec == Init /\ [][Next]_vars
-----------------------------------------------------------------------------
(* Properties.                                                             *)

Bytes(us) == [i \in DOMAIN us |-> us[i].bytes]

\* However the stream is cut into reads, and wherever slices, start codes and
\* emulation bytes fall, the units are the encoder's pictures, in order and
\* whole; only a session closed in the middle may end in a cut picture.
UnitsAreThePictures ==
  LET whole == IF session = "Ended" THEN Len(units) - 1 ELSE Len(units)
  IN  \A i \in 1 .. whole : i <= Len(pictures) /\ units[i].bytes = pictures[i]

\* Until the session is closed no byte is lost or read twice.
NothingLost ==
  session # "Ended" => FlattenSeq(Bytes(units)) \o buffer \o rest = FlattenSeq(pictures)

\* A picture comes out only when the first NAL unit of the next one has ended,
\* that is when a third start code is there: after every read that returns a
\* unit a whole NAL unit of a later picture, and the start of one more, wait.
OneBehind == session = "Open" /\ units # <<>> => Cardinality(find_annex_b_start_codes(buffer)) >= 2

\* Every prepared payload begins with the parameter sets that were last in
\* force and keeps the slices of its own picture, in their order.
PayloadDecodable ==
  \A i \in DOMAIN payloads : payloads[i] # <<>> =>
    LET p       == payloads[i]
        slices  == SelectSeq(p, LAMBDA n : IsVcl(n.kind))
        seen    == FlattenSeq([j \in 1 .. i |-> units[j].nals])
        before  == {n \in Range(p) : n.kind \in {"Sps", "Pps"}}
        newest(k) == LET of == SelectSeq(seen, LAMBDA n : n.kind = k) IN of[Len(of)].bytes
    IN  /\ slices = SelectSeq(units[i].nals, LAMBDA n : IsVcl(n.kind))
        /\ \A k \in {"Sps", "Pps"} : \E n \in before : n.kind = k /\ n.bytes = newest(k)

\* A picture is deferred for want of parameter sets only while one of the two
\* has never been in the stream.
NothingDeferred ==
  \A i \in DOMAIN payloads : payloads[i] = <<>> =>
    \E kind \in {"Sps", "Pps"} : \A j \in 1 .. i : ~HasKind(units[j], kind)

\* Only where the stream begins does it matter how it is cut: a session is
\* refused exactly when a read leaves less than the first start code in hand,
\* and no cut inside a later start code, a NAL header, a slice or an emulation
\* sequence refuses one, because a picture leaves the next start code behind.
RefusedOnlyAtTheStart ==
  session # "Ended" =>
    (session = "Malformed"
       <=> buffer # <<>> /\ Len(buffer) < CodeLen(FlattenSeq(pictures), 1))

\* What the comment on the boundary says, "accepts arbitrary stdout byte
\* chunks": a well-formed stream is never malformed for the way it is cut.  A
\* first read shorter than a start code refutes it.
AcceptsAnyChunks == session # "Malformed"

\* The reader hands out the encoder's pictures, each ready to be decoded, and
\* refuses a stream only at its start.
ReaderInvariant ==
  /\ UnitsAreThePictures /\ NothingLost /\ OneBehind
  /\ PayloadDecodable /\ NothingDeferred /\ RefusedOnlyAtTheStart
=============================================================================
