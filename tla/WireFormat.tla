----------------------------- MODULE WireFormat -----------------------------
(***************************************************************************)
(* The byte-level conventions both wire formats share: little-endian       *)
(* numbers, length-prefixed text, tagged options, and a reader that stops  *)
(* at its first error.  A message maps field names to values; a layout is  *)
(* a sequence of <<field, kind>>.                                          *)
(*                                                                         *)
(* Numbers the codecs only carry (ids, timestamps, sizes of pictures) are  *)
(* the tuples of their bytes; lengths, tags and codes are interpreted.  A  *)
(* length with any byte set above its second exceeds every packet here and *)
(* counts as Huge.  Text is ASCII, or holds a stray byte over 127 that no  *)
(* UTF-8 sequence contains.                                                *)
(***************************************************************************)
EXTENDS Naturals, Sequences, SequencesExt, TLC

CONSTANTS
  StringLimit,   \* the longest text a length prefix can announce
  DamageBytes    \* values a damaged byte takes

WireAssumption == StringLimit \in 1 .. 65535 /\ DamageBytes \subseteq 0 .. 255

Huge == 65536

LE16(n) == <<n % 256, n \div 256>>
LE32(n) == LE16(n) \o <<0, 0>>

LengthOf(bs) ==
  IF \E i \in 3 .. Len(bs) : bs[i] # 0 THEN Huge ELSE bs[1] + 256 * bs[2]

Utf8(bs) == \A i \in DOMAIN bs : bs[i] < 128

\* Kinds of a fixed number of bytes.
Widths == [u8 |-> 1, u32 |-> 4, u64 |-> 8, obs |-> 32]

\* Kinds that encode an enumeration: how wide, and which codes are known.
CodeWidth == [reason |-> 2, codec |-> 2, notice |-> 2, mode |-> 1, source |-> 1,
              noFrame |-> 1, error |-> 1]
Codes == [reason |-> 0 .. 5, codec |-> {1}, notice |-> 1 .. 5, mode |-> 1 .. 4,
          source |-> 0 .. 2, noFrame |-> 1 .. 3, error |-> 1 .. 6]

\* Options: the kind of the value that follows the tag 1.
OptionOf == [optString |-> "string", optU64 |-> "u64", optU32 |-> "u32",
             optObs |-> "obs"]
-----------------------------------------------------------------------------
(* Writing.                                                                *)

Flag(b) == <<IF b THEN 1 ELSE 0>>

WritePlain(kind, v) ==
  IF kind = "string" THEN LE16(Len(v)) \o v
  ELSE IF kind = "bytes" THEN LE32(Len(v)) \o v
  ELSE IF kind \in {"bool", "flag"} THEN Flag(v)
  ELSE IF kind \in DOMAIN CodeWidth
  THEN IF CodeWidth[kind] = 1 THEN <<v>> ELSE LE16(v)
  ELSE v

Write(kind, v) ==
  IF kind \notin DOMAIN OptionOf THEN WritePlain(kind, v)
  ELSE IF v = <<>> THEN <<0>>
  ELSE <<1>> \o WritePlain(OptionOf[kind], v[1])

\* write_string, push_string: a text the prefix cannot announce is an error.
TooLong(kind, v) ==
  \/ kind = "string" /\ Len(v) > StringLimit
  \/ kind = "optString" /\ v # <<>> /\ Len(v[1]) > StringLimit

WriteFields(layout, message) ==
  FoldLeft(LAMBDA out, f : out \o Write(f[2], message[f[1]]), <<>>, layout)
-----------------------------------------------------------------------------
(* Reading.                                                                *)

Reader(bytes) ==
  [bytes |-> bytes, at |-> 0, got |-> <<>>, err |-> "None", fields |-> <<>>]

Fail(r, why) == [r EXCEPT !.err = why]

\* ensure_available, read_exact.
Take(r, n) ==
  IF r.err # "None" THEN r
  ELSE IF r.at + n > Len(r.bytes) THEN Fail(r, "TooShort")
  ELSE [r EXCEPT !.got = SubSeq(r.bytes, r.at + 1, r.at + n), !.at = @ + n]

\* The bytes or text that follow a length of `width` bytes.
TakeCounted(r, width) ==
  LET p == Take(r, width)
  IN  IF p.err # "None" THEN p ELSE Take(p, LengthOf(p.got))

\* Goes on with what was read when it passes, else stops with an error.
Checked(r, passes, why, value) ==
  IF r.err # "None" THEN r
  ELSE IF ~passes THEN Fail(r, why) ELSE [r EXCEPT !.got = value]

ReadPlain(r, kind) ==
  IF kind = "string"
  THEN LET t == TakeCounted(r, 2) IN Checked(t, Utf8(t.got), "InvalidUtf8", t.got)
  ELSE IF kind = "bytes" THEN TakeCounted(r, 4)
  ELSE IF kind = "bool"
  THEN LET b == Take(r, 1)
       IN  Checked(b, b.got \in {<<0>>, <<1>>}, "InvalidBool", b.got = <<1>>)
  ELSE IF kind = "flag"
  THEN LET b == Take(r, 1) IN Checked(b, TRUE, "None", b.got # <<0>>)
  ELSE IF kind = "zero3"
  THEN LET z == Take(r, 3)
       IN  Checked(z, z.got = <<0, 0, 0>>, "InvalidMetadataReserved", z.got)
  ELSE IF kind \in DOMAIN CodeWidth
  THEN LET c == Take(r, CodeWidth[kind])
           n == IF CodeWidth[kind] = 1 THEN c.got[1] ELSE LengthOf(c.got)
       IN  Checked(c, n \in Codes[kind], "UnknownCode", n)
  ELSE Take(r, Widths[kind])

Read(r, kind) ==
  IF kind \notin DOMAIN OptionOf THEN ReadPlain(r, kind)
  ELSE LET tag == Take(r, 1)
           v == ReadPlain(tag, OptionOf[kind])
       IN  IF tag.err # "None" THEN tag
           ELSE IF tag.got = <<0>> THEN [tag EXCEPT !.got = <<>>]
           ELSE IF tag.got # <<1>> THEN Fail(tag, "InvalidOptionalTag")
           ELSE Checked(v, TRUE, "None", <<v.got>>)

\* Reads the fields of a layout in order; each lands under its name.
ReadFields(r, layout) ==
  FoldLeft(LAMBDA s, f :
             LET t == Read(s, f[2])
             IN  IF t.err # "None" THEN t
                 ELSE [t EXCEPT !.fields = (f[1] :> t.got) @@ s.fields],
           r, layout)

\* finish, ensure_consumed.
Finish(r) ==
  IF r.err = "None" /\ r.at # Len(r.bytes) THEN Fail(r, "TrailingBytes") ELSE r
-----------------------------------------------------------------------------
(* What a network or a broken pipe may make of a packet.                   *)

Truncations(p) == {SubSeq(p, 1, n) : n \in 0 .. Len(p) - 1}
Extensions(p)  == {Append(p, b) : b \in DamageBytes}
Corruptions(p) == {[p EXCEPT ![i] = b] : i \in DOMAIN p, b \in DamageBytes} \ {p}
=============================================================================
