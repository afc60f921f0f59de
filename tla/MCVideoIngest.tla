--------------------------- MODULE MCVideoIngest ---------------------------
(***************************************************************************)
(* Two clients, one of them with two runs and two endpoints.  Queues of    *)
(* two frames, frames of at most two chunks.                               *)
(***************************************************************************)
EXTENDS VideoIngest

CONSTANTS s1, s2, good, bad

P1 == <<"p1">>
P2 == <<"p2">>
R1 == <<"r1">>
R2 == <<"r2">>

MCClients == {P1, P2}
MCRuns == {R1, R2}
MCSources == {s1, s2}
MCTokens == {good, bad}
MCAllowedClients == [c \in {P1, P2} |-> c]
MCSharedTokens == [t \in {P1, P2} |-> good]
MCFrameIds == 1 .. 3
MCStamps == {"a", "b"}

Auth(s, c, r, t) ==
    [type |-> "AuthRequest", source |-> s, client |-> c, run |-> r, token |-> t]

Piece(s, stamp, i) == [source |-> s, stamp |-> stamp, index |-> i, len |-> 1]

Direct(s, c, r, id, key) ==
    [type |-> "VideoFrame", source |-> s, client |-> c, run |-> r, id |-> id, stamp |-> "a",
     key |-> key, chunk |-> Piece(s, "a", 0)]

Fragment(s, c, r, id, stamp, total, count, i, len) ==
    [type |-> "VideoFrameFragment", source |-> s, client |-> c, run |-> r, id |-> id,
     stamp |-> stamp, key |-> TRUE, total |-> total, count |-> count, index |-> i,
     chunk_payload_len |-> len, chunk |-> Piece(s, stamp, i)]

\* Frame 3 of p1 is captured twice (stamps a and b) with the same run_id, the
\* second time from another endpoint; one frame announces a length its chunks
\* do not have, one fragment an impossible index.
MCPackets ==
    { [type |-> "Heartbeat", source |-> s1, client |-> P1, run |-> R1],
      [type |-> "Undecodable", source |-> s1],
      Auth(s1, P1, R1, good), Auth(s1, P1, R2, good), Auth(s2, P1, R1, good),
      Auth(s2, P2, R1, good), Auth(s2, P2, R1, bad),
      Direct(s1, P1, R1, 1, TRUE), Direct(s1, P1, R1, 2, FALSE), Direct(s1, P1, R2, 1, TRUE),
      Direct(s2, P2, R1, 1, FALSE) }
    \cup { Fragment(s1, P1, R1, 3, "a", 2, 2, i, 1) : i \in 0 .. 1 }
    \cup { Fragment(s2, P1, R1, 3, "b", 2, 2, i, 1) : i \in 0 .. 1 }
    \cup { Fragment(s1, P1, R2, 2, "a", 9, 1, 0, 1), Fragment(s1, P1, R2, 2, "a", 9, 1, 1, 1) }

---------------------------------------------------------------------------
\* Identifiers with a '/' in them: client a, run b/c and client a/b, run c.
SlashA == <<"a">>
SlashAB == <<"a", "b">>
SlashRunBC == <<"b", "c">>
SlashRunC == <<"c">>

SlashClients == {SlashA, SlashAB}
SlashRuns == {SlashRunBC, SlashRunC}
SlashAllowedClients == [c \in SlashClients |-> c]
SlashSharedTokens == [t \in SlashClients |-> good]
SlashPackets ==
    { Auth(s1, SlashA, SlashRunBC, good), Auth(s2, SlashAB, SlashRunC, good),
      Direct(s1, SlashA, SlashRunBC, 1, TRUE), Direct(s2, SlashAB, SlashRunC, 1, TRUE) }

\* One fragmented frame, sent any number of times.
RepeatedPackets ==
    { Auth(s1, P1, R1, good) } \cup { Fragment(s1, P1, R1, 3, "a", 2, 2, i, 1) : i \in 0 .. 1 }

===========================================================================
