------------------------- MODULE MCServiceSession -------------------------
(***************************************************************************)
(* One client with one run, a request for a blank client_id, a second      *)
(* client that is not on the whitelist.  Three packets after the first     *)
(* AuthRequest: enough for a fragmented frame, a duplicate and a direct    *)
(* frame.                                                                  *)
(***************************************************************************)
EXTENDS ServiceSession

P1 == <<"p1">>
R1 == <<"r1">>

MCClients == {P1, << >>}
MCRuns == {R1}
MCSources == {"s1"}
MCTokens == {"good", "bad"}
MCAllowedClients == [c \in {P1} |-> "t1"]
MCSharedTokens == [t \in {"t1"} |-> "good"]
MCFrameIds == 1 .. 2
MCStamps == {"a"}

Piece(i) == [source |-> "s1", stamp |-> "a", index |-> i, len |-> 1]

Auth(c, t) == [type |-> "AuthRequest", source |-> "s1", client |-> c, run |-> R1, token |-> t]

Fragment(i, count) ==
    [type |-> "VideoFrameFragment", source |-> "s1", client |-> P1, run |-> R1, id |-> 2,
     stamp |-> "a", key |-> TRUE, total |-> 2, count |-> count, index |-> i,
     chunk_payload_len |-> 1, chunk |-> Piece(i)]

MCPackets ==
    { Auth(P1, "good"), Auth(P1, "bad"),
      [type |-> "Heartbeat", source |-> "s1", client |-> P1, run |-> R1],
      [type |-> "Undecodable", source |-> "s1"],
      [type |-> "UnsupportedForServer", source |-> "s1"],
      [type |-> "VideoFrame", source |-> "s1", client |-> P1, run |-> R1, id |-> 1,
       stamp |-> "a", key |-> FALSE, chunk |-> Piece(0)] }
    \cup { Fragment(i, 2) : i \in 0 .. 1 } \cup { Fragment(0, 3), Fragment(2, 2) }

MCIoFailures ==
    {"Receive", "AuthSend", "CreatePipe", "Connect", "ReadRequest", "DecodeRequest", "WriteResponse"}

===========================================================================
