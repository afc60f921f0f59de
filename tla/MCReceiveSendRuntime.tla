----------------------- MODULE MCReceiveSendRuntime -----------------------
(***************************************************************************)
(* One client with two runs, the second from another endpoint; a receive   *)
(* blocks for one unit of time.  One instance is about the loop, with a    *)
(* frame, a refused AuthRequest and every failure; the other about the     *)
(* clocks, with more iterations and neither of these.                      *)
(***************************************************************************)
EXTENDS ReceiveSendRuntime

P1 == <<"p1">>
R1 == <<"r1">>
R2 == <<"r2">>

MCClients == {P1}
MCRuns == {R1, R2}
MCSources == {"s1", "s2"}
MCTokens == {"good", "bad"}
MCAllowedClients == [c \in {P1} |-> c]
MCSharedTokens == [t \in {P1} |-> "good"]
MCFrameIds == {1}
MCStamps == {"a"}

Auth(s, r, t) == [type |-> "AuthRequest", source |-> s, client |-> P1, run |-> r, token |-> t]

Piece == [source |-> "s1", stamp |-> "a", index |-> 0, len |-> 1]

MCPackets ==
    { Auth("s1", R1, "good"), Auth("s2", R2, "good"), Auth("s2", R2, "bad"),
      [type |-> "Undecodable", source |-> "s1"],
      [type |-> "VideoFrame", source |-> "s1", client |-> P1, run |-> R1, id |-> 1,
       stamp |-> "a", key |-> TRUE, chunk |-> Piece],
      [type |-> "VideoFrameFragment", source |-> "s1", client |-> P1, run |-> R1, id |-> 1,
       stamp |-> "a", key |-> TRUE, total |-> 1, count |-> 1, index |-> 0,
       chunk_payload_len |-> 1, chunk |-> Piece] }

ClockSenders ==
    { [source |-> "s1", client |-> P1, run |-> R1], [source |-> "s2", client |-> P1, run |-> R2] }

\* A client that moved to another endpoint without authenticating there.
MCSenders == ClockSenders \cup { [source |-> "s2", client |-> P1, run |-> R1] }

\* The instance about the clocks.
ClockPackets == { Auth("s1", R1, "good"), Auth("s2", R2, "good") }

LoopMaxIterations == {4}
ClockMaxIterations == {6}
NoHeartbeatTimeout == {}
LoopSkew == -1
MCHeartbeatTimeout == {2}
MCMaxRttDelta == {}
MCMaxOffsetDelta == {1}
NoFailures == {}
MCFailures == {"SetNonblocking", "Receive", "ReceiveLog", "AuthLog", "Send", "SendLog"}

===========================================================================
