------------------------- MODULE MCHandoffRuntime -------------------------
(***************************************************************************)
(* One client and one run; a keyframe, a heartbeat, and a request of each  *)
(* kind of outcome: a dequeue, a read of the latest decodable frame and a  *)
(* request with a blank client_id.                                         *)
(***************************************************************************)
EXTENDS HandoffRuntime

P1 == <<"p1">>
R1 == <<"r1">>

MCClients == {P1, << >>}
MCRuns == {R1}
MCSources == {"s1"}
MCTokens == {"good"}
MCAllowedClients == [c \in {P1} |-> "t1"]
MCSharedTokens == [t \in {"t1"} |-> "good"]
MCFrameIds == {1}
MCStamps == {"a"}

MCPackets ==
    { [type |-> "AuthRequest", source |-> "s1", client |-> P1, run |-> R1, token |-> "good"],
      [type |-> "Heartbeat", source |-> "s1", client |-> P1, run |-> R1],
      [type |-> "VideoFrame", source |-> "s1", client |-> P1, run |-> R1, id |-> 1,
       stamp |-> "a", key |-> TRUE,
       chunk |-> [source |-> "s1", stamp |-> "a", index |-> 0, len |-> 1]] }

MCRequests ==
    { [client |-> P1, run |-> R1, mode |-> "DequeueOldest"],
      [client |-> P1, run |-> R1, mode |-> "InspectLatestDecodable"],
      [client |-> << >>, run |-> R1, mode |-> "InspectOldest"] }

MCIoFailures ==
    {"Receive", "AuthSend", "CreatePipe", "Connect", "ReadRequest", "DecodeRequest", "WriteResponse"}

===========================================================================
