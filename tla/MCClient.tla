------------------------------ MODULE MCClient ------------------------------
(***************************************************************************)
(* The client and what answers it, each component explored on its own      *)
(* (`running` names it, the variables of the others are off).  Heartbeats: *)
(* the client's loop, the server's sweep.  Pictures: cutting the encoder's *)
(* stream into pictures, the capture/encode/send loop, sending a frame in  *)
(* fragments to the server's reassembly, and the codecs of the packets and *)
(* of the switcher's handoff.                                              *)
(***************************************************************************)
EXTENDS Integers, Sequences, TLC

CONSTANTS
  r1, r2, s1, s2,               \* runs and endpoints of the heartbeats
  endpoint, token, Unresolved   \* what a sender's packets carry

\* What the heartbeat's instances have in common.
Interval == 2
SocketTimeout == 1
MaxSleep == 2
RetryDelay == 1
MaxStep == 2

-----------------------------------------------------------------------------
(* The byte streams of the persistent encoder.                             *)

C3 == <<0, 0, 1>>
C4 == <<0, 0, 0, 1>>

Sps(v) == C4 \o <<103, v>>
Pps(v) == C4 \o <<104, v>>
Aud == C4 \o <<9, 16>>
Idr == C3 \o <<101, 136, 0, 0, 3, 1>>       \* first_mb 0, an emulation byte inside
IdrNext == C3 \o <<101, 72, 7>>             \* first_mb 1: same picture
Inter == C4 \o <<65, 154>>
InterNext == C3 \o <<65, 8, 0, 0, 3, 1>>    \* first_mb 15

EncoderStreams == {
  << Sps(1) \o Pps(1) \o Idr \o IdrNext, Inter \o InterNext, Sps(2) \o Idr,
     Inter, Inter, Inter >>,
  << Aud \o Sps(1) \o Pps(1) \o Idr, Aud \o Inter, Pps(2) \o Inter, Idr >>,
  << Idr, Sps(1) \o Pps(1) \o Inter \o InterNext, Inter, Inter \o InterNext >> }

-----------------------------------------------------------------------------
(* The frames to send.  Identifiers of one byte: a fragment's overhead is  *)
(* 67 bytes.  Under a limit of 69 a whole frame holds one byte and a       *)
(* fragment two.                                                           *)

P1 == <<"p1">>
P2 == <<"p2">>
R1 == <<"r1">>
Clients == {P1, P2}
Runs == {R1}
Sources == {endpoint}
FrameIds == 1 .. 3
Stamps == {"a", "b", "c", "d"}
Tokens == {token}
AllowedClients == [c \in {P1, P2} |-> c]
SharedTokens == [t \in {P1, P2} |-> token]
NameLen == [x \in {P1, P2, R1} |-> IF x = P2 THEN 3 ELSE 1]

Encoded(c, id, stamp, key, size) ==
  [client |-> c, run |-> R1, id |-> id, stamp |-> stamp, key |-> key, size |-> size]

\* One that fits whole, one of two full chunks, one of two and a byte, one
\* without payload, and one whose identifiers leave no room.
FramesToSend == << Encoded(P1, 1, "a", TRUE, 1), Encoded(P1, 2, "b", FALSE, 4),
                   Encoded(P1, 3, "c", TRUE, 5), Encoded(P1, 3, "d", TRUE, 0),
                   Encoded(P2, 1, "a", TRUE, 5) >>

-----------------------------------------------------------------------------
(* The messages to encode.  A number is its two low bytes and one high one. *)

LE16(n) == <<n % 256, n \div 256>>
Txt(n) == [i \in 1 .. n |-> 96 + i]
U64(n) == LE16(n) \o <<0, 0, 0, 0, 0, 7>>
U32(n) == LE16(n) \o <<0, 9>>
Opt(v) == {<<>>, <<v>>}

ProtocolMessages ==
  [type : {"AuthRequest"},
   fields : [client_id : {Txt(1), Txt(3)}, run_id : {Txt(0)}, app_version : {Txt(2)},
             shared_token : {Txt(2)}, display_name : {<<>>, <<Txt(1)>>, <<Txt(3)>>},
             capabilities : {<<>>, <<"h264">>}, requested_video_profile : {<<>>}]]
  \cup
  [type : {"AuthResponse"},
   fields : [client_id : {Txt(1)}, run_id : {Txt(1)}, accepted : BOOLEAN,
             reason_code : {0, 5}, message : Opt(Txt(2)), server_time : Opt(U64(1)),
             expected_protocol_version : Opt(U32(2))]]
  \cup
  [type : {"Heartbeat"},
   fields : [client_id : {Txt(1)}, run_id : {Txt(2)}, sent_at : {U64(1)},
             local_time : Opt(U64(2)), short_status : Opt(Txt(1))]]
  \cup
  [type : {"HeartbeatAck"},
   fields : [client_id : {Txt(1)}, run_id : {Txt(2)}, echoed_sent_at : {U64(1)},
             server_received_at : {U64(2)}, server_sent_at : {U64(3)}]]
  \cup
  [type : {"VideoFrame"},
   fields : [client_id : {Txt(1)}, run_id : {Txt(1)}, frame_id : {U64(1)},
             capture_timestamp : {U64(2)}, send_timestamp : {U64(3)},
             is_keyframe : BOOLEAN, metadata_reserved : {<<0, 0, 0>>, <<0, 1, 0>>},
             width : {U32(4)}, height : {U32(5)}, fps_nominal : {U32(6)},
             codec : {1}, payload_len : {2}, payload : {<<5, 1>>, <<5>>}]]
  \cup
  [type : {"VideoFrameFragment"},
   fields : [client_id : {Txt(1)}, run_id : {Txt(1)}, frame_id : {U64(1)},
             capture_timestamp : {U64(2)}, is_keyframe : BOOLEAN,
             width : {U32(4)}, height : {U32(5)}, fps_nominal : {U32(6)},
             total_payload_len : {U32(7)}, chunk_index : {U32(0)},
             chunk_count : {U32(1)}, payload_len : {0, 1}, payload : {<<8>>, <<>>}]]
  \cup
  [type : {"ClientStats"},
   fields : [client_id : {Txt(1)}, run_id : {Txt(1)}, sent_at : {U64(1)},
             capture_fps : {U32(2)}, dropped_frames : {U64(3)}, bitrate_kbps : {U32(4)},
             heartbeat_observation : Opt(U64(1) \o U64(2) \o U64(3) \o U64(4)),
             observed_client : {Txt(1), Txt(2)}]]
  \cup
  [type : {"ServerNotice"},
   fields : [run_id : {Txt(1)}, notice_type : {1, 5}, message : {Txt(0), Txt(2)}]]

HandoffMessages ==
  [kind : {"Request"},
   fields : [handoff_version : {U32(1)}, request_id : {U64(1)}, client_id : {Txt(1), Txt(3)},
             run_id : {Txt(0), Txt(2)}, read_mode : 1 .. 4]]
  \cup
  [kind : {"FrameRead"}, request_id : {U64(2)},
   fields : [remaining_client_queue_len : {U32(0)}, decodable_source : {0, 2},
             retained_keyframe_available : BOOLEAN,
             retained_keyframe_frame_id : {<<>>, <<U64(3)>>},
             client_id : {Txt(1)}, run_id : {Txt(2)}, frame_id : {U64(4)},
             capture_timestamp : {U64(5)}, send_timestamp : {U64(6)}, queued_at : {U64(7)},
             width : {U32(1)}, height : {U32(2)}, fps_nominal : {U32(3)},
             is_keyframe : {TRUE}, codec : {1}, encoded_payload_len : {1},
             encoded_payload : {<<9>>, <<9, 9>>}]]
  \cup
  [kind : {"NoFrame"}, request_id : {U64(2)},
   fields : [client_queue_len : {U32(0)}, no_frame_reason : {1, 3}, decodable_source : {0, 2},
             retained_keyframe_available : BOOLEAN,
             retained_keyframe_frame_id : {<<>>, <<U64(3)>>},
             client_id : {Txt(1)}, run_id : {Txt(1), Txt(3)}, read_mode : {3}]]
  \cup
  [kind : {"HandoffError"}, request_id : {U64(2)}, fields : [error : {1, 6}]]

-----------------------------------------------------------------------------
(* Config files, line by line: a good one and those that a line or two make *)
(* another.                                                                  *)

LineOf(kind, section, client, key, value) ==
  [kind |-> kind, section |-> section, client |-> client, key |-> key, value |-> value,
   hash |-> "none"]
Bare(text) == [quoted |-> FALSE, text |-> text, number |-> -1]
Text(text) == [quoted |-> TRUE, text |-> text, number |-> -1]
Number(n) == [quoted |-> FALSE, text |-> "", number |-> n]
Section(name) == LineOf("section", name, "none", "", Bare(""))
ClientSection(c) == LineOf("section", "auth.clients", c, "", Bare(""))
Assign(key, value) == LineOf("assign", "", "none", key, value)
NoAssignment == LineOf("other", "", "none", "", Bare(""))
Hashed(l, place) == [l EXCEPT !.hash = place]

ServerText ==
  << Section("server"), Assign("bind_host", Text("host")), Assign("bind_port", Number(5000)),
     Section("session"), Assign("protocol_version", Number(1)),
     ClientSection("p1"), Assign("shared_token", Text("t1")),
     ClientSection("p2"), Assign("shared_token_env", Text("SET")),
     Section("logging.receive_send_iteration"), Assign("destination", Text("file")),
     Assign("file_path", Text("log")) >>

ServerLines == {
  Section("auth"), Section("metrics"), Section("session"), ClientSection("p1"), ClientSection(" "),
  Hashed(Section("server"), "inside"), NoAssignment, Hashed(NoAssignment, "before"),
  Assign("bind_host", Text("nowhere")), Assign("bind_port", Number(65536)),
  Assign("protocol_version", Number(2)), Assign("shared_token", Text("t2")),
  Assign("shared_token", Text(" ")), Hashed(Assign("shared_token", Text("t#2")), "inside"),
  Hashed(Assign("shared_token_env", Text("UNSET")), "after"),
  Assign("shared_token_env", Text("BLANK")), Assign("shared_token_env", Text("ODD")),
  Assign("enabled", Bare("false")), Assign("enabled", Bare("no")),
  Assign("destination", Text("elsewhere")), Assign("file_path", Text(" ")) }

\* The lines that are set twice in a file.
MovedLines == {
  ClientSection("p1"), Section("metrics"), Assign("shared_token", Text("t2")), NoAssignment }

ClientText ==
  << Section("client"), Assign("client_id", Text("p1")), Assign("server_host", Text("host")),
     Assign("server_port", Number(5000)), Assign("shared_token", Text("t1")),
     Section("session"), Assign("run_id", Text("r1")), Assign("app_version", Text("1")),
     Assign("protocol_version", Number(1)), Section("network"), Section("video.encoder") >>

ClientLines == {
  Section("client"), Section("capture"), NoAssignment, Hashed(NoAssignment, "before"),
  Assign("client_id", Text("p2")), Assign("client_id", Text("p3")),
  Assign("server_host", Text("nowhere")),
  Assign("shared_token", Text("t2")), Hashed(Assign("shared_token", Text("t1")), "inside"),
  Assign("protocol_version", Number(2)), Assign("protocol_version", Text("1")),
  Assign("connect_timeout_ms", Number(0)), Assign("heartbeat_interval_ms", Number(0)),
  Assign("fps", Number(0)), Assign("fps", Number(2000000)), Assign("width", Number(640)),
  Assign("height", Number(360)), Assign("backend", Text("other")), Assign("preset", Text("fast")) }

\* A line put in, or put in or replaced.
Inserted(file, lines) ==
  { SubSeq(file, 1, i) \o <<l>> \o SubSeq(file, i + 1, Len(file)) : i \in DOMAIN file, l \in lines }
Changed(file, lines) ==
  Inserted(file, lines) \cup { [file EXCEPT ![i] = l] : i \in DOMAIN file, l \in lines }

FilesOf(s, c, e) == [server : s, client : c, edited : e]
FileLaunches ==
  FilesOf(Changed(ServerText, ServerLines)
            \cup UNION { Inserted(f, MovedLines) : f \in Inserted(ServerText, MovedLines) },
          {ClientText}, {ClientText})
  \cup FilesOf({ServerText}, Changed(ClientText, ClientLines), {ClientText})
  \cup FilesOf({[ServerText EXCEPT ![9] = Assign("shared_token_env", Text("UNSET"))], ServerText},
             {ClientText, [ClientText EXCEPT ![2] = Assign("client_id", Text("p2")),
                                             ![5] = Assign("shared_token", Text("t2"))]},
             Changed(ClientText, {Assign("client_id", Text("p2")), NoAssignment}))

-----------------------------------------------------------------------------
(* The packets of the server's launches, and its config files.              *)

Packet(t, c, r, s) == [type |-> t, client |-> c, run |-> r, source |-> s]
Auth(c, s, k) == [type |-> "AuthRequest", client |-> c, run |-> r1, source |-> s, token |-> k]
Beat(c, r, s) == [type |-> "Heartbeat", client |-> c, run |-> r, source |-> s, sent |-> 1]
Stats(observed) ==
  [type |-> "ClientStats", client |-> P1, run |-> r1, source |-> s1, observed |-> observed]
Ack(sentAt, at, inOrder) == <<[sent |-> sentAt, at |-> at, inOrder |-> inOrder]>>

CorePackets ==
  { Auth(P1, s1, token), Auth(P1, s1, r1), Beat(P1, r1, s1), Stats(Ack(1, 2, TRUE)),
    Packet("undecodable", P1, r1, s1) }

ServerCommands == {"poc", "once", "twice", "three", "bounded"}
ServerArrivals == [c \in ServerCommands |->
  CorePackets \cup
  CASE c = "bounded" ->
         { Auth(P1, s2, token), Beat(P1, r1, s2) }
    [] c = "three" ->
         { Stats(<<>>), Stats(Ack(2, 2, TRUE)), Stats(Ack(1, 2, FALSE)),
           Beat(P1, r2, s1), Packet("VideoFrame", P1, r1, s1) }
    [] OTHER ->
         { Auth(P2, s1, token), Beat(P2, r1, s1), Packet("VideoFrameFragment", P1, r1, s1),
           Packet("HeartbeatAck", P1, r1, s1) } ]

GoodFile == [settings |-> TRUE, auth |-> TRUE, address |-> TRUE, enabled |-> TRUE,
             destination |-> "stderr", file_path |-> "absent"]
ServerFiles == {
  GoodFile,
  [GoodFile EXCEPT !.enabled = FALSE, !.destination = "other"],
  [GoodFile EXCEPT !.destination = "other"],
  [GoodFile EXCEPT !.destination = "file", !.file_path = "blank"],
  [GoodFile EXCEPT !.destination = "file", !.file_path = "named"],
  [GoodFile EXCEPT !.settings = FALSE],
  [GoodFile EXCEPT !.auth = FALSE],
  [GoodFile EXCEPT !.address = FALSE] }

-----------------------------------------------------------------------------
(* The launches: their config files, one with long names and one with a     *)
(* wrong token, and their commands.                                         *)

Allowed == [c \in {P1} |-> c]
Shared == [t \in {P1} |-> token]
ConfigFile(run, t, ids) == [client |-> P1, run |-> run, token |-> t, ids |-> ids]
ConfigFiles == {ConfigFile(r1, token, 6), ConfigFile(r2, token, 1136), ConfigFile(r1, r1, 6)}
CommandsOf == [s \in {s1, s2} |->
  {"stats-one-tick", "auth-placeholder", "placeholder"} \cup
  IF s = s2 THEN {}
  ELSE {"auth-request", "auth-heartbeat", "auth-heartbeat-stats", "real", "auth-real",
        "auth-real-bounded", "one-tick"}]

VARIABLES
  running,   \* the component explored
  now, counters, carry, stop, pc, step, runner, metrics, cadence, flight,
  inbox, acked, streak, registry, liveness, notices, loop, tally, own,
  heard, auths, pictures, rest, buffer, units, cache, payloads, session,
  phase, attempts, count, wait, unit, sent, encoder, pipe, granted, queue,
  retained, reassembly, next, fragments, progress, reports, wire, accepted,
  stored, message, packet, damage, result, command, config, todo, taken,
  exit, replies, passed, refused, stage, input, tick, flow, turn, applied,
  slot, turns, steps, cleanups, target, answer, window, pool, shot, marker,
  child, seen, history, file, outbound, outgoing, results, handoffs,
  summary, evaluated, logged, launch, edited, failure, server, sink,
  request, video

allVars == <<running, now, counters, carry, stop, pc, step, runner, metrics,
             cadence, flight, inbox, acked, streak, registry, liveness,
             notices, loop, tally, own, heard, auths, pictures, rest, buffer,
             units, cache, payloads, session, phase, attempts, count, wait,
             unit, sent, encoder, pipe, granted, queue, retained, reassembly,
             next, fragments, progress, reports, wire, accepted, stored,
             message, packet, damage, result, command, config, todo, taken,
             exit, replies, passed, refused, stage, input, tick, flow, turn,
             applied, slot, turns, steps, cleanups, target, answer, window,
             pool, shot, marker, child, seen, history, file, outbound,
             outgoing, results, handoffs, summary, evaluated, logged, launch,
             edited, failure, server, sink, request, video>>

\* Answers are lost, doubled, late and overtaken.
Lossy == INSTANCE ClientHeartbeat WITH
  AckTimeout <- 1, MaxAttempts <- 2, MaxHeartbeats <- 0, MaxMissedAcks <- 2,
  StatsReturn <- TRUE, ExportInterval <- 2, MaxTurns <- 1,
  Copies <- {0, 1, 2}, InOrder <- FALSE, MaxNow <- 4, MaxSendFailures <- 2
\* Every answer arrives once and in order, but maybe late.
Backlog == INSTANCE ClientHeartbeat WITH
  AckTimeout <- 1, MaxAttempts <- 2, MaxHeartbeats <- 4, MaxMissedAcks <- 0,
  StatsReturn <- FALSE, ExportInterval <- 2, MaxTurns <- 2, Copies <- {1},
  InOrder <- TRUE, MaxNow <- 9, MaxSendFailures <- 0
\* Two clients, either with two runs and two endpoints, and a failing log.
Sweep == INSTANCE HeartbeatSweep WITH
  Clients <- {1, 2}, Runs <- {r1, r2}, Sources <- {s1, s2}, Timeout <- 2,
  TickInterval <- 2, ExportInterval <- 0, MaxTicks <- 3, MaxAttempts <- 1,
  QueueCap <- 1, LogMayFail <- TRUE, MaxNow <- 4, QuietAfter <- 4,
  MaxAuths <- 3, MaxRejections <- 0
\* One client, with snapshots of its rejected candidates.
Exports == INSTANCE HeartbeatSweep WITH
  Clients <- {1}, Runs <- {r1, r2}, Sources <- {s1}, Timeout <- 3,
  TickInterval <- 3, ExportInterval <- 2, MaxTicks <- 0, MaxAttempts <- 1,
  QueueCap <- 1, LogMayFail <- FALSE, MaxNow <- 5, QuietAfter <- 5,
  MaxAuths <- 2, MaxRejections <- 2
Reader == INSTANCE AnnexBReader WITH
  Streams <- EncoderStreams, ReadLen <- 12
\* One encoder process; everything may fail.
OneEncoder == INSTANCE EncodeSendLoop WITH
  Persistent <- TRUE, MaxFrames <- 3, MaxTicks <- 5, Interval <- 0,
  DeadlineMode <- FALSE, FrameWait <- 0, StopOnCaptureFailure <- FALSE,
  StopOnSendFailure <- FALSE, Faults <- TRUE, Delays <- {0}, Sizes <- {1, 2},
  ReadLen <- 2, PipeSize <- 2, Hold <- 0, Ahead <- 1
\* An encoder per frame, at a cadence, with slow captures and sends.
PerFrame == INSTANCE EncodeSendLoop WITH
  Persistent <- FALSE, MaxFrames <- 3, MaxTicks <- 4, Interval <- 3,
  DeadlineMode <- TRUE, FrameWait <- 5, StopOnCaptureFailure <- TRUE,
  StopOnSendFailure <- TRUE, Faults <- TRUE, Delays <- {0, 1, 4},
  Sizes <- {1}, ReadLen <- 1, PipeSize <- 1, Hold <- 0, Ahead <- 1
\* The datagrams the frames are cut into, and the accepted client's request.
Cut == INSTANCE FragmentSend WITH
  Frames <- FramesToSend, Endpoint <- endpoint, IdLen <- NameLen,
  SafeMax <- 69, TargetChunk <- 4, DelayEvery <- 2, MaxFrames <- 3,
  Packets <- {}
FragmentsOf(f) == LET fs == Cut!fragment(f) IN { fs[j] : j \in DOMAIN fs }
DatagramsOfFrames ==
  { [type |-> "AuthRequest", source |-> endpoint, client |-> P1, run |-> R1, token |-> token],
    Cut!encode_handoff(FramesToSend[1]) }
  \cup UNION { FragmentsOf(FramesToSend[i]) : i \in 1 .. 3 }
Fragments == INSTANCE FragmentSend WITH
  Frames <- FramesToSend, Endpoint <- endpoint, IdLen <- NameLen,
  SafeMax <- 69, TargetChunk <- 4, DelayEvery <- 2, MaxFrames <- 3,
  Packets <- DatagramsOfFrames
Protocol == INSTANCE ProtocolCodec WITH
  StringLimit <- 2, Version <- 1, DamageBytes <- {0, 1, 2, 3, 8, 16, 200},
  Messages <- ProtocolMessages
Handoff == INSTANCE HandoffCodec WITH
  StringLimit <- 2, DamageBytes <- {0, 1, 2, 3, 7, 200},
  Messages <- HandoffMessages
\* Two launches of the executable, one of any command.
Launch == INSTANCE ClientLaunch WITH
  Clients <- {P1}, Runs <- {r1, r2}, Sources <- {s1, s2},
  Tokens <- {token, r1}, AllowedClients <- Allowed, SharedTokens <- Shared,
  Commands <- CommandsOf, Configs <- ConfigFiles, MaxFrames <- 1,
  SafeMax <- 1200
\* Completed heartbeat steps through the loop's boundaries.
Turn == INSTANCE HeartbeatTurn WITH
  Sleeps <- {1, 2}, MaxAttempts <- 2, Destinations <- {s1, s2},
  Reasons <- {"SocketReestablishmentRequested"},
  Slots <- {"none", "kept", "poisoned"}, MaxTurns <- 2, MaxSteps <- 2
\* One-shot captures out of a session's frame pool.
Shot == INSTANCE CaptureSession WITH
  Sizes <- {<<0, 9>>, <<30, 200>>, <<1280, 720>>}, EncoderSize <- <<>>,
  Labels <- {"", "p1", "p2", "other"}, Hooks <- {"windows", "unavailable"},
  MaxShots <- 2
\* Launches of the server that handle a fixed number of packets.
ServerLaunches == INSTANCE ServerLaunch WITH
  Clients <- {P1, P2}, Runs <- {r1, r2}, Sources <- {s1, s2},
  Tokens <- {token, r1}, AllowedClients <- Allowed, SharedTokens <- Shared,
  Commands <- ServerCommands, Files <- ServerFiles,
  Arrivals <- ServerArrivals, MaxIterations <- 3, QueueMax <- 64
\* Launches of a server and a client from files with one or two lines changed.
Config == INSTANCE StartupConfig WITH
  Launches <- FileLaunches, ClientIds <- <<"p1", "p2">>, Hosts <- {"host"},
  Env <- ("SET" :> "t2") @@ ("BLANK" :> " ") @@ ("ODD" :> "not unicode"),
  FrameLimits <- {0, 3, 90}, U16Max <- 65535, U32Max <- 2000000,
  U64Max <- 100

\* The state of a component that is not explored.
Off == "off"

Init ==
  \/ /\ running = "lossy client" /\ Lossy!Init
     /\ registry = Off /\ liveness = Off /\ notices = Off /\ loop = Off
     /\ tally = Off /\ own = Off /\ heard = Off /\ auths = Off
     /\ pictures = Off /\ rest = Off /\ buffer = Off /\ units = Off
     /\ cache = Off /\ payloads = Off /\ session = Off /\ phase = Off
     /\ attempts = Off /\ count = Off /\ wait = Off /\ unit = Off
     /\ sent = Off /\ encoder = Off /\ pipe = Off /\ granted = Off
     /\ queue = Off /\ retained = Off /\ reassembly = Off /\ next = Off
     /\ fragments = Off /\ progress = Off /\ reports = Off /\ wire = Off
     /\ accepted = Off /\ stored = Off /\ message = Off /\ packet = Off
     /\ damage = Off /\ result = Off /\ command = Off /\ config = Off
     /\ todo = Off /\ taken = Off /\ exit = Off /\ replies = Off
     /\ passed = Off /\ refused = Off /\ stage = Off /\ input = Off
     /\ tick = Off /\ flow = Off /\ turn = Off /\ applied = Off /\ slot = Off
     /\ turns = Off /\ steps = Off /\ cleanups = Off /\ target = Off
     /\ answer = Off /\ window = Off /\ pool = Off /\ shot = Off
     /\ marker = Off /\ child = Off /\ seen = Off /\ history = Off
     /\ file = Off /\ outbound = Off /\ outgoing = Off /\ results = Off
     /\ handoffs = Off /\ summary = Off /\ evaluated = Off /\ logged = Off
     /\ launch = Off /\ edited = Off /\ failure = Off /\ server = Off
     /\ sink = Off /\ request = Off /\ video = Off
  \/ /\ running = "backlogged client" /\ Backlog!Init
     /\ registry = Off /\ liveness = Off /\ notices = Off /\ loop = Off
     /\ tally = Off /\ own = Off /\ heard = Off /\ auths = Off
     /\ pictures = Off /\ rest = Off /\ buffer = Off /\ units = Off
     /\ cache = Off /\ payloads = Off /\ session = Off /\ phase = Off
     /\ attempts = Off /\ count = Off /\ wait = Off /\ unit = Off
     /\ sent = Off /\ encoder = Off /\ pipe = Off /\ granted = Off
     /\ queue = Off /\ retained = Off /\ reassembly = Off /\ next = Off
     /\ fragments = Off /\ progress = Off /\ reports = Off /\ wire = Off
     /\ accepted = Off /\ stored = Off /\ message = Off /\ packet = Off
     /\ damage = Off /\ result = Off /\ command = Off /\ config = Off
     /\ todo = Off /\ taken = Off /\ exit = Off /\ replies = Off
     /\ passed = Off /\ refused = Off /\ stage = Off /\ input = Off
     /\ tick = Off /\ flow = Off /\ turn = Off /\ applied = Off /\ slot = Off
     /\ turns = Off /\ steps = Off /\ cleanups = Off /\ target = Off
     /\ answer = Off /\ window = Off /\ pool = Off /\ shot = Off
     /\ marker = Off /\ child = Off /\ seen = Off /\ history = Off
     /\ file = Off /\ outbound = Off /\ outgoing = Off /\ results = Off
     /\ handoffs = Off /\ summary = Off /\ evaluated = Off /\ logged = Off
     /\ launch = Off /\ edited = Off /\ failure = Off /\ server = Off
     /\ sink = Off /\ request = Off /\ video = Off
  \/ /\ running = "sweep" /\ Sweep!Init
     /\ counters = Off /\ carry = Off /\ pc = Off /\ step = Off
     /\ runner = Off /\ cadence = Off /\ flight = Off /\ inbox = Off
     /\ acked = Off /\ streak = Off /\ pictures = Off /\ rest = Off
     /\ buffer = Off /\ units = Off /\ cache = Off /\ payloads = Off
     /\ session = Off /\ phase = Off /\ attempts = Off /\ count = Off
     /\ wait = Off /\ unit = Off /\ sent = Off /\ encoder = Off /\ pipe = Off
     /\ granted = Off /\ queue = Off /\ retained = Off /\ reassembly = Off
     /\ next = Off /\ fragments = Off /\ progress = Off /\ reports = Off
     /\ wire = Off /\ accepted = Off /\ stored = Off /\ message = Off
     /\ packet = Off /\ damage = Off /\ result = Off /\ command = Off
     /\ config = Off /\ todo = Off /\ taken = Off /\ exit = Off
     /\ replies = Off /\ passed = Off /\ refused = Off /\ stage = Off
     /\ input = Off /\ tick = Off /\ flow = Off /\ turn = Off
     /\ applied = Off /\ slot = Off /\ turns = Off /\ steps = Off
     /\ cleanups = Off /\ target = Off /\ answer = Off /\ window = Off
     /\ pool = Off /\ shot = Off /\ marker = Off /\ child = Off /\ seen = Off
     /\ history = Off /\ file = Off /\ outbound = Off /\ outgoing = Off
     /\ results = Off /\ handoffs = Off /\ summary = Off /\ evaluated = Off
     /\ logged = Off /\ launch = Off /\ edited = Off /\ failure = Off
     /\ server = Off /\ sink = Off /\ request = Off /\ video = Off
  \/ /\ running = "exports" /\ Exports!Init
     /\ counters = Off /\ carry = Off /\ pc = Off /\ step = Off
     /\ runner = Off /\ cadence = Off /\ flight = Off /\ inbox = Off
     /\ acked = Off /\ streak = Off /\ pictures = Off /\ rest = Off
     /\ buffer = Off /\ units = Off /\ cache = Off /\ payloads = Off
     /\ session = Off /\ phase = Off /\ attempts = Off /\ count = Off
     /\ wait = Off /\ unit = Off /\ sent = Off /\ encoder = Off /\ pipe = Off
     /\ granted = Off /\ queue = Off /\ retained = Off /\ reassembly = Off
     /\ next = Off /\ fragments = Off /\ progress = Off /\ reports = Off
     /\ wire = Off /\ accepted = Off /\ stored = Off /\ message = Off
     /\ packet = Off /\ damage = Off /\ result = Off /\ command = Off
     /\ config = Off /\ todo = Off /\ taken = Off /\ exit = Off
     /\ replies = Off /\ passed = Off /\ refused = Off /\ stage = Off
     /\ input = Off /\ tick = Off /\ flow = Off /\ turn = Off
     /\ applied = Off /\ slot = Off /\ turns = Off /\ steps = Off
     /\ cleanups = Off /\ target = Off /\ answer = Off /\ window = Off
     /\ pool = Off /\ shot = Off /\ marker = Off /\ child = Off /\ seen = Off
     /\ history = Off /\ file = Off /\ outbound = Off /\ outgoing = Off
     /\ results = Off /\ handoffs = Off /\ summary = Off /\ evaluated = Off
     /\ logged = Off /\ launch = Off /\ edited = Off /\ failure = Off
     /\ server = Off /\ sink = Off /\ request = Off /\ video = Off
  \/ /\ running = "reader" /\ Reader!Init
     /\ now = Off /\ counters = Off /\ carry = Off /\ stop = Off /\ pc = Off
     /\ step = Off /\ runner = Off /\ metrics = Off /\ cadence = Off
     /\ flight = Off /\ inbox = Off /\ acked = Off /\ streak = Off
     /\ registry = Off /\ liveness = Off /\ notices = Off /\ loop = Off
     /\ tally = Off /\ own = Off /\ heard = Off /\ auths = Off /\ phase = Off
     /\ attempts = Off /\ count = Off /\ wait = Off /\ unit = Off
     /\ sent = Off /\ encoder = Off /\ pipe = Off /\ granted = Off
     /\ queue = Off /\ retained = Off /\ reassembly = Off /\ next = Off
     /\ fragments = Off /\ progress = Off /\ reports = Off /\ wire = Off
     /\ accepted = Off /\ stored = Off /\ message = Off /\ packet = Off
     /\ damage = Off /\ result = Off /\ command = Off /\ config = Off
     /\ todo = Off /\ taken = Off /\ exit = Off /\ replies = Off
     /\ passed = Off /\ refused = Off /\ stage = Off /\ input = Off
     /\ tick = Off /\ flow = Off /\ turn = Off /\ applied = Off /\ slot = Off
     /\ turns = Off /\ steps = Off /\ cleanups = Off /\ target = Off
     /\ answer = Off /\ window = Off /\ pool = Off /\ shot = Off
     /\ marker = Off /\ child = Off /\ seen = Off /\ history = Off
     /\ file = Off /\ outbound = Off /\ outgoing = Off /\ results = Off
     /\ handoffs = Off /\ summary = Off /\ evaluated = Off /\ logged = Off
     /\ launch = Off /\ edited = Off /\ failure = Off /\ server = Off
     /\ sink = Off /\ request = Off /\ video = Off
  \/ /\ running = "persistent" /\ OneEncoder!Init
     /\ counters = Off /\ carry = Off /\ pc = Off /\ step = Off
     /\ runner = Off /\ metrics = Off /\ cadence = Off /\ flight = Off
     /\ inbox = Off /\ acked = Off /\ streak = Off /\ registry = Off
     /\ liveness = Off /\ notices = Off /\ loop = Off /\ tally = Off
     /\ own = Off /\ heard = Off /\ auths = Off /\ pictures = Off
     /\ rest = Off /\ units = Off /\ cache = Off /\ payloads = Off
     /\ granted = Off /\ queue = Off /\ retained = Off /\ reassembly = Off
     /\ next = Off /\ fragments = Off /\ progress = Off /\ reports = Off
     /\ wire = Off /\ accepted = Off /\ stored = Off /\ message = Off
     /\ packet = Off /\ damage = Off /\ result = Off /\ command = Off
     /\ config = Off /\ todo = Off /\ taken = Off /\ exit = Off
     /\ replies = Off /\ passed = Off /\ refused = Off /\ stage = Off
     /\ input = Off /\ tick = Off /\ flow = Off /\ turn = Off
     /\ applied = Off /\ slot = Off /\ turns = Off /\ steps = Off
     /\ cleanups = Off /\ target = Off /\ answer = Off /\ window = Off
     /\ pool = Off /\ shot = Off /\ marker = Off /\ child = Off /\ seen = Off
     /\ history = Off /\ file = Off /\ outbound = Off /\ outgoing = Off
     /\ results = Off /\ handoffs = Off /\ summary = Off /\ evaluated = Off
     /\ logged = Off /\ launch = Off /\ edited = Off /\ failure = Off
     /\ server = Off /\ sink = Off /\ request = Off /\ video = Off
  \/ /\ running = "cadence" /\ PerFrame!Init
     /\ counters = Off /\ carry = Off /\ pc = Off /\ step = Off
     /\ runner = Off /\ metrics = Off /\ cadence = Off /\ flight = Off
     /\ inbox = Off /\ acked = Off /\ streak = Off /\ registry = Off
     /\ liveness = Off /\ notices = Off /\ loop = Off /\ tally = Off
     /\ own = Off /\ heard = Off /\ auths = Off /\ pictures = Off
     /\ rest = Off /\ units = Off /\ cache = Off /\ payloads = Off
     /\ granted = Off /\ queue = Off /\ retained = Off /\ reassembly = Off
     /\ next = Off /\ fragments = Off /\ progress = Off /\ reports = Off
     /\ wire = Off /\ accepted = Off /\ stored = Off /\ message = Off
     /\ packet = Off /\ damage = Off /\ result = Off /\ command = Off
     /\ config = Off /\ todo = Off /\ taken = Off /\ exit = Off
     /\ replies = Off /\ passed = Off /\ refused = Off /\ stage = Off
     /\ input = Off /\ tick = Off /\ flow = Off /\ turn = Off
     /\ applied = Off /\ slot = Off /\ turns = Off /\ steps = Off
     /\ cleanups = Off /\ target = Off /\ answer = Off /\ window = Off
     /\ pool = Off /\ shot = Off /\ marker = Off /\ child = Off /\ seen = Off
     /\ history = Off /\ file = Off /\ outbound = Off /\ outgoing = Off
     /\ results = Off /\ handoffs = Off /\ summary = Off /\ evaluated = Off
     /\ logged = Off /\ launch = Off /\ edited = Off /\ failure = Off
     /\ server = Off /\ sink = Off /\ request = Off /\ video = Off
  \/ /\ running = "fragments" /\ Fragments!SendInit
     /\ now = Off /\ counters = Off /\ carry = Off /\ stop = Off /\ pc = Off
     /\ step = Off /\ runner = Off /\ metrics = Off /\ cadence = Off
     /\ flight = Off /\ inbox = Off /\ acked = Off /\ streak = Off
     /\ liveness = Off /\ notices = Off /\ loop = Off /\ tally = Off
     /\ own = Off /\ heard = Off /\ auths = Off /\ pictures = Off
     /\ rest = Off /\ buffer = Off /\ units = Off /\ cache = Off
     /\ payloads = Off /\ session = Off /\ phase = Off /\ attempts = Off
     /\ count = Off /\ wait = Off /\ unit = Off /\ sent = Off
     /\ encoder = Off /\ pipe = Off /\ message = Off /\ packet = Off
     /\ damage = Off /\ result = Off /\ command = Off /\ config = Off
     /\ todo = Off /\ taken = Off /\ exit = Off /\ replies = Off
     /\ passed = Off /\ refused = Off /\ stage = Off /\ input = Off
     /\ tick = Off /\ flow = Off /\ turn = Off /\ applied = Off /\ slot = Off
     /\ turns = Off /\ steps = Off /\ cleanups = Off /\ target = Off
     /\ answer = Off /\ window = Off /\ pool = Off /\ shot = Off
     /\ marker = Off /\ child = Off /\ seen = Off /\ history = Off
     /\ file = Off /\ outbound = Off /\ outgoing = Off /\ results = Off
     /\ handoffs = Off /\ summary = Off /\ evaluated = Off /\ logged = Off
     /\ launch = Off /\ edited = Off /\ failure = Off /\ server = Off
     /\ sink = Off /\ request = Off /\ video = Off
  \/ /\ running = "protocol" /\ Protocol!Init
     /\ now = Off /\ counters = Off /\ carry = Off /\ stop = Off /\ pc = Off
     /\ step = Off /\ runner = Off /\ metrics = Off /\ cadence = Off
     /\ flight = Off /\ inbox = Off /\ acked = Off /\ streak = Off
     /\ registry = Off /\ liveness = Off /\ notices = Off /\ loop = Off
     /\ tally = Off /\ own = Off /\ heard = Off /\ auths = Off
     /\ pictures = Off /\ rest = Off /\ buffer = Off /\ units = Off
     /\ cache = Off /\ payloads = Off /\ session = Off /\ phase = Off
     /\ attempts = Off /\ count = Off /\ wait = Off /\ unit = Off
     /\ sent = Off /\ encoder = Off /\ pipe = Off /\ granted = Off
     /\ queue = Off /\ retained = Off /\ reassembly = Off /\ next = Off
     /\ fragments = Off /\ progress = Off /\ reports = Off /\ wire = Off
     /\ accepted = Off /\ stored = Off /\ command = Off /\ config = Off
     /\ todo = Off /\ taken = Off /\ exit = Off /\ replies = Off
     /\ passed = Off /\ refused = Off /\ stage = Off /\ input = Off
     /\ tick = Off /\ flow = Off /\ turn = Off /\ applied = Off /\ slot = Off
     /\ turns = Off /\ steps = Off /\ cleanups = Off /\ target = Off
     /\ answer = Off /\ window = Off /\ pool = Off /\ shot = Off
     /\ marker = Off /\ child = Off /\ seen = Off /\ history = Off
     /\ file = Off /\ outbound = Off /\ outgoing = Off /\ results = Off
     /\ handoffs = Off /\ summary = Off /\ evaluated = Off /\ logged = Off
     /\ launch = Off /\ edited = Off /\ failure = Off /\ server = Off
     /\ sink = Off /\ request = Off /\ video = Off
  \/ /\ running = "handoff" /\ Handoff!Init
     /\ now = Off /\ counters = Off /\ carry = Off /\ stop = Off /\ pc = Off
     /\ step = Off /\ runner = Off /\ metrics = Off /\ cadence = Off
     /\ flight = Off /\ inbox = Off /\ acked = Off /\ streak = Off
     /\ registry = Off /\ liveness = Off /\ notices = Off /\ loop = Off
     /\ tally = Off /\ own = Off /\ heard = Off /\ auths = Off
     /\ pictures = Off /\ rest = Off /\ buffer = Off /\ units = Off
     /\ cache = Off /\ payloads = Off /\ session = Off /\ phase = Off
     /\ attempts = Off /\ count = Off /\ wait = Off /\ unit = Off
     /\ sent = Off /\ encoder = Off /\ pipe = Off /\ granted = Off
     /\ queue = Off /\ retained = Off /\ reassembly = Off /\ next = Off
     /\ fragments = Off /\ progress = Off /\ reports = Off /\ wire = Off
     /\ accepted = Off /\ stored = Off /\ command = Off /\ config = Off
     /\ todo = Off /\ taken = Off /\ exit = Off /\ replies = Off
     /\ passed = Off /\ refused = Off /\ stage = Off /\ input = Off
     /\ tick = Off /\ flow = Off /\ turn = Off /\ applied = Off /\ slot = Off
     /\ turns = Off /\ steps = Off /\ cleanups = Off /\ target = Off
     /\ answer = Off /\ window = Off /\ pool = Off /\ shot = Off
     /\ marker = Off /\ child = Off /\ seen = Off /\ history = Off
     /\ file = Off /\ outbound = Off /\ outgoing = Off /\ results = Off
     /\ handoffs = Off /\ summary = Off /\ evaluated = Off /\ logged = Off
     /\ launch = Off /\ edited = Off /\ failure = Off /\ server = Off
     /\ sink = Off /\ request = Off /\ video = Off
  \/ /\ running = "launches" /\ Launch!Init
     /\ now = Off /\ counters = Off /\ carry = Off /\ stop = Off /\ pc = Off
     /\ step = Off /\ runner = Off /\ metrics = Off /\ cadence = Off
     /\ flight = Off /\ inbox = Off /\ acked = Off /\ streak = Off
     /\ liveness = Off /\ notices = Off /\ loop = Off /\ tally = Off
     /\ own = Off /\ heard = Off /\ auths = Off /\ pictures = Off
     /\ rest = Off /\ buffer = Off /\ units = Off /\ cache = Off
     /\ payloads = Off /\ session = Off /\ phase = Off /\ attempts = Off
     /\ count = Off /\ wait = Off /\ unit = Off /\ sent = Off
     /\ encoder = Off /\ pipe = Off /\ queue = Off /\ retained = Off
     /\ reassembly = Off /\ next = Off /\ fragments = Off /\ progress = Off
     /\ reports = Off /\ accepted = Off /\ stored = Off /\ message = Off
     /\ packet = Off /\ damage = Off /\ result = Off /\ stage = Off
     /\ input = Off /\ tick = Off /\ flow = Off /\ turn = Off
     /\ applied = Off /\ slot = Off /\ turns = Off /\ steps = Off
     /\ cleanups = Off /\ target = Off /\ answer = Off /\ window = Off
     /\ pool = Off /\ shot = Off /\ marker = Off /\ child = Off /\ seen = Off
     /\ history = Off /\ file = Off /\ outbound = Off /\ outgoing = Off
     /\ results = Off /\ handoffs = Off /\ summary = Off /\ evaluated = Off
     /\ logged = Off /\ launch = Off /\ edited = Off /\ failure = Off
     /\ server = Off /\ sink = Off /\ request = Off /\ video = Off
  \/ /\ running = "turns" /\ Turn!Init
     /\ now = Off /\ counters = Off /\ carry = Off /\ stop = Off /\ pc = Off
     /\ step = Off /\ runner = Off /\ metrics = Off /\ cadence = Off
     /\ flight = Off /\ inbox = Off /\ acked = Off /\ streak = Off
     /\ registry = Off /\ liveness = Off /\ notices = Off /\ loop = Off
     /\ tally = Off /\ own = Off /\ heard = Off /\ auths = Off
     /\ pictures = Off /\ rest = Off /\ buffer = Off /\ units = Off
     /\ cache = Off /\ payloads = Off /\ session = Off /\ phase = Off
     /\ attempts = Off /\ count = Off /\ wait = Off /\ unit = Off
     /\ sent = Off /\ encoder = Off /\ pipe = Off /\ granted = Off
     /\ queue = Off /\ retained = Off /\ reassembly = Off /\ next = Off
     /\ fragments = Off /\ progress = Off /\ reports = Off /\ wire = Off
     /\ accepted = Off /\ stored = Off /\ message = Off /\ packet = Off
     /\ damage = Off /\ result = Off /\ command = Off /\ config = Off
     /\ todo = Off /\ taken = Off /\ exit = Off /\ replies = Off
     /\ passed = Off /\ refused = Off /\ target = Off /\ answer = Off
     /\ window = Off /\ pool = Off /\ shot = Off /\ marker = Off
     /\ child = Off /\ seen = Off /\ history = Off /\ file = Off
     /\ outbound = Off /\ outgoing = Off /\ results = Off /\ handoffs = Off
     /\ summary = Off /\ evaluated = Off /\ logged = Off /\ launch = Off
     /\ edited = Off /\ failure = Off /\ server = Off /\ sink = Off
     /\ request = Off /\ video = Off
  \/ /\ running = "shots" /\ Shot!Init
     /\ now = Off /\ counters = Off /\ carry = Off /\ stop = Off /\ pc = Off
     /\ step = Off /\ runner = Off /\ metrics = Off /\ cadence = Off
     /\ flight = Off /\ inbox = Off /\ acked = Off /\ streak = Off
     /\ registry = Off /\ liveness = Off /\ notices = Off /\ loop = Off
     /\ tally = Off /\ own = Off /\ heard = Off /\ auths = Off
     /\ pictures = Off /\ rest = Off /\ buffer = Off /\ units = Off
     /\ cache = Off /\ payloads = Off /\ attempts = Off /\ count = Off
     /\ wait = Off /\ unit = Off /\ sent = Off /\ encoder = Off /\ pipe = Off
     /\ granted = Off /\ queue = Off /\ retained = Off /\ reassembly = Off
     /\ next = Off /\ fragments = Off /\ progress = Off /\ reports = Off
     /\ wire = Off /\ accepted = Off /\ stored = Off /\ message = Off
     /\ packet = Off /\ damage = Off /\ result = Off /\ command = Off
     /\ config = Off /\ todo = Off /\ taken = Off /\ exit = Off
     /\ replies = Off /\ passed = Off /\ refused = Off /\ stage = Off
     /\ input = Off /\ tick = Off /\ flow = Off /\ turn = Off
     /\ applied = Off /\ slot = Off /\ turns = Off /\ steps = Off
     /\ cleanups = Off /\ file = Off /\ outbound = Off /\ outgoing = Off
     /\ results = Off /\ handoffs = Off /\ summary = Off /\ evaluated = Off
     /\ logged = Off /\ launch = Off /\ edited = Off /\ failure = Off
     /\ server = Off /\ sink = Off /\ request = Off /\ video = Off
  \/ /\ running = "server launches" /\ ServerLaunches!Init
     /\ now = Off /\ counters = Off /\ carry = Off /\ stop = Off
     /\ step = Off /\ runner = Off /\ metrics = Off /\ cadence = Off
     /\ flight = Off /\ inbox = Off /\ acked = Off /\ streak = Off
     /\ notices = Off /\ loop = Off /\ tally = Off /\ own = Off
     /\ heard = Off /\ auths = Off /\ pictures = Off /\ rest = Off
     /\ buffer = Off /\ units = Off /\ cache = Off /\ payloads = Off
     /\ session = Off /\ phase = Off /\ attempts = Off /\ count = Off
     /\ wait = Off /\ unit = Off /\ encoder = Off /\ pipe = Off
     /\ queue = Off /\ retained = Off /\ reassembly = Off /\ next = Off
     /\ fragments = Off /\ progress = Off /\ reports = Off /\ wire = Off
     /\ accepted = Off /\ stored = Off /\ message = Off /\ damage = Off
     /\ result = Off /\ config = Off /\ todo = Off /\ taken = Off
     /\ replies = Off /\ passed = Off /\ refused = Off /\ stage = Off
     /\ input = Off /\ tick = Off /\ flow = Off /\ turn = Off
     /\ applied = Off /\ slot = Off /\ turns = Off /\ steps = Off
     /\ cleanups = Off /\ target = Off /\ answer = Off /\ window = Off
     /\ pool = Off /\ shot = Off /\ marker = Off /\ child = Off /\ seen = Off
     /\ history = Off /\ launch = Off /\ edited = Off /\ failure = Off
     /\ server = Off /\ sink = Off /\ request = Off /\ video = Off
  \/ /\ running = "config files" /\ Config!Init
     /\ now = Off /\ counters = Off /\ carry = Off /\ stop = Off /\ pc = Off
     /\ step = Off /\ runner = Off /\ metrics = Off /\ cadence = Off
     /\ flight = Off /\ inbox = Off /\ acked = Off /\ streak = Off
     /\ registry = Off /\ liveness = Off /\ notices = Off /\ loop = Off
     /\ tally = Off /\ own = Off /\ heard = Off /\ auths = Off
     /\ pictures = Off /\ rest = Off /\ buffer = Off /\ units = Off
     /\ cache = Off /\ payloads = Off /\ session = Off /\ phase = Off
     /\ attempts = Off /\ count = Off /\ wait = Off /\ unit = Off
     /\ sent = Off /\ encoder = Off /\ pipe = Off /\ granted = Off
     /\ queue = Off /\ retained = Off /\ reassembly = Off /\ next = Off
     /\ fragments = Off /\ progress = Off /\ reports = Off /\ wire = Off
     /\ accepted = Off /\ stored = Off /\ message = Off /\ packet = Off
     /\ damage = Off /\ result = Off /\ command = Off /\ config = Off
     /\ todo = Off /\ taken = Off /\ exit = Off /\ replies = Off
     /\ passed = Off /\ refused = Off /\ input = Off /\ tick = Off
     /\ flow = Off /\ turn = Off /\ applied = Off /\ slot = Off
     /\ turns = Off /\ steps = Off /\ cleanups = Off /\ target = Off
     /\ window = Off /\ pool = Off /\ shot = Off /\ marker = Off
     /\ child = Off /\ seen = Off /\ history = Off /\ file = Off
     /\ outbound = Off /\ outgoing = Off /\ results = Off /\ handoffs = Off
     /\ summary = Off /\ evaluated = Off /\ logged = Off

Next ==
  \/ /\ running = "lossy client" /\ Lossy!Next
     /\ UNCHANGED <<running, registry, liveness, notices, loop, tally,
                     own, heard, auths, pictures, rest, buffer, units,
                     cache, payloads, session, phase, attempts, count,
                     wait, unit, sent, encoder, pipe, granted, queue,
                     retained, reassembly, next, fragments, progress,
                     reports, wire, accepted, stored, message, packet,
                     damage, result, command, config, todo, taken, exit,
                     replies, passed, refused, stage, input, tick, flow,
                     turn, applied, slot, turns, steps, cleanups,
                     target, answer, window, pool, shot, marker, child,
                     seen, history, file, outbound, outgoing, results,
                     handoffs, summary, evaluated, logged, launch,
                     edited, failure, server, sink, request, video>>
  \/ /\ running = "backlogged client" /\ Backlog!Next
     /\ UNCHANGED <<running, registry, liveness, notices, loop, tally,
                     own, heard, auths, pictures, rest, buffer, units,
                     cache, payloads, session, phase, attempts, count,
                     wait, unit, sent, encoder, pipe, granted, queue,
                     retained, reassembly, next, fragments, progress,
                     reports, wire, accepted, stored, message, packet,
                     damage, result, command, config, todo, taken, exit,
                     replies, passed, refused, stage, input, tick, flow,
                     turn, applied, slot, turns, steps, cleanups,
                     target, answer, window, pool, shot, marker, child,
                     seen, history, file, outbound, outgoing, results,
                     handoffs, summary, evaluated, logged, launch,
                     edited, failure, server, sink, request, video>>
  \/ /\ running = "sweep" /\ Sweep!Next
     /\ UNCHANGED <<running, counters, carry, pc, step, runner, cadence,
                     flight, inbox, acked, streak, pictures, rest,
                     buffer, units, cache, payloads, session, phase,
                     attempts, count, wait, unit, sent, encoder, pipe,
                     granted, queue, retained, reassembly, next,
                     fragments, progress, reports, wire, accepted,
                     stored, message, packet, damage, result, command,
                     config, todo, taken, exit, replies, passed,
                     refused, stage, input, tick, flow, turn, applied,
                     slot, turns, steps, cleanups, target, answer,
                     window, pool, shot, marker, child, seen, history,
                     file, outbound, outgoing, results, handoffs,
                     summary, evaluated, logged, launch, edited,
                     failure, server, sink, request, video>>
  \/ /\ running = "exports" /\ Exports!Next
     /\ UNCHANGED <<running, counters, carry, pc, step, runner, cadence,
                     flight, inbox, acked, streak, pictures, rest,
                     buffer, units, cache, payloads, session, phase,
                     attempts, count, wait, unit, sent, encoder, pipe,
                     granted, queue, retained, reassembly, next,
                     fragments, progress, reports, wire, accepted,
                     stored, message, packet, damage, result, command,
                     config, todo, taken, exit, replies, passed,
                     refused, stage, input, tick, flow, turn, applied,
                     slot, turns, steps, cleanups, target, answer,
                     window, pool, shot, marker, child, seen, history,
                     file, outbound, outgoing, results, handoffs,
                     summary, evaluated, logged, launch, edited,
                     failure, server, sink, request, video>>
  \/ /\ running = "reader" /\ Reader!Next
     /\ UNCHANGED <<running, now, counters, carry, stop, pc, step,
                     runner, metrics, cadence, flight, inbox, acked,
                     streak, registry, liveness, notices, loop, tally,
                     own, heard, auths, phase, attempts, count, wait,
                     unit, sent, encoder, pipe, granted, queue,
                     retained, reassembly, next, fragments, progress,
                     reports, wire, accepted, stored, message, packet,
                     damage, result, command, config, todo, taken, exit,
                     replies, passed, refused, stage, input, tick, flow,
                     turn, applied, slot, turns, steps, cleanups,
                     target, answer, window, pool, shot, marker, child,
                     seen, history, file, outbound, outgoing, results,
                     handoffs, summary, evaluated, logged, launch,
                     edited, failure, server, sink, request, video>>
  \/ /\ running = "persistent" /\ OneEncoder!Next
     /\ UNCHANGED <<running, counters, carry, pc, step, runner, metrics,
                     cadence, flight, inbox, acked, streak, registry,
                     liveness, notices, loop, tally, own, heard, auths,
                     pictures, rest, units, cache, payloads, granted,
                     queue, retained, reassembly, next, fragments,
                     progress, reports, wire, accepted, stored, message,
                     packet, damage, result, command, config, todo,
                     taken, exit, replies, passed, refused, stage,
                     input, tick, flow, turn, applied, slot, turns,
                     steps, cleanups, target, answer, window, pool,
                     shot, marker, child, seen, history, file, outbound,
                     outgoing, results, handoffs, summary, evaluated,
                     logged, launch, edited, failure, server, sink,
                     request, video>>
  \/ /\ running = "cadence" /\ PerFrame!Next
     /\ UNCHANGED <<running, counters, carry, pc, step, runner, metrics,
                     cadence, flight, inbox, acked, streak, registry,
                     liveness, notices, loop, tally, own, heard, auths,
                     pictures, rest, units, cache, payloads, granted,
                     queue, retained, reassembly, next, fragments,
                     progress, reports, wire, accepted, stored, message,
                     packet, damage, result, command, config, todo,
                     taken, exit, replies, passed, refused, stage,
                     input, tick, flow, turn, applied, slot, turns,
                     steps, cleanups, target, answer, window, pool,
                     shot, marker, child, seen, history, file, outbound,
                     outgoing, results, handoffs, summary, evaluated,
                     logged, launch, edited, failure, server, sink,
                     request, video>>
  \/ /\ running = "fragments" /\ Fragments!SendNext
     /\ UNCHANGED <<running, now, counters, carry, stop, pc, step,
                     runner, metrics, cadence, flight, inbox, acked,
                     streak, liveness, notices, loop, tally, own, heard,
                     auths, pictures, rest, buffer, units, cache,
                     payloads, session, phase, attempts, count, wait,
                     unit, sent, encoder, pipe, message, packet, damage,
                     result, command, config, todo, taken, exit,
                     replies, passed, refused, stage, input, tick, flow,
                     turn, applied, slot, turns, steps, cleanups,
                     target, answer, window, pool, shot, marker, child,
                     seen, history, file, outbound, outgoing, results,
                     handoffs, summary, evaluated, logged, launch,
                     edited, failure, server, sink, request, video>>
  \/ /\ running = "protocol" /\ Protocol!Next
     /\ UNCHANGED <<running, now, counters, carry, stop, pc, step,
                     runner, metrics, cadence, flight, inbox, acked,
                     streak, registry, liveness, notices, loop, tally,
                     own, heard, auths, pictures, rest, buffer, units,
                     cache, payloads, session, phase, attempts, count,
                     wait, unit, sent, encoder, pipe, granted, queue,
                     retained, reassembly, next, fragments, progress,
                     reports, wire, accepted, stored, command, config,
                     todo, taken, exit, replies, passed, refused, stage,
                     input, tick, flow, turn, applied, slot, turns,
                     steps, cleanups, target, answer, window, pool,
                     shot, marker, child, seen, history, file, outbound,
                     outgoing, results, handoffs, summary, evaluated,
                     logged, launch, edited, failure, server, sink,
                     request, video>>
  \/ /\ running = "handoff" /\ Handoff!Next
     /\ UNCHANGED <<running, now, counters, carry, stop, pc, step,
                     runner, metrics, cadence, flight, inbox, acked,
                     streak, registry, liveness, notices, loop, tally,
                     own, heard, auths, pictures, rest, buffer, units,
                     cache, payloads, session, phase, attempts, count,
                     wait, unit, sent, encoder, pipe, granted, queue,
                     retained, reassembly, next, fragments, progress,
                     reports, wire, accepted, stored, command, config,
                     todo, taken, exit, replies, passed, refused, stage,
                     input, tick, flow, turn, applied, slot, turns,
                     steps, cleanups, target, answer, window, pool,
                     shot, marker, child, seen, history, file, outbound,
                     outgoing, results, handoffs, summary, evaluated,
                     logged, launch, edited, failure, server, sink,
                     request, video>>
  \/ /\ running = "launches" /\ Launch!Next
     /\ UNCHANGED <<running, now, counters, carry, stop, pc, step,
                     runner, metrics, cadence, flight, inbox, acked,
                     streak, liveness, notices, loop, tally, own, heard,
                     auths, pictures, rest, buffer, units, cache,
                     payloads, session, phase, attempts, count, wait,
                     unit, sent, encoder, pipe, queue, retained,
                     reassembly, next, fragments, progress, reports,
                     accepted, stored, message, packet, damage, result,
                     stage, input, tick, flow, turn, applied, slot,
                     turns, steps, cleanups, target, answer, window,
                     pool, shot, marker, child, seen, history, file,
                     outbound, outgoing, results, handoffs, summary,
                     evaluated, logged, launch, edited, failure, server,
                     sink, request, video>>
  \/ /\ running = "turns" /\ Turn!Next
     /\ UNCHANGED <<running, now, counters, carry, stop, pc, step,
                     runner, metrics, cadence, flight, inbox, acked,
                     streak, registry, liveness, notices, loop, tally,
                     own, heard, auths, pictures, rest, buffer, units,
                     cache, payloads, session, phase, attempts, count,
                     wait, unit, sent, encoder, pipe, granted, queue,
                     retained, reassembly, next, fragments, progress,
                     reports, wire, accepted, stored, message, packet,
                     damage, result, command, config, todo, taken, exit,
                     replies, passed, refused, target, answer, window,
                     pool, shot, marker, child, seen, history, file,
                     outbound, outgoing, results, handoffs, summary,
                     evaluated, logged, launch, edited, failure, server,
                     sink, request, video>>
  \/ /\ running = "shots" /\ Shot!Next
     /\ UNCHANGED <<running, now, counters, carry, stop, pc, step,
                     runner, metrics, cadence, flight, inbox, acked,
                     streak, registry, liveness, notices, loop, tally,
                     own, heard, auths, pictures, rest, buffer, units,
                     cache, payloads, attempts, count, wait, unit, sent,
                     encoder, pipe, granted, queue, retained,
                     reassembly, next, fragments, progress, reports,
                     wire, accepted, stored, message, packet, damage,
                     result, command, config, todo, taken, exit,
                     replies, passed, refused, stage, input, tick, flow,
                     turn, applied, slot, turns, steps, cleanups, file,
                     outbound, outgoing, results, handoffs, summary,
                     evaluated, logged, launch, edited, failure, server,
                     sink, request, video>>
  \/ /\ running = "server launches" /\ ServerLaunches!Next
     /\ UNCHANGED <<running, now, counters, carry, stop, step, runner,
                     metrics, cadence, flight, inbox, acked, streak,
                     notices, loop, tally, own, heard, auths, pictures,
                     rest, buffer, units, cache, payloads, session,
                     phase, attempts, count, wait, unit, encoder, pipe,
                     queue, retained, reassembly, next, fragments,
                     progress, reports, wire, accepted, stored, message,
                     damage, result, config, todo, taken, replies,
                     passed, refused, stage, input, tick, flow, turn,
                     applied, slot, turns, steps, cleanups, target,
                     answer, window, pool, shot, marker, child, seen,
                     history, launch, edited, failure, server, sink,
                     request, video>>
  \/ /\ running = "config files" /\ Config!Next
     /\ UNCHANGED <<running, now, counters, carry, stop, pc, step,
                     runner, metrics, cadence, flight, inbox, acked,
                     streak, registry, liveness, notices, loop, tally,
                     own, heard, auths, pictures, rest, buffer, units,
                     cache, payloads, session, phase, attempts, count,
                     wait, unit, sent, encoder, pipe, granted, queue,
                     retained, reassembly, next, fragments, progress,
                     reports, wire, accepted, stored, message, packet,
                     damage, result, command, config, todo, taken, exit,
                     replies, passed, refused, input, tick, flow, turn,
                     applied, slot, turns, steps, cleanups, target,
                     window, pool, shot, marker, child, seen, history,
                     file, outbound, outgoing, results, handoffs,
                     summary, evaluated, logged>>

Spec == Init /\ [][Next]_allVars

ASSUME InstancesAssumption ==
  /\ Lossy!LoopAssumption /\ Backlog!LoopAssumption
  /\ Sweep!SweepAssumption /\ Exports!SweepAssumption
  /\ Reader!ReaderAssumption /\ Fragments!FragmentSendAssumption
  /\ OneEncoder!LoopAssumption /\ PerFrame!LoopAssumption
  /\ Protocol!CodecAssumption /\ Protocol!WireAssumption /\ Handoff!WireAssumption
  /\ Launch!LaunchAssumption /\ Turn!TurnAssumption
  /\ Shot!CaptureAssumption /\ ServerLaunches!ServerLaunchAssumption /\ Config!StartupAssumption


-----------------------------------------------------------------------------
\* What the client's loop counts, plans, retries and exports agrees with what
\* it did; when every answer comes once, each missed one is still to be read.  What
\* launches of the client take, send and report is their own.
ClientLoopInvariant ==
  /\ running = "lossy client" => Lossy!ClientLoopInvariant
  /\ running = "backlogged client" => Backlog!BacklogIsMissed
  /\ running = "launches" => Launch!LaunchInvariant
  /\ running = "turns" => Turn!TurnInvariant
  /\ running = "shots" => Shot!CaptureInvariant

\* The client's heartbeats are an interval apart whatever is retried, and on an
\* ordered link one late answer keeps it from counting any other again.
ClientLoopSteps ==
  [][/\ running = "lossy client" => Lossy!SendsSpacedByCadence
     /\ running = "backlogged client" => Backlog!LateAnswerDesynchronises]_allVars

\* What the server keeps of its clients, tells them and reports agrees, whatever
\* failed on the way.
SweepInvariant ==
  /\ running = "sweep" => Sweep!SweepInvariant
  /\ running = "exports" => Exports!SweepInvariant
  /\ running = "server launches" => ServerLaunches!ServerLaunchInvariant
  /\ running = "config files" => Config!ConfigInvariant

\* The server removes a registration only after its silence, tells the endpoint
\* it was heard from, and a failing log does not keep it.
SweepSteps == [][running = "sweep" => Sweep!SweepStep]_allVars

\* However the encoder's bytes are cut into reads, what comes out are its
\* pictures, each with the parameter sets in force.
ReaderInvariant == running = "reader" => Reader!ReaderInvariant

\* What a run of the client sends and reports is what its encoder gave it,
\* whatever fails.
EncodeLoopInvariant ==
  /\ running = "persistent" => OneEncoder!EncodeLoopInvariant
  /\ running = "cadence" => PerFrame!EncodeLoopInvariant

\* A slow tick is made up for at the next deadline, and no sleep outlasts the
\* wait for a frame.
CadenceSteps ==
  [][running = "cadence" => PerFrame!WaitNotOverslept /\ PerFrame!KeepsDeadlines]_allVars

\* Client and server agree on how a frame is cut and put together, whatever is
\* lost or fails between them.
FragmentSendInvariant == running = "fragments" => Fragments!FragmentSendInvariant

\* Encoders and decoders are inverse to each other and refuse damaged packets.
CodecsInvert ==
  /\ running = "protocol" => Protocol!CodecInvariant
  /\ running = "handoff" => Handoff!HandoffCodecInvariant
=============================================================================
