---------------------------- MODULE ClientLaunch ----------------------------
(***************************************************************************)
(* Launches of the client executable against one server.                   *)
(*                                                                         *)
(* Every command is a plan of steps on one fresh socket: read the config,  *)
(* bind, ask for authentication, wait for one datagram, and so on; the     *)
(* first step that fails ends the process with exit code 1.  Launches run  *)
(* side by side, with configs that may name the same client, and what is   *)
(* on the wire may be lost, repeated and reordered.                        *)
(*                                                                         *)
(* A launch is named by its ephemeral port, which no other launch is given *)
(* while datagrams to it are under way.                                    *)
(***************************************************************************)
EXTENDS ServerAuth, TLC

CONSTANTS
  Commands,     \* launch -> the commands it may be given
  Configs,      \* client, run, token, length of the names
  MaxFrames,    \* max-frames of the bounded command
  SafeMax       \* safe_max_datagram_len

StartupConfig == [client : Clients, run : Runs, token : Tokens, ids : Nat]

LaunchAssumption ==
  /\ MaxFrames \in Nat /\ SafeMax \in Nat
  /\ Configs \subseteq StartupConfig

VARIABLES
  command,  \* launch -> its command
  config,   \* launch -> the file it reads
  todo,     \* launch -> steps still to take
  taken,    \* launch -> answers it has taken, in order
  exit,     \* launch -> how the process ended
  wire,     \* datagrams sent to the server
  replies,  \* datagrams sent by the server
  passed,   \* history: datagrams the server's gate accepted
  refused   \* history: datagrams it refused

launchVars == <<command, config, todo, taken, exit, wire, replies, passed, refused>>
vars == <<authVars, launchVars>>

-----------------------------------------------------------------------------
(* The plans.                                                              *)

Load == <<"config">>
Authenticate == <<"socket", "request", "accepted">>

AuthRequestPlan == Load \o <<"socket", "request", "answer">>
AuthHeartbeatPlan == Load \o Authenticate \o <<"heartbeat", "ack">>
AuthHeartbeatStatsPlan == Load \o Authenticate \o <<"heartbeat", "ack", "stats">>
PlaceholderPlan == Load \o <<"socket", "placeholder">>
AuthPlaceholderPlan == Load \o Authenticate \o <<"placeholder">>
CapturePlan == <<"session config", "session">>
RealPlan == Load \o <<"socket">> \o CapturePlan \o <<"capture">>

\* The file is read once for the request and once for the video.
AuthRealPlan == Load \o Load \o Authenticate \o CapturePlan \o <<"capture">>
BoundedPlan == <<"arguments">> \o Load \o Load \o Authenticate \o CapturePlan \o <<"run">>
OneTickPlan == Load \o Authenticate \o <<"heartbeat", "own ack">>
StatsOneTickPlan == OneTickPlan \o <<"stats">>

Plan(c) ==
  CASE c = "auth-request" -> AuthRequestPlan
    [] c = "auth-heartbeat" -> AuthHeartbeatPlan
    [] c = "auth-heartbeat-stats" -> AuthHeartbeatStatsPlan
    [] c = "placeholder" -> PlaceholderPlan
    [] c = "auth-placeholder" -> AuthPlaceholderPlan
    [] c = "real" -> RealPlan
    [] c = "auth-real" -> AuthRealPlan
    [] c = "auth-real-bounded" -> BoundedPlan
    [] c = "one-tick" -> OneTickPlan
    [] c = "stats-one-tick" -> StatsOneTickPlan

Running == [code |-> 255, stage |-> "running"]

\* The step that failed, or what was wrong with the answer.
FailureStages ==
  {"arguments", "config", "socket", "request", "accepted", "answer", "heartbeat", "ack",
   "own ack", "stats", "placeholder", "session config", "session", "capture",
   "UnexpectedResponseMessage", "AuthRejected", "RuntimeFailed"}

Outcome ==
  {Running, [code |-> 0, stage |-> "done"], [code |-> 101, stage |-> "placeholder"]}
  \cup [code : {1}, stage : FailureStages]

Init ==
  /\ AuthInit
  /\ command \in [Sources -> UNION { Commands[l] : l \in Sources }]
  /\ \A l \in Sources : command[l] \in Commands[l]
  /\ config \in [Sources -> Configs]
  /\ todo = [l \in Sources |-> Plan(command[l])]
  /\ taken = [l \in Sources |-> <<>>]
  /\ exit = [l \in Sources |-> Running]
  /\ wire = {} /\ replies = {} /\ passed = {} /\ refused = {}

-----------------------------------------------------------------------------
(* The steps.                                                              *)

At(l, step) == exit[l] = Running /\ todo[l] # <<>> /\ Head(todo[l]) = step

Advance(l) == todo' = [todo EXCEPT ![l] = Tail(@)] /\ UNCHANGED exit

\* The process ends here, whatever was still to do.
Quit(l, code, stage) ==
  /\ exit' = [exit EXCEPT ![l] = [code |-> code, stage |-> stage]]
  /\ todo' = [todo EXCEPT ![l] = <<>>]

Fail(l) == Quit(l, 1, Head(todo[l]))

From(l, type) ==
  [type |-> type, source |-> l, client |-> config[l].client, run |-> config[l].run]

Request(l) == From(l, "AuthRequest") @@ [token |-> config[l].token]

Send(p) == wire' = wire \cup {p}

\* A step that does not touch the network; either it succeeds or it ends the launch.
LocalStep(l) ==
  /\ \E s \in {"arguments", "config", "socket", "session config", "session"} : At(l, s)
  /\ Advance(l) \/ Fail(l)
  /\ UNCHANGED <<authVars, command, config, taken, wire, replies, passed, refused>>

\* A step that sends one datagram.
SendStep(l) ==
  /\ \/ /\ At(l, "request") /\ Send(Request(l)) /\ Advance(l)
     \/ /\ At(l, "heartbeat") /\ Send(From(l, "Heartbeat")) /\ Advance(l)
     \/ /\ At(l, "capture") /\ Send(From(l, "VideoFrame")) /\ Advance(l)
     \/ /\ At(l, "stats")
        /\ LET ack == taken[l][2]
           IN  Send([type |-> "ClientStats", source |-> l, client |-> ack.client,
                     run |-> ack.run, observed |-> ack.echoed])
        /\ Advance(l)
     \/ /\ \E s \in {"request", "heartbeat", "capture", "stats"} : At(l, s)
        /\ Fail(l) /\ UNCHANGED wire
  /\ UNCHANGED <<authVars, command, config, taken, replies, passed, refused>>

\* The placeholder's four bytes in one datagram, or in fragments when the names
\* are long; main takes the datagram for granted.
PlaceholderLen(l) == 16 + config[l].ids + 46 + 4
FragmentOverheadLen(l) == 16 + config[l].ids + 45

SendPlaceholder(l) ==
  /\ At(l, "placeholder")
  /\ \/ /\ PlaceholderLen(l) <= SafeMax
        /\ Send(From(l, "VideoFrame")) /\ Advance(l)
     \/ /\ PlaceholderLen(l) > SafeMax /\ FragmentOverheadLen(l) < SafeMax
        /\ Send(From(l, "VideoFrameFragment")) /\ Quit(l, 101, "placeholder")
     \/ Fail(l) /\ UNCHANGED wire
  /\ UNCHANGED <<authVars, command, config, taken, replies, passed, refused>>

\* The bounded run: some of its frames leave, and however it stopped it is done.
RunVideo(l) ==
  /\ At(l, "run")
  /\ \E n \in 0 .. MaxFrames :
       wire' = wire \cup { From(l, "VideoFrame") @@ [frame |-> i] : i \in 1 .. n }
  /\ Advance(l)
  /\ UNCHANGED <<authVars, command, config, taken, replies, passed, refused>>

-----------------------------------------------------------------------------
(* Waiting for one datagram.                                               *)

Waits(l) == \E s \in {"answer", "accepted", "ack", "own ack"} : At(l, s)

receive_auth_response(l, r) ==
  IF r.type # "AuthResponse" THEN Quit(l, 1, "UnexpectedResponseMessage")
  ELSE IF At(l, "accepted") /\ ~r.accepted THEN Quit(l, 1, "AuthRejected")
  ELSE Advance(l)

receive_heartbeat_ack(l, r) ==
  IF r.type # "HeartbeatAck" THEN Quit(l, 1, "UnexpectedResponseMessage") ELSE Advance(l)

\* Only the one-tick commands compare the acknowledgement with the heartbeat.
receive_own_ack(l, r) ==
  IF r.type # "HeartbeatAck" THEN Quit(l, 1, "UnexpectedResponseMessage")
  ELSE IF <<r.client, r.run, r.echoed>> # <<config[l].client, config[l].run, l>>
       THEN Quit(l, 1, "RuntimeFailed")
  ELSE Advance(l)

\* The datagram whose turn it is; the network may deliver it again.
TakeReply(l) ==
  /\ Waits(l)
  /\ \E r \in replies :
       /\ r.to = l
       /\ taken' = [taken EXCEPT ![l] = Append(@, r)]
       /\ CASE At(l, "ack") -> receive_heartbeat_ack(l, r)
            [] At(l, "own ack") -> receive_own_ack(l, r)
            [] OTHER -> receive_auth_response(l, r)
  /\ UNCHANGED <<authVars, command, config, wire, replies, passed, refused>>

TimesOut(l) ==
  /\ Waits(l) /\ Fail(l)
  /\ UNCHANGED <<authVars, command, config, taken, wire, replies, passed, refused>>

\* Main's match on the outcome: success, printed.
Exit(l) ==
  /\ exit[l] = Running /\ todo[l] = <<>>
  /\ Quit(l, 0, "done")
  /\ UNCHANGED <<authVars, command, config, taken, wire, replies, passed, refused>>

-----------------------------------------------------------------------------
(* The server, which may get a datagram late and more than once.           *)

ServerAuthenticates ==
  \E p \in wire :
    /\ HandleAuthRequest(p)
    /\ replies' = replies \cup
         {[type |-> "AuthResponse", to |-> p.source, client |-> p.client, run |-> p.run,
           accepted |-> decide_resolved(p.client, p.token) = "Ok"]}
    /\ UNCHANGED <<command, config, todo, taken, exit, wire, passed, refused>>

ServerReceives ==
  \E p \in wire :
    /\ p.type # "AuthRequest"
    /\ IF evaluate_client_packet(p) = "Accepted"
       THEN /\ passed' = passed \cup {p} /\ UNCHANGED refused
            /\ replies' = IF p.type = "Heartbeat"
                          THEN replies \cup {[type |-> "HeartbeatAck", to |-> p.source,
                                 client |-> p.client, run |-> p.run, echoed |-> p.source]}
                          ELSE replies
       ELSE refused' = refused \cup {p} /\ UNCHANGED <<passed, replies>>
    /\ UNCHANGED <<authVars, command, config, todo, taken, exit, wire>>

Launches ==
  \E l \in Sources :
    \/ LocalStep(l) \/ SendStep(l) \/ SendPlaceholder(l) \/ RunVideo(l)
    \/ TakeReply(l) \/ TimesOut(l) \/ Exit(l)

Next == Launches \/ ServerAuthenticates \/ ServerReceives

Spec == Init /\ [][Next]_vars

-----------------------------------------------------------------------------
(* Properties.                                                             *)

SendsFrames == {"placeholder", "auth-placeholder", "real", "auth-real"}
Unauthenticated == {"placeholder", "real"}

LaunchTypeOK ==
  /\ AuthTypeOK
  /\ \A l \in Sources :
       /\ exit[l] \in Outcome
       /\ \E n \in 0 .. Len(Plan(command[l])) :
            todo[l] = SubSeq(Plan(command[l]), n + 1, Len(Plan(command[l])))
       /\ \A i \in DOMAIN taken[l] : taken[l][i] \in replies

\* The receives check neither sender nor identity: what keeps the answers of
\* launches with the same names apart is that every launch binds a port of its
\* own (receive_protocol_message, ephemeral_bind_address).
AnswersAreOurs ==
  \A l \in Sources : \A i \in DOMAIN taken[l] :
    /\ taken[l][i].client = config[l].client /\ taken[l][i].run = config[l].run
    /\ taken[l][i].type = "HeartbeatAck" => From(l, "Heartbeat") \in passed

\* What the server lets pass was sent by a launch it had accepted itself, under
\* the names that launch authenticated; a launch without authentication never
\* gets anything through (run_once of the placeholder and real commands).
PassedWasAuthenticated ==
  \A p \in passed :
    /\ command[p.source] \notin Unauthenticated
    /\ Request(p.source) \in granted
    /\ p.client = config[p.source].client /\ p.run = config[p.source].run

\* An authenticated launch sends nothing the server refuses, unless another
\* launch of the same client was accepted as well and took the name over.
OnlySuccessorShutsOut ==
  \A p \in refused :
    command[p.source] \notin Unauthenticated =>
      \E m \in Sources \ {p.source} :
        config[m].client = p.client /\ Request(m) \in granted

\* A rejected launch has sent its request and nothing else.
RejectedSendsNothingMore ==
  \A l \in Sources : exit[l].stage = "AuthRejected" =>
    { p \in wire : p.source = l } = {Request(l)}

\* Exit code 0 is true: who had to be authenticated was, who sent a frame sent
\* it, who waited for an acknowledgement was heard; and the panic on a frame in
\* fragments comes after they left (main).
ExitTellsTheTruth ==
  \A l \in Sources :
    LET sent == { p.type : p \in { q \in wire : q.source = l } }
    IN  /\ exit[l].code = 0 /\ command[l] \notin Unauthenticated \cup {"auth-request"}
           => Request(l) \in granted
        /\ exit[l].code = 0 /\ command[l] \in SendsFrames => "VideoFrame" \in sent
        /\ exit[l].code = 0 /\ "Heartbeat" \in sent => From(l, "Heartbeat") \in passed
        /\ exit[l].code = 101 => "VideoFrameFragment" \in sent

\* The stats of a launch report its own heartbeat under its own names, though
\* they are filled from whatever acknowledgement came (build_client_stats_carrier).
StatsReportOwnHeartbeat ==
  \A p \in wire : p.type = "ClientStats" =>
    /\ p.observed = p.source /\ From(p.source, "Heartbeat") \in passed
    /\ p.client = config[p.source].client /\ p.run = config[p.source].run

\* Launches, the answers they take and what the server makes of them agree.
LaunchInvariant ==
  /\ LaunchTypeOK /\ AnswersAreOurs /\ PassedWasAuthenticated /\ OnlySuccessorShutsOut
  /\ RejectedSendsNothingMore /\ ExitTellsTheTruth /\ StatsReportOwnHeartbeat
=============================================================================
