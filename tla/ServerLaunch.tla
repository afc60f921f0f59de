---------------------------- MODULE ServerLaunch ----------------------------
(***************************************************************************)
(* The server commands that handle a fixed number of packets: one answer   *)
(* to one AuthRequest (poc), one, two or three receive/send iterations,    *)
(* and the bounded runtime with its summary.                               *)
(*                                                                         *)
(* An iteration receives a packet, logs what the gate said of it, handles  *)
(* it, sends at most one answer and logs the sending.  Each of these may   *)
(* fail, and what was done before it stays done.                           *)
(***************************************************************************)
EXTENDS ServerAuth, Sequences, FiniteSets

CONSTANTS
  Commands,       \* a subset of "poc", "once", "twice", "three", "bounded"
  Files,          \* config files, by what their sections hold
  Arrivals,       \* command -> the packets that may arrive
  MaxIterations,  \* of the bounded runtime
  QueueMax        \* items the outbound queue admits

Launchers == {"poc", "once", "twice", "three", "bounded"}

\* What a file has: every required server setting, a readable auth section, an
\* address that resolves, and the section about the iteration event log.
ConfigFile == [settings : BOOLEAN, auth : BOOLEAN, address : BOOLEAN,
               enabled : BOOLEAN, destination : {"stderr", "disabled", "file", "other"},
               file_path : {"absent", "blank", "named"}]

ServerLaunchAssumption ==
  /\ Commands \subseteq Launchers
  /\ Files \subseteq ConfigFile
  /\ MaxIterations \in Nat /\ QueueMax \in Nat \ {0}

VARIABLES
  command,   \* how the process was started
  file,      \* its config file
  pc,        \* the next thing it does
  packet,    \* what the last receive returned
  outbound,  \* ServerOutboundQueueCollection
  outgoing,  \* the item taken out for sending, if any
  results,   \* iterations that completed
  handoffs,  \* client and run -> its last heartbeat
  summary,   \* counters of the bounded runtime
  liveness,  \* clients whose heartbeat the launcher committed
  evaluated, \* clients whose offset it evaluated
  sent,      \* history: the answers that left
  logged,    \* history: the lines written
  exit       \* how the process ended

serverVars == <<command, file, pc, packet, outbound, outgoing, results, handoffs, summary,
                liveness, evaluated, sent, logged, exit>>
vars == <<authVars, serverVars>>

-----------------------------------------------------------------------------
(* The config file.                                                        *)

parse_server_poc_settings(f) == f.settings

\* The server settings first, then the auth config, then the address.
load_startup_config(f) ==
  IF ~parse_server_poc_settings(f) THEN "Config"
  ELSE IF ~f.auth THEN "AuthConfig"
  ELSE IF ~f.address THEN "InvalidBindAddress"
  ELSE "Ok"

\* A log that is switched off never looks at its destination.
parse_sink_config(f) ==
  IF ~f.enabled THEN "disabled"
  ELSE IF f.destination = "other" THEN "InvalidValue"
  ELSE IF f.destination = "file" /\ f.file_path # "named" THEN "MissingField"
  ELSE f.destination

\* Files are planned for and not supported yet.
select_sink(f) ==
  IF parse_sink_config(f) \in {"stderr", "disabled"} THEN "Ok"
  ELSE IF parse_sink_config(f) = "file" THEN "IterationEventSinkSelection"
  ELSE "IterationEventSinkConfig"

-----------------------------------------------------------------------------
Iterations ==
  CASE command = "bounded" -> MaxIterations
    [] command = "three" -> 3
    [] command = "twice" -> 2
    [] OTHER -> 1

StopReasons == {"MaxIterationsReached", "ReceiveTimedOut", "SocketReceiveFailed"}

Counters == {"attempted", "completed", "auths", "answers", "heartbeats", "acks", "stats",
             "returns", "accepted", "rejected", "decode", "sendFailures", "timeouts", "queued",
             "clients", "lines", "lost"}

Summary0 ==
  [attempted |-> 0, completed |-> 0, auths |-> 0, answers |-> 0, heartbeats |-> 0,
   acks |-> 0, stats |-> 0, returns |-> 0, accepted |-> 0, rejected |-> 0, decode |-> 0,
   sendFailures |-> 0, timeouts |-> 0, timeoutOnly |-> FALSE, queued |-> 0, clients |-> 0,
   lines |-> 0, lost |-> 0, stop |-> "MaxIterationsReached"]

\* What can be wrong with one packet and with one iteration.
OnceErrors == {"Receive", "Rejected", "UnexpectedRoute", "Send"}
IterationErrors == {"ReceiveBody", "OutputApply", "SendLog", "Send"}

\* What can be wrong with a launch.
StartupErrors == {"StartupConfig", "Bind"} \cup IterationErrors
ThreeErrors == StartupErrors \cup {"MissingHeartbeatHandoff", "MissingClientStats", "ObservationReturn"}
BoundedErrors ==
  StartupErrors \cup {"SetReceiveTimeout", "IterationEventSinkConfig", "IterationEventSinkSelection"}

ErrorsOf(c) ==
  CASE c = "poc" -> {"StartupConfig", "Bind"} \cup OnceErrors
    [] c = "three" -> ThreeErrors
    [] c = "bounded" -> BoundedErrors
    [] OTHER -> StartupErrors

NotEnded == [code |-> 255, stage |-> "running"]

Init ==
  /\ AuthInit
  /\ command \in Commands /\ file \in Files
  /\ pc = "load"
  /\ packet = [type |-> "none"]
  /\ outbound = <<>> /\ outgoing = <<>>
  /\ results = <<>> /\ handoffs = EmptyMap
  /\ summary = Summary0
  /\ liveness = {} /\ evaluated = {}
  /\ sent = <<>> /\ logged = <<>>
  /\ exit = NotEnded

Quit(code, stage) ==
  /\ exit' = [code |-> code, stage |-> stage]
  /\ pc' = "done"

Load ==
  /\ pc = "load"
  /\ IF load_startup_config(file) # "Ok"
     THEN Quit(1, "StartupConfig")
     ELSE IF command = "bounded" /\ select_sink(file) # "Ok"
     THEN Quit(1, select_sink(file))
     ELSE pc' = "bind" /\ UNCHANGED exit
  /\ UNCHANGED <<authVars, command, file, packet, outbound, outgoing, results, handoffs,
                 summary, liveness, evaluated, sent, logged>>

More(done) == done < Iterations

\* Only the bounded runtime keeps a summary.
Kept(s) == summary' = IF command = "bounded" THEN s ELSE summary

\* An iteration is counted as attempted before it runs.
Attempt(s, done) == [s EXCEPT !.attempted = @ + IF More(done) THEN 1 ELSE 0]

\* Binding the socket and, for the bounded runtime, giving it a timeout.
Bind ==
  /\ pc = "bind"
  /\ \/ /\ pc' = IF More(0) THEN "receive" ELSE "finish"
        /\ Kept(Attempt(summary, 0))
        /\ UNCHANGED exit
     \/ Quit(1, "Bind") /\ UNCHANGED summary
     \/ command = "bounded" /\ Quit(1, "SetReceiveTimeout") /\ UNCHANGED summary
  /\ UNCHANGED <<authVars, command, file, packet, outbound, outgoing, results, handoffs,
                 liveness, evaluated, sent, logged>>

-----------------------------------------------------------------------------
(* One packet on its way in.                                               *)

Failures == {"TimedOut", "ReceiveFailed"}

\* Without a timeout the receive waits; an error of it is an outcome of the
\* iteration, only the one-answer command ends on it.
Receive ==
  /\ pc = "receive"
  /\ \/ /\ packet' \in Arrivals[command]
        /\ pc' = IF command = "poc" THEN "poc" ELSE "logs"
        /\ UNCHANGED exit
     \/ /\ packet' = [type |-> "TimedOut"] /\ command = "bounded"
        /\ pc' = "handle" /\ UNCHANGED exit
     \/ /\ packet' = [type |-> "ReceiveFailed"]
        /\ IF command = "poc" THEN Quit(1, "Receive") ELSE pc' = "handle" /\ UNCHANGED exit
  /\ UNCHANGED <<authVars, command, file, outbound, outgoing, results, handoffs, summary,
                 liveness, evaluated, sent, logged>>

Registered == {"Heartbeat", "VideoFrame", "VideoFrameFragment", "ClientStats"}

\* What does not decode is refused, what the server does not handle is let
\* through like an AuthRequest, and the rest must come from a registered sender.
gate(p) ==
  IF p.type = "undecodable" THEN "DecodeError"
  ELSE IF p.type \in Registered THEN evaluate_client_packet(p)
  ELSE "Accepted"

rejected(p) == p.type \notin Failures /\ gate(p) # "Accepted"

\* What the gate's verdict requires: a line about the packet, a second one for
\* a refused packet, a handler for the others; nothing for a failed receive.
lifecycle(p) ==
  [operational_log |-> p.type \notin Failures,
   rejection_log |-> rejected(p),
   handler_handoff |-> p.type \notin Failures /\ ~rejected(p)]

receive_loop_event(p) ==
  [event |-> "server.receive_loop",
   outcome |-> IF ~rejected(p) THEN "Accepted"
               ELSE IF gate(p) = "DecodeError" THEN "DecodeRejected" ELSE "AcceptanceRejected",
   of |-> IF gate(p) = "DecodeError" THEN "none" ELSE p.type]

rejection_event(p) == [event |-> "server.receive_rejection", outcome |-> gate(p),
                       of |-> IF gate(p) = "DecodeError" THEN "none" ELSE p.type]

\* The lines of a packet, in order.
lines(p) ==
  (IF lifecycle(p).operational_log THEN <<receive_loop_event(p)>> ELSE <<>>)
  \o (IF lifecycle(p).rejection_log THEN <<rejection_event(p)>> ELSE <<>>)

\* An iteration that failed: the summary says how far it got.
RuntimeError(kind, entries) ==
  /\ Kept([summary EXCEPT !.sendFailures = @ + IF kind = "Send" THEN 1 ELSE 0,
                          !.queued = Len(outbound'), !.clients = Cardinality(entries)])
  /\ Quit(1, kind)

\* A line that cannot be written ends the iteration; the ones before it are out.
WriteLogs ==
  /\ pc = "logs"
  /\ UNCHANGED outbound
  /\ \/ /\ logged' = logged \o lines(packet)
        /\ pc' = "handle" /\ UNCHANGED <<summary, exit>>
     \/ \E n \in 0 .. (Len(lines(packet)) - 1) :
          /\ logged' = logged \o SubSeq(lines(packet), 1, n)
          /\ RuntimeError("ReceiveBody", DOMAIN registry)
  /\ UNCHANGED <<authVars, command, file, packet, outgoing, results, handoffs, liveness,
                 evaluated, sent>>

-----------------------------------------------------------------------------
(* Handling.                                                               *)

\* Which kind of handler a packet is handed to.
handler_handoff(p) ==
  IF ~lifecycle(p).handler_handoff THEN "NotRequired"
  ELSE IF p.type = "AuthRequest" THEN "Auth"
  ELSE IF p.type \in Registered THEN "RegisteredClient"
  ELSE "Unsupported"

\* What the handler makes of it: fragments find no owner in these commands.
dispatch(p) ==
  IF handler_handoff(p) # "RegisteredClient" THEN handler_handoff(p)
  ELSE CASE p.type = "Heartbeat" -> "HeartbeatAck"
         [] p.type = "VideoFrameFragment" -> "UnappliedRegistered"
         [] OTHER -> p.type

accepted(p) == decide_resolved(p.client, p.token) = "Ok"

\* Registration is the only effect on the server's own state.
apply_side_effect(p) ==
  IF dispatch(p) = "Auth" THEN HandleAuthRequest(p) ELSE UNCHANGED authVars

auth_event(p) == [event |-> "server.auth_result", outcome |-> decide_resolved(p.client, p.token),
                  of |-> p.type]

answer(p, kind, ok) ==
  [type |-> kind, to |-> p.source, client |-> p.client, run |-> p.run, ok |-> ok]

\* A refused AuthRequest gets no answer here; heartbeats are stored as they come.
outputs(p) ==
  CASE dispatch(p) = "Auth" /\ accepted(p) -> <<answer(p, "AuthResponse", TRUE)>>
    [] dispatch(p) = "HeartbeatAck" -> <<answer(p, "HeartbeatAck", TRUE)>>
    [] OTHER -> <<>>

push(queue, items) == IF Len(queue) < QueueMax THEN queue \o items ELSE queue

\* Registration first, then the auth log, then the answer is queued.
Handle ==
  /\ pc = "handle"
  /\ apply_side_effect(packet)
  /\ \/ /\ logged' = IF dispatch(packet) = "Auth" THEN Append(logged, auth_event(packet))
                     ELSE logged
        /\ outbound' = push(outbound, outputs(packet))
        /\ pc' = "send" /\ UNCHANGED <<summary, exit>>
     \/ /\ dispatch(packet) = "Auth"
        /\ UNCHANGED <<outbound, logged>>
        /\ RuntimeError("OutputApply", DOMAIN registry')
  /\ UNCHANGED <<command, file, packet, outgoing, results, handoffs, liveness, evaluated, sent>>

MayLog(e) == logged' \in {logged, Append(logged, e)}

\* One packet, one answer whatever the decision; the process logs afterwards
\* and does not mind a line it cannot write.
AnswerOnce ==
  /\ pc = "poc"
  /\ IF rejected(packet)
     THEN Quit(1, "Rejected") /\ MayLog(rejection_event(packet)) /\ UNCHANGED <<authVars, sent>>
     ELSE IF packet.type # "AuthRequest"
     THEN Quit(1, "UnexpectedRoute") /\ UNCHANGED <<authVars, sent, logged>>
     ELSE /\ HandleAuthRequest(packet)
          /\ \/ /\ sent' = Append(sent, answer(packet, "AuthResponse", accepted(packet)))
                /\ Quit(0, "done") /\ MayLog(auth_event(packet))
             \/ Quit(1, "Send") /\ UNCHANGED <<sent, logged>>
  /\ UNCHANGED <<command, file, packet, outbound, outgoing, results, handoffs, summary,
                 liveness, evaluated>>

-----------------------------------------------------------------------------
(* Sending one answer.                                                     *)

Send ==
  /\ pc = "send" /\ outbound # <<>>
  /\ outgoing' = <<Head(outbound)>> /\ outbound' = Tail(outbound)
  /\ \/ sent' = Append(sent, Head(outbound)) /\ pc' = "sent"
     \/ UNCHANGED sent /\ pc' = "not sent"
  /\ UNCHANGED <<authVars, command, file, packet, results, handoffs, summary, logged, liveness,
                 evaluated, exit>>

send_event(item, outcome) == [event |-> "server.send", outcome |-> outcome, of |-> item.type]

\* A send that failed ends the iteration once it is logged; a line that
\* cannot be written hides it.
LogFailedSend ==
  /\ pc = "not sent"
  /\ UNCHANGED outbound
  /\ \/ /\ logged' = Append(logged, send_event(outgoing[1], "Failure"))
        /\ RuntimeError("Send", DOMAIN registry)
     \/ UNCHANGED logged /\ RuntimeError("SendLog", DOMAIN registry)
  /\ UNCHANGED <<authVars, command, file, packet, outgoing, results, handoffs, liveness,
                 evaluated, sent>>

\* The answer has left; without its line the iteration fails all the same.
LogSend ==
  /\ pc = "sent"
  /\ UNCHANGED outbound
  /\ \/ /\ logged' = Append(logged, send_event(outgoing[1], "Success"))
        /\ pc' = "end" /\ UNCHANGED <<summary, exit>>
     \/ UNCHANGED logged /\ RuntimeError("SendLog", DOMAIN registry)
  /\ UNCHANGED <<authVars, command, file, packet, outgoing, results, handoffs, liveness,
                 evaluated, sent>>

-----------------------------------------------------------------------------
(* After an iteration.                                                     *)

\* An observation is good for the heartbeat whose answer it echoes.
calculate(plan, stats) ==
  /\ stats.observed # <<>>
  /\ LET o == stats.observed[1]
     IN  /\ plan.client = stats.client /\ plan.run = stats.run
         /\ o.sent = plan.sent /\ o.at = plan.at
         /\ o.inOrder

\* The heartbeat as the handoff keeps it, stamped by the server.
beat(p, at) == [client |-> p.client, run |-> p.run, sent |-> p.sent, at |-> at]

keep_handoff(p, at) ==
  IF dispatch(p) = "HeartbeatAck"
  THEN MapInsert(handoffs, <<p.client, p.run>>, beat(p, at))
  ELSE handoffs

returned(p) ==
  /\ dispatch(p) = "ClientStats"
  /\ <<p.client, p.run>> \in DOMAIN handoffs
  /\ calculate(handoffs[<<p.client, p.run>>], p)

One(b) == IF b THEN 1 ELSE 0

\* A failed receive is counted and nothing else of its iteration is.
observe_iteration(s, p, out) ==
  IF p.type \in Failures
  THEN [s EXCEPT !.timeouts = @ + One(p.type = "TimedOut"),
                 !.stop = IF p.type = "TimedOut" THEN "ReceiveTimedOut" ELSE "SocketReceiveFailed"]
  ELSE [s EXCEPT !.accepted = @ + One(~rejected(p)),
                 !.rejected = @ + One(rejected(p)),
                 !.decode = @ + One(gate(p) = "DecodeError"),
                 !.auths = @ + One(dispatch(p) = "Auth"),
                 !.heartbeats = @ + One(dispatch(p) = "HeartbeatAck"),
                 !.stats = @ + One(dispatch(p) = "ClientStats"),
                 !.returns = @ + One(returned(p)),
                 !.answers = @ + One(out # <<>> /\ out[1].type = "AuthResponse"),
                 !.acks = @ + One(out # <<>> /\ out[1].type = "HeartbeatAck")]

\* The line about the iteration.
iteration_event(p, out) ==
  [event |-> "server.receive_send_iteration",
   outcome |-> IF p.type \in Failures THEN p.type
               ELSE IF rejected(p) THEN "RejectedPacket" ELSE "AcceptedPacket",
   of |-> IF out = <<>> THEN "NotSent" ELSE out[1].type]

\* A writer that fails costs only the line; a disabled log writes into nothing.
write_iteration_event(s, p, out) ==
  \/ /\ Kept([s EXCEPT !.lines = @ + 1])
     /\ logged' = IF command = "bounded" /\ parse_sink_config(file) = "stderr"
                  THEN Append(logged, iteration_event(p, out)) ELSE logged
  \/ /\ command = "bounded" /\ parse_sink_config(file) = "stderr"
     /\ Kept([s EXCEPT !.lost = @ + 1])
     /\ UNCHANGED logged

Complete ==
  /\ \/ pc = "send" /\ outbound = <<>>
     \/ pc = "end"
  /\ LET done == Len(results) + 1
         stop == command = "bounded" /\ packet.type \in Failures
     IN  /\ results' = Append(results, [packet |-> packet, kind |-> dispatch(packet)])
         /\ handoffs' = keep_handoff(packet, done)
         /\ LET seen == observe_iteration([summary EXCEPT !.completed = @ + 1], packet, outgoing)
            IN  write_iteration_event(IF stop THEN seen ELSE Attempt(seen, done), packet, outgoing)
         /\ pc' = IF ~stop /\ More(done) THEN "receive" ELSE "finish"
  /\ packet' = [type |-> "none"] /\ outgoing' = <<>>
  /\ UNCHANGED <<authVars, command, file, outbound, liveness, evaluated, sent, exit>>

-----------------------------------------------------------------------------
(* The end of a launch.                                                    *)

\* A run in which nothing but the timeout happened.
timeout_only(s) ==
  /\ s.stop = "ReceiveTimedOut"
  /\ s.accepted = 0 /\ s.rejected = 0 /\ s.auths = 0 /\ s.heartbeats = 0 /\ s.stats = 0

Kind(n) == results[n].kind
BeatOf(n) == beat(results[n].packet, n)

FinishBounded ==
  /\ command = "bounded"
  /\ Kept([summary EXCEPT !.queued = Len(outbound), !.clients = Cardinality(DOMAIN registry),
                          !.timeoutOnly = timeout_only(summary)])
  /\ Quit(0, "done")
  /\ UNCHANGED <<liveness, evaluated>>

\* The second packet's heartbeat is committed when it is one.
FinishTwice ==
  /\ command = "twice"
  /\ liveness' = IF Kind(2) = "HeartbeatAck" THEN {BeatOf(2).client} ELSE liveness
  /\ Quit(0, "done")
  /\ UNCHANGED <<evaluated, summary>>

\* Nothing is looked at before the third packet was handled; the heartbeat is
\* committed before the stats are found missing.
FinishThree ==
  /\ command = "three"
  /\ IF Kind(2) # "HeartbeatAck"
     THEN Quit(1, "MissingHeartbeatHandoff") /\ UNCHANGED <<liveness, evaluated>>
     ELSE /\ liveness' = {BeatOf(2).client}
          /\ IF Kind(3) # "ClientStats"
             THEN Quit(1, "MissingClientStats") /\ UNCHANGED evaluated
             ELSE IF ~calculate(BeatOf(2), results[3].packet)
             THEN Quit(1, "ObservationReturn") /\ UNCHANGED evaluated
             ELSE Quit(0, "done") /\ evaluated' = {BeatOf(2).client}
  /\ UNCHANGED summary

FinishOnce ==
  /\ command = "once"
  /\ Quit(0, "done")
  /\ UNCHANGED <<summary, liveness, evaluated>>

Finish ==
  /\ pc = "finish"
  /\ FinishBounded \/ FinishTwice \/ FinishThree \/ FinishOnce
  /\ UNCHANGED <<authVars, command, file, packet, outbound, outgoing, results, handoffs, sent, logged>>

Next ==
  \/ Load \/ Bind \/ Receive \/ WriteLogs \/ Handle \/ AnswerOnce
  \/ Send \/ LogFailedSend \/ LogSend \/ Complete \/ Finish

Spec == Init /\ [][Next]_vars

-----------------------------------------------------------------------------
(* What a launch must not get wrong.                                       *)

\* The current packet past the point where it may have been registered.
InHand ==
  IF packet.type = "AuthRequest"
     /\ (pc \in {"send", "sent", "not sent", "end"} \/ exit.stage \in {"OutputApply", "SendLog", "Send", "done"})
  THEN <<packet>> ELSE <<>>

Granted(ps) == { i \in DOMAIN ps : ps[i].type = "AuthRequest" /\ accepted(ps[i]) }

\* A sender is registered by the last AuthRequest of its client that was
\* granted and whose logs about the gate were written, and by nothing else,
\* whatever failed afterwards.
RegistryIsWhatWasGranted ==
  LET ps == [i \in DOMAIN results |-> results[i].packet] \o InHand
      last(c) == { i \in Granted(ps) : ps[i].client = c
                                       /\ \A j \in Granted(ps) : ps[j].client = c => j <= i }
  IN  /\ DOMAIN registry = { ps[i].client : i \in Granted(ps) }
      /\ \A c \in DOMAIN registry : \A i \in last(c) :
           registry[c] = [source |-> ps[i].source, run |-> ps[i].run]

\* A heartbeat is answered where, and for the run, the client was last told
\* that it is authenticated.
AcksFollowTheLastAnswer ==
  \A j \in DOMAIN sent : sent[j].type = "HeartbeatAck" =>
    \E i \in 1 .. (j - 1) :
      /\ sent[i] = [sent[j] EXCEPT !.type = "AuthResponse"]
      /\ \A k \in (i + 1) .. (j - 1) :
           sent[k].type = "AuthResponse" => sent[k].client # sent[j].client

\* The stats of iteration i echo the answer to the heartbeat of iteration j.
Echoes(i, j) ==
  /\ Kind(j) = "HeartbeatAck" /\ results[i].packet.observed # <<>>
  /\ results[i].packet.observed[1] = [sent |-> results[j].packet.sent, at |-> j, inOrder |-> TRUE]
  /\ results[i].packet.client = results[j].packet.client
  /\ results[i].packet.run = results[j].packet.run

\* The stats that echo the last heartbeat of their client and run before them.
GoodReturns ==
  { i \in DOMAIN results :
      /\ Kind(i) = "ClientStats"
      /\ \E j \in 1 .. (i - 1) :
           /\ Echoes(i, j)
           /\ \A k \in (j + 1) .. (i - 1) :
                Kind(k) = "HeartbeatAck" =>
                  <<BeatOf(k).client, BeatOf(k).run>> # <<BeatOf(j).client, BeatOf(j).run>> }

\* The bounded summary adds up: every attempt is a packet, a failed receive or
\* the iteration that failed; every answer that left is counted unless its line
\* was lost; a returned observation matches the last heartbeat.
BoundedSummaryAddsUp ==
  command = "bounded" =>
    /\ summary.completed = Len(results)
    /\ summary.completed =
         summary.accepted + summary.rejected + One(summary.stop # "MaxIterationsReached")
    /\ summary.attempted - summary.completed
         = One(pc \in {"receive", "logs", "handle", "send", "sent", "not sent", "end"}
               \/ exit.stage \in {"ReceiveBody", "OutputApply", "Send", "SendLog"})
    /\ Len(sent) - (summary.answers + summary.acks)
         \in IF exit.stage = "SendLog" THEN {0, 1} ELSE {One(pc \in {"sent", "end"})}
    /\ summary.returns = Cardinality(GoodReturns)
    /\ exit # NotEnded /\ summary.attempted > 0 =>
         summary.queued = 0 /\ summary.clients = Cardinality(DOMAIN registry)
    /\ summary.timeoutOnly => sent = <<>> /\ registry = EmptyMap

Lines(event, outcomes) ==
  Cardinality({ i \in DOMAIN logged : logged[i].event = event /\ logged[i].outcome \in outcomes })

\* The lines tell what happened: one about every packet that was handled, one
\* about every grant but the one whose line failed, one about every answer that
\* left but the last.
LinesTellWhatHappened ==
  /\ command # "poc" =>
       /\ \A c \in DOMAIN registry :
            exit.stage = "OutputApply" \/ Lines("server.auth_result", {"Ok"}) > 0
       /\ Len(sent) - Lines("server.send", {"Success"})
            \in IF exit.stage = "SendLog" THEN {0, 1} ELSE {One(pc = "sent")}
       /\ Len(sent) <= Lines("server.receive_loop", {"Accepted"})
  /\ \A i \in DOMAIN logged : logged[i].event = "server.receive_rejection" =>
       command = "poc" \/ (i > 1 /\ logged[i - 1].event = "server.receive_loop")
  /\ command = "bounded" =>
       /\ Lines("server.receive_loop", {"Accepted"}) - summary.accepted \in {0, 1}
       /\ Lines("server.receive_rejection", {"DecodeError"}) - summary.decode \in {0, 1}
       /\ summary.lines + summary.lost = summary.completed
       /\ parse_sink_config(file) = "stderr" =>
            summary.lines = Lines("server.receive_send_iteration",
                                  {"AcceptedPacket", "RejectedPacket"} \cup Failures)

\* Three packets succeed only as one session: a grant, a heartbeat of the
\* granted client and run, and stats that echo it.
ThreeAreOneSession ==
  command = "three" /\ exit.code = 0 =>
    /\ Kind(1) = "Auth" /\ accepted(results[1].packet)
    /\ results[1].packet.client = BeatOf(2).client /\ results[1].packet.run = BeatOf(2).run
    /\ Kind(3) = "ClientStats" /\ Echoes(3, 2)
    /\ evaluated = {BeatOf(2).client} /\ liveness = evaluated
    /\ Len(sent) = 2

\* The one-answer command succeeds only when the answer left, and the answer
\* says whether the sender is registered.
OnceAnswered ==
  command = "poc" /\ exit.code = 0 =>
    Len(sent) = 1 /\ (sent[1].ok <=> registry # EmptyMap)

ServerLaunchTypeOK ==
  /\ AuthTypeOK
  /\ command \in Commands /\ file \in Files
  /\ exit \in {NotEnded, [code |-> 0, stage |-> "done"]} \cup [code : {1}, stage : ErrorsOf(command)]
  /\ DOMAIN summary = Counters \cup {"timeoutOnly", "stop"}
  /\ \A c \in Counters : summary[c] \in Nat
  /\ summary.stop \in StopReasons
  /\ liveness \subseteq DOMAIN registry /\ evaluated \subseteq liveness

\* Nothing waits in the queue while the server waits for a packet.
ServerLaunchInvariant ==
  /\ ServerLaunchTypeOK
  /\ pc = "receive" => outbound = <<>> /\ outgoing = <<>>
  /\ RegistryIsWhatWasGranted
  /\ AcksFollowTheLastAnswer
  /\ BoundedSummaryAddsUp
  /\ LinesTellWhatHappened
  /\ ThreeAreOneSession
  /\ OnceAnswered

===========================================================================
