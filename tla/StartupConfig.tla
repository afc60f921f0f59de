---------------------------- MODULE StartupConfig ----------------------------
(***************************************************************************)
(* From two config files to an answered AuthRequest.                       *)
(*                                                                         *)
(* The server reads its file three times over, each time with a parser of  *)
(* its own: for its settings, for its clients and, when bounded, for its   *)
(* log.  The client reads its file for the request and, when it has        *)
(* pictures to send, once more for those; the file may have changed in     *)
(* between.  Then the server decides the client's request.                 *)
(*                                                                         *)
(* A file is a sequence of lines.  Of a line the parsers see whether it is *)
(* a section's name, an assignment or neither, and where a '#' cuts it.    *)
(***************************************************************************)
EXTENDS Integers, Sequences, FiniteSets, SequencesExt, TLC

CONSTANTS
  Launches,   \* the server's file, the client's, and what the latter is edited to
  ClientIds,  \* names of client sections, in alphabetical order
  Hosts,      \* hosts that resolve
  Env,        \* environment variable -> its value, "not unicode" for one that is not text
  FrameLimits,        \* --max-frames of the bounded command
  U16Max, U32Max, U64Max

StartupAssumption ==
  /\ U16Max \in Nat /\ U32Max \in Nat /\ U64Max \in Nat
  /\ U16Max =< U32Max
  /\ FrameLimits \subseteq 0..U64Max
  /\ IsInjective(ClientIds)

VARIABLES
  launch,   \* the files
  edited,   \* whether the client's file has been replaced
  stage,    \* what is read or done next
  failure,  \* why nothing more is done
  server,   \* what the server's file says
  sink,     \* where its iterations are logged
  request,  \* what the client asks with
  video,    \* what it sends pictures with
  answer    \* what the server makes of the request

vars == <<launch, edited, stage, failure, server, sink, request, video, answer>>

-----------------------------------------------------------------------------
(* Lines and values.                                                       *)

Empty == <<>>
Bind(map, k, v) == (k :> v) @@ map

NoError == [kind |-> "none", line |-> 0]
Error(kind, line) == [kind |-> kind, line |-> line]

\* A '#' ends the line, also one between quotes or in a section's name.
strip_toml_comment(l) ==
  CASE l.hash = "before" -> [l EXCEPT !.kind = "blank"]
    [] l.hash = "inside" /\ l.kind = "assign" ->
         [l EXCEPT !.value = [quoted |-> FALSE, text |-> "", number |-> -1]]
    [] l.hash = "inside" -> [l EXCEPT !.kind = "other"]
    [] OTHER -> l

\* trim().is_empty()
IsBlank(text) == text \in {"", " "}

parse_toml_string(v) == v.quoted
parse_unsigned(v, max) == ~v.quoted /\ v.number \in 0..max
parse_positive_u32(v) == parse_unsigned(v, U32Max) /\ v.number > 0
parse_bool(v) == ~v.quoted /\ v.text \in {"true", "false"}
parse_video_encoder_backend(v) == parse_toml_string(v) /\ v.text = "ffmpeg_libx264"

Fits(type, v) ==
  CASE type = "string" -> parse_toml_string(v)
    [] type = "u16" -> parse_unsigned(v, U16Max)
    [] type = "u32" -> parse_unsigned(v, U32Max)
    [] type = "positive" -> parse_positive_u32(v)
    [] type = "bool" -> parse_bool(v)
    [] type = "backend" -> parse_video_encoder_backend(v)

Misfit(type) ==
  CASE type \in {"string", "backend"} -> "InvalidTomlString"
    [] type = "bool" -> "InvalidBoolean"
    [] OTHER -> "InvalidNumber"

Meaning(type, v) == IF type \in {"string", "bool", "backend"} THEN v.text ELSE v.number

-----------------------------------------------------------------------------
(* The parsers that look for fields of their own.  `fields` maps section   *)
(* and key to a type.                                                      *)

SectionsOf(fields) == { f[1] : f \in DOMAIN fields }

Start == [at |-> 0, section |-> "", error |-> NoError, values |-> Empty]

\* Outside their sections these parsers accept anything, in them every line must be
\* an assignment; of several to one key the last one counts.
ReadLine(fields, st, raw) ==
  LET l == strip_toml_comment(raw)
      n == st.at + 1
      read == [st EXCEPT !.at = n]
      field == <<st.section, l.key>>
  IN  IF st.error # NoError THEN st
      ELSE IF l.kind = "blank" THEN read
      ELSE IF l.kind = "section"
      THEN [read EXCEPT !.section = IF l.section \in SectionsOf(fields) THEN l.section ELSE ""]
      ELSE IF st.section = "" THEN read
      ELSE IF l.kind = "other" THEN [read EXCEPT !.error = Error("InvalidTomlLine", n)]
      ELSE IF field \notin DOMAIN fields THEN read
      ELSE IF ~Fits(fields[field], l.value)
      THEN [read EXCEPT !.error = Error(Misfit(fields[field]), n)]
      ELSE [read EXCEPT !.values = Bind(@, field, Meaning(fields[field], l.value))]

ReadLines(fields, file) == FoldLeft(LAMBDA st, l : ReadLine(fields, st, l), Start, file)

\* The fields a file must have are missed in their order.
Require(read, fields) ==
  IF read.error # NoError THEN read.error
  ELSE IF \E i \in DOMAIN fields : fields[i] \notin DOMAIN read.values
  THEN Error("MissingField", 0)
  ELSE NoError

OrElse(values, field, default) == IF field \in DOMAIN values THEN values[field] ELSE default

-----------------------------------------------------------------------------
(* The server's file.                                                      *)

SettingsFields ==
  <<"server", "bind_host">> :> "string" @@ <<"server", "bind_port">> :> "u16" @@
  <<"session", "protocol_version">> :> "u32"

parse_server_poc_settings(file) ==
  LET read == ReadLines(SettingsFields, file)
  IN  [error |-> Require(read, <<<<"server", "bind_host">>, <<"server", "bind_port">>,
                                 <<"session", "protocol_version">>>>),
       values |-> read.values]

Log == "logging.receive_send_iteration"
SinkFields ==
  <<Log, "enabled">> :> "bool" @@ <<Log, "destination">> :> "string" @@
  <<Log, "file_path">> :> "string"

\* The error about a destination names the first line that assigns one, of any section.
find_toml_key_line(file, key) ==
  LET found == { i \in DOMAIN file : LET l == strip_toml_comment(file[i])
                                     IN  l.kind = "assign" /\ l.key = key }
  IN  IF found = {} THEN 0 ELSE CHOOSE i \in found : \A j \in found : i =< j

\* A log that is switched off never looks at its destination.
parse_sink_config(file) ==
  LET read == ReadLines(SinkFields, file)
      destination == OrElse(read.values, <<Log, "destination">>, "stderr")
  IN  IF read.error # NoError THEN [error |-> read.error, destination |-> "none"]
      ELSE IF OrElse(read.values, <<Log, "enabled">>, "true") = "false"
      THEN [error |-> NoError, destination |-> "disabled"]
      ELSE IF destination \notin {"stderr", "disabled", "file"}
      THEN [error |-> Error("InvalidValue", find_toml_key_line(file, "destination")),
            destination |-> "none"]
      ELSE IF destination = "file" /\ IsBlank(OrElse(read.values, <<Log, "file_path">>, ""))
      THEN [error |-> Error("MissingField", 0), destination |-> "none"]
      ELSE [error |-> NoError, destination |-> destination]

\* Names of the options a client's section sets, with the values they have.
NoSecret == [shared_token |-> {}, shared_token_env |-> {}]

AuthStart == [at |-> 0, saw |-> FALSE, current |-> {}, error |-> NoError, clients |-> Empty]

\* Unlike the other parsers this one wants assignments in every section.  A client's
\* section may be opened again, and then goes on.
ReadAuthLine(st, raw) ==
  LET l == strip_toml_comment(raw)
      n == st.at + 1
      read == [st EXCEPT !.at = n]
  IN  IF st.error # NoError THEN st
      ELSE IF l.kind = "blank" THEN read
      ELSE IF l.kind = "section" /\ l.section \in {"auth", "auth.clients"} /\ l.client = "none"
      THEN [read EXCEPT !.saw = TRUE, !.current = {}]
      ELSE IF l.kind = "section" /\ l.section = "auth.clients"
      THEN IF IsBlank(l.client)
           THEN [read EXCEPT !.saw = TRUE, !.error = Error("InvalidTomlLine", n)]
           ELSE [read EXCEPT !.saw = TRUE, !.current = {l.client},
                             !.clients = @ @@ (l.client :> NoSecret)]
      ELSE IF l.kind = "section" THEN [read EXCEPT !.current = {}]
      ELSE IF l.kind = "other" THEN [read EXCEPT !.error = Error("InvalidTomlLine", n)]
      ELSE IF st.current = {} \/ l.key \notin DOMAIN NoSecret THEN read
      ELSE IF ~parse_toml_string(l.value)
      THEN [read EXCEPT !.error = Error("InvalidTomlString", n)]
      ELSE [read EXCEPT !.clients[CHOOSE c \in st.current : TRUE][l.key] = {l.value.text}]

parse_auth_clients(file) ==
  LET read == FoldLeft(ReadAuthLine, AuthStart, file)
  IN  IF read.error = NoError /\ ~read.saw
      THEN [read EXCEPT !.error = Error("MissingAuthSection", 0)]
      ELSE read

\* What is wrong with one client's section.
SecretError(s) ==
  IF s.shared_token # {} /\ s.shared_token_env # {} THEN "ConflictingSharedTokenRefs"
  ELSE IF \A text \in s.shared_token \cup s.shared_token_env : IsBlank(text)
  THEN "MissingSharedToken"
  ELSE "none"

SecretRef(s) ==
  IF s.shared_token # {}
  THEN [kind |-> "inline", text |-> CHOOSE text \in s.shared_token : TRUE]
  ELSE [kind |-> "env", text |-> CHOOSE text \in s.shared_token_env : TRUE]

\* Clients are looked at in alphabetical order; a client's token goes by its own name.
load_auth_config(file) ==
  LET parsed == parse_auth_clients(file)
      named == SelectSeq(ClientIds, LAMBDA c : c \in DOMAIN parsed.clients)
      wrong == SelectSeq(named, LAMBDA c : SecretError(parsed.clients[c]) # "none")
      error == IF parsed.error # NoError THEN parsed.error
               ELSE IF named = <<>> THEN Error("NoAuthClients", 0)
               ELSE IF wrong # <<>> THEN Error(SecretError(parsed.clients[Head(wrong)]), 0)
               ELSE NoError
  IN  [error |-> error,
       allowed_clients |-> [c \in Range(named) |-> c],
       shared_tokens |-> IF error # NoError THEN Empty
                         ELSE [c \in Range(named) |-> SecretRef(parsed.clients[c])]]

\* Of a host only whether it resolves matters; every port does.
resolve_address(host) == host \in Hosts

-----------------------------------------------------------------------------
(* The client's file.                                                      *)

Encoder == "video.encoder"
EncoderStrings == {"ffmpeg_path", "preset", "tune", "pixel_format", "profile", "level"}
EncoderNumbers == {"width", "height", "fps", "bitrate_kbps", "gop_frames"}

ClientFields ==
  [f \in {<<"client", k>> : k \in {"client_id", "display_name", "server_host", "shared_token"}}
         \cup {<<"session", k>> : k \in {"run_id", "app_version"}}
         \cup {<<Encoder, k>> : k \in EncoderStrings} |-> "string"] @@
  <<"client", "server_port">> :> "u16" @@
  [f \in {<<"session", "protocol_version">>, <<"network", "heartbeat_interval_ms">>,
          <<"network", "connect_timeout_ms">>} |-> "u32"] @@
  <<Encoder, "backend">> :> "backend" @@
  [f \in {<<Encoder, k>> : k \in EncoderNumbers} |-> "positive"]

ClientRequired ==
  << <<"client", "client_id">>, <<"client", "server_host">>, <<"client", "server_port">>,
     <<"client", "shared_token">>, <<"session", "run_id">>, <<"session", "app_version">>,
     <<"session", "protocol_version">> >>

\* What the encoder is started with when the file says nothing.
DefaultFps == 30
EncoderConfig(values) ==
  [size |-> IF <<Encoder, "width">> \in DOMAIN values
            THEN <<values[<<Encoder, "width">>], values[<<Encoder, "height">>]>>
            ELSE <<>>,
   fps |-> OrElse(values, <<Encoder, "fps">>, DefaultFps),
   preset |-> OrElse(values, <<Encoder, "preset">>, "ultrafast")]

HalfASize(values) ==
  (<<Encoder, "width">> \in DOMAIN values) # (<<Encoder, "height">> \in DOMAIN values)

parse_client_poc_settings(file) ==
  LET read == ReadLines(ClientFields, file)
      values == read.values
      error == IF read.error # NoError THEN read.error
               ELSE IF HalfASize(values) THEN Error("MissingField", 0)
               ELSE Require(read, ClientRequired)
  IN  IF error # NoError THEN [error |-> error]
      ELSE [error |-> NoError,
            client |-> values[<<"client", "client_id">>],
            host |-> values[<<"client", "server_host">>],
            port |-> values[<<"client", "server_port">>],
            token |-> values[<<"client", "shared_token">>],
            run |-> values[<<"session", "run_id">>],
            version |-> values[<<"session", "protocol_version">>],
            heartbeat |-> OrElse(values, <<"network", "heartbeat_interval_ms">>, 1000),
            timeout |-> OrElse(values, <<"network", "connect_timeout_ms">>, 5000),
            encoder |-> EncoderConfig(values)]

\* Every launcher reads and resolves like this; its failure ends the launch.
load_client(file) ==
  LET settings == parse_client_poc_settings(file)
  IN  IF settings.error = NoError /\ ~resolve_address(settings.host)
      THEN [error |-> Error("InvalidDestination", 0)]
      ELSE settings

AuthRequestConfig(s) ==
  [host |-> s.host, port |-> s.port, client |-> s.client, run |-> s.run, version |-> s.version,
   token |-> s.token, timeout |-> s.timeout]

Saturate(n) == IF n > U64Max THEN U64Max ELSE n
MaxTicks(n) == LET ten == Saturate(10 * n) IN IF ten > n THEN ten ELSE n

\* What the one-picture commands and the heartbeat of one tick make of the settings.
PlaceholderConfig(s) ==
  [kind |-> "placeholder", host |-> s.host, port |-> s.port, client |-> s.client, run |-> s.run,
   version |-> s.version, size |-> <<1280, 720>>, fps |-> DefaultFps]

RealConfig(s) ==
  [kind |-> "real", host |-> s.host, port |-> s.port, client |-> s.client, run |-> s.run,
   version |-> s.version, size |-> s.encoder.size, fps |-> s.encoder.fps]

OneTickConfig(s) ==
  [kind |-> "one tick", host |-> s.host, port |-> s.port, client |-> s.client, run |-> s.run,
   version |-> s.version, interval |-> s.heartbeat * 1000, wait |-> s.timeout * 1000]

BoundedConfig(s, r, n) ==
  [kind |-> "bounded", host |-> s.host, port |-> s.port, client |-> s.client, run |-> s.run,
   version |-> s.version, size |-> s.encoder.size, fps |-> s.encoder.fps,
   max_frames |-> n, max_ticks |-> MaxTicks(n), wait |-> r.timeout * 1000,
   interval |-> 1000000 \div s.encoder.fps]

-----------------------------------------------------------------------------
(* The server's decision.                                                  *)

NoToken == [kind |-> "none", text |-> ""]

\* An environment variable is read anew for every request.
resolve_token(ref) ==
  IF ref.kind = "inline" THEN ref
  ELSE IF ref.text \notin DOMAIN Env \/ Env[ref.text] = "not unicode" \/ IsBlank(Env[ref.text])
  THEN NoToken
  ELSE [kind |-> "env", text |-> Env[ref.text]]

\* All tokens are resolved before the client is looked up: one that cannot be turns
\* every request into an internal error.
resolve_auth_input(config, client) ==
  IF \E c \in DOMAIN config.shared_tokens : resolve_token(config.shared_tokens[c]) = NoToken
  THEN "InternalError" ELSE "none"

Decide(config, client, text) ==
  IF client \notin DOMAIN config.allowed_clients THEN "UnknownClient"
  ELSE IF config.allowed_clients[client] \notin DOMAIN config.shared_tokens THEN "InternalError"
  ELSE IF text = resolve_token(config.shared_tokens[config.allowed_clients[client]]).text
  THEN "Ok" ELSE "InvalidToken"

decide_resolved(config, client, text) ==
  IF resolve_auth_input(config, client) # "none" THEN resolve_auth_input(config, client)
  ELSE Decide(config, client, text)

\* The decision without resolving: it takes inline tokens only.
decide_unresolved(config, client, text) ==
  IF client \in DOMAIN config.allowed_clients
     /\ config.shared_tokens[config.allowed_clients[client]].kind = "env"
  THEN "InternalError" ELSE Decide(config, client, text)

-----------------------------------------------------------------------------
(* The launches.                                                           *)

Init ==
  /\ launch \in Launches /\ edited = FALSE
  /\ stage = "settings" /\ failure = NoError
  /\ server = Empty /\ sink = "none" /\ request = Empty /\ video = Empty
  /\ answer = "none"

At(s) == stage = s /\ failure = NoError

\* Goes on unless there was an error.
Then(error, next) ==
  /\ failure' = error
  /\ stage' = IF error = NoError THEN next ELSE stage

ReadSettings ==
  /\ At("settings")
  /\ LET settings == parse_server_poc_settings(launch.server)
     IN  /\ Then(settings.error, "auth")
         /\ server' = settings.values
  /\ UNCHANGED <<launch, edited, sink, request, video, answer>>

ReadAuth ==
  /\ At("auth")
  /\ LET auth == load_auth_config(launch.server)
     IN  /\ Then(auth.error, "address")
         /\ server' = [values |-> server, allowed_clients |-> auth.allowed_clients,
                       shared_tokens |-> auth.shared_tokens]
  /\ UNCHANGED <<launch, edited, sink, request, video, answer>>

ResolveAddress ==
  /\ At("address")
  /\ Then(IF resolve_address(server.values[<<"server", "bind_host">>]) THEN NoError
          ELSE Error("InvalidBindAddress", 0), "sink")
  /\ UNCHANGED <<launch, edited, server, sink, request, video, answer>>

ReadSink ==
  /\ At("sink")
  /\ LET parsed == parse_sink_config(launch.server)
     IN  Then(parsed.error, "client") /\ sink' = parsed.destination
  /\ UNCHANGED <<launch, edited, server, request, video, answer>>

\* The client's first reading, for its request; the one-picture and one-tick commands
\* need no more.
ReadRequest ==
  /\ At("client")
  /\ \E settings \in {load_client(launch.client)} :
         IF settings.error # NoError
         THEN Then(settings.error, "client") /\ UNCHANGED <<request, video>>
         ELSE /\ request' = AuthRequestConfig(settings)
              /\ \/ /\ Then(NoError, "timeout")
                    /\ video' \in {PlaceholderConfig(settings), OneTickConfig(settings)}
                 \/ Then(NoError, "video") /\ UNCHANGED video
  /\ UNCHANGED <<launch, edited, server, sink, answer>>

\* Between its two readings the client's file is replaced.
Edit ==
  /\ At("video")
  /\ ~edited /\ launch.client # launch.edited
  /\ edited' = TRUE
  /\ UNCHANGED <<launch, stage, failure, server, sink, request, video, answer>>

ReadVideo ==
  /\ At("video")
  /\ \E settings \in {load_client(IF edited THEN launch.edited ELSE launch.client)} :
         IF settings.error # NoError
         THEN Then(settings.error, "video") /\ UNCHANGED video
         ELSE /\ Then(NoError, "timeout")
              /\ \/ video' = RealConfig(settings)
                 \/ \E n \in FrameLimits : video' = BoundedConfig(settings, request, n)
  /\ UNCHANGED <<launch, edited, server, sink, request, answer>>

\* The socket refuses a timeout of zero, before anything is sent.
SetReadTimeout ==
  /\ At("timeout")
  /\ Then(IF request.timeout = 0 THEN Error("SetReadTimeout", 0) ELSE NoError, "ask")
  /\ UNCHANGED <<launch, edited, server, sink, request, video, answer>>

\* A request of another protocol version does not decode, so nobody answers it.
Ask ==
  /\ At("ask")
  /\ stage' = "done"
  /\ answer' = IF request.version = server.values[<<"session", "protocol_version">>]
               THEN decide_resolved(server, request.client, request.token)
               ELSE "silence"
  /\ UNCHANGED <<launch, edited, failure, server, sink, request, video>>

Next ==
  \/ ReadSettings \/ ReadAuth \/ ResolveAddress \/ ReadSink
  \/ ReadRequest \/ Edit \/ ReadVideo \/ SetReadTimeout \/ Ask

Spec == Init /\ [][Next]_vars

-----------------------------------------------------------------------------
(* What the files mean, said without reading them line by line.            *)

Lines(file) == [i \in DOMAIN file |-> strip_toml_comment(file[i])]

\* The section header that line i stands under, an Option.
Header(ls, i) == LET above == { h \in 1..(i - 1) : ls[h].kind = "section" }
                 IN  IF above = {} THEN {} ELSE {Max(above)}

Under(ls, i, section) == \E h \in Header(ls, i) : ls[h].section = section

\* The lines a parser of `fields` cannot read, and those it reads a field from.
Unreadable(fields, ls) ==
  { i \in DOMAIN ls : \E s \in SectionsOf(fields) : Under(ls, i, s) /\
      \/ ls[i].kind = "other"
      \/ /\ ls[i].kind = "assign" /\ <<s, ls[i].key>> \in DOMAIN fields
         /\ ~Fits(fields[<<s, ls[i].key>>], ls[i].value) }

Assigning(ls, field) ==
  { i \in DOMAIN ls : ls[i].kind = "assign" /\ ls[i].key = field[2] /\ Under(ls, i, field[1]) }

\* The first unreadable line is the error; without one each field has the value of
\* the last line that assigns it.
MeansItsLines(fields, file) ==
  LET ls == Lines(file)
      read == ReadLines(fields, file)
      bad == Unreadable(fields, ls)
  IN  IF bad # {} THEN read.error # NoError /\ read.error.line = Min(bad)
      ELSE /\ read.error = NoError
           /\ DOMAIN read.values = { f \in DOMAIN fields : Assigning(ls, f) # {} }
           /\ \A f \in DOMAIN read.values :
                read.values[f] = Meaning(fields[f], ls[Max(Assigning(ls, f))].value)

\* The texts a client's sections assign to one of their options, the last one.
LastText(ls, c, key) ==
  LET at == { i \in DOMAIN ls : /\ ls[i].kind = "assign" /\ ls[i].key = key
                                /\ \E h \in Header(ls, i) : /\ ls[h].section = "auth.clients"
                                                            /\ ls[h].client = c }
  IN  IF at = {} THEN {} ELSE {ls[Max(at)].value.text}

-----------------------------------------------------------------------------
Before(s) == stage = s

ConfigTypeOK ==
  /\ edited \in BOOLEAN
  /\ stage \in {"settings", "auth", "address", "sink", "client", "video", "timeout", "ask", "done"}
  /\ failure.line \in Nat
  /\ sink \in {"none", "stderr", "disabled", "file"}
  /\ answer \in {"none", "Ok", "InvalidToken", "UnknownClient", "InternalError", "silence"}

\* Each parser's reading of a file is the file's meaning, whatever stands in sections it
\* does not know and in whatever order its own are written.
FilesAreRead ==
  /\ Before("settings") => /\ MeansItsLines(SettingsFields, launch.server)
                           /\ MeansItsLines(SinkFields, launch.server)
  /\ Before("client") => MeansItsLines(ClientFields, launch.client)

\* Behind a loaded server no line of its file was passed over as unreadable, and each
\* client named in it has one secret, the last one written, under its own name.
ClientsHaveOneSecret ==
  Before("address") =>
    LET ls == Lines(launch.server)
    IN  /\ \A i \in DOMAIN ls : ls[i].kind # "other"
        /\ DOMAIN server.allowed_clients =
             { ls[i].client : i \in { j \in DOMAIN ls : /\ ls[j].kind = "section"
                                                        /\ ls[j].section = "auth.clients"
                                                        /\ ls[j].client # "none" } }
        /\ \A c \in DOMAIN server.allowed_clients :
             /\ server.allowed_clients[c] \in DOMAIN server.shared_tokens
             /\ LET ref == server.shared_tokens[server.allowed_clients[c]]
                IN  /\ ~IsBlank(ref.text)
                    /\ LastText(ls, c, "shared_token") =
                         (IF ref.kind = "inline" THEN {ref.text} ELSE {})
                    /\ LastText(ls, c, "shared_token_env") =
                         (IF ref.kind = "env" THEN {ref.text} ELSE {})

Unreadables == { c \in DOMAIN server.shared_tokens :
                   resolve_token(server.shared_tokens[c]) = NoToken }

\* One client's missing environment variable turns everyone away, and nothing else is an
\* internal error; otherwise a client is let in exactly with the token its own section
\* has.  The decision that does not resolve agrees where it need not.
AnswersFollowTheFiles ==
  stage = "done" =>
    /\ answer = "InternalError" => Unreadables # {}
    /\ Unreadables # {} => answer \in {"InternalError", "silence"}
    /\ answer = "Ok" =>
         LastText(Lines(launch.server), request.client, "shared_token")
           \in {{}, {request.token}}
    /\ (answer \notin {"none", "silence", "InternalError"}
          /\ \A c \in DOMAIN server.shared_tokens : server.shared_tokens[c].kind = "inline") =>
         answer = decide_unresolved(server, request.client, request.token)

\* What the client runs with: a frame interval that exists, both sides of a size or none,
\* no more ticks than ten for a frame and no fewer than frames, and no timeout of zero
\* once it asks.  A file that is not edited is one client's in both readings.
PlansAreSound ==
  /\ stage \in {"ask", "done"} => request.timeout > 0
  /\ (video # Empty /\ video.kind \in {"real", "bounded"}) =>
       /\ video.fps > 0
       /\ video.size = <<>> \/ (Len(video.size) = 2 /\ video.size[1] > 0 /\ video.size[2] > 0)
  /\ (video # Empty /\ video.kind = "bounded") =>
       /\ video.max_frames =< video.max_ticks /\ video.max_ticks =< U64Max
       /\ video.interval * video.fps =< 1000000
       /\ video.wait = request.timeout * 1000
  /\ (video # Empty /\ ~edited) =>
       <<video.client, video.run, video.host, video.port, video.version>>
         = <<request.client, request.run, request.host, request.port, request.version>>

ConfigInvariant ==
  /\ ConfigTypeOK
  /\ FilesAreRead
  /\ ClientsHaveOneSecret
  /\ AnswersFollowTheFiles
  /\ PlansAreSound
=============================================================================
